-------------------------------- MODULE Jh --------------------------------
(***************************************************************************)
(* Buffer, length and padding of JH (src/hash/monero/jh.c).  jh_hash is    *)
(* Init, one Update and Final; with MaxUpdates > 1 the model calls Update  *)
(* again, as the branches of Update for a partly filled buffer expect.     *)
(* Update takes a step per block.                                          *)
(* E8, the permutation inside the compression F8, is data.                 *)
(***************************************************************************)
EXTENDS HashBytes

CONSTANTS
    BLOCK,        \* bytes of a block (64)
    LenBytes,     \* bytes of the length at the end (8)
    ByteBase,     \* the values of a byte in the length
    Rems,         \* bits in the last byte of a message
    MaxUpdates,   \* bound: calls of Update
    MaxBits       \* bound: length of the message in bits

\* What the instances have to satisfy; the module that makes them assumes it.
JhAssumption ==
    /\ LenBytes \in Nat /\ BLOCK \in Nat /\ BLOCK > LenBytes
    /\ ByteBase \in Nat /\ ByteBase > 1
    /\ Rems \subseteq 0..7 /\ 0 \in Rems
    /\ MaxUpdates \in Nat

VARIABLES
    state,     \* x (the compressed blocks), buffer, databitlen, datasize_in_buffer
    phase,     \* "open", "update" while Update runs, after Final "done"
    call,      \* data, index and databitlen in Update
    updates    \* calls of Update so far

vars == <<state, phase, call, updates>>

BlockBits == 8 * BLOCK

F8(s) == [s EXCEPT !.x = Append(@, s.buffer)]

\* memcpy of n bytes from data + index: what lies behind the data is read,
\* too, and what is written behind the buffer is lost: it is not part of the state.
Copy(s, at, data, index, n) ==
    [s EXCEPT !.buffer = Overlay(@, at, [i \in 1..n |->
        IF index + i <= Len(data) THEN data[index + i] ELSE Junk])]

\* There is data in the buffer, but the incoming data is insufficient.
Gather(s, data, bits) ==
    LET at == s.datasize_in_buffer \div 8
    IN  [Copy(s, at, data, 0, IF bits % 8 = 0 THEN BLOCK - at ELSE BLOCK - at + 1)
         EXCEPT !.datasize_in_buffer = @ + bits]

\* Mutated form of Complete: the completed block does not empty the buffer.
Complete_keepsSize(s, data) ==
    F8(Copy(s, s.datasize_in_buffer \div 8, data, 0, BLOCK - s.datasize_in_buffer \div 8))

\* There is data in the buffer, and the incoming data completes it.
Complete(s, data) ==
    LET at == s.datasize_in_buffer \div 8
    IN  [F8(Copy(s, at, data, 0, BLOCK - at)) EXCEPT !.datasize_in_buffer = 0]

LengthBlock(s, first) ==
    [s EXCEPT !.buffer = first \o Zeros(BLOCK - LenBytes - Len(first))
                         \o BigEndian(s.databitlen, LenBytes, ByteBase)]

\* The or of 1 << (7 - databitlen % 8) into a byte whose other bits are zero.
SetBit(byte, r) ==
    CASE byte = Num(0) /\ r = 0 -> End(0, 0)
      [] byte[1] = "cut" /\ r = byte[3] -> End(byte[2], r)
      [] OTHER -> Junk

\* Zeros behind the message in the buffer and the one bit.
PadBuffer(s) ==
    LET at == (s.databitlen % BlockBits) \div 8
        from == IF s.datasize_in_buffer % 8 = 0 THEN at ELSE at + 1
        zeroed == Overlay(s.buffer, from, Zeros(BLOCK - from))
    IN  [s EXCEPT !.buffer = [zeroed EXCEPT ![at + 1] = SetBit(@, s.databitlen % 8)]]

-----------------------------------------------------------------------------
Init ==
    /\ state = [x |-> <<>>, buffer |-> [i \in 1..BLOCK |-> Junk],
                databitlen |-> 0, datasize_in_buffer |-> 0]
    /\ phase = "open" /\ updates = 0
    /\ call = [data |-> <<>>, index |-> 0, databitlen |-> 0]

\* Update up to its loop.
Update(bits) ==
    LET data == Data(state.databitlen \div 8, bits)
        held == state.datasize_in_buffer
        counted == [state EXCEPT !.databitlen = @ + bits]
        left(index, n) == call' = [data |-> data, index |-> index, databitlen |-> n]
    IN  /\ phase = "open" /\ updates < MaxUpdates
        /\ state.databitlen % 8 = 0     \* "multiple of 8bits except for the last"
        /\ state.databitlen + bits <= MaxBits
        /\ \/ /\ held > 0 /\ held + bits < BlockBits
              /\ state' = Gather(counted, data, bits) /\ left(0, 0)
           \/ /\ held > 0 /\ held + bits >= BlockBits
              /\ state' = Complete(counted, data)
              /\ left(BLOCK - held \div 8, bits - (BlockBits - held))
           \/ /\ held = 0
              /\ state' = counted /\ left(0, bits)
        /\ phase' = "update" /\ updates' = updates + 1

\* One round of the loop over full blocks, by way of the buffer.
UpdateBlock ==
    /\ phase = "update" /\ call.databitlen >= BlockBits
    /\ state' = F8(Copy(state, 0, call.data, call.index, BLOCK))
    /\ call' = [call EXCEPT !.index = @ + BLOCK, !.databitlen = @ - BlockBits]
    /\ UNCHANGED <<phase, updates>>

\* The partial block; then Update returns.
UpdateRest ==
    LET left == call.databitlen
        len == (left \div 8) + IF left % 8 = 0 THEN 0 ELSE 1
    IN  /\ phase = "update" /\ left < BlockBits
        /\ state' = IF left = 0 THEN state
                    ELSE [Copy(state, 0, call.data, call.index, len)
                          EXCEPT !.datasize_in_buffer = left]
        /\ phase' = "open"
        /\ call' = [data |-> <<>>, index |-> 0, databitlen |-> 0]
        /\ UNCHANGED updates

Final ==
    /\ phase = "open" /\ updates > 0
    /\ state' = IF state.databitlen % BlockBits = 0
                THEN F8(LengthBlock(state, <<End(0, 0)>>))
                ELSE F8(LengthBlock(F8(PadBuffer(state)), <<>>))
    /\ phase' = "done"
    /\ UNCHANGED <<call, updates>>

Next ==
    \/ \E n \in 0..(MaxBits \div 8), r \in Rems : Update(8 * n + r)
    \/ UpdateBlock
    \/ UpdateRest
    \/ Final

Spec == Init /\ [][Next]_vars

-----------------------------------------------------------------------------
\* Reference: the message, a one bit, zeros, the length in bits in a block
\* that holds nothing of the message.
PaddedBlocks(bits) ==
    LET m == Terminated(bits)
        n == RoundUp(RoundUp(bits, 8) \div 8, BLOCK) \div BLOCK + 1
    IN  Blocks(m \o Zeros(n * BLOCK - LenBytes - Len(m))
                 \o BigEndian(bits, LenBytes, ByteBase), BLOCK)

\* However the message is cut into pieces, the padded message is compressed
\* (jh.c, Update and Final).  Update copies more than it is given, but the
\* bytes behind the data never reach F8: later data or the padding replaces
\* them.
HashesPaddedMessage ==
    phase = "done" => state.x = PaddedBlocks(state.databitlen)
=============================================================================
