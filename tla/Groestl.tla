------------------------------ MODULE Groestl ------------------------------
(***************************************************************************)
(* The buffer, the block counter and the padding of Groestl-256            *)
(* (src/hash/monero/groestl.c).  groestl() is Init, one Update and Final;  *)
(* the model lets Update come in any number of pieces, and Update takes a  *)
(* step per block.  The compression function is in module GroestlRounds.   *)
(***************************************************************************)
EXTENDS HashBytes

CONSTANTS
    SIZE512,          \* bytes of a block
    LENGTHFIELDLEN,   \* bytes of the length at the end, half for each counter
    ByteBase,         \* the values of a byte in the length
    Rems,             \* bits in the last byte of a message
    MaxBits           \* bound: length of the message in bits

\* What the instances have to satisfy; the module that makes them assumes it.
GroestlAssumption ==
    /\ LENGTHFIELDLEN \in Nat /\ LENGTHFIELDLEN % 2 = 0
    /\ SIZE512 \in Nat /\ SIZE512 > LENGTHFIELDLEN
    /\ ByteBase \in Nat /\ ByteBase > 1
    \* A law of arithmetic that the provers do not know.
    /\ \A i, j \in 0..LENGTHFIELDLEN :
          ByteBase^i \in Nat \ {0} /\ ByteBase^(i + j) = ByteBase^i * ByteBase^j
    /\ ByteBase^1 = ByteBase
    /\ Rems \subseteq 0..7 /\ 0 \in Rems

VARIABLES
    ctx,      \* chaining, block_counter1, block_counter2, buffer, buf_ptr, bits_in_last_byte
    phase,    \* "open", "update" while Update digests blocks, after Final "done"
    total,    \* bits of the message passed so far
    output,   \* the chaining value the digest is cut from
    call      \* input, index, msglen and rem in Update

vars == <<ctx, phase, total, output, call>>

CounterLen == LENGTHFIELDLEN \div 2
CounterMod == ByteBase^CounterLen     \* uint32_t wraps here

\* Mutated form of CountBlock: no carry into the second counter.
CountBlock_noCarry(c) == [c EXCEPT !.block_counter1 = (@ + 1) % CounterMod]

CountBlock(c) ==
    LET n == (c.block_counter1 + 1) % CounterMod
    IN  [c EXCEPT !.block_counter1 = n,
                  !.block_counter2 = IF n = 0 THEN (@ + 1) % CounterMod ELSE @]

\* One round of the loop of Transform: F512 and the block counter.
Transform(c, block) == CountBlock([c EXCEPT !.chaining = Append(@, block)])

Store(c, bytes) ==
    [c EXCEPT !.buffer = Overlay(@, c.buf_ptr, bytes), !.buf_ptr = @ + Len(bytes)]

\* A partial byte goes to the buffer with the number of its bits.
StoreRem(c, input, index, rem) ==
    IF rem = 0 THEN c
    ELSE [Store(c, <<input[index + 1]>>) EXCEPT !.bits_in_last_byte = rem]

\* A one bit behind the message, in its last byte or in a byte of its own.
Terminate(c) ==
    IF c.bits_in_last_byte # 0
    THEN [c EXCEPT !.buffer[c.buf_ptr] = End(@[2], c.bits_in_last_byte),
                   !.bits_in_last_byte = 0]
    ELSE Store(c, <<End(0, 0)>>)

PadToLength(c) ==
    LET full == Store(c, Zeros(SIZE512 - c.buf_ptr))
        room == IF c.buf_ptr > SIZE512 - LENGTHFIELDLEN
                THEN [Transform(full, full.buffer) EXCEPT !.buf_ptr = 0]
                ELSE c
    IN  Store(room, Zeros(SIZE512 - LENGTHFIELDLEN - room.buf_ptr))

\* The block that will be compressed counts, too.  The loops shift the
\* counters out while they write them.
WriteLength(c) ==
    LET d == CountBlock(c)
        field == BigEndian(d.block_counter2, CounterLen, ByteBase)
                 \o BigEndian(d.block_counter1, CounterLen, ByteBase)
    IN  [d EXCEPT !.buffer = Overlay(@, SIZE512 - LENGTHFIELDLEN, field),
                  !.buf_ptr = SIZE512 - LENGTHFIELDLEN,
                  !.block_counter1 = 0, !.block_counter2 = 0]

-----------------------------------------------------------------------------
NoCall == [input |-> <<>>, index |-> 0, msglen |-> 0, rem |-> 0]

Init ==
    /\ ctx = [chaining |-> <<>>, block_counter1 |-> 0, block_counter2 |-> 0,
              buffer |-> [i \in 1..SIZE512 |-> Junk], buf_ptr |-> 0,
              bits_in_last_byte |-> 0]
    /\ phase = "open" /\ total = 0 /\ output = <<>>
    /\ call = NoCall

\* Update up to the bulk of the message: data in the buffer is completed first.
Update(bits) ==
    LET input == Data(total \div 8, bits)
        msglen == bits \div 8
        rem == bits % 8
        space == SIZE512 - ctx.buf_ptr
        n == IF msglen < space THEN msglen ELSE space
        filled == Store(ctx, SubSeq(input, 1, n))
        goOn(index) ==
            /\ phase' = "update"
            /\ call' = [input |-> input, index |-> index, msglen |-> msglen, rem |-> rem]
    IN  /\ phase = "open"
        /\ total % 8 = 0              \* only the last piece may end inside a byte
        /\ total + bits <= MaxBits
        /\ \/ /\ ctx.buf_ptr = 0
              /\ goOn(0) /\ UNCHANGED ctx
           \/ /\ ctx.buf_ptr # 0 /\ filled.buf_ptr < SIZE512
              /\ ctx' = StoreRem(filled, input, n, rem) /\ UNCHANGED <<phase, call>>
           \/ /\ ctx.buf_ptr # 0 /\ filled.buf_ptr = SIZE512
              /\ ctx' = Transform([filled EXCEPT !.buf_ptr = 0], filled.buffer)
              /\ goOn(n)
        /\ total' = total + bits
        /\ UNCHANGED output

\* The bulk of the message, one block at a time, from the input itself.
UpdateBlock ==
    /\ phase = "update" /\ call.msglen - call.index >= SIZE512
    /\ ctx' = Transform(ctx, SubSeq(call.input, call.index + 1, call.index + SIZE512))
    /\ call' = [call EXCEPT !.index = @ + SIZE512]
    /\ UNCHANGED <<phase, total, output>>

\* The rest goes to the buffer; then Update returns.
UpdateRest ==
    /\ phase = "update" /\ call.msglen - call.index < SIZE512
    /\ ctx' = StoreRem(Store(ctx, SubSeq(call.input, call.index + 1, call.msglen)),
                       call.input, call.msglen, call.rem)
    /\ phase' = "open" /\ call' = NoCall
    /\ UNCHANGED <<total, output>>

\* Final ends with the output transformation, the digest is the end of its
\* result; then it clears the buffer and the first half of the chaining value.
Final ==
    /\ phase = "open"
    /\ LET padded == WriteLength(PadToLength(Terminate(ctx)))
           last == Transform(padded, padded.buffer)
       IN  /\ output' = last.chaining
           /\ ctx' = [last EXCEPT !.chaining = <<>>, !.buffer = Zeros(SIZE512)]
    /\ phase' = "done"
    /\ UNCHANGED <<total, call>>

Next ==
    \/ \E n \in 0..(MaxBits \div 8), r \in Rems : Update(8 * n + r)
    \/ UpdateBlock
    \/ UpdateRest
    \/ Final

Spec == Init /\ [][Next]_vars

-----------------------------------------------------------------------------
\* Reference: the message, a one bit, zeros, the number of blocks.
PaddedBlocks(bits) ==
    LET m == Terminated(bits)
        n == RoundUp(Len(m) + LENGTHFIELDLEN, SIZE512) \div SIZE512
    IN  Blocks(m \o Zeros(n * SIZE512 - LENGTHFIELDLEN - Len(m))
                 \o BigEndian(n, LENGTHFIELDLEN, ByteBase), SIZE512)

\* However the message is cut into pieces, what is compressed is the padded
\* message, with the number of its blocks at the end although it is counted
\* in two words of which the first one wraps, and although the padding may
\* need a block of its own (groestl.c, Update and Final).
HashesPaddedMessage ==
    phase = "done" => output = PaddedBlocks(total)

\* Between two calls the digested blocks and the buffer make up the message,
\* and the counters their number: the buffer never holds a full block unless
\* its last byte is partial, so that Final finds room for the 0x80.
BufferIsTail ==
    phase = "open" =>
        LET n == total \div (8 * SIZE512)
            whole == Blocks(Data(0, 8 * n * SIZE512), SIZE512)
            tail == Data(n * SIZE512, total - 8 * n * SIZE512)
        IN  /\ ctx.chaining = whole
            /\ SubSeq(ctx.buffer, 1, ctx.buf_ptr) = tail
            /\ ctx.block_counter1 = n % CounterMod
            /\ ctx.block_counter2 = (n \div CounterMod) % CounterMod
            /\ ctx.bits_in_last_byte = total % 8
=============================================================================
