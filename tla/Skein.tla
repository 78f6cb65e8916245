------------------------------- MODULE Skein -------------------------------
(***************************************************************************)
(* The Skein hash of src/hash/monero/skein.c: contexts, tweaks and the     *)
(* buffer that holds the last block back.  skein_hash is Init, one Update  *)
(* and Final; the model lets Update come in any number of pieces, as the   *)
(* interface it implements ("incremental" hashing API) allows.             *)
(* The 512 and the 1024 bit copies of every function differ only in the    *)
(* size of the block, which is a parameter here.                           *)
(***************************************************************************)
EXTENDS HashBytes, FiniteSetsExt

CONSTANTS
    Block512, Block1024,   \* SKEIN_512_BLOCK_BYTES, SKEIN1024_BLOCK_BYTES
    MaxHashBits512,        \* SKEIN_512_NIST_MAX_HASHBITS
    CounterBytes,          \* sizeof(u64b_t)
    CfgLen,                \* SKEIN_CFG_STR_LEN
    Precomputed,           \* hash lengths that have an entry SKEIN_*_IV_*
    HashLengths,           \* the hashbitlen that callers ask for
    Rems,                  \* bits in the last byte of a message
    MaxBits                \* bound: length of the message in bits

\* What the instances have to satisfy; the module that makes them assumes it.
SkeinAssumption ==
    /\ Block512 \in Nat \ {0} /\ Block1024 \in Nat \ {0}
    /\ CounterBytes \in 1..Block512 /\ CfgLen \in 1..Block512
    /\ HashLengths \subseteq Nat /\ Rems \subseteq 0..7 /\ 0 \in Rems /\ MaxBits \in Nat

VARIABLES
    ctx,      \* the context: header, chaining variables X, buffer b
    phase,    \* "new", "open" (between Init and Final), "done"
    total,    \* bits of the message passed so far
    hashVal   \* output: from which X, and how many bytes of it

vars == <<ctx, phase, total, hashVal>>

Tweak(type, first, final) ==
    [type |-> type, first |-> first, final |-> final, bitPad |-> FALSE]

Skein_Start_New_Type(c, type, final) ==
    [c EXCEPT !.T0 = 0, !.T1 = Tweak(type, TRUE, final), !.bCnt = 0]

\* One turn of the do loop: count, compress with the tweak, clear "first".
Process_One(c, blk, byteCntAdd) ==
    LET T0 == c.T0 + byteCntAdd
    IN  [c EXCEPT !.T0 = T0,
                  !.X = Append(@, [blk |-> blk, T0 |-> T0, T1 |-> c.T1]),
                  !.T1.first = FALSE]

Skein_512_Process_Block(c, blks, byteCntAdd) ==
    LET turn[i \in 0..Len(blks)] ==
            IF i = 0 THEN c ELSE Process_One(turn[i - 1], blks[i], byteCntAdd)
    IN  turn[Len(blks)]

\* The configuration string: schema, hash length, no tree; zero padded.
CfgBlock(B, hashBitLen) ==
    <<<<"schema", 0, 0>>, <<"length", hashBitLen, 0>>>> \o Zeros(B - 2)

Skein_512_Init(B, hashBitLen) ==
    LET new == [hashBitLen |-> hashBitLen, B |-> B, bCnt |-> 0, T0 |-> 0,
                T1 |-> Tweak("CFG", TRUE, TRUE), X |-> <<>>,
                b |-> [i \in 1..B |-> Junk]]
        chained == IF hashBitLen \in Precomputed
                   THEN [new EXCEPT !.X = <<[iv |-> hashBitLen]>>]
                   ELSE Skein_512_Process_Block(
                            Skein_Start_New_Type(new, "CFG", TRUE),
                            <<CfgBlock(B, hashBitLen)>>, CfgLen)
    IN  Skein_Start_New_Type(chained, "MSG", FALSE)

\* Copy what is left into the buffer.
Keep(c, msg) == [c EXCEPT !.b = Overlay(@, c.bCnt, msg), !.bCnt = @ + Len(msg)]

\* Compress whole blocks from the message, but never the last one: the
\* comparisons are strict.
CompressAndKeep(c, msg, B) ==
    LET n == IF Len(msg) > B THEN (Len(msg) - 1) \div B ELSE 0
    IN  Keep(Skein_512_Process_Block(c, Blocks(SubSeq(msg, 1, n * B), B), B), From(msg, n * B))

\* Finish the buffered block.
FinishBuffer(c, part, B) ==
    LET b == Overlay(c.b, c.bCnt, part)
    IN  [Skein_512_Process_Block([c EXCEPT !.b = b], <<b>>, B) EXCEPT !.bCnt = 0]

Skein_512_Update(c, msg) ==
    LET n == c.B - c.bCnt
    IN  IF Len(msg) + c.bCnt <= c.B THEN Keep(c, msg)
        ELSE IF c.bCnt = 0 THEN CompressAndKeep(c, msg, c.B)
        ELSE CompressAndKeep(FinishBuffer(c, SubSeq(msg, 1, n), c.B), From(msg, n), c.B)

\* Output in counter mode: every block starts from the same X.
Output(c, byteCnt) ==
    LET B == c.B
        counter(i) == <<Num(i)>> \o Zeros(B - 1)
    IN  [i \in 1..(RoundUp(byteCnt, B) \div B) |->
            [X |-> Skein_512_Process_Block(Skein_Start_New_Type(c, "OUT", TRUE),
                                           <<counter(i - 1)>>, CounterBytes).X,
             n |-> Min({B, byteCnt - (i - 1) * B})]]

Skein_512_Final(c) ==
    LET padded == [c EXCEPT !.T1.final = TRUE,
                            !.b = Overlay(@, c.bCnt, Zeros(c.B - c.bCnt))]
    IN  Output(Skein_512_Process_Block(padded, <<padded.b>>, c.bCnt),
               (c.hashBitLen + 7) \div 8)

\* The copies for 1024 bits; the context knows the size of its block.
Skein1024_Process_Block(c, blks, byteCntAdd) == Skein_512_Process_Block(c, blks, byteCntAdd)
Skein1024_Init(hashBitLen) == Skein_512_Init(Block1024, hashBitLen)
Skein1024_Update(c, msg) == Skein_512_Update(c, msg)
Skein1024_Final(c) == Skein_512_Final(c)

-----------------------------------------------------------------------------
Bytes512(c) == c.B = Block512

Init ==
    /\ phase = "new" /\ total = 0 /\ hashVal = <<>>
    /\ ctx = [B |-> 0]           \* on the caller's stack, not set yet

\* Init: choose the size of the state by the length of the hash.
InitCall(hashbitlen) ==
    /\ phase = "new"
    /\ ctx' = IF hashbitlen <= MaxHashBits512
              THEN Skein_512_Init(Block512, hashbitlen)
              ELSE Skein1024_Init(hashbitlen)
    /\ phase' = "open"
    /\ UNCHANGED <<total, hashVal>>

UpdateBytes(c, msg) ==
    IF Bytes512(c) THEN Skein_512_Update(c, msg) ELSE Skein1024_Update(c, msg)

\* Mutated form of Update: the partial byte is passed with the others.
Update_unmasked(c, data, databitlen) ==
    [UpdateBytes(c, data) EXCEPT !.T1.bitPad = databitlen % 8 # 0]

\* Update: a partial last byte is masked, terminated and passed by itself.
Update(c, data, databitlen) ==
    IF databitlen % 8 = 0
    THEN UpdateBytes(c, data)
    ELSE LET n == databitlen \div 8
             last == data[n + 1]
             b == <<End(last[2], databitlen % 8)>>
         IN  [UpdateBytes(UpdateBytes(c, SubSeq(data, 1, n)), b)
              EXCEPT !.T1.bitPad = TRUE]

UpdateCall(bits) ==
    /\ phase = "open"
    /\ total % 8 = 0             \* "only the final Update() call" is partial
    /\ total + bits <= MaxBits
    /\ ctx' = Update(ctx, Data(total \div 8, bits), bits)
    /\ total' = total + bits
    /\ UNCHANGED <<phase, hashVal>>

Final ==
    /\ phase = "open"
    /\ hashVal' = IF Bytes512(ctx) THEN Skein_512_Final(ctx) ELSE Skein1024_Final(ctx)
    /\ phase' = "done"
    /\ UNCHANGED <<ctx, total>>

Next ==
    \/ \E h \in HashLengths : InitCall(h)
    \/ \E n \in 0..(MaxBits \div 8), r \in Rems : UpdateCall(8 * n + r)
    \/ Final

Spec == Init /\ [][Next]_vars

-----------------------------------------------------------------------------
\* Reference: the message in blocks (a partial byte terminated, zero padded,
\* at least one block), each with the bytes up to its end, the first and the
\* last one marked.

Message(bits) ==
    IF bits % 8 = 0 THEN Data(0, bits) ELSE Terminated(bits)

UBI(B, bits) ==
    LET m == Message(bits)
        n == IF bits = 0 THEN 1 ELSE RoundUp(Len(m), B) \div B
        padded == m \o Zeros(n * B - Len(m))
    IN  [i \in 1..n |->
            [blk |-> SubSeq(padded, (i - 1) * B + 1, i * B),
             T0 |-> Min({i * B, Len(m)}),
             T1 |-> [type |-> "MSG", first |-> i = 1, final |-> i = n,
                     bitPad |-> i = n /\ bits % 8 # 0]]]

\* The chaining value before the message.
Start(B, hashBitLen) ==
    IF hashBitLen \in Precomputed THEN <<[iv |-> hashBitLen]>>
    ELSE <<[blk |-> CfgBlock(B, hashBitLen), T0 |-> CfgLen,
            T1 |-> Tweak("CFG", TRUE, TRUE)]>>

\* The reference's output: as many blocks as the length asks for.
ReferenceOutput(B, hashBitLen, bits) ==
    LET bytes == (hashBitLen + 7) \div 8
    IN  [i \in 1..(RoundUp(bytes, B) \div B) |->
            [X |-> Start(B, hashBitLen) \o UBI(B, bits)
                   \o <<[blk |-> <<Num(i - 1)>> \o Zeros(B - 1), T0 |-> CounterBytes,
                         T1 |-> Tweak("OUT", TRUE, TRUE)]>>,
             n |-> IF i * B <= bytes THEN B ELSE bytes % B]]

\* However the message is cut into pieces (skein.c Update and
\* Skein_512_Update), the result is the reference's: no byte is lost,
\* doubled or taken from an unset buffer, and the position, first, final and
\* bit-pad parts of every tweak are right, also when the message ends at the
\* end of a block or is empty.
HashesWholeMessage ==
    phase = "done" => hashVal = ReferenceOutput(ctx.B, ctx.hashBitLen, total)

\* Between two calls the last block is never compressed (the strict
\* comparisons of Skein_512_Update): it may be the one that Final has to mark.
\* The compressed blocks and the buffer make up the message so far.
HoldsLastBlockBack ==
    phase = "open" =>
        LET m == Message(total)
            n == IF total = 0 THEN 0 ELSE (Len(m) - 1) \div ctx.B
            ubi == UBI(ctx.B, total)
        IN  /\ ctx.X = Start(ctx.B, ctx.hashBitLen) \o SubSeq(ubi, 1, n)
            /\ SubSeq(ctx.b, 1, ctx.bCnt) = From(m, n * ctx.B)
            /\ ctx.T1.bitPad = (total % 8 # 0)
=============================================================================
