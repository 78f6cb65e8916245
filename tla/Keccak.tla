------------------------------- MODULE Keccak -------------------------------
(***************************************************************************)
(* keccak() of src/hash/monero/keccak.c: the blocks that are absorbed, the *)
(* padding in the array temp, and the checks that end the process.  The    *)
(* permutation keccakf is in module KeccakF.  hash.c calls keccak1600,     *)
(* which is keccak with mdlen = sizeof(state_t).                           *)
(***************************************************************************)
EXTENDS HashBytes

CONSTANTS
    STATE_T,            \* sizeof(state_t) (200)
    TEMP,             \* sizeof(temp) (144)
    HASH_DATA_AREA,   \* bytes of a block when the whole state is the digest (136)
    WORD,             \* bytes of a word (8)
    MdLens,           \* values of mdlen that callers pass
    MaxLen            \* bound: length of the message

\* What the instances have to satisfy; the module that makes them assumes it.
KeccakAssumption ==
    /\ STATE_T \in Nat /\ TEMP \in Nat /\ WORD \in Nat \ {0}
    /\ HASH_DATA_AREA \in 1..TEMP            \* static_assert
    /\ HASH_DATA_AREA % WORD = 0
    /\ MdLens \subseteq Int /\ MaxLen \in Nat

VARIABLES
    mdlen, total,   \* arguments
    inlen,          \* bytes that are left
    st,             \* the words xored into the state, one sequence per permutation
    top,            \* the highest index of temp that has been accessed
    phase           \* "enter", "absorb", "last", "done", "aborted"

vars == <<mdlen, total, inlen, st, top, phase>>

rsiz == IF mdlen = STATE_T THEN HASH_DATA_AREA ELSE STATE_T - 2 * mdlen
rsizw == rsiz \div WORD

BadUse == mdlen <= 0 \/ (mdlen > STATE_T \div 2 /\ mdlen # STATE_T)

\* Mutated form of BadLast: the check of the block size against temp is dropped.
BadLast_sizeUnchecked ==
    inlen + 1 >= TEMP \/ inlen > rsiz \/ rsiz = 0

BadLast ==
    \/ inlen + 1 >= TEMP
    \/ inlen > rsiz
    \/ rsiz + 1 >= TEMP
    \/ rsiz = 0
    \/ rsiz - 1 >= TEMP
    \/ rsizw * WORD > TEMP

Init ==
    /\ mdlen \in MdLens /\ total \in 0..MaxLen
    /\ inlen = total /\ st = <<>> /\ top = -1
    /\ phase = "enter"

Enter ==
    /\ phase = "enter"
    /\ phase' = IF BadUse THEN "aborted" ELSE "absorb"
    /\ UNCHANGED <<mdlen, total, inlen, st, top>>

\* Mutated form of Absorb: the remaining length is not updated.
Absorb_stuck ==
    /\ phase = "absorb" /\ inlen >= rsiz
    /\ st' = IF rsiz = 0 \/ Len(st) > 2 THEN st
             ELSE Append(st, [i \in 1..(rsizw * WORD) |-> Msg(i)])
    /\ UNCHANGED <<mdlen, total, inlen, top, phase>>

\* One iteration of the loop over whole blocks.  An empty block leaves the
\* lengths as they are; the permutations of empty blocks are not counted.
Absorb ==
    /\ phase = "absorb" /\ inlen >= rsiz
    /\ st' = IF rsiz = 0 THEN st
             ELSE Append(st, [i \in 1..(rsizw * WORD) |-> Msg(total - inlen + i)])
    /\ inlen' = inlen - rsiz
    /\ UNCHANGED <<mdlen, total, top, phase>>

LeaveLoop ==
    /\ phase = "absorb" /\ inlen < rsiz
    /\ phase' = IF BadLast THEN "aborted" ELSE "last"
    /\ UNCHANGED <<mdlen, total, inlen, st, top>>

\* The or of 0x80 into the last byte of the block.
Or80(b) == IF b = Num(1) THEN Num(129) ELSE Num(128)

Padded ==
    LET filled == [i \in 1..inlen |-> Msg(total - inlen + i)] \o <<Num(1)>>
                  \o Zeros(rsiz - inlen - 1)
    IN  [filled EXCEPT ![rsiz] = Or80(@)]

LastBlock ==
    /\ phase = "last"
    /\ st' = Append(st, SubSeq(Padded, 1, rsizw * WORD))
    /\ top' = Len(Padded) - 1
    /\ inlen' = inlen + 1
    /\ phase' = "done"
    /\ UNCHANGED <<mdlen, total>>

Next == Enter \/ Absorb \/ LeaveLoop \/ LastBlock

\* The thread that calls keccak runs on.
Spec == Init /\ [][Next]_vars /\ WF_vars(Next)

-----------------------------------------------------------------------------
\* Reference: 1, zeros and a final 1 bit fill the message up to whole blocks.
PaddedMessage ==
    LET pad == RoundUp(total + 1, rsiz) - total
    IN  [i \in 1..total |-> Msg(i)]
        \o IF pad = 1 THEN <<Num(129)>> ELSE <<Num(1)>> \o Zeros(pad - 2) \o <<Num(128)>>

\* "compute a keccak hash (md) of given byte length": the state absorbs all
\* blocks of the padded message, also when the padding is a single byte or
\* a whole block.  A digest whose length is not a multiple of four gives a block
\* that is no multiple of the word; its last bytes are not absorbed.
AbsorbsPaddedMessage ==
    phase = "done" /\ rsiz % WORD = 0 => st = Blocks(PaddedMessage, rsiz)

\* No access to temp leaves the array, for every digest length callers may pass
\* and every length of the message.
StaysInTemp == top < TEMP
=============================================================================
