----------------------------- MODULE Threefish -----------------------------
(***************************************************************************)
(* The block cipher inside Skein*_Process_Block (src/hash/monero/skein.c). *)
(* The code never moves words between rounds: it renames the operands of   *)
(* the mixes, with four lists that repeat.  The unrolled sizes take the    *)
(* subkeys from the schedule modulo its length; the looped one (1024 bits, *)
(* SKEIN_LOOP 001) rotates key and tweak through one array `kw`, in which  *)
(* the tweak follows the key and overwrites it.  Words are symbolic: what  *)
(* is checked is which words meet in which mix, and what is added to them. *)
(***************************************************************************)
EXTENDS Integers, Sequences

VARIABLES
    bits,    \* the size of the block: 256, 512 or 1024
    round,   \* rounds done
    inject,  \* the next step is a key injection
    kw,      \* tweak words from 0, key words from KW_KEY_BASE on
    where,   \* reference: the register that holds each word of the state
    op       \* what the last step did

vars == <<bits, round, inject, kw, where, op>>

WCNT == bits \div 64
ROUNDS_TOTAL == IF bits = 1024 THEN 80 ELSE 72
RCNT == ROUNDS_TOTAL \div 8
KW_KEY_BASE == 3
Looped == bits = 1024          \* SKEIN_UNROLL_1024 = 1, the others 0

K(i) == <<"key", i>>
T(i) == <<"tweak", i>>
Unset == <<"unset", 0>>

\* The arguments of the four R256, R512 and R1024 that the 8 rounds repeat.
R256_8_rounds == << <<0,1,2,3>>, <<0,3,2,1>>, <<0,1,2,3>>, <<0,3,2,1>> >>

\* Mutated form of R512_8_rounds: two operands of one round exchanged.
R512_8_rounds_exchanged ==
    << <<0,1,2,3,4,5,6,7>>, <<2,1,4,7,6,5,0,3>>,
       <<4,1,6,3,0,5,2,7>>, <<6,1,0,7,2,3,4,5>> >>

R512_8_rounds == << <<0,1,2,3,4,5,6,7>>, <<2,1,4,7,6,5,0,3>>,
                    <<4,1,6,3,0,5,2,7>>, <<6,1,0,7,2,5,4,3>> >>

R1024_8_rounds == << <<0,1,2,3,4,5,6,7,8,9,10,11,12,13,14,15>>,
                     <<0,9,2,13,6,11,4,15,10,7,12,3,14,5,8,1>>,
                     <<0,7,2,5,4,3,6,1,12,15,14,13,8,11,10,9>>,
                     <<0,15,2,11,6,13,4,9,14,1,8,5,10,3,12,7>> >>

Operands(d) ==
    (CASE bits = 256  -> R256_8_rounds
       [] bits = 512  -> R512_8_rounds
       [] bits = 1024 -> R1024_8_rounds)[(d % 4) + 1]

\* Round256, Round512, Round1024: the j-th pair is mixed with rotation ROT_j
\* of the round's row of constants.
Mixes(p, d) ==
    [j \in 0..(WCNT \div 2 - 1) |->
        [sum |-> p[2*j + 1], rotated |-> p[2*j + 2], rot |-> <<d % 8, j>>]]

\* What an injection adds to register i: a key word, and near the end of the
\* block a tweak word or the number of the injection.
Sum(key, tweak, count) == [key |-> key, tweak |-> tweak, count |-> count]

\* I256 and I512, unrolled: R is the number of the injection, from 0.
I512(R) ==
    [i \in 0..(WCNT - 1) |->
        Sum(kw[KW_KEY_BASE + ((R + 1 + i) % (WCNT + 1))],
            IF i \in {WCNT - 3, WCNT - 2} THEN kw[(R + 1 + i - (WCNT - 3)) % 3] ELSE Unset,
            IF i = WCNT - 1 THEN R + 1 ELSE 0)]

\* I1024, looped: r is r+(R) of the code, from 1.
I1024(r) ==
    [i \in 0..(WCNT - 1) |->
        Sum(kw[KW_KEY_BASE + r + i],
            IF i \in {WCNT - 3, WCNT - 2} THEN kw[r + i - (WCNT - 3)] ELSE Unset,
            IF i = WCNT - 1 THEN r ELSE 0)]

\* "rotate key schedule": the key word first, then the tweak word, which
\* takes the place that the key word has left.
RotateSchedule(r) ==
    LET key == [kw EXCEPT ![KW_KEY_BASE + r + WCNT] = kw[KW_KEY_BASE + r - 1]]
    IN  [key EXCEPT ![r + 2] = key[r - 1]]

-----------------------------------------------------------------------------
KwSize == IF Looped THEN WCNT + 4 + 2 * RCNT ELSE WCNT + 4

\* The schedule of one block: the tweak and its parity, the chaining variables
\* and their parity.
LoadSchedule ==
    [i \in 0..(KwSize - 1) |->
        CASE i < KW_KEY_BASE -> T(i)
          [] i >= KW_KEY_BASE /\ i <= KW_KEY_BASE + WCNT -> K(i - KW_KEY_BASE)
          [] OTHER -> Unset]

FirstInjection ==
    [i \in 0..(WCNT - 1) |->
        Sum(kw[KW_KEY_BASE + i],
            IF i \in {WCNT - 3, WCNT - 2} THEN kw[i - (WCNT - 3)] ELSE Unset, 0)]

Init ==
    /\ bits \in {256, 512, 1024}
    /\ round = 0 /\ inject = FALSE
    /\ kw = LoadSchedule
    /\ where = [i \in 0..(WCNT - 1) |-> i]
    /\ op = FirstInjection

\* Reference: the permutation of the words behind every round.
Permutation ==
    CASE bits = 256  -> <<0,3,2,1>>
      [] bits = 512  -> <<2,1,4,7,6,5,0,3>>
      [] bits = 1024 -> <<0,9,2,13,6,11,4,15,10,7,12,3,14,5,8,1>>

Round ==
    /\ ~inject /\ round < ROUNDS_TOTAL
    /\ op' = Mixes(Operands(round), round)
    /\ where' = [i \in 0..(WCNT - 1) |-> where[Permutation[i + 1]]]
    /\ round' = round + 1
    /\ inject' = (round' % 4 = 0)
    /\ UNCHANGED <<bits, kw>>

Inject ==
    /\ inject
    /\ LET R == round \div 4 - 1
       IN  IF Looped
           THEN op' = I1024(R + 1) /\ kw' = RotateSchedule(R + 1)
           ELSE op' = I512(R) /\ UNCHANGED kw
    /\ inject' = FALSE
    /\ UNCHANGED <<bits, round, where>>

Next == Round \/ Inject

Spec == Init /\ [][Next]_vars

-----------------------------------------------------------------------------
\* Reference: the subkey number s of Threefish.
Subkey(s) ==
    [i \in 0..(WCNT - 1) |->
        Sum(K((s + i) % (WCNT + 1)),
            CASE i = WCNT - 3 -> T(s % 3)
              [] i = WCNT - 2 -> T((s + 1) % 3)
              [] OTHER -> Unset,
            IF i = WCNT - 1 THEN s ELSE 0)]

\* Each round mixes the words that are neighbours in the reference, with the
\* same rotation, although the code permutes names and not words; every four
\* rounds the words are back in their registers, where the subkey is added.
MixStep ==
    /\ Round => op' = [j \in 0..(WCNT \div 2 - 1) |->
                          [sum |-> where[2*j], rotated |-> where[2*j + 1],
                           rot |-> <<round % 8, j>>]]
    /\ Inject => \A i \in 0..(WCNT - 1) : where[i] = i

\* Every injection adds the reference's subkey.  In the looped code this
\* depends on the order in which key and tweak advance through the array they
\* share: a key word may be overwritten only after its last use.
AddsSubkeys ==
    (round % 4 = 0 /\ ~inject) => op = Subkey(round \div 4)

\* The looped code never leaves the array, whose size is WCNT+4+2*RCNT, and
\* never adds a word that has not been set.
ScheduleInBounds ==
    Looped /\ inject =>
        /\ KW_KEY_BASE + round \div 4 + WCNT \in DOMAIN kw
        /\ \A i \in (round \div 4)..(KW_KEY_BASE + round \div 4 + WCNT - 1) : kw[i] # Unset
=============================================================================
