---------------------------- MODULE BlakeRounds ----------------------------
(***************************************************************************)
(* The rounds of blake256_compress (src/hash/monero/blake256.c): which     *)
(* words of the state each G works on and which words of the message and   *)
(* which constants it adds.  The arithmetic of G is data.                  *)
(***************************************************************************)
EXTENDS Integers, Sequences

VARIABLES
    round,    \* i, from 0
    g,        \* which G of the round comes next, from 0
    added,    \* message word -> how often it has been added, per round
    mixed     \* words of v changed in this half of the round

vars == <<round, g, added, mixed>>

Words == 0..15

sigma == << <<0, 1, 2, 3, 4, 5, 6, 7, 8, 9, 10, 11, 12, 13, 14, 15>>,
            <<14, 10, 4, 8, 9, 15, 13, 6, 1, 12, 0, 2, 11, 7, 5, 3>>,
            <<11, 8, 12, 0, 5, 2, 15, 13, 10, 14, 3, 6, 7, 1, 9, 4>>,
            <<7, 9, 3, 1, 13, 12, 11, 14, 2, 6, 5, 10, 4, 0, 15, 8>>,
            <<9, 0, 5, 7, 2, 4, 10, 15, 14, 1, 11, 12, 6, 8, 3, 13>>,
            <<2, 12, 6, 10, 0, 11, 8, 3, 4, 13, 7, 5, 15, 14, 1, 9>>,
            <<12, 5, 1, 15, 14, 13, 4, 10, 0, 7, 6, 3, 9, 2, 8, 11>>,
            <<13, 11, 7, 14, 12, 1, 3, 9, 5, 0, 15, 4, 8, 6, 2, 10>>,
            <<6, 15, 14, 9, 11, 3, 0, 8, 12, 2, 13, 7, 1, 4, 10, 5>>,
            <<10, 2, 8, 4, 7, 6, 1, 5, 15, 11, 9, 14, 3, 12, 13, 0>>,
            <<0, 1, 2, 3, 4, 5, 6, 7, 8, 9, 10, 11, 12, 13, 14, 15>>,
            <<14, 10, 4, 8, 9, 15, 13, 6, 1, 12, 0, 2, 11, 7, 5, 3>>,
            <<11, 8, 12, 0, 5, 2, 15, 13, 10, 14, 3, 6, 7, 1, 9, 4>>,
            <<7, 9, 3, 1, 13, 12, 11, 14, 2, 6, 5, 10, 4, 0, 15, 8>> >>

\* a, b, c, d, e of the eight Gs, in the order of the code.
GOperands ==
    << <<0, 4, 8, 12, 0>>, <<1, 5, 9, 13, 2>>, <<2, 6, 10, 14, 4>>, <<3, 7, 11, 15, 6>>,
       <<3, 4, 9, 14, 14>>, <<2, 7, 8, 13, 12>>, <<0, 5, 10, 15, 8>>, <<1, 6, 11, 12, 10>> >>

\* The pairs <<message word, constant>> that a G adds.
Added(i, e) == {<<sigma[i + 1][e + 1], sigma[i + 1][e + 2]>>,
                <<sigma[i + 1][e + 2], sigma[i + 1][e + 1]>>}

Init ==
    /\ round = 0 /\ g = 0
    /\ added = [w \in Words |-> 0] /\ mixed = {}

G ==
    /\ round < 14
    /\ LET o == GOperands[g + 1]
       IN  /\ added' = [w \in Words |->
                          added[w] + IF \E p \in Added(round, o[5]) : p[1] = w THEN 1 ELSE 0]
           /\ mixed' = (IF g \in {0, 4} THEN {} ELSE mixed) \cup {o[k] : k \in 1..4}
    /\ g' = (g + 1) % 8
    /\ round' = IF g = 7 THEN round + 1 ELSE round

Next == G

Spec == Init /\ [][Next]_vars

-----------------------------------------------------------------------------
\* Every round adds every word of the message exactly once: the rows of sigma
\* are permutations and the Gs of a round share no pair of its entries.
AddsEveryWord ==
    /\ g = 0 => \A w \in Words : added[w] = round
    /\ \A w \in Words : added[w] \in {round, round + 1}

\* The Gs of one half of a round touch disjoint words, so that the order in
\* which the code lists the diagonals does not matter, and they are the
\* columns and then the diagonals of the 4x4 state with the pair of sigma
\* that belongs to each.
ColumnsThenDiagonals ==
    /\ g \in {0, 4} /\ round > 0 => mixed = Words
    /\ round < 14 =>
        LET o == GOperands[g + 1]
            i == o[1]
            s == IF g < 4 THEN 0 ELSE 1
        IN  /\ o = <<i, 4 + ((i + s) % 4), 8 + ((i + 2 * s) % 4), 12 + ((i + 3 * s) % 4),
                     2 * i + 8 * s>>
            /\ g \notin {0, 4} => mixed \cap {o[k] : k \in 1..4} = {}
=============================================================================
