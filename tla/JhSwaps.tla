------------------------------ MODULE JhSwaps ------------------------------
(***************************************************************************)
(* The order of the layers in E8 of JH (src/hash/monero/jh.c).  Position p *)
(* of the state is bit p % 64 of the words x[.][p \div 64]; it holds an    *)
(* even nibble (words 0, 2, 4, 6) and an odd one (words 1, 3, 5, 7).  SS   *)
(* and L mix the two nibbles of a position, the swaps move the odd ones.   *)
(***************************************************************************)
EXTENDS Integers, Sequences, FiniteSets

WordBits == 64
ROUNDS == 42
Positions == 0..(2 * WordBits - 1)

VARIABLES
    round,   \* roundnumber + 0..6
    half,    \* i of the inner loop: the half of the state that is worked on
    layer,   \* "mix" or "swap" comes next
    odd,     \* position -> the odd nibble that is there
    dep      \* <<dependencies of the even, of the odd nibble>> of a position

vars == <<round, half, layer, odd, dep>>

Half(p) == p \div WordBits

\* SWAPn: a bit whose n-bit is clear moves left by n, the others move right.
SWAP(n, f) ==
    [p \in Positions |->
        IF Half(p) # half THEN f[p]
        ELSE IF ((p % WordBits) \div n) % 2 = 1 THEN f[p - n] ELSE f[p + n]]

\* Round 6 exchanges the words of the two halves.
SWAP64(f) == [p \in Positions |-> f[(p + WordBits) % (2 * WordBits)]]

Distance == <<1, 2, 4, 8, 16, 32>>

Init ==
    /\ round = 0 /\ half = 0 /\ layer = "mix"
    /\ odd = [p \in Positions |-> p]
    /\ dep = [p \in Positions |-> <<{p}, {p}>>]

\* SS and L on one half; in round 6 the swap follows after both halves.
Mix ==
    /\ round < ROUNDS /\ layer = "mix"
    /\ dep' = [p \in Positions |->
                 IF Half(p) = half
                 THEN LET d == dep[p][1] \cup dep[p][2] IN <<d, d>>
                 ELSE dep[p]]
    /\ IF round % 7 = 6 /\ half = 0
       THEN half' = 1 /\ UNCHANGED layer
       ELSE layer' = "swap" /\ UNCHANGED half
    /\ UNCHANGED <<round, odd>>

MoveOdd(Move(_)) ==
    LET moved == Move([p \in Positions |-> dep[p][2]])
    IN  /\ odd' = Move(odd)
        /\ dep' = [p \in Positions |-> <<dep[p][1], moved[p]>>]

\* Mutated form of Swap: round 6 of the last group is left out.
Swap_noLast ==
    /\ layer = "swap"
    /\ IF round % 7 = 6
       THEN IF round = ROUNDS - 1 THEN UNCHANGED <<odd, dep>> ELSE MoveOdd(SWAP64)
       ELSE MoveOdd(LAMBDA f : SWAP(Distance[(round % 7) + 1], f))
    /\ layer' = "mix"
    /\ half' = IF round % 7 = 6 THEN 0 ELSE 1 - half
    /\ round' = IF half = 1 THEN round + 1 ELSE round

Swap ==
    /\ layer = "swap"
    /\ IF round % 7 = 6
       THEN MoveOdd(SWAP64)
       ELSE MoveOdd(LAMBDA f : SWAP(Distance[(round % 7) + 1], f))
    /\ layer' = "mix"
    /\ half' = IF round % 7 = 6 THEN 0 ELSE 1 - half
    /\ round' = IF half = 1 THEN round + 1 ELSE round

Next == Mix \/ Swap

Spec == Init /\ [][Next]_vars

-----------------------------------------------------------------------------
\* No round pairs nibbles that have met already: what a position depends on
\* doubles with every round until it is the whole state in the eighth one.
EveryRoundDoubles ==
    half = 0 /\ layer = "mix" /\ round > 0 =>
        \A p \in Positions, k \in {1, 2} :
            Cardinality(dep[p][k]) = IF round <= 7 THEN 2^(round - 1) ELSE 2 * WordBits

\* The swaps of seven rounds reverse the odd nibbles, the next seven put them
\* back: after all rounds of E8 every nibble is where it started, so that F8
\* adds the message to the words it expects.
ComesHome ==
    half = 0 /\ layer = "mix" /\ round % 7 = 0 =>
        \A p \in Positions : odd[p] = IF round % 14 = 0 THEN p ELSE 2 * WordBits - 1 - p
=============================================================================
