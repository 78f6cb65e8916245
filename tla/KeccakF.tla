------------------------------ MODULE KeccakF ------------------------------
(***************************************************************************)
(* keccakf of src/hash/monero/keccak.c: a round in place, with the five    *)
(* words of bc and the word t as the only scratch memory.  Lanes are       *)
(* symbolic: an expression says which lanes of the state before the round  *)
(* a word was computed from.                                               *)
(***************************************************************************)
EXTENDS Integers, Sequences

CONSTANT ROUNDS
\* What the instances have to satisfy; the module that makes them assumes it.
RoundsAssumption == ROUNDS \in Nat

VARIABLES
    round, step, i,   \* the loop variables; step names the inner loop
    st,               \* 25 lanes, lane x + 5*y is column x of row y
    bc, t             \* scratch

vars == <<round, step, i, st, bc, t>>

Lanes == 0..24
Five == 0..4
Lane(l) == <<"lane", l>>
Unset == <<"unset", 0>>

keccakf_rotc == <<1, 3, 6, 10, 15, 21, 28, 36, 45, 55, 2, 14,
                  27, 41, 56, 8, 25, 43, 62, 18, 39, 61, 20, 44>>

keccakf_piln == <<10, 7, 11, 17, 18, 3, 5, 16, 8, 21, 24, 4,
                  15, 23, 19, 13, 12, 2, 20, 14, 22, 9, 6, 1>>

Init ==
    /\ round = 0 /\ step = "parity" /\ i = 0
    /\ st = [l \in Lanes |-> Lane(l)]
    /\ bc = [k \in Five |-> Unset] /\ t = Unset

\* The next value of i, or the next loop when n iterations are done.
Continue(n, next) ==
    IF i + 1 < n THEN i' = i + 1 /\ UNCHANGED step ELSE i' = 0 /\ step' = next

Parity ==
    /\ round < ROUNDS /\ step = "parity"
    /\ bc' = [bc EXCEPT ![i] = {st[i + 5 * k] : k \in Five}]
    /\ Continue(5, "theta")
    /\ UNCHANGED <<round, st, t>>

\* t = bc[(i + 4) % 5] ^ ROTL64(bc[(i + 1) % 5], 1), added to the column i.
Theta ==
    /\ step = "theta"
    /\ t' = <<bc[(i + 4) % 5], bc[(i + 1) % 5]>>
    /\ st' = [l \in Lanes |-> IF l % 5 = i THEN <<"theta", st[l], t'>> ELSE st[l]]
    /\ Continue(5, "first")
    /\ UNCHANGED <<round, bc>>

\* t = st[1], in front of the loop of rho and pi.
FirstLane ==
    /\ step = "first"
    /\ t' = st[1] /\ step' = "rhopi"
    /\ UNCHANGED <<round, i, st, bc>>

\* One link of the cycle of lanes; bc[0] saves the lane that is overwritten.
RhoPi ==
    /\ step = "rhopi"
    /\ LET j == keccakf_piln[i + 1]
       IN  /\ st' = [st EXCEPT ![j] = <<"rotl", t, keccakf_rotc[i + 1]>>]
           /\ bc' = [bc EXCEPT ![0] = st[j]]
    /\ t' = bc'[0]
    /\ Continue(24, "chi")
    /\ UNCHANGED round

\* A row by way of bc.
Chi ==
    /\ step = "chi"
    /\ bc' = [k \in Five |-> st[5 * i + k]]
    /\ st' = [l \in Lanes |->
                IF l \div 5 = i
                THEN <<"chi", st[l], bc'[(l + 1) % 5], bc'[(l + 2) % 5]>> ELSE st[l]]
    /\ Continue(5, "iota")
    /\ UNCHANGED <<round, t>>

\* The constant is added to lane 0; the next round starts from its result.
Iota ==
    /\ step = "iota"
    /\ st' = [l \in Lanes |-> Lane(l)]
    /\ round' = round + 1 /\ step' = "parity"
    /\ UNCHANGED <<i, bc, t>>

Next == Parity \/ Theta \/ FirstLane \/ RhoPi \/ Chi \/ Iota

Spec == Init /\ [][Next]_vars

-----------------------------------------------------------------------------
\* Reference: theta, rho, pi and chi on a 5x5 array, each step on a copy.
Column(x) == {Lane((x % 5) + 5 * k) : k \in Five}
AfterTheta(x, y) == <<"theta", Lane(x + 5 * y), <<Column(x + 4), Column(x + 1)>>>>

\* The rotations follow the walk (x, y) -> (y, 2x + 3y) from (1, 0).
Walk[n \in 0..23] ==
    IF n = 0 THEN <<1, 0>>
    ELSE LET w == Walk[n - 1] IN <<w[2], (2 * w[1] + 3 * w[2]) % 5>>
Offset(x, y) == LET n == CHOOSE n \in 0..23 : Walk[n] = <<x, y>>
                IN  (((n + 1) * (n + 2)) \div 2) % 64

\* Row y and column x of pi come from the lane (x + 3y, x).
AfterPi(x, y) ==
    LET from == (x + 3 * y) % 5
    IN  IF x = 0 /\ y = 0 THEN AfterTheta(0, 0)
        ELSE <<"rotl", AfterTheta(from, x), Offset(from, x)>>

AfterChi(x, y) ==
    <<"chi", AfterPi(x, y), AfterPi((x + 1) % 5, y), AfterPi((x + 2) % 5, y)>>

\* A round computed in place, lane by lane along one cycle, with two small
\* tables for the cycle and its rotations, is the round of the definition: no
\* lane is read after it has been overwritten.
ComputesRound ==
    step = "iota" => \A x, y \in Five : st[x + 5 * y] = AfterChi(x, y)
=============================================================================
