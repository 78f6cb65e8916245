--------------------------- MODULE Sha256Standard ---------------------------
(***************************************************************************)
(* SHA-256 as FIPS 180-4 defines it: the hash value H, the working         *)
(* variables a .. h, which move on by one place in every round, and the    *)
(* message schedule W_0 .. W_63.  One hash is computed per way, all in     *)
(* step.  The specification that the implementations are held against.     *)
(***************************************************************************)
EXTENDS Word32, SequencesExt

CONSTANT K   \* the 64 round constants

VARIABLES
    message,  \* way -> its padded message, a sequence of blocks of 16 words
    block,    \* number of the block being processed, from 1
    t,        \* rounds of this block done
    v,        \* way -> the working variables <<a, b, c, d, e, f, g, h>>
    W,        \* way -> the words of the schedule that are still needed
    H         \* way -> the hash value before this block

RotateRight(x, n) == RotateLeft(x, 32 - n)
Sum(words) == FoldLeft(Plus, <<0, 0>>, words)
Xor3(x, y, z) == BitXor(x, BitXor(y, z))

\* The words of the schedule that a round from t on still looks back to: sixteen at
\* most, and never the last two.
Needed(n) == {j \in 0..61 : n - 16 <= j /\ j < n}

\* W_t of a way.
NextWord(i) ==
    IF t < 16 THEN message[i][block][t + 1]
    ELSE LET W0 == W[i][t - 15]
             W1 == W[i][t - 2]
         IN  Sum(<<Xor3(RotateRight(W1, 17), RotateRight(W1, 19), ShiftRight(W1, 10)),
                   W[i][t - 7],
                   Xor3(RotateRight(W0, 7), RotateRight(W0, 18), ShiftRight(W0, 3)),
                   W[i][t - 16]>>)

AfterRound(u, k, w) ==
    LET S1 == Xor3(RotateRight(u[5], 6), RotateRight(u[5], 11), RotateRight(u[5], 25))
        ch == BitXor(BitAnd(u[5], u[6]), BitAnd(<<Half - 1 - u[5][1], Half - 1 - u[5][2]>>, u[7]))
        S0 == Xor3(RotateRight(u[1], 2), RotateRight(u[1], 13), RotateRight(u[1], 22))
        maj == Xor3(BitAnd(u[1], u[2]), BitAnd(u[1], u[3]), BitAnd(u[2], u[3]))
        T1 == Sum(<<u[8], S1, ch, k, w>>)
    IN  <<Sum(<<T1, S0, maj>>), u[1], u[2], u[3], Plus(u[4], T1), u[5], u[6], u[7]>>

InitialHash ==
    << <<\h6a09, \he667>>, <<\hbb67, \hae85>>, <<\h3c6e, \hf372>>, <<\ha54f, \hf53a>>,
       <<\h510e, \h527f>>, <<\h9b05, \h688c>>, <<\h1f83, \hd9ab>>, <<\h5be0, \hcd19>> >>

vars == <<message, block, t, v, W, H>>

Init ==
    /\ block = 1 /\ t = 0
    /\ H = [i \in DOMAIN message |-> InitialHash]
    /\ v = H
    /\ W = [i \in DOMAIN message |-> << >>]

Round ==
    /\ t < 64
    /\ t' = t + 1
    /\ v' = [i \in DOMAIN message |-> AfterRound(v[i], K[t + 1], NextWord(i))]
    /\ W' = [i \in DOMAIN message |->
               [j \in Needed(t + 1) |-> IF j = t THEN NextWord(i) ELSE W[i][j]]]
    /\ UNCHANGED <<message, block, H>>

EndOfBlock ==
    /\ t = 64
    /\ t' = 0 /\ block' = block + 1
    /\ H' = [i \in DOMAIN message |-> [j \in 1..8 |-> Plus(H[i][j], v[i][j])]]
    /\ v' = H'
    /\ W' = [i \in DOMAIN message |-> << >>]
    /\ UNCHANGED message

Next == Round \/ EndOfBlock

Spec == Init /\ [][Next]_vars
=============================================================================
