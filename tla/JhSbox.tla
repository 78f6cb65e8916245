------------------------------- MODULE JhSbox -------------------------------
(***************************************************************************)
(* The bit-sliced S-boxes and the linear layer of JH (SS and L of          *)
(* src/hash/monero/jh.c), for one bit position of the eight words: m0..m3  *)
(* are one nibble, m4..m7 another one, cc0 and cc1 choose their S-boxes.   *)
(***************************************************************************)
EXTENDS Integers, Sequences

VARIABLES
    in,      \* the nibbles before the round
    cc,      \* the constant bits
    m,       \* m0..m7 as m[1]..m[8]
    stage    \* what has been done: "in", "SS", "L"

vars == <<in, cc, m, stage>>

Bit == BOOLEAN
Nibble == [1..4 -> Bit]

\* The eleven assignments that SS makes to each of the nibbles, in order.
SS(x, c) ==
    LET n3 == ~x[4]
        n0 == x[1] # (~x[3] /\ c)
        temp == c # (n0 /\ x[2])
        o0 == n0 # (x[3] /\ n3)
        o3 == n3 # (~x[2] /\ x[3])
        n1 == x[2] # (o0 /\ x[3])
        n2 == x[3] # (o0 /\ ~o3)
        p0 == o0 # (n1 \/ o3)
        p3 == o3 # (n1 /\ n2)
        o1 == n1 # (temp /\ p0)
        o2 == n2 # temp
    IN  <<p0, o1, o2, p3>>

\* The nibble m4..m7 is changed first, the other one by what it has become.
L(a, b) ==
    LET d == <<b[1] # a[2], b[2] # a[3], b[3] # (a[1] # a[4]), b[4] # a[1]>>
    IN  <<a[1] # d[2], a[2] # d[3], a[3] # (d[1] # d[4]), a[4] # d[1]>> \o d

Upper(x) == SubSeq(x, 1, 4)
Lower(x) == SubSeq(x, 5, 8)

SubstituteStep ==
    /\ stage = "in"
    /\ m' = SS(Upper(m), cc[1]) \o SS(Lower(m), cc[2])
    /\ stage' = "SS"
    /\ UNCHANGED <<in, cc>>

LinearStep ==
    /\ stage = "SS"
    /\ m' = L(Upper(m), Lower(m))
    /\ stage' = "L"
    /\ UNCHANGED <<in, cc>>

Init ==
    /\ \E a, b \in Nibble : in = a \o b
    /\ cc \in Bit \X Bit
    /\ m = in /\ stage = "in"

Next == SubstituteStep \/ LinearStep

Spec == Init /\ [][Next]_vars

-----------------------------------------------------------------------------
\* Reference: the tables of S0 and S1 and the field with 16 elements.
S0 == <<9, 0, 4, 11, 13, 12, 3, 15, 1, 10, 2, 6, 7, 5, 8, 14>>
S1 == <<3, 12, 6, 13, 5, 7, 1, 9, 15, 2, 0, 4, 11, 10, 14, 8>>
Num(x) == LET b(i) == IF x[i] THEN 1 ELSE 0 IN 8 * b(1) + 4 * b(2) + 2 * b(3) + b(4)
Bits(n) == [i \in 1..4 |-> (n \div 2^(4 - i)) % 2 = 1]
Xor(x, y) == [i \in 1..4 |-> x[i] # y[i]]
Twice(x) == IF Num(x) >= 8 THEN Xor(Bits((2 * Num(x)) % 16), Bits(3)) ELSE Bits(2 * Num(x))
Sbox(x, c) == Bits((IF c THEN S1 ELSE S0)[Num(x) + 1])

\* SS computes S0 or S1 of both nibbles, whichever each of the constants chooses.
ComputesSboxes ==
    stage = "SS" =>
        m = Sbox(Upper(in), cc[1]) \o Sbox(Lower(in), cc[2])

\* L after SS is the MDS code: twice the first nibble is added to the second
\* and twice the sum to the first, in that order.
IsMDS ==
    stage = "L" =>
        LET a == Sbox(Upper(in), cc[1])
            d == Xor(Sbox(Lower(in), cc[2]), Twice(a))
        IN  m = Xor(a, Twice(d)) \o d
=============================================================================
