---------------------------- MODULE DigestProofs ----------------------------
(***************************************************************************)
(* BLAKE and its HMACs, Keccak and Skein hash the padded message, for      *)
(* every length and every way of cutting it into pieces, and for every     *)
(* size of a block.  The module begins with lemmas about sequences,        *)
(* arithmetic and induction that the three parts share.  Each part relates *)
(* a state to the message it has absorbed, shows that every operation      *)
(* keeps that relation, and ends with its theorems.                        *)
(***************************************************************************)
EXTENDS Blake256, SequenceTheorems, WellFoundedInduction, TLAPS

IsSeq(s) == Len(s) \in Nat /\ s = [i \in 1..Len(s) |-> s[i]]

-----------------------------------------------------------------------------
(* Sequences.                                                              *)
LEMMA Listed ==
  ASSUME NEW n \in Nat, NEW f, f = [i \in 1..n |-> f[i]]
  PROVE  IsSeq(f) /\ Len(f) = n
<1> DEFINE V == {f[i] : i \in 1..n}
<1>1. f \in [1..n -> V]
  OBVIOUS
<1>2. f \in Seq(V) /\ Len(f) = n
  BY <1>1
<1>. QED
  BY <1>2 DEF IsSeq

LEMMA SameSeq ==
  ASSUME NEW s, IsSeq(s), NEW t, IsSeq(t), Len(s) = Len(t), \A i \in 1..Len(s) : s[i] = t[i]
  PROVE  s = t
BY DEF IsSeq

LEMMA Appended ==
  ASSUME NEW s, IsSeq(s), NEW e
  PROVE  /\ IsSeq(Append(s, e)) /\ Len(Append(s, e)) = Len(s) + 1
         /\ \A i \in 1..Len(s) : Append(s, e)[i] = s[i]
         /\ Append(s, e)[Len(s) + 1] = e
<1> DEFINE V == {s[i] : i \in 1..Len(s)} \cup {e}
<1>1. s \in Seq(V) /\ e \in V
  <2>1. s \in [1..Len(s) -> V] /\ Len(s) \in Nat
    BY DEF IsSeq
  <2>. QED
    BY <2>1
<1>. HIDE DEF V
<1>2. /\ Append(s, e) \in Seq(V) /\ Len(Append(s, e)) = Len(s) + 1
      /\ \A i \in 1..Len(s) : Append(s, e)[i] = s[i]
      /\ Append(s, e)[Len(s) + 1] = e
  BY <1>1, AppendProperties
<1>3. Len(Append(s, e)) \in Nat /\ Append(s, e) \in [1..Len(Append(s, e)) -> V]
  BY <1>2, LenProperties
<1>. QED
  BY <1>2, <1>3 DEF IsSeq

LEMMA Joined ==
  ASSUME NEW s, IsSeq(s), NEW t, IsSeq(t)
  PROVE  /\ IsSeq(s \o t) /\ Len(s \o t) = Len(s) + Len(t)
         /\ \A i \in 1..Len(s) : (s \o t)[i] = s[i]
         /\ \A i \in 1..Len(t) : (s \o t)[Len(s) + i] = t[i]
<1> DEFINE V == {s[i] : i \in 1..Len(s)} \cup {t[i] : i \in 1..Len(t)}
<1>1. s \in Seq(V) /\ t \in Seq(V) /\ Len(s) \in Nat /\ Len(t) \in Nat
  <2>1. s \in [1..Len(s) -> V] /\ Len(s) \in Nat /\ t \in [1..Len(t) -> V] /\ Len(t) \in Nat
    BY DEF IsSeq
  <2>. QED
    BY <2>1
<1>. HIDE DEF V
<1>2. /\ s \o t \in Seq(V) /\ Len(s \o t) = Len(s) + Len(t)
      /\ \A i \in 1 .. Len(s) + Len(t) :
           (s \o t)[i] = IF i <= Len(s) THEN s[i] ELSE t[i - Len(s)]
  BY <1>1, ConcatProperties
<1>3. IsSeq(s \o t)
  <2>1. Len(s \o t) \in Nat /\ s \o t \in [1..Len(s \o t) -> V]
    BY <1>2, LenProperties
  <2>. QED
    BY <2>1 DEF IsSeq
<1>4. \A i \in 1..Len(s) : (s \o t)[i] = s[i]
  BY <1>1, <1>2
<1>5. \A i \in 1..Len(t) : (s \o t)[Len(s) + i] = t[i]
  <2> TAKE i \in 1..Len(t)
  <2>1. Len(s) + i \in 1 .. Len(s) + Len(t) /\ ~(Len(s) + i <= Len(s)) /\ (Len(s) + i) - Len(s) = i
    BY <1>1
  <2>. QED
    BY <1>2, <2>1
<1>. QED
  BY <1>2, <1>3, <1>4, <1>5

LEMMA CutOut ==
  ASSUME NEW s, IsSeq(s), NEW lo \in Nat, NEW n \in Nat, n = 0 \/ lo + n <= Len(s)
  PROVE  SubSeq(s, lo + 1, lo + n) = [k \in 1..n |-> s[lo + k]]
<1> DEFINE V == {s[i] : i \in 1..Len(s)}
<1>1. s \in Seq(V) /\ Len(s) \in Nat
  <2>1. s \in [1..Len(s) -> V] /\ Len(s) \in Nat
    BY DEF IsSeq
  <2>. HIDE DEF V
  <2>. QED
    BY <2>1
<1>. HIDE DEF V
<1>2. \A i \in lo + 1 .. lo + n : i \in 1 .. Len(s)
  BY <1>1
<1>. QED
  BY <1>1, <1>2, SubSeqProperties

-----------------------------------------------------------------------------
(* Arithmetic.                                                             *)
LEMMA Product ==
  ASSUME NEW n \in Nat, NEW b \in Nat
  PROVE  n * b \in Nat /\ (n + 1) * b = n * b + b
BY SMT

LEMMA Monotone ==
  ASSUME NEW i \in Nat, NEW n \in Nat, NEW b \in Nat, i <= n
  PROVE  i * b <= n * b
BY SMT

LEMMA Euclid ==
  ASSUME NEW n \in Nat, NEW b \in Nat, b > 0
  PROVE  n \div b \in Nat /\ n % b \in 0 .. b - 1 /\ n = (n \div b) * b + (n % b)
<1>1. n % b \in 0 .. b - 1
  BY SMT
<1>2. n \div b \in Int
  BY SMT
<1>3. n = b * (n \div b) + (n % b)
  BY SMT
<1>4. n \div b \in Nat
  BY <1>1, <1>2, <1>3, SMT
<1>. QED
  BY <1>1, <1>3, <1>4, SMT

LEMMA WholeAndRest ==
  ASSUME NEW a \in Nat, NEW b \in Nat \ {0}, NEW r \in 0 .. b - 1
  PROVE  (a * b + r) \div b = a /\ (a * b + r) % b = r
BY SMT

LEMMA SameRest ==
  ASSUME NEW m \in Nat \ {0}, NEW k \in Int, NEW y \in Int
  PROVE  (k * m + y) % m = y % m
<1> DEFINE q == y \div m
           r == y % m
<1>1. y = q * m + r /\ q \in Int /\ r \in 0 .. m - 1
  BY SMT
<1>. HIDE DEF q, r
<1>2. k * m + y = (k + q) * m + r /\ k + q \in Int
  BY <1>1, SMT
<1>3. \A a \in Int : (a * m + r) % m = r
  BY <1>1, SMT
<1>. QED
  BY <1>2, <1>3 DEF r

LEMMA RestPlus ==
  ASSUME NEW m \in Nat \ {0}, NEW v \in Int, NEW c \in Int
  PROVE  ((v % m) + c) % m = (v + c) % m
<1>1. v = (v \div m) * m + (v % m) /\ v \div m \in Int /\ v % m \in Int
  BY SMT
<1> DEFINE k == v \div m
           r == v % m
<1>. HIDE DEF k, r
<1>2. v + c = k * m + (r + c) /\ r + c \in Int /\ k \in Int
  BY <1>1 DEF k, r
<1>3. (k * m + (r + c)) % m = (r + c) % m
  BY <1>2, SameRest
<1>. QED
  BY <1>2, <1>3 DEF r

(* A set of natural numbers has a least element; hence induction.          *)
LEMMA Least ==
  ASSUME NEW T, T \subseteq Nat, T # {}
  PROVE  \E x \in T : \A y \in T : x <= y
<1> DEFINE R == OpToRel(<, Nat)
<1>1. IsWellFoundedOn(R, Nat)
  BY NatLessThanWellFounded
<1>. HIDE DEF R
<1>2. PICK x \in T : \A y \in T : ~ (<<y, x>> \in R)
  BY <1>1, WFMin
<1>3. \A y \in T : y < x => <<y, x>> \in R
  BY DEF R, OpToRel
<1>4. ASSUME NEW y \in T
      PROVE  x <= y
  <2>1. ~ (y < x)
    <3>1. y < x => <<y, x>> \in R
      BY <1>3
    <3>2. ~ (<<y, x>> \in R)
      BY <1>2
    <3>. QED
      BY <3>1, <3>2
  <2>2. x \in Nat /\ y \in Nat
    OBVIOUS
  <2>. QED
    BY <2>1, <2>2
<1>. QED
  BY <1>4

LEMMA Induction ==
  ASSUME NEW V, 0 \in V, \A k \in Nat : k \in V => k + 1 \in V
  PROVE  \A k \in Nat : k \in V
<1> SUFFICES ASSUME NEW n \in Nat, n \notin V
             PROVE  FALSE
  OBVIOUS
<1> DEFINE T == {k \in Nat : k \notin V}
<1>1. n \in T /\ T \subseteq Nat
  OBVIOUS
<1>2. PICK x \in T : \A y \in T : x <= y
  <2>. HIDE DEF T
  <2>. QED
    BY <1>1, Least
<1>3. x # 0 /\ x \in Nat /\ x \notin V
  OBVIOUS
<1>4. x - 1 \in Nat /\ x - 1 + 1 = x
  BY <1>3
<1>5. x - 1 \in T
  BY <1>3, <1>4
<1>. QED
  BY <1>2, <1>4, <1>5

-----------------------------------------------------------------------------
(***************************************************************************)
(* BLAKE.  A state that has absorbed a sequence of bytes: its blocks with  *)
(* the count of bits up to the end of each, and the rest in the buffer.    *)
(***************************************************************************)
Bits == 8 * BLOCK

Rec(h, t0, t1, bl, nu, b) ==
  [h |-> h, t0 |-> t0, t1 |-> t1, buflen |-> bl, nullt |-> nu, buf |-> b]

Low(v) == v % TMod
High(v) == (v \div TMod) % TMod

BlockAt(m, i) == [k \in 1..BLOCK |-> m[(i - 1) * BLOCK + k]]
Entry(m, i) == [blk |-> BlockAt(m, i), t |-> <<Low(Bits * i), High(Bits * i)>>]
Chain(alg, m, n) == [j \in 1 .. n + 1 |-> IF j = 1 THEN [iv |-> alg] ELSE Entry(m, j - 1)]

Mid(alg, m, n, bl, b) ==
  Rec(Chain(alg, m, n), Low(Bits * n), High(Bits * n), bl, FALSE, b)

Absorbs(s, alg, m, n, r, b) ==
  /\ IsSeq(m) /\ n \in Nat /\ r \in Nat /\ r < BLOCK /\ Len(m) = n * BLOCK + r
  /\ IsSeq(b) /\ Len(b) = BLOCK
  /\ \A k \in 1..r : b[k] = m[n * BLOCK + k]
  /\ s = Mid(alg, m, n, 8 * r, b)

Absorbed(s, alg, m) == \E n, r, b : Absorbs(s, alg, m, n, r, b)

-----------------------------------------------------------------------------
LEMMA BlakeSizes ==
  ASSUME BlakeAssumption
  PROVE  /\ BLOCK \in Nat \ {0} /\ WordBytes \in Nat /\ BLOCK > 2 * WordBytes + 1
         /\ Bits \in Nat \ {0} /\ TMod \in Nat \ {0}
         /\ \E q \in Nat \ {0} : TMod = q * Bits
<1>1. BLOCK \in Nat \ {0} /\ WordBytes \in Nat /\ BLOCK > 2 * WordBytes + 1
  BY DEF BlakeAssumption
<1>2. Bits \in Nat \ {0} /\ TMod \in Nat \ {0} /\ TMod % Bits = 0
  BY <1>1 DEF BlakeAssumption, Bits
<1> DEFINE q == TMod \div Bits
<1>. HIDE DEF Bits
<1>3. q \in Nat /\ TMod = q * Bits + 0
  BY <1>2, Euclid
<1>4. q # 0 /\ TMod = q * Bits
  <2>. HIDE DEF q
  <2>1. q * Bits \in Nat
    BY <1>2, <1>3, Product
  <2>2. TMod = q * Bits
    BY <1>3, <2>1
  <2>. QED
    BY <1>2, <1>3, <2>2
<1>. QED
  BY <1>1, <1>2, <1>3, <1>4

(* The count of whole blocks carries exactly when its low word is zero.    *)
LEMMA Carry ==
  ASSUME BlakeAssumption, NEW n \in Nat
  PROVE  /\ (Low(Bits * n) + Bits) % TMod = Low(Bits * (n + 1))
         /\ Low(Bits * (n + 1)) = 0 => (High(Bits * n) + 1) % TMod = High(Bits * (n + 1))
         /\ Low(Bits * (n + 1)) # 0 => High(Bits * n) = High(Bits * (n + 1))
<1>1. Bits \in Nat \ {0} /\ TMod \in Nat \ {0}
  BY BlakeSizes
<1>2. PICK q \in Nat \ {0} : TMod = q * Bits
  BY BlakeSizes
<1> DEFINE a == n \div q
           r == n % q
<1>3. a \in Nat /\ r \in 0 .. q - 1 /\ n = a * q + r
  BY <1>2, Euclid
<1>. HIDE DEF a, r, Bits
<1>4. /\ Bits * n \in Nat /\ Bits * (n + 1) = Bits * n + Bits
      /\ Bits * r \in Nat
      /\ Bits * n = a * TMod + Bits * r
      /\ Bits * r + Bits = Bits * (r + 1)
  BY <1>1, <1>2, <1>3, SMT
<1>5. (Low(Bits * n) + Bits) % TMod = Low(Bits * (n + 1))
  <2> DEFINE v == Bits * n
  <2>1. v \in Int /\ Bits \in Int /\ Bits * (n + 1) = v + Bits
    BY <1>1, <1>4
  <2>. HIDE DEF v
  <2>2. ((v % TMod) + Bits) % TMod = (v + Bits) % TMod
    BY <1>1, <2>1, RestPlus
  <2>. QED
    BY <2>1, <2>2 DEF v, Low
<1>6. Bits * r \in 0 .. TMod - 1
  BY <1>1, <1>2, <1>3, <1>4, SMT
<1>7. (Bits * n) \div TMod = a
  BY <1>1, <1>3, <1>4, <1>6, WholeAndRest
<1>8. CASE r + 1 < q
  <2>1. Bits * r + Bits \in 0 .. TMod - 1 /\ Bits * r + Bits # 0
    <3>1. r + 1 <= q - 1 /\ r \in Nat
      BY <1>3, <1>8
    <3>2. Bits * (r + 1) <= Bits * (q - 1) /\ Bits * (q - 1) = TMod - Bits
      BY <1>1, <1>2, <3>1, SMT
    <3>. QED
      BY <1>1, <1>4, <3>2
  <2>2. Bits * (n + 1) = a * TMod + (Bits * r + Bits)
    BY <1>1, <1>2, <1>3, <1>4, SMT
  <2>3. Low(Bits * (n + 1)) # 0 /\ (Bits * (n + 1)) \div TMod = a
    <3> DEFINE z == Bits * r + Bits
    <3>. HIDE DEF z
    <3>1. (a * TMod + z) \div TMod = a /\ (a * TMod + z) % TMod = z
      BY <1>1, <1>3, <2>1, WholeAndRest DEF z
    <3>. QED
      BY <2>1, <2>2, <3>1 DEF z, Low
  <2>. QED
    BY <1>5, <1>7, <2>3 DEF High
<1>9. CASE ~(r + 1 < q)
  <2>1. r + 1 = q
    BY <1>3, <1>9
  <2>2. Bits * (n + 1) = (a + 1) * TMod + 0 /\ a + 1 \in Nat /\ 0 \in 0 .. TMod - 1
    BY <1>1, <1>2, <1>3, <1>4, <2>1, SMT
  <2>3. Low(Bits * (n + 1)) = 0 /\ (Bits * (n + 1)) \div TMod = a + 1
    <3> DEFINE z == a + 1
    <3>1. z \in Nat /\ Bits * (n + 1) = z * TMod + 0
      BY <2>2
    <3>. HIDE DEF z
    <3>2. (z * TMod + 0) \div TMod = z /\ (z * TMod + 0) % TMod = 0
      BY <1>1, <2>2, <3>1, WholeAndRest
    <3>. QED
      BY <3>1, <3>2 DEF z, Low
  <2>4. ((a % TMod) + 1) % TMod = (a + 1) % TMod
    <3>1. a \in Int /\ 1 \in Int
      BY <1>3
    <3>. QED
      BY <1>1, <3>1, RestPlus
  <2>. QED
    BY <1>5, <1>7, <2>3, <2>4 DEF High
<1>. QED
  BY <1>8, <1>9

-----------------------------------------------------------------------------
(* States as records.                                                      *)
LEMMA RecFields ==
  ASSUME NEW h, NEW t0, NEW t1, NEW bl, NEW nu, NEW b
  PROVE  LET s == Rec(h, t0, t1, bl, nu, b)
         IN  s.h = h /\ s.t0 = t0 /\ s.t1 = t1 /\ s.buflen = bl /\ s.nullt = nu /\ s.buf = b
BY DEF Rec

LEMMA RecSet ==
  ASSUME NEW h, NEW t0, NEW t1, NEW bl, NEW nu, NEW b, NEW v
  PROVE  LET s == Rec(h, t0, t1, bl, nu, b)
         IN  /\ [s EXCEPT !.t0 = v] = Rec(h, v, t1, bl, nu, b)
             /\ [s EXCEPT !.t1 = v] = Rec(h, t0, v, bl, nu, b)
             /\ [s EXCEPT !.h = v] = Rec(v, t0, t1, bl, nu, b)
             /\ [s EXCEPT !.buflen = v] = Rec(h, t0, t1, v, nu, b)
             /\ [s EXCEPT !.nullt = v] = Rec(h, t0, t1, bl, v, b)
             /\ [s EXCEPT !.buf = v] = Rec(h, t0, t1, bl, nu, v)
BY DEF Rec

LEMMA CountRec ==
  ASSUME NEW h, NEW t0, NEW t1, NEW bl, NEW nu, NEW b, NEW c
  PROVE  LET u0 == (t0 + Bits) % TMod
             u1 == IF u0 = 0 THEN (t1 + 1) % TMod ELSE t1
         IN  CountAndCompress(Rec(h, t0, t1, bl, nu, b), c) =
               Rec(Append(h, [blk |-> c, t |-> IF nu THEN <<0, 0>> ELSE <<u0, u1>>]),
                   u0, u1, bl, nu, b)
<1> DEFINE s == Rec(h, t0, t1, bl, nu, b)
           u0 == (t0 + Bits) % TMod
           u1 == IF u0 = 0 THEN (t1 + 1) % TMod ELSE t1
           e == [blk |-> c, t |-> IF nu THEN <<0, 0>> ELSE <<u0, u1>>]
<1>1. s.h = h /\ s.t0 = t0 /\ s.t1 = t1 /\ s.nullt = nu
  BY DEF Rec
<1>2. CountAndCompress(s, c) = [s EXCEPT !.t0 = u0, !.t1 = u1, !.h = Append(h, e)]
  BY <1>1, Zenon DEF CountAndCompress, Bits
<1>. HIDE DEF u0, u1, e
<1>3. [s EXCEPT !.t0 = u0, !.t1 = u1, !.h = Append(h, e)]
        = Rec(Append(h, e), u0, u1, bl, nu, b)
  <2> DEFINE g == Append(h, e)
  <2>. HIDE DEF g
  <2>1. [s EXCEPT !.t0 = u0] = Rec(h, u0, t1, bl, nu, b)
    BY DEF Rec
  <2>2. [Rec(h, u0, t1, bl, nu, b) EXCEPT !.t1 = u1] = Rec(h, u0, u1, bl, nu, b)
    BY DEF Rec
  <2>3. [Rec(h, u0, u1, bl, nu, b) EXCEPT !.h = g] = Rec(g, u0, u1, bl, nu, b)
    BY DEF Rec
  <2>. HIDE DEF s
  <2>. QED
    BY <2>1, <2>2, <2>3 DEF g
<1>. QED
  BY <1>2, <1>3 DEF s, u0, u1, e

-----------------------------------------------------------------------------
(* Chaining values.                                                        *)
LEMMA ChainSeq ==
  ASSUME NEW alg, NEW m, NEW n \in Nat
  PROVE  /\ IsSeq(Chain(alg, m, n)) /\ Len(Chain(alg, m, n)) = n + 1
         /\ Chain(alg, m, n)[1] = [iv |-> alg]
         /\ \A j \in 2 .. n + 1 : Chain(alg, m, n)[j] = Entry(m, j - 1)
<1> DEFINE c == Chain(alg, m, n)
<1>1. c = [j \in 1 .. n + 1 |-> IF j = 1 THEN [iv |-> alg] ELSE Entry(m, j - 1)]
  BY DEF Chain
<1>. HIDE DEF c
<1>2. c = [j \in 1 .. n + 1 |-> c[j]] /\ n + 1 \in Nat
  BY <1>1
<1>3. IsSeq(c) /\ Len(c) = n + 1
  BY <1>2, Listed
<1>4. c[1] = [iv |-> alg]
  BY <1>1
<1>5. \A j \in 2 .. n + 1 : c[j] = Entry(m, j - 1)
  BY <1>1
<1>. QED
  BY <1>3, <1>4, <1>5 DEF c

LEMMA ChainNext ==
  ASSUME NEW alg, NEW m, NEW n \in Nat
  PROVE  Append(Chain(alg, m, n), Entry(m, n + 1)) = Chain(alg, m, n + 1)
<1> DEFINE c == Chain(alg, m, n)
           d == Chain(alg, m, n + 1)
           e == Entry(m, n + 1)
           a == Append(c, e)
<1>1. /\ IsSeq(c) /\ Len(c) = n + 1 /\ c[1] = [iv |-> alg]
      /\ \A j \in 2 .. n + 1 : c[j] = Entry(m, j - 1)
  BY ChainSeq
<1>2. /\ IsSeq(d) /\ Len(d) = n + 2 /\ d[1] = [iv |-> alg]
      /\ \A j \in 2 .. n + 2 : d[j] = Entry(m, j - 1)
  <2>1. n + 1 \in Nat /\ (n + 1) + 1 = n + 2
    OBVIOUS
  <2> DEFINE k == n + 1
  <2>. HIDE DEF k
  <2>2. /\ IsSeq(Chain(alg, m, k)) /\ Len(Chain(alg, m, k)) = k + 1
        /\ Chain(alg, m, k)[1] = [iv |-> alg]
        /\ \A j \in 2 .. k + 1 : Chain(alg, m, k)[j] = Entry(m, j - 1)
    BY <2>1, ChainSeq DEF k
  <2>. QED
    BY <2>1, <2>2 DEF k
<1>. HIDE DEF c, d, e
<1>3. /\ IsSeq(a) /\ Len(a) = Len(c) + 1 /\ \A i \in 1..Len(c) : a[i] = c[i]
      /\ a[Len(c) + 1] = e
  BY <1>1, Appended
<1>. HIDE DEF a
<1>4. ASSUME NEW j \in 1 .. n + 2
      PROVE  a[j] = d[j]
  <2>1. CASE j = 1
    <3>1. 1 \in 1 .. Len(c)
      BY <1>1
    <3>. QED
      BY <1>1, <1>2, <1>3, <2>1, <3>1
  <2>2. CASE j \in 2 .. n + 1
    <3>1. j \in 1..Len(c) /\ j \in 2 .. n + 2
      BY <1>1, <2>2
    <3>. QED
      BY <1>1, <1>2, <1>3, <2>2, <3>1
  <2>3. CASE j = n + 2
    <3>1. j = Len(c) + 1 /\ j - 1 = n + 1 /\ j \in 2 .. n + 2
      BY <1>1, <2>3
    <3>. QED
      BY <1>2, <1>3, <3>1 DEF e
  <2>. QED
    BY <2>1, <2>2, <2>3
<1>5. Len(a) = n + 2
  BY <1>1, <1>3
<1>6. a = d
  BY <1>2, <1>3, <1>4, <1>5, SameSeq
<1>. QED
  BY <1>6 DEF a, c, d, e

(* Only the compressed bytes matter.                                       *)
LEMMA ChainPrefix ==
  ASSUME BLOCK \in Nat \ {0}, NEW alg, NEW m, NEW e, NEW n \in Nat,
         \A k \in 1 .. n * BLOCK : m[k] = e[k]
  PROVE  Chain(alg, m, n) = Chain(alg, e, n)
<1>1. ASSUME NEW j \in 1..n
      PROVE  Entry(m, j) = Entry(e, j)
  <2>1. ASSUME NEW k \in 1..BLOCK
        PROVE  (j - 1) * BLOCK + k \in 1 .. n * BLOCK
    <3>1. j - 1 \in Nat /\ (j - 1) + 1 = j
      OBVIOUS
    <3>2. (j - 1) * BLOCK \in Nat /\ ((j - 1) + 1) * BLOCK = (j - 1) * BLOCK + BLOCK
      BY <3>1, Product
    <3>3. j * BLOCK <= n * BLOCK /\ n * BLOCK \in Nat
      BY SMT
    <3> DEFINE lo == (j - 1) * BLOCK
               hi == n * BLOCK
    <3>4. lo \in Nat /\ hi \in Nat /\ lo + BLOCK <= hi
      BY <3>1, <3>2, <3>3
    <3>. HIDE DEF lo, hi
    <3>5. lo + k \in 1..hi
      BY <3>4
    <3>. QED
      BY <3>5 DEF lo, hi
  <2>2. BlockAt(m, j) = BlockAt(e, j)
    BY <2>1 DEF BlockAt
  <2>. QED
    BY <2>2 DEF Entry
<1>2. ASSUME NEW j \in 1 .. n + 1, j # 1
      PROVE  Entry(m, j - 1) = Entry(e, j - 1)
  <2>1. j - 1 \in 1..n
    BY <1>2
  <2>. QED
    BY <1>1, <2>1
<1>. QED
  BY <1>2 DEF Chain

(* One turn of the loop of blake256_update.                                *)
LEMMA CountMid ==
  ASSUME BlakeAssumption, NEW alg, NEW m, NEW n \in Nat, NEW bl, NEW b
  PROVE  CountAndCompress(Mid(alg, m, n, bl, b), BlockAt(m, n + 1)) = Mid(alg, m, n + 1, bl, b)
<1> DEFINE h == Chain(alg, m, n)
           t0 == Low(Bits * n)
           t1 == High(Bits * n)
           c == BlockAt(m, n + 1)
           u0 == (t0 + Bits) % TMod
           u1 == IF u0 = 0 THEN (t1 + 1) % TMod ELSE t1
           no == FALSE
<1>1. CountAndCompress(Rec(h, t0, t1, bl, no, b), c)
        = Rec(Append(h, [blk |-> c, t |-> IF no THEN <<0, 0>> ELSE <<u0, u1>>]),
              u0, u1, bl, no, b)
  <2>. HIDE DEF h, t0, t1, c, no
  <2>. QED
    BY CountRec
<1>2. u0 = Low(Bits * (n + 1)) /\ u1 = High(Bits * (n + 1))
  BY Carry
<1>. HIDE DEF u0, u1, h, t0, t1
<1>3. [blk |-> c, t |-> IF no THEN <<0, 0>> ELSE <<u0, u1>>] = Entry(m, n + 1)
  BY <1>2 DEF Entry
<1>4. Append(h, Entry(m, n + 1)) = Chain(alg, m, n + 1)
  BY ChainNext DEF h
<1>. HIDE DEF c, no
<1>5. CountAndCompress(Rec(h, t0, t1, bl, no, b), c)
        = Rec(Chain(alg, m, n + 1), Low(Bits * (n + 1)), High(Bits * (n + 1)), bl, no, b)
  BY <1>1, <1>2, <1>3, <1>4
<1>. QED
  BY <1>5, Zenon DEF Mid, h, t0, t1, c, no

(* d is what follows the first p blocks of e.                              *)
Follows(e, p, d) == \A k \in 1..Len(d) : d[k] = e[p * BLOCK + k]

(* The loop.                                                               *)
LEMMA CompressMid ==
  ASSUME BlakeAssumption, NEW alg, NEW e, NEW d, IsSeq(d), NEW p \in Nat, NEW bl, NEW b,
         Follows(e, p, d), NEW n, n = p + (Len(d) \div BLOCK)
  PROVE  CompressAll(Mid(alg, e, p, bl, b), d) = Mid(alg, e, n, bl, b)
<1> DEFINE q == Len(d) \div BLOCK
<1>0. q \in Nat /\ q = Len(d) \div BLOCK /\ n = p + q
  <2> DEFINE l == Len(d)
  <2>1. l \in Nat /\ BLOCK \in Nat /\ BLOCK > 0
    BY BlakeSizes DEF IsSeq
  <2>. HIDE DEF l
  <2>2. l \div BLOCK \in Nat
    BY <2>1, Euclid
  <2>. QED
    BY <2>2 DEF l
<1>. HIDE DEF q
<1> DEFINE s == Mid(alg, e, p, bl, b)
           B(i) == SubSeq(d, (i - 1) * BLOCK + 1, i * BLOCK)
           turn[i \in 0..q] == IF i = 0 THEN s ELSE CountAndCompress(turn[i - 1], B(i))
           g == [i \in 0..q |-> Mid(alg, e, p + i, bl, b)]
<1>1. BLOCK \in Nat \ {0} /\ Len(d) \in Nat
  BY BlakeSizes DEF IsSeq
<1>2. ASSUME NEW i \in 1..q
      PROVE  B(i) = BlockAt(e, p + i)
  <2> DEFINE lo == (i - 1) * BLOCK
             hi == p * BLOCK
  <2>1. lo \in Nat /\ hi \in Nat /\ i * BLOCK = lo + BLOCK
    <3>1. i - 1 \in Nat /\ (i - 1) + 1 = i
      OBVIOUS
    <3>2. (i - 1) * BLOCK \in Nat /\ ((i - 1) + 1) * BLOCK = (i - 1) * BLOCK + BLOCK
      BY <1>1, <3>1, Product
    <3>3. p * BLOCK \in Nat
      BY <1>1, Product
    <3>. QED
      BY <3>1, <3>2, <3>3
  <2>2. ((p + i) - 1) * BLOCK = hi + lo
    BY <1>1, SMT
  <2>3. lo + BLOCK <= Len(d)
    <3>1. Len(d) = q * BLOCK + (Len(d) % BLOCK) /\ Len(d) % BLOCK \in Nat
      BY <1>0, <1>1, Euclid
    <3>2. i * BLOCK <= q * BLOCK /\ q * BLOCK \in Nat
      <4>1. i \in Nat /\ i <= q
        OBVIOUS
      <4>. QED
        BY <1>0, <1>1, <4>1, Product, Monotone
    <3>. HIDE DEF lo
    <3>. QED
      BY <1>1, <2>1, <3>1, <3>2
  <2>. HIDE DEF lo, hi
  <2>4. SubSeq(d, lo + 1, lo + BLOCK) = [k \in 1..BLOCK |-> d[lo + k]]
    BY <1>1, <2>1, <2>3, CutOut
  <2>5. ASSUME NEW k \in 1..BLOCK
        PROVE  d[lo + k] = e[hi + lo + k]
    <3>1. lo + k \in 1..Len(d) /\ hi + (lo + k) = hi + lo + k
      BY <1>1, <2>1, <2>3
    <3>. QED
      BY <3>1 DEF hi, Follows
  <2>6. BlockAt(e, p + i) = [k \in 1..BLOCK |-> e[hi + lo + k]]
    BY <2>2 DEF BlockAt
  <2>7. SubSeq(d, lo + 1, lo + BLOCK) = BlockAt(e, p + i)
    BY <2>4, <2>5, <2>6
  <2>. QED
    BY <2>1, <2>7 DEF lo
<1>3. ASSUME NEW i \in 1..q
      PROVE  g[i] = CountAndCompress(g[i - 1], B(i))
  <2>1. p + (i - 1) \in Nat /\ (p + (i - 1)) + 1 = p + i /\ i - 1 \in 0..q /\ i \in 0..q
    BY <1>0
  <2> DEFINE a == p + (i - 1)
  <2>0. a \in Nat
    BY <2>1
  <2>. HIDE DEF a
  <2>2. CountAndCompress(Mid(alg, e, a, bl, b), BlockAt(e, a + 1)) = Mid(alg, e, a + 1, bl, b)
    BY <2>0, CountMid
  <2>3. g[i - 1] = Mid(alg, e, a, bl, b) /\ g[i] = Mid(alg, e, a + 1, bl, b)
    BY <2>1 DEF a
  <2>4. B(i) = BlockAt(e, a + 1)
    BY <1>2, <2>1 DEF a
  <2>. HIDE DEF g, B
  <2>. QED
    BY <2>2, <2>3, <2>4
<1>4. g[0] = s
  BY <1>0, <1>1
<1>5. CompressAll(s, d) = turn[q]
  BY <1>0 DEF CompressAll
<1>. HIDE DEF s, B
<1>6. g = [i \in 0..q |-> IF i = 0 THEN s ELSE CountAndCompress(g[i - 1], B(i))]
  <2>1. g = [i \in 0..q |-> g[i]]
    OBVIOUS
  <2>. HIDE DEF g
  <2>2. \A i \in 0..q : g[i] = IF i = 0 THEN s ELSE CountAndCompress(g[i - 1], B(i))
    BY <1>3, <1>4
  <2>. QED
    BY <2>1, <2>2
<1>. HIDE DEF g
<1>7. turn = [i \in 0..q |-> IF i = 0 THEN s ELSE CountAndCompress(turn[i - 1], B(i))]
  BY <1>6
<1>. HIDE DEF turn
<1>8. \A i \in Nat : i \in {k \in Nat : k <= q => turn[k] = g[k]}
  <2> DEFINE V == {k \in Nat : k <= q => turn[k] = g[k]}
  <2>1. 0 \in V
    BY <1>0, <1>6, <1>7
  <2>2. ASSUME NEW k \in Nat, k \in V
        PROVE  k + 1 \in V
    <3>1. CASE k + 1 <= q
      <4>1. turn[k] = g[k] /\ k + 1 \in 0..q /\ k + 1 # 0 /\ (k + 1) - 1 = k
        BY <1>0, <2>2, <3>1
      <4>2. /\ turn[k + 1] = CountAndCompress(turn[k], B(k + 1))
            /\ g[k + 1] = CountAndCompress(g[k], B(k + 1))
        BY <1>6, <1>7, <4>1
      <4>. QED
        BY <4>1, <4>2
    <3>. QED
      BY <3>1
  <2>. HIDE DEF V
  <2>3. \A i \in Nat : i \in V
    BY <2>1, <2>2, Induction
  <2>. QED
    BY <2>3 DEF V
<1>9. turn[q] = g[q]
  BY <1>0, <1>8
<1>10. g[q] = Mid(alg, e, n, bl, b)
  BY <1>0 DEF g
<1>. QED
  BY <1>5, <1>9, <1>10 DEF s

-----------------------------------------------------------------------------
(* blake256_update.                                                        *)
LEMMA OverlayBytes ==
  ASSUME NEW b, Len(b) \in Nat, NEW at, NEW f
  PROVE  LET c == Overlay(b, at, f)
         IN  /\ IsSeq(c) /\ Len(c) = Len(b)
             /\ \A k \in 1..Len(b) :
                  c[k] = IF k > at /\ k <= at + Len(f) THEN f[k - at] ELSE b[k]
<1> DEFINE c == Overlay(b, at, f)
           n == Len(b)
<1>1. c = [k \in 1..n |-> IF k > at /\ k <= at + Len(f) THEN f[k - at] ELSE b[k]]
  BY DEF Overlay
<1>. HIDE DEF c, n
<1>2. c = [k \in 1..n |-> c[k]] /\ n \in Nat
  BY <1>1 DEF n
<1>3. IsSeq(c) /\ Len(c) = n
  BY <1>2, Listed
<1>. QED
  BY <1>1, <1>3 DEF c, n

LEMMA OverlaySized ==
  ASSUME NEW b, NEW n \in Nat, Len(b) = n, NEW at, NEW f
  PROVE  /\ IsSeq(Overlay(b, at, f)) /\ Len(Overlay(b, at, f)) = n
         /\ \A k \in 1..n :
              Overlay(b, at, f)[k] = IF k > at /\ k <= at + Len(f) THEN f[k - at] ELSE b[k]
BY OverlayBytes

Laid(c, b, n, at, f) ==
  /\ IsSeq(c) /\ Len(c) = n
  /\ \A k \in 1..n : c[k] = IF k > at /\ k <= at + Len(f) THEN f[k - at] ELSE b[k]

LEMMA OverlayLaid ==
  ASSUME NEW b, NEW n \in Nat, Len(b) = n, NEW at, NEW f
  PROVE  Laid(Overlay(b, at, f), b, n, at, f)
BY OverlaySized DEF Laid

(* The end of a sequence.                                                  *)
LEMMA FromBytes ==
  ASSUME NEW d, IsSeq(d), NEW k \in Nat, k <= Len(d)
  PROVE  /\ IsSeq(From(d, k)) /\ Len(From(d, k)) = Len(d) - k
         /\ \A i \in 1 .. Len(d) - k : From(d, k)[i] = d[k + i]
         /\ From(d, k) = <<>> <=> k = Len(d)
<1> DEFINE n == Len(d) - k
           c == From(d, k)
<1>1. n \in Nat /\ k + n = Len(d)
  BY DEF IsSeq
<1>2. SubSeq(d, k + 1, k + n) = [i \in 1..n |-> d[k + i]]
  <2>. HIDE DEF n
  <2>. QED
    BY <1>1, CutOut
<1>3. c = [i \in 1..n |-> d[k + i]]
  BY <1>1, <1>2 DEF From
<1>. HIDE DEF n, c
<1>4. c = [i \in 1..n |-> c[i]]
  BY <1>3
<1>5. IsSeq(c) /\ Len(c) = n
  BY <1>1, <1>4, Listed
<1>6. c = <<>> <=> n = 0
  <2>1. CASE n = 0
    <3>1. IsSeq(<<>>) /\ Len(<<>>) = 0
      BY DEF IsSeq
    <3>2. c = <<>>
      BY <1>5, <2>1, <3>1, SameSeq
    <3>. QED
      BY <2>1, <3>2
  <2>2. CASE n # 0
    <3>1. Len(<<>>) = 0
      OBVIOUS
    <3>. QED
      BY <1>5, <2>2, <3>1
  <2>. QED
    BY <2>1, <2>2
<1>7. n = 0 <=> k = Len(d)
  BY <1>1
<1>. QED
  BY <1>3, <1>5, <1>6, <1>7 DEF n, c

LEMMA FrontBytes ==
  ASSUME NEW d, IsSeq(d), NEW k \in Nat, k <= Len(d)
  PROVE  /\ IsSeq(SubSeq(d, 1, k)) /\ Len(SubSeq(d, 1, k)) = k
         /\ \A i \in 1..k : SubSeq(d, 1, k)[i] = d[i]
<1> DEFINE c == SubSeq(d, 1, k)
<1>1. 0 + 1 = 1 /\ 0 + k = k /\ \A i \in 1..k : 0 + i = i
  OBVIOUS
<1>2. 0 + k <= Len(d)
  BY <1>1
<1>3. SubSeq(d, 0 + 1, 0 + k) = [i \in 1..k |-> d[0 + i]]
  BY <1>2, CutOut
<1>4. c = [i \in 1..k |-> d[i]]
  BY <1>1, <1>3
<1>. HIDE DEF c
<1>5. c = [i \in 1..k |-> c[i]]
  BY <1>4
<1>6. IsSeq(c) /\ Len(c) = k
  BY <1>5, Listed
<1>. QED
  BY <1>4, <1>6 DEF c

(* Data that do not fill a block do not enter the loop.                    *)
LEMMA NoBlock ==
  ASSUME BLOCK \in Nat \ {0}, NEW s, NEW d, Len(d) \in 0 .. BLOCK - 1
  PROVE  Len(d) \div BLOCK = 0 /\ CompressAll(s, d) = s
<1> DEFINE B(i) == SubSeq(d, (i - 1) * BLOCK + 1, i * BLOCK)
           turn[i \in 0..0] == IF i = 0 THEN s ELSE CountAndCompress(turn[i - 1], B(i))
           g == [i \in 0..0 |-> s]
<1>1. Len(d) \div BLOCK = 0
  <2>1. (0 * BLOCK + Len(d)) \div BLOCK = 0 /\ 0 * BLOCK + Len(d) = Len(d)
    BY WholeAndRest
  <2>. QED
    BY <2>1
<1>2. CompressAll(s, d) = turn[0]
  BY <1>1 DEF CompressAll
<1>. HIDE DEF B
<1>3. g = [i \in 0..0 |-> IF i = 0 THEN s ELSE CountAndCompress(g[i - 1], B(i))]
  OBVIOUS
<1>. HIDE DEF g
<1>4. turn = [i \in 0..0 |-> IF i = 0 THEN s ELSE CountAndCompress(turn[i - 1], B(i))]
  BY <1>3
<1>. HIDE DEF turn
<1>5. turn[0] = s
  BY <1>4
<1>. QED
  BY <1>1, <1>2, <1>5

(* The end of blake256_update for a state and a rest.                      *)
LEMMA KeepRec ==
  ASSUME NEW s, NEW left, NEW d, NEW h, NEW t0, NEW t1, NEW bl, NEW nu, NEW b,
         CompressAll(s, d) = Rec(h, t0, t1, bl, nu, b)
  PROVE  LET rest == From(d, (Len(d) \div BLOCK) * BLOCK)
         IN  CompressAndKeep(s, left, d) =
               IF rest # <<>>
               THEN Rec(h, t0, t1, 8 * (left + Len(rest)), nu, Overlay(b, left, rest))
               ELSE Rec(h, t0, t1, 0, nu, b)
<1> DEFINE rest == From(d, (Len(d) \div BLOCK) * BLOCK)
           s1 == CompressAll(s, d)
           n == 8 * (left + Len(rest))
           o == Overlay(b, left, rest)
<1>1. s1.buf = b
  BY DEF Rec
<1>2. CompressAndKeep(s, left, d) =
        IF rest # <<>> THEN [s1 EXCEPT !.buf = o, !.buflen = n] ELSE [s1 EXCEPT !.buflen = 0]
  BY <1>1, Zenon DEF CompressAndKeep
<1>. HIDE DEF rest, n, o
<1>3. [Rec(h, t0, t1, bl, nu, b) EXCEPT !.buf = o, !.buflen = n] = Rec(h, t0, t1, n, nu, o)
  <2>1. [Rec(h, t0, t1, bl, nu, b) EXCEPT !.buf = o] = Rec(h, t0, t1, bl, nu, o)
    BY DEF Rec
  <2>2. [Rec(h, t0, t1, bl, nu, o) EXCEPT !.buflen = n] = Rec(h, t0, t1, n, nu, o)
    BY DEF Rec
  <2>. QED
    BY <2>1, <2>2
<1>4. [Rec(h, t0, t1, bl, nu, b) EXCEPT !.buflen = 0] = Rec(h, t0, t1, 0, nu, b)
  BY DEF Rec
<1>. HIDE DEF s1
<1>5. s1 = Rec(h, t0, t1, bl, nu, b)
  BY DEF s1
<1>. QED
  BY <1>2, <1>3, <1>4, <1>5, Zenon DEF rest, n, o

LEMMA UpdateCases ==
  ASSUME NEW h, NEW t0, NEW t1, NEW r \in Nat, NEW nu, NEW b, NEW d
  PROVE  LET fill == BLOCK - r
             buf == Overlay(b, r, SubSeq(d, 1, fill))
         IN  blake256_update(Rec(h, t0, t1, 8 * r, nu, b), d) =
               IF r # 0 /\ Len(d) >= fill
               THEN CompressAndKeep(CountAndCompress(Rec(h, t0, t1, 8 * r, nu, buf), buf), 0,
                                    From(d, fill))
               ELSE CompressAndKeep(Rec(h, t0, t1, 8 * r, nu, b), r, d)
<1> DEFINE s == Rec(h, t0, t1, 8 * r, nu, b)
           buf == Overlay(b, r, SubSeq(d, 1, BLOCK - r))
<1>1. s.buflen \div 8 = r /\ s.buf = b
  BY DEF Rec
<1>2. [s EXCEPT !.buf = buf] = Rec(h, t0, t1, 8 * r, nu, buf)
  <2> DEFINE v == buf
             bl == 8 * r
  <2>. HIDE DEF v, bl
  <2>1. [Rec(h, t0, t1, bl, nu, b) EXCEPT !.buf = v] = Rec(h, t0, t1, bl, nu, v)
    BY DEF Rec
  <2>. QED
    BY <2>1 DEF v, bl
<1>. HIDE DEF s
<1>3. blake256_update(s, d) =
        IF r # 0 /\ Len(d) >= BLOCK - r
        THEN CompressAndKeep(CountAndCompress([s EXCEPT !.buf = buf], buf), 0,
                             From(d, BLOCK - r))
        ELSE CompressAndKeep(s, r, d)
  BY <1>1, Zenon DEF blake256_update
<1>. QED
  BY <1>2, <1>3, Zenon DEF s

Rest(d) == From(d, (Len(d) \div BLOCK) * BLOCK)
Kept(left, d) == 8 * (left + Len(Rest(d)))

LEMMA KeepSome ==
  ASSUME NEW s, NEW left, NEW d, NEW h, NEW t0, NEW t1, NEW bl, NEW nu, NEW b,
         CompressAll(s, d) = Rec(h, t0, t1, bl, nu, b), Rest(d) # <<>>
  PROVE  CompressAndKeep(s, left, d)
           = Rec(h, t0, t1, Kept(left, d), nu, Overlay(b, left, Rest(d)))
BY KeepRec DEF Rest, Kept

LEMMA KeepNone ==
  ASSUME NEW s, NEW left, NEW d, NEW h, NEW t0, NEW t1, NEW bl, NEW nu, NEW b,
         CompressAll(s, d) = Rec(h, t0, t1, bl, nu, b), Rest(d) = <<>>
  PROVE  CompressAndKeep(s, left, d) = Rec(h, t0, t1, 0, nu, b)
BY KeepRec DEF Rest

LEMMA NotFilled ==
  ASSUME NEW h, NEW t0, NEW t1, NEW r \in Nat, NEW bl, bl = 8 * r, NEW nu, NEW b, NEW d,
         r = 0 \/ ~(Len(d) >= BLOCK - r)
  PROVE  blake256_update(Rec(h, t0, t1, bl, nu, b), d)
           = CompressAndKeep(Rec(h, t0, t1, bl, nu, b), r, d)
<1> DEFINE fill == BLOCK - r
           buf == Overlay(b, r, SubSeq(d, 1, fill))
<1>1. blake256_update(Rec(h, t0, t1, 8 * r, nu, b), d) =
        IF r # 0 /\ Len(d) >= fill
        THEN CompressAndKeep(CountAndCompress(Rec(h, t0, t1, 8 * r, nu, buf), buf), 0,
                             From(d, fill))
        ELSE CompressAndKeep(Rec(h, t0, t1, 8 * r, nu, b), r, d)
  BY UpdateCases
<1>. HIDE DEF buf
<1>. QED
  BY <1>1

LEMMA Filled ==
  ASSUME NEW h, NEW t0, NEW t1, NEW r \in Nat, NEW bl, bl = 8 * r, NEW nu, NEW b, NEW d,
         r # 0, Len(d) >= BLOCK - r, NEW c, c = Overlay(b, r, SubSeq(d, 1, BLOCK - r))
  PROVE  blake256_update(Rec(h, t0, t1, bl, nu, b), d)
           = CompressAndKeep(CountAndCompress(Rec(h, t0, t1, bl, nu, c), c), 0,
                             From(d, BLOCK - r))
<1> DEFINE fill == BLOCK - r
           buf == Overlay(b, r, SubSeq(d, 1, fill))
<1>1. blake256_update(Rec(h, t0, t1, 8 * r, nu, b), d) =
        IF r # 0 /\ Len(d) >= fill
        THEN CompressAndKeep(CountAndCompress(Rec(h, t0, t1, 8 * r, nu, buf), buf), 0,
                             From(d, fill))
        ELSE CompressAndKeep(Rec(h, t0, t1, 8 * r, nu, b), r, d)
  BY UpdateCases
<1>2. c = buf
  OBVIOUS
<1>. HIDE DEF buf
<1>. QED
  BY <1>1, <1>2

(* Data that leave room in the buffer are stored.                          *)
LEMMA UpdateShort ==
  ASSUME BlakeAssumption, NEW h, NEW t0, NEW t1, NEW r \in Nat, NEW nu, NEW b, Len(b) = BLOCK,
         NEW d, IsSeq(d), Len(d) > 0, r + Len(d) < BLOCK
  PROVE  blake256_update(Rec(h, t0, t1, 8 * r, nu, b), d)
           = Rec(h, t0, t1, 8 * (r + Len(d)), nu, Overlay(b, r, d))
<1> DEFINE bl == 8 * r
           s == Rec(h, t0, t1, bl, nu, b)
<1>0. bl = 8 * r
  OBVIOUS
<1>. HIDE DEF bl
<1>1. BLOCK \in Nat \ {0} /\ Len(d) \in Nat /\ Len(d) \in 0 .. BLOCK - 1
      /\ ~(Len(d) >= BLOCK - r)
  BY BlakeSizes DEF IsSeq
<1>2. blake256_update(s, d) = CompressAndKeep(s, r, d)
  BY <1>0, <1>1, NotFilled
<1>3. Len(d) \div BLOCK = 0 /\ CompressAll(s, d) = s
  BY <1>1, NoBlock
<1>4. Rest(d) = d
  <2>1. (Len(d) \div BLOCK) * BLOCK = 0 /\ 0 <= Len(d)
    BY <1>1, <1>3
  <2>2. Rest(d) = From(d, 0)
    BY <2>1 DEF Rest
  <2>3. /\ IsSeq(From(d, 0)) /\ Len(From(d, 0)) = Len(d) - 0
        /\ \A i \in 1 .. Len(d) - 0 : From(d, 0)[i] = d[0 + i]
    BY <2>1, FromBytes
  <2>4. Len(d) - 0 = Len(d) /\ \A i \in 1..Len(d) : 0 + i = i
    BY <1>1
  <2>5. From(d, 0) = d
    BY <2>3, <2>4, SameSeq
  <2>. QED
    BY <2>2, <2>5
<1>5. d # <<>>
  OBVIOUS
<1>6. Rest(d) # <<>>
  BY <1>4, <1>5
<1>. HIDE DEF s
<1>7. CompressAndKeep(s, r, d)
        = Rec(h, t0, t1, Kept(r, d), nu, Overlay(b, r, Rest(d)))
  <2>1. CompressAll(s, d) = Rec(h, t0, t1, bl, nu, b)
    BY <1>3 DEF s
  <2>. QED
    BY <1>6, <2>1, KeepSome
<1>. QED
  BY <1>2, <1>4, <1>7 DEF s, bl, Kept

(* Data that complete the buffer are compressed with it.                   *)
LEMMA UpdateFull ==
  ASSUME BlakeAssumption, NEW h, NEW t0, NEW t1, NEW r \in Nat, NEW nu, NEW b, Len(b) = BLOCK,
         NEW d, IsSeq(d), r # 0, Len(d) > 0, r + Len(d) = BLOCK
  PROVE  LET u0 == (t0 + Bits) % TMod
             u1 == IF u0 = 0 THEN (t1 + 1) % TMod ELSE t1
             c == Overlay(b, r, d)
         IN  blake256_update(Rec(h, t0, t1, 8 * r, nu, b), d)
               = Rec(Append(h, [blk |-> c, t |-> IF nu THEN <<0, 0>> ELSE <<u0, u1>>]),
                     u0, u1, 0, nu, c)
<1> DEFINE k == 8 * r
           s == Rec(h, t0, t1, k, nu, b)
           c == Overlay(b, r, d)
           u0 == (t0 + Bits) % TMod
           u1 == IF u0 = 0 THEN (t1 + 1) % TMod ELSE t1
           s1 == CountAndCompress(Rec(h, t0, t1, k, nu, c), c)
           g == Append(h, [blk |-> c, t |-> IF nu THEN <<0, 0>> ELSE <<u0, u1>>])
           f == From(d, BLOCK - r)
<1>1. BLOCK \in Nat \ {0} /\ Len(d) \in Nat /\ BLOCK - r = Len(d) /\ Len(d) >= BLOCK - r
      /\ 0 \in 0 .. BLOCK - 1
  BY BlakeSizes DEF IsSeq
<1>2. SubSeq(d, 1, BLOCK - r) = d
  <2>1. /\ IsSeq(SubSeq(d, 1, Len(d))) /\ Len(SubSeq(d, 1, Len(d))) = Len(d)
        /\ \A i \in 1..Len(d) : SubSeq(d, 1, Len(d))[i] = d[i]
    BY <1>1, FrontBytes
  <2>. QED
    BY <1>1, <2>1, SameSeq
<1>3. blake256_update(s, d) = CompressAndKeep(s1, 0, f)
  <2>1. k = 8 * r /\ c = Overlay(b, r, SubSeq(d, 1, BLOCK - r))
    BY <1>2
  <2>. HIDE DEF k, c
  <2>. QED
    BY <1>1, <2>1, Filled
<1>4. f = <<>> /\ Len(f) = 0
  <2>1. From(d, Len(d)) = <<>>
    BY <1>1, FromBytes
  <2>. QED
    BY <1>1, <2>1
<1>5. s1 = Rec(g, u0, u1, k, nu, c)
  <2>. HIDE DEF c, k
  <2>. QED
    BY CountRec
<1>. HIDE DEF f, s1, g, u0, u1, c, s, k
<1>6. Len(f) \div BLOCK = 0 /\ CompressAll(s1, f) = s1
  <2>1. Len(f) \in 0 .. BLOCK - 1
    BY <1>1, <1>4
  <2>. QED
    BY <1>1, <2>1, NoBlock
<1>7. Rest(f) = <<>>
  <2>1. (Len(f) \div BLOCK) * BLOCK = 0 /\ 0 <= Len(f)
    BY <1>1, <1>4, <1>6
  <2>2. IsSeq(f)
    BY <1>4 DEF IsSeq
  <2>3. From(f, 0) = <<>>
    BY <1>4, <2>2, FromBytes
  <2>. QED
    BY <2>1, <2>3 DEF Rest
<1>8. CompressAll(s1, f) = Rec(g, u0, u1, k, nu, c)
  BY <1>5, <1>6
<1>9. CompressAndKeep(s1, 0, f) = Rec(g, u0, u1, 0, nu, c)
  BY <1>7, <1>8, KeepNone
<1>. QED
  BY <1>3, <1>9, Zenon DEF g, u0, u1, c, s, k

(* The whole blocks of the data are compressed, the rest is kept.          *)
LEMMA KeepAbsorbs ==
  ASSUME BlakeAssumption, NEW alg, NEW e, IsSeq(e), NEW d, IsSeq(d), NEW p \in Nat,
         Len(e) = p * BLOCK + Len(d), Follows(e, p, d),
         NEW bl, NEW b, IsSeq(b), Len(b) = BLOCK
  PROVE  Absorbed(CompressAndKeep(Mid(alg, e, p, bl, b), 0, d), alg, e)
<1> DEFINE q == Len(d) \div BLOCK
           r == Len(d) % BLOCK
           s == Mid(alg, e, p, bl, b)
           h == Chain(alg, e, p + q)
           t0 == Low(Bits * (p + q))
           t1 == High(Bits * (p + q))
           f == Rest(d)
           no == FALSE
<1>1. BLOCK \in Nat \ {0} /\ Len(d) \in Nat /\ Len(b) \in Nat
  BY BlakeSizes DEF IsSeq
<1>2. q \in Nat /\ r \in 0 .. BLOCK - 1 /\ Len(d) = q * BLOCK + r
  <2> DEFINE l == Len(d)
  <2>1. l \in Nat /\ BLOCK \in Nat /\ BLOCK > 0
    BY <1>1
  <2>. HIDE DEF l
  <2>2. l \div BLOCK \in Nat /\ l % BLOCK \in 0 .. BLOCK - 1
        /\ l = (l \div BLOCK) * BLOCK + (l % BLOCK)
    BY <2>1, Euclid
  <2>. QED
    BY <2>2 DEF l
<1>3. CompressAll(s, d) = Mid(alg, e, p + q, bl, b)
  <2> DEFINE n == p + q
  <2>1. n = p + (Len(d) \div BLOCK)
    OBVIOUS
  <2>. HIDE DEF n, s
  <2>2. CompressAll(Mid(alg, e, p, bl, b), d) = Mid(alg, e, n, bl, b)
    BY <2>1, CompressMid
  <2>. QED
    BY <2>2 DEF n, s
<1>4. CompressAll(s, d) = Rec(h, t0, t1, bl, no, b)
  BY <1>3 DEF Mid
<1>5. /\ q * BLOCK \in Nat /\ p * BLOCK \in Nat /\ p + q \in Nat
      /\ (p + q) * BLOCK = p * BLOCK + q * BLOCK
      /\ q * BLOCK <= Len(d) /\ Len(d) - q * BLOCK = r
  <2>1. q * BLOCK \in Nat /\ p * BLOCK \in Nat
    BY <1>1, <1>2, Product
  <2>2. (p + q) * BLOCK = p * BLOCK + q * BLOCK /\ p + q \in Nat
    BY <1>1, <1>2, SMT
  <2> DEFINE z == q * BLOCK
  <2>3. z \in Nat /\ Len(d) = z + r
    BY <1>2, <2>1
  <2>. HIDE DEF z, r
  <2>4. z <= Len(d) /\ Len(d) - z = r
    BY <1>1, <1>2, <2>3
  <2>. QED
    BY <2>1, <2>2, <2>4 DEF z
<1>6. /\ IsSeq(f) /\ Len(f) = r /\ \A i \in 1..r : f[i] = d[q * BLOCK + i]
      /\ f = <<>> <=> r = 0
  <2> DEFINE z == q * BLOCK
  <2>1. z \in Nat /\ z <= Len(d) /\ Len(d) - z = r /\ f = From(d, z)
    BY <1>5 DEF Rest
  <2>. HIDE DEF z, f, q
  <2>2. /\ IsSeq(From(d, z)) /\ Len(From(d, z)) = Len(d) - z
        /\ \A i \in 1 .. Len(d) - z : From(d, z)[i] = d[z + i]
        /\ From(d, z) = <<>> <=> z = Len(d)
    BY <2>1, FromBytes
  <2>3. z = Len(d) <=> r = 0
    BY <1>1, <2>1
  <2>. HIDE DEF r
  <2>. QED
    BY <2>1, <2>2, <2>3 DEF z
<1>7. Len(e) = (p + q) * BLOCK + r
  <2> DEFINE z == q * BLOCK
             y == p * BLOCK
  <2>1. z \in Nat /\ y \in Nat /\ Len(d) = z + r /\ Len(e) = y + Len(d) /\ (p + q) * BLOCK = y + z
    BY <1>2, <1>5
  <2>. HIDE DEF z, y, r
  <2>. QED
    BY <1>2, <2>1
<1>8. ASSUME NEW i \in 1..r
      PROVE  f[i] = e[(p + q) * BLOCK + i]
  <2> DEFINE z == q * BLOCK
             y == p * BLOCK
  <2>1. z \in Nat /\ y \in Nat /\ Len(d) = z + r /\ (p + q) * BLOCK = y + z
    BY <1>2, <1>5
  <2>2. f[i] = d[z + i]
    BY <1>6
  <2>3. \A k \in 1..Len(d) : d[k] = e[y + k]
    BY DEF Follows
  <2>. HIDE DEF z, y, r, f
  <2>4. z + i \in 1..Len(d) /\ y + (z + i) = (y + z) + i
    BY <1>1, <1>2, <2>1
  <2>. QED
    BY <2>1, <2>2, <2>3, <2>4
<1>. HIDE DEF q, r, f
<1>9. CASE r = 0
  <2>1. CompressAndKeep(s, 0, d) = Rec(h, t0, t1, 0, no, b)
    <3>1. Rest(d) = <<>>
      BY <1>6, <1>9 DEF f
    <3>. HIDE DEF h, t0, t1, s, no
    <3>. QED
      BY <1>4, <3>1, KeepNone
  <2>2. CompressAndKeep(s, 0, d) = Mid(alg, e, p + q, 8 * 0, b)
    <3>1. 8 * 0 = 0
      OBVIOUS
    <3>. QED
      BY <2>1, <3>1, Zenon DEF Mid
  <2>3. Absorbs(CompressAndKeep(s, 0, d), alg, e, p + q, 0, b)
    <3>. HIDE DEF s
    <3>. QED
      BY <1>1, <1>5, <1>7, <1>9, <2>2 DEF Absorbs
  <2>. QED
    BY <2>3 DEF Absorbed
<1>10. CASE r # 0
  <2> DEFINE c == Overlay(b, 0, f)
  <2>1. CompressAndKeep(s, 0, d) = Rec(h, t0, t1, Kept(0, d), no, Overlay(b, 0, Rest(d)))
    <3>1. Rest(d) # <<>>
      BY <1>6, <1>10 DEF f
    <3>. HIDE DEF h, t0, t1, s, no
    <3>. QED
      BY <1>4, <3>1, KeepSome
  <2>2. Kept(0, d) = 8 * r
    <3>1. Len(Rest(d)) = r /\ 0 + r = r
      BY <1>2, <1>6 DEF f
    <3>. QED
      BY <3>1 DEF Kept
  <2>3. CompressAndKeep(s, 0, d) = Mid(alg, e, p + q, 8 * r, c)
    BY <2>1, <2>2, Zenon DEF Mid, f
  <2>4. /\ IsSeq(c) /\ Len(c) = BLOCK
        /\ \A k \in 1..BLOCK : c[k] = IF k > 0 /\ k <= 0 + Len(f) THEN f[k - 0] ELSE b[k]
    BY <1>1, OverlaySized
  <2>. HIDE DEF c
  <2>5. ASSUME NEW k \in 1..r
        PROVE  c[k] = e[(p + q) * BLOCK + k]
    <3>1. k \in 1..BLOCK /\ k > 0 /\ k <= 0 + Len(f) /\ k - 0 = k
      BY <1>1, <1>2, <1>6
    <3>2. c[k] = f[k]
      BY <2>4, <3>1
    <3>. QED
      BY <1>8, <3>2
  <2>6. Absorbs(CompressAndKeep(s, 0, d), alg, e, p + q, r, c)
    <3>. HIDE DEF s
    <3>1. r \in Nat /\ r < BLOCK
      BY <1>1, <1>2
    <3>. QED
      BY <1>5, <1>7, <2>3, <2>4, <2>5, <3>1 DEF Absorbs
  <2>. QED
    BY <2>6 DEF Absorbed
<1>. QED
  BY <1>9, <1>10

(* blake256_update appends its data to what has been absorbed.             *)
LEMMA UpdateAbsorbs ==
  ASSUME BlakeAssumption, NEW s, NEW alg, NEW m, Absorbed(s, alg, m), NEW d, IsSeq(d), Len(d) > 0
  PROVE  Absorbed(blake256_update(s, d), alg, m \o d)
<1>1. PICK n, r, b : Absorbs(s, alg, m, n, r, b)
  BY DEF Absorbed
<1> DEFINE e == m \o d
           bl == 8 * r
           y == n * BLOCK
           h == Chain(alg, e, n)
           t0 == Low(Bits * n)
           t1 == High(Bits * n)
           no == FALSE
<1>2. /\ BLOCK \in Nat \ {0} /\ Len(d) \in Nat /\ n \in Nat /\ r \in Nat /\ r < BLOCK
      /\ IsSeq(m) /\ IsSeq(b) /\ Len(b) = BLOCK /\ Len(b) \in Nat
  BY <1>1, BlakeSizes DEF IsSeq, Absorbs
<1>3. y \in Nat /\ (n + 1) * BLOCK = y + BLOCK /\ Len(m) = y + r
      /\ \A k \in 1..r : b[k] = m[y + k]
  BY <1>1, <1>2, Product DEF Absorbs
<1>4. /\ IsSeq(e) /\ Len(e) = Len(m) + Len(d)
      /\ \A i \in 1..Len(m) : e[i] = m[i]
      /\ \A i \in 1..Len(d) : e[Len(m) + i] = d[i]
  BY <1>2, Joined
<1>. HIDE DEF e
<1>5. s = Mid(alg, e, n, bl, b)
  <2>1. ASSUME NEW k \in 1 .. n * BLOCK
        PROVE  m[k] = e[k]
    <3>1. k \in 1..y
      OBVIOUS
    <3>. HIDE DEF y
    <3>2. k \in 1..Len(m)
      BY <1>2, <1>3, <3>1
    <3>. QED
      BY <1>4, <3>2
  <2>2. Chain(alg, m, n) = Chain(alg, e, n)
    BY <1>2, <2>1, ChainPrefix
  <2>. QED
    BY <1>1, <2>2, Zenon DEF Absorbs, Mid, bl
<1>6. s = Rec(h, t0, t1, bl, no, b) /\ bl = 8 * r
  BY <1>5, Zenon DEF Mid
<1>. HIDE DEF bl, h, t0, t1, y, no
<1>7. CASE r = 0
  <2>1. blake256_update(s, d) = CompressAndKeep(s, r, d)
    BY <1>2, <1>6, <1>7, NotFilled
  <2>2. Len(e) = n * BLOCK + Len(d) /\ Follows(e, n, d)
    <3>1. Len(m) = y
      BY <1>3, <1>7
    <3>. QED
      BY <1>4, <3>1 DEF y, Follows
  <2>3. Absorbed(CompressAndKeep(Mid(alg, e, n, bl, b), 0, d), alg, e)
    BY <1>2, <1>4, <2>2, KeepAbsorbs
  <2>. QED
    BY <1>5, <1>7, <2>1, <2>3 DEF e
<1>8. CASE r # 0 /\ ~(Len(d) >= BLOCK - r)
  <2> DEFINE c == Overlay(b, r, d)
             u == r + Len(d)
  <2>1. u \in Nat /\ u < BLOCK
    BY <1>2, <1>8
  <2>2. blake256_update(s, d) = Rec(h, t0, t1, 8 * (r + Len(d)), no, c)
    <3>1. s = Rec(h, t0, t1, 8 * r, no, b)
      BY <1>6
    <3>. HIDE DEF c
    <3>. QED
      BY <1>2, <2>1, <3>1, UpdateShort DEF c
  <2>3. blake256_update(s, d) = Mid(alg, e, n, 8 * u, c)
    BY <2>2, Zenon DEF Mid, h, t0, t1, no
  <2>4. /\ IsSeq(c) /\ Len(c) = BLOCK
        /\ \A k \in 1..BLOCK : c[k] = IF k > r /\ k <= r + Len(d) THEN d[k - r] ELSE b[k]
    BY SMTT(60), <1>2, OverlaySized
  <2>. HIDE DEF c
  <2>5. ASSUME NEW k \in 1..u
        PROVE  c[k] = e[y + k]
    <3>1. k \in 1..BLOCK
      BY <1>2, <2>1
    <3>2. CASE k <= r
      <4>1. k \in 1..r /\ ~(k > r) /\ y + k \in 1..Len(m)
        BY <1>2, <1>3, <3>2
      <4>2. c[k] = b[k]
        BY <2>4, <3>1, <4>1
      <4>3. b[k] = m[y + k] /\ e[y + k] = m[y + k]
        BY <1>3, <1>4, <4>1
      <4>. QED
        BY <4>2, <4>3
    <3>3. CASE k > r
      <4>1. k - r \in 1..Len(d) /\ k <= r + Len(d) /\ Len(m) + (k - r) = y + k
        BY <1>2, <1>3, <3>3
      <4>2. c[k] = d[k - r]
        BY <2>4, <3>1, <3>3, <4>1
      <4>3. e[Len(m) + (k - r)] = d[k - r]
        BY <1>4, <4>1
      <4>. QED
        BY <4>1, <4>2, <4>3
    <3>. QED
      BY <1>2, <2>1, <3>2, <3>3
  <2>6. Len(e) = y + u
    BY <1>2, <1>3, <1>4
  <2>. HIDE DEF u
  <2>7. Absorbs(blake256_update(s, d), alg, e, n, u, c)
    BY <1>2, <1>4, <2>1, <2>3, <2>4, <2>5, <2>6 DEF Absorbs, y
  <2>. QED
    BY <2>7 DEF Absorbed, e
<1>9. CASE r # 0 /\ Len(d) >= BLOCK - r
  <2> DEFINE fill == BLOCK - r
             a == SubSeq(d, 1, fill)
             c == Overlay(b, r, a)
             f == From(d, fill)
  <2>1. fill \in Nat /\ fill <= Len(d) /\ r + fill = BLOCK
    BY <1>2, <1>9
  <2>. HIDE DEF fill
  <2>2. IsSeq(a) /\ Len(a) = fill /\ \A i \in 1..fill : a[i] = d[i]
    BY <2>1, FrontBytes
  <2>3. IsSeq(f) /\ Len(f) = Len(d) - fill /\ \A i \in 1 .. Len(d) - fill : f[i] = d[fill + i]
    BY <2>1, FromBytes
  <2>4. /\ IsSeq(c) /\ Len(c) = BLOCK
        /\ \A k \in 1..BLOCK : c[k] = IF k > r /\ k <= r + Len(a) THEN a[k - r] ELSE b[k]
    <3>. HIDE DEF a
    <3>. QED
      BY <1>2, OverlaySized
  <2>5. blake256_update(s, d)
          = CompressAndKeep(CountAndCompress(Rec(h, t0, t1, bl, no, c), c), 0, f)
    <3>1. c = Overlay(b, r, SubSeq(d, 1, BLOCK - r)) /\ f = From(d, BLOCK - r)
      BY DEF fill
    <3>. HIDE DEF c, f
    <3>. QED
      BY <1>2, <1>6, <1>9, <3>1, Filled
  <2>. HIDE DEF a, c, f
  <2>6. ASSUME NEW k \in 1..BLOCK
        PROVE  c[k] = e[y + k]
    <3>1. CASE k <= r
      <4>1. k \in 1..r /\ ~(k > r) /\ y + k \in 1..Len(m)
        BY <1>2, <1>3, <3>1
      <4>2. c[k] = b[k]
        BY <2>4, <4>1
      <4>3. b[k] = m[y + k] /\ e[y + k] = m[y + k]
        BY <1>3, <1>4, <4>1
      <4>. QED
        BY <4>2, <4>3
    <3>2. CASE k > r
      <4>1. k - r \in 1..fill /\ k - r \in 1..Len(d) /\ k <= r + Len(a)
            /\ Len(m) + (k - r) = y + k
        BY <1>2, <1>3, <2>1, <2>2, <3>2
      <4>2. c[k] = a[k - r] /\ a[k - r] = d[k - r]
        BY <2>2, <2>4, <3>2, <4>1
      <4>3. e[Len(m) + (k - r)] = d[k - r]
        BY <1>4, <4>1
      <4>. QED
        BY <4>1, <4>2, <4>3
    <3>. QED
      BY <1>2, <3>1, <3>2
  <2>7. c = BlockAt(e, n + 1)
    <3>1. (n + 1) - 1 = n
      BY <1>2
    <3>2. BlockAt(e, n + 1) = [k \in 1..BLOCK |-> e[y + k]]
      BY <3>1 DEF BlockAt, y
    <3>. QED
      BY <2>4, <2>6, <3>2 DEF IsSeq
  <2>8. CountAndCompress(Rec(h, t0, t1, bl, no, c), c) = Mid(alg, e, n + 1, bl, c)
    <3>1. CountAndCompress(Mid(alg, e, n, bl, c), BlockAt(e, n + 1)) = Mid(alg, e, n + 1, bl, c)
      BY <1>2, CountMid
    <3>2. Rec(h, t0, t1, bl, no, c) = Mid(alg, e, n, bl, c)
      BY Zenon DEF Mid, h, t0, t1, no
    <3>. QED
      BY <2>7, <3>1, <3>2
  <2>9. Len(e) = (n + 1) * BLOCK + Len(f)
    <3> DEFINE z == (n + 1) * BLOCK
    <3>1. z = y + BLOCK /\ Len(m) = y + r /\ y \in Nat /\ Len(e) = Len(m) + Len(d)
          /\ Len(f) = Len(d) - fill /\ r + fill = BLOCK
      BY <1>3, <1>4, <2>1, <2>3
    <3>. HIDE DEF z
    <3>2. Len(e) = z + Len(f)
      BY <1>2, <2>1, <3>1
    <3>. QED
      BY <3>2 DEF z
  <2>10. ASSUME NEW k \in 1..Len(f)
         PROVE  f[k] = e[(n + 1) * BLOCK + k]
    <3>1. k \in 1 .. Len(d) - fill /\ fill + k \in 1..Len(d)
          /\ Len(m) + (fill + k) = (n + 1) * BLOCK + k
      BY <1>2, <1>3, <2>1, <2>3
    <3>2. f[k] = d[fill + k] /\ e[Len(m) + (fill + k)] = d[fill + k]
      BY <1>4, <2>3, <3>1
    <3>. QED
      BY <3>1, <3>2
  <2>11. Absorbed(CompressAndKeep(Mid(alg, e, n + 1, bl, c), 0, f), alg, e)
    <3> DEFINE p == n + 1
    <3>1. p \in Nat /\ Len(e) = p * BLOCK + Len(f) /\ Follows(e, p, f)
      BY <1>2, <2>9, <2>10 DEF Follows
    <3>. HIDE DEF p
    <3>2. Absorbed(CompressAndKeep(Mid(alg, e, p, bl, c), 0, f), alg, e)
      BY <1>4, <2>3, <2>4, <3>1, KeepAbsorbs
    <3>. QED
      BY <3>2 DEF p
  <2>. QED
    BY <2>5, <2>8, <2>11 DEF e
<1>. QED
  BY <1>7, <1>8, <1>9

-----------------------------------------------------------------------------
(* blake256_final_h.  Bytes in front of the last padding byte, the count   *)
(* behind a block and the bytes of the length.                             *)
Ahead == BLOCK - LengthBytes - 1
Up0(u) == (u + Bits) % TMod
Up1(u, v) == IF Up0(u) = 0 THEN (v + 1) % TMod ELSE v
Stamp(nu, u, v) == IF nu THEN <<0, 0>> ELSE <<u, v>>

LEMMA FinalSizes ==
  ASSUME BlakeAssumption
  PROVE  /\ BLOCK \in Nat \ {0} /\ LengthBytes \in Nat \ {0} /\ Ahead \in Nat \ {0}
         /\ Ahead + 1 + LengthBytes = BLOCK /\ Room = 8 * Ahead
         /\ Bits = 8 * Ahead + 8 + 8 * LengthBytes
<1>1. /\ BLOCK \in Nat /\ WordBytes \in Nat \ {0} /\ BLOCK > 2 * WordBytes + 1
  BY DEF BlakeAssumption
<1>2. LengthBytes \in Nat \ {0} /\ BLOCK > LengthBytes + 1
  BY <1>1 DEF LengthBytes
<1>. QED
  BY <1>1, <1>2 DEF Ahead, Room, Bits

LEMMA BackRec ==
  ASSUME NEW h, NEW t0, NEW t1, NEW bl, NEW nu, NEW b, NEW k
  PROVE  Back(Rec(h, t0, t1, bl, nu, b), k) = Rec(h, (t0 - k) % TMod, t1, bl, nu, b)
<1> DEFINE v == (t0 - k) % TMod
<1>1. Rec(h, t0, t1, bl, nu, b).t0 = t0
  BY DEF Rec
<1>2. Back(Rec(h, t0, t1, bl, nu, b), k) = [Rec(h, t0, t1, bl, nu, b) EXCEPT !.t0 = v]
  BY <1>1, Zenon DEF Back
<1>. HIDE DEF v
<1>3. [Rec(h, t0, t1, bl, nu, b) EXCEPT !.t0 = v] = Rec(h, v, t1, bl, nu, b)
  BY DEF Rec
<1>. QED
  BY <1>2, <1>3 DEF v

(* The length of n blocks and r bytes, in two words.                       *)
LEMMA LengthInWords ==
  ASSUME BlakeAssumption, NEW n \in Nat, NEW r \in Nat, r < BLOCK
  PROVE  LET t0 == Low(Bits * n)
             v == Bits * n + 8 * r
         IN  /\ t0 \in Nat /\ v \in Nat
             /\ (t0 + 8 * r) % TMod = Low(v) /\ High(Bits * n) = High(v)
             /\ Low(v) >= 8 * r
<1>1. Bits \in Nat \ {0} /\ TMod \in Nat \ {0} /\ 8 * r \in Nat /\ 8 * r < Bits
  BY BlakeSizes DEF Bits
<1>2. PICK q \in Nat \ {0} : TMod = q * Bits
  BY BlakeSizes
<1> DEFINE a == n \div q
           z == n % q
           x == 8 * r
<1>3. a \in Nat /\ z \in 0 .. q - 1 /\ n = a * q + z
  BY <1>2, Euclid
<1>. HIDE DEF a, z, Bits, x
<1>4. /\ Bits * n \in Nat /\ Bits * z \in Nat
      /\ Bits * n = a * TMod + Bits * z
      /\ Bits * z <= Bits * (q - 1) /\ Bits * (q - 1) = TMod - Bits
  <2>1. Bits * n \in Nat /\ Bits * z \in Nat
    BY <1>1, <1>3, SMT
  <2>2. Bits * n = a * TMod + Bits * z
    BY <1>1, <1>2, <1>3, SMT
  <2>3. Bits * z <= Bits * (q - 1)
    BY <1>1, <1>2, <1>3, SMT
  <2>4. Bits * (q - 1) = TMod - Bits
    BY <1>1, <1>2, SMT
  <2>. QED
    BY <2>1, <2>2, <2>3, <2>4
<1> DEFINE w == Bits * z
           u == Bits * n
           at == a * TMod
<1>5. /\ w \in Nat /\ u \in Nat /\ u = at + w /\ w <= TMod - Bits
      /\ x \in Nat /\ x < Bits /\ at \in Nat
  <2>1. at \in Nat
    BY <1>1, <1>3, Product
  <2>2. Bits * z \in Int /\ Bits * (q - 1) \in Int
    BY <1>1, <1>2, <1>4
  <2>3. w <= TMod - Bits
    BY <1>1, <1>4, <2>2
  <2>. QED
    BY <1>1, <1>4, <2>1, <2>3 DEF x
<1>. HIDE DEF w, u
<1>6. w \in 0 .. TMod - 1 /\ w + x \in 0 .. TMod - 1 /\ u + x = at + (w + x) /\ w + x >= x
  <2>. HIDE DEF at
  <2>. QED
    BY <1>1, <1>5
<1>7. u \div TMod = a /\ u % TMod = w
  <2>1. (a * TMod + w) \div TMod = a /\ (a * TMod + w) % TMod = w
    BY ZenonT(60), <1>1, <1>3, <1>6, WholeAndRest
  <2>. QED
    BY <1>5, <2>1
<1>8. (u + x) \div TMod = a /\ (u + x) % TMod = w + x
  <2> DEFINE y == w + x
  <2>1. y \in 0 .. TMod - 1 /\ u + x = a * TMod + y
    BY <1>6
  <2>. HIDE DEF y
  <2>2. (a * TMod + y) \div TMod = a /\ (a * TMod + y) % TMod = y
    BY <1>1, <1>3, <2>1, WholeAndRest
  <2>. QED
    BY <2>1, <2>2 DEF y
<1>9. (w + x) % TMod = w + x
  <2> DEFINE y == w + x
  <2>1. y \in 0 .. TMod - 1
    BY <1>6
  <2>. HIDE DEF y
  <2>2. y % TMod = y
    <3>1. (0 * TMod + y) % TMod = y /\ 0 * TMod + y = y
      BY <1>1, <2>1, WholeAndRest
    <3>. QED
      BY <3>1
  <2>. QED
    BY <2>2 DEF y
<1>10. /\ Low(u) \in Nat /\ u + x \in Nat /\ (Low(u) + x) % TMod = Low(u + x)
       /\ High(u) = High(u + x) /\ Low(u + x) >= x
  BY <1>5, <1>6, <1>7, <1>8, <1>9 DEF Low, High
<1>. QED
  BY <1>10 DEF u, x

LEMMA FieldBytes ==
  ASSUME BlakeAssumption, NEW v
  PROVE  IsSeq(LengthField(v)) /\ Len(LengthField(v)) = LengthBytes
<1> DEFINE a == U32TO8(High(v))
           c == U32TO8(Low(v))
<1>1. WordBytes \in Nat
  BY DEF BlakeAssumption
<1>2. a = [i \in 1..WordBytes |-> a[i]] /\ c = [i \in 1..WordBytes |-> c[i]]
  BY DEF U32TO8
<1>3. LengthField(v) = a \o c
  BY DEF LengthField, High, Low
<1>. HIDE DEF a, c
<1>4. IsSeq(a) /\ Len(a) = WordBytes
  BY <1>1, <1>2, Listed
<1>5. IsSeq(c) /\ Len(c) = WordBytes
  BY <1>1, <1>2, Listed
<1>6. IsSeq(a \o c) /\ Len(a \o c) = WordBytes + WordBytes
  <2>1. IsSeq(a) /\ Len(a) = WordBytes /\ IsSeq(c) /\ Len(c) = WordBytes
    BY <1>4, <1>5
  <2>. QED
    BY <2>1, Joined
<1>7. LengthBytes = WordBytes + WordBytes
  BY <1>1 DEF LengthBytes
<1>. QED
  BY <1>3, <1>6, <1>7

(* Bytes of the array padding.                                             *)
LEMMA PaddingBytes ==
  ASSUME BlakeAssumption, NEW lo \in Nat, NEW n \in Nat, lo + n <= BLOCK
  PROVE  LET d == SubSeq(padding, lo + 1, lo + n)
         IN  /\ IsSeq(d) /\ Len(d) = n
             /\ \A i \in 1..n : d[i] = IF lo + i = 1 THEN End(0, 0) ELSE Num(0)
<1> DEFINE one == <<End(0, 0)>>
           z == Zeros(BLOCK - 1)
           d == SubSeq(padding, lo + 1, lo + n)
           zero == Num(0)
<1>1. BLOCK \in Nat \ {0} /\ BLOCK - 1 \in Nat
  BY BlakeSizes
<1>2. IsSeq(one) /\ Len(one) = 1 /\ one[1] = End(0, 0)
  BY DEF IsSeq
<1>3. IsSeq(z) /\ Len(z) = BLOCK - 1 /\ \A i \in 1 .. BLOCK - 1 : z[i] = zero
  <2>1. z = [i \in 1 .. BLOCK - 1 |-> z[i]] /\ \A i \in 1 .. BLOCK - 1 : z[i] = zero
    BY DEF Zeros
  <2>. HIDE DEF z, zero
  <2>. QED
    BY <1>1, <2>1, Listed
<1>4. padding = one \o z
  BY DEF padding
<1>. HIDE DEF one, z, zero
<1>5. /\ IsSeq(padding) /\ Len(padding) = 1 + (BLOCK - 1)
      /\ \A i \in 1..1 : padding[i] = one[i]
      /\ \A i \in 1 .. BLOCK - 1 : padding[1 + i] = z[i]
  <2>1. /\ IsSeq(one \o z) /\ Len(one \o z) = Len(one) + Len(z)
        /\ \A i \in 1..Len(one) : (one \o z)[i] = one[i]
        /\ \A i \in 1..Len(z) : (one \o z)[Len(one) + i] = z[i]
    <3>1. IsSeq(one) /\ IsSeq(z)
      BY <1>2, <1>3
    <3>. QED
      BY <3>1, Joined
  <2>. QED
    BY <1>2, <1>3, <1>4, <2>1
<1>6. ASSUME NEW i \in 1..BLOCK
      PROVE  padding[i] = IF i = 1 THEN End(0, 0) ELSE zero
  <2>1. CASE i = 1
    <3>1. 1 \in 1..1
      OBVIOUS
    <3>. QED
      BY <1>2, <1>5, <2>1, <3>1
  <2>2. CASE i # 1
    <3>1. i - 1 \in 1 .. BLOCK - 1 /\ 1 + (i - 1) = i
      BY <1>1, <2>2
    <3>2. padding[1 + (i - 1)] = z[i - 1] /\ z[i - 1] = zero
      BY <1>3, <1>5, <3>1
    <3>. QED
      BY <2>2, <3>1, <3>2
  <2>. QED
    BY <2>1, <2>2
<1>7. lo + n <= Len(padding)
  BY <1>1, <1>5
<1>8. d = [i \in 1..n |-> padding[lo + i]]
  BY <1>5, <1>7, CutOut
<1>. HIDE DEF d
<1>9. d = [i \in 1..n |-> d[i]]
  BY <1>8
<1>10. IsSeq(d) /\ Len(d) = n
  BY <1>9, Listed
<1>11. ASSUME NEW i \in 1..n
       PROVE  d[i] = IF lo + i = 1 THEN End(0, 0) ELSE zero
  <2>1. lo + i \in 1..BLOCK /\ d[i] = padding[lo + i]
    BY <1>1, <1>8
  <2>. QED
    BY <1>6, <2>1
<1>. QED
  BY <1>10, <1>11 DEF d, zero

(* Two steps back make one.                                                *)
LEMMA BackTwice ==
  ASSUME BlakeAssumption, NEW u \in Int, NEW i \in Int, NEW j \in Int
  PROVE  (((u - i) % TMod) - j) % TMod = (u - (i + j)) % TMod
<1>1. TMod \in Nat \ {0}
  BY BlakeSizes
<1> DEFINE v == u - i
           k == 0 - j
<1>2. v \in Int /\ k \in Int /\ v % TMod \in Int
  BY <1>1
<1>. HIDE DEF v, k
<1>3. ((v % TMod) + k) % TMod = (v + k) % TMod
  BY <1>1, <1>2, RestPlus
<1>4. (v % TMod) + k = (v % TMod) - j
  BY <1>2 DEF k
<1>5. v + k = u - (i + j)
  BY DEF v, k
<1>. QED
  BY <1>3, <1>4, <1>5 DEF v

LEMMA BackAndUp ==
  ASSUME BlakeAssumption, NEW u \in Int, NEW i \in Int
  PROVE  Up0((u - i) % TMod) = (u + (Bits - i)) % TMod
<1>1. TMod \in Nat \ {0} /\ Bits \in Int
  BY BlakeSizes
<1> DEFINE v == u - i
<1>2. v \in Int
  OBVIOUS
<1>3. v + Bits = u + (Bits - i)
  BY <1>1
<1>. HIDE DEF v
<1>4. ((v % TMod) + Bits) % TMod = (v + Bits) % TMod
  BY <1>1, <1>2, RestPlus
<1>. QED
  BY <1>3, <1>4 DEF v, Up0

LEMMA BackIsInt ==
  ASSUME BlakeAssumption, NEW u \in Int, NEW i \in Int
  PROVE  (u - i) % TMod \in Int
<1>1. TMod \in Nat \ {0}
  BY BlakeSizes
<1>. QED
  BY <1>1

(* UpdateFull with the operators above.                                    *)
LEMMA Closed ==
  ASSUME BlakeAssumption, NEW h, NEW t0, NEW t1, NEW bl, NEW r \in Nat, bl = 8 * r, NEW nu,
         NEW b, Len(b) = BLOCK, NEW d, IsSeq(d), r # 0, Len(d) > 0, r + Len(d) = BLOCK,
         NEW c, c = Overlay(b, r, d)
  PROVE  blake256_update(Rec(h, t0, t1, bl, nu, b), d)
           = Rec(Append(h, [blk |-> c, t |-> Stamp(nu, Up0(t0), Up1(t0, t1))]),
                 Up0(t0), Up1(t0, t1), 0, nu, c)
<1> DEFINE u0 == (t0 + Bits) % TMod
           u1 == IF u0 = 0 THEN (t1 + 1) % TMod ELSE t1
           o == Overlay(b, r, d)
<1>1. blake256_update(Rec(h, t0, t1, 8 * r, nu, b), d)
        = Rec(Append(h, [blk |-> o, t |-> IF nu THEN <<0, 0>> ELSE <<u0, u1>>]),
              u0, u1, 0, nu, o)
  BY UpdateFull
<1>2. Up0(t0) = u0 /\ Up1(t0, t1) = u1
  BY Zenon DEF Up0, Up1
<1>3. Stamp(nu, Up0(t0), Up1(t0, t1)) = IF nu THEN <<0, 0>> ELSE <<u0, u1>>
  BY <1>2, Zenon DEF Stamp
<1>4. c = o
  OBVIOUS
<1>. HIDE DEF u0, u1, o
<1>. QED
  BY <1>1, <1>2, <1>3, <1>4

Held(r, d) == 8 * (r + Len(d))

LEMMA Stored ==
  ASSUME BlakeAssumption, NEW h, NEW t0, NEW t1, NEW bl, NEW r \in Nat, bl = 8 * r, NEW nu,
         NEW b, Len(b) = BLOCK, NEW d, IsSeq(d), Len(d) > 0, r + Len(d) < BLOCK
  PROVE  blake256_update(Rec(h, t0, t1, bl, nu, b), d)
           = Rec(h, t0, t1, Held(r, d), nu, Overlay(b, r, d))
<1>1. blake256_update(Rec(h, t0, t1, 8 * r, nu, b), d)
        = Rec(h, t0, t1, 8 * (r + Len(d)), nu, Overlay(b, r, d))
  BY UpdateShort
<1>. QED
  BY <1>1 DEF Held

(* The end of the last block: the byte p behind Ahead bytes, the length.   *)
EndOf(b, p, f) == Overlay(Overlay(b, Ahead, <<p>>), Ahead + 1, f)

Ending(s, p, f) ==
  blake256_update(Back(Back(blake256_update(s, <<p>>), 8), 8 * LengthBytes), f)

LEMMA EndingRec ==
  ASSUME BlakeAssumption, NEW h, NEW u \in Int, NEW t1, NEW nu, NEW b, Len(b) = BLOCK, NEW p,
         NEW f, IsSeq(f), Len(f) = LengthBytes
  PROVE  LET v0 == (u + 8 * Ahead) % TMod
             v1 == IF v0 = 0 THEN (t1 + 1) % TMod ELSE t1
         IN  Ending(Rec(h, u, t1, 8 * Ahead, nu, b), p, f).h
               = Append(h, [blk |-> EndOf(b, p, f), t |-> Stamp(nu, v0, v1)])
<1> DEFINE F == 8 * Ahead
           F1 == 8 * (Ahead + 1)
           L == 8 * LengthBytes
           c == Overlay(b, Ahead, <<p>>)
           s1 == blake256_update(Rec(h, u, t1, F, nu, b), <<p>>)
           u1 == (u - 8) % TMod
           u2 == (u1 - L) % TMod
           o == EndOf(b, p, f)
           v0 == (u + 8 * Ahead) % TMod
           v1 == IF v0 = 0 THEN (t1 + 1) % TMod ELSE t1
<1>1. /\ BLOCK \in Nat \ {0} /\ LengthBytes \in Nat \ {0} /\ Ahead \in Nat \ {0}
      /\ Ahead + 1 + LengthBytes = BLOCK /\ Bits = 8 * Ahead + 8 + 8 * LengthBytes
  BY FinalSizes
<1>2. IsSeq(<<p>>) /\ Len(<<p>>) = 1 /\ <<p>>[1] = p
  BY DEF IsSeq
<1>3. s1 = Rec(h, u, t1, F1, nu, c)
  <2> DEFINE d == <<p>>
  <2>1. IsSeq(d) /\ Len(d) = 1
    BY <1>2
  <2>. HIDE DEF d
  <2>2. Ahead \in Nat /\ F = 8 * Ahead /\ Len(d) > 0 /\ Ahead + Len(d) < BLOCK
        /\ F1 = 8 * (Ahead + Len(d))
    BY <1>1, <2>1
  <2>. HIDE DEF F, F1
  <2>3. blake256_update(Rec(h, u, t1, F, nu, b), d) = Rec(h, u, t1, F1, nu, Overlay(b, Ahead, d))
    <3> DEFINE r == Ahead
    <3>1. r \in Nat /\ F = 8 * r /\ Len(d) > 0 /\ r + Len(d) < BLOCK
      BY <2>2
    <3>0. IsSeq(d)
      BY <2>1
    <3>. HIDE DEF r
    <3>2. blake256_update(Rec(h, u, t1, F, nu, b), d)
            = Rec(h, u, t1, Held(r, d), nu, Overlay(b, r, d))
      BY <3>0, <3>1, Stored
    <3>3. F1 = Held(Ahead, d)
      BY <2>2 DEF Held
    <3>. QED
      BY <3>2, <3>3, Zenon DEF r
  <2>. QED
    BY <2>3 DEF d
<1>4. Back(s1, 8) = Rec(h, u1, t1, F1, nu, c)
  <2>. HIDE DEF F1, c, s1
  <2>. QED
    BY <1>3, BackRec
<1>5. Back(Back(s1, 8), L) = Rec(h, u2, t1, F1, nu, c)
  <2>. HIDE DEF F1, c, s1, u1, L
  <2>. QED
    BY <1>4, BackRec
<1>6. IsSeq(c) /\ Len(c) = BLOCK
  <2> DEFINE d == <<p>>
  <2>. HIDE DEF d
  <2>1. IsSeq(Overlay(b, Ahead, d)) /\ Len(Overlay(b, Ahead, d)) = BLOCK
    BY <1>1, OverlaySized
  <2>. QED
    BY <2>1 DEF d
<1>7. blake256_update(Rec(h, u2, t1, F1, nu, c), f)
        = Rec(Append(h, [blk |-> o, t |-> Stamp(nu, Up0(u2), Up1(u2, t1))]),
              Up0(u2), Up1(u2, t1), 0, nu, o)
  <2> DEFINE r == Ahead + 1
  <2>1. r \in Nat /\ r # 0 /\ F1 = 8 * r /\ Len(f) > 0 /\ r + Len(f) = BLOCK /\ o = Overlay(c, r, f)
    BY <1>1 DEF EndOf
  <2>. HIDE DEF r, F1, c, o, u2
  <2>. QED
    BY <1>6, <2>1, Closed
<1>8. Up0(u2) = v0 /\ Up1(u2, t1) = v1
  <2>1. u2 = (u - (8 + L)) % TMod
    <3>1. L \in Int /\ 8 \in Int
      BY <1>1
    <3>. HIDE DEF L
    <3>. QED
      BY <3>1, BackTwice
  <2> DEFINE k == 8 + L
  <2>2. k \in Int /\ Bits - k = 8 * Ahead
    BY <1>1
  <2>3. u2 = (u - k) % TMod
    BY <2>1
  <2>. HIDE DEF k, u2
  <2>4. Up0(u2) = (u + (Bits - k)) % TMod
    BY <2>2, <2>3, BackAndUp
  <2>5. Up0(u2) = v0
    BY <2>2, <2>4
  <2>. QED
    BY <2>5, Zenon DEF Up1
<1>9. Ending(Rec(h, u, t1, F, nu, b), p, f)
        = blake256_update(Rec(h, u2, t1, F1, nu, c), f)
  <2>1. Ending(Rec(h, u, t1, F, nu, b), p, f) = blake256_update(Back(Back(s1, 8), L), f)
    BY Zenon DEF Ending
  <2>. QED
    BY <1>5, <2>1, Zenon
<1>. HIDE DEF F1, c, u2, o, v0, v1
<1> DEFINE g == Append(h, [blk |-> o, t |-> Stamp(nu, v0, v1)])
<1>10. Ending(Rec(h, u, t1, F, nu, b), p, f) = Rec(g, v0, v1, 0, nu, o)
  BY <1>7, <1>8, <1>9, Zenon
<1>. HIDE DEF g
<1>11. Rec(g, v0, v1, 0, nu, o).h = g
  BY DEF Rec
<1>. QED
  BY <1>10, <1>11, Zenon DEF g, v0, v1, o, F

-----------------------------------------------------------------------------
(* The reference: how many blocks the padded message has, and its bytes.   *)
LEMMA BlocksOfPadded ==
  ASSUME BlakeAssumption, NEW m, NEW n \in Nat, NEW r \in Nat, r < BLOCK, Len(m) = n * BLOCK + r
  PROVE  BlockCount(m) = IF r <= Ahead THEN n + 1 ELSE n + 2
<1>1. /\ BLOCK \in Nat \ {0} /\ LengthBytes \in Nat \ {0} /\ Ahead \in Nat \ {0}
      /\ Ahead + 1 + LengthBytes = BLOCK
  BY FinalSizes
<1> DEFINE x == Len(m) + 1 + LengthBytes + BLOCK - 1
           N == IF r <= Ahead THEN n + 1 ELSE n + 2
           y == IF r <= Ahead THEN r + LengthBytes ELSE r + LengthBytes - BLOCK
           nb == n * BLOCK
<1>2. N \in Nat /\ y \in 0 .. BLOCK - 1
  BY <1>1
<1>3. nb \in Nat /\ (n + 1) * BLOCK = nb + BLOCK /\ (n + 2) * BLOCK = nb + BLOCK + BLOCK
  <2>1. (n + 1) * BLOCK = nb + BLOCK /\ nb \in Nat
    BY <1>1, Product
  <2>2. n + 1 \in Nat /\ n + 1 + 1 = n + 2
    OBVIOUS
  <2>3. (n + 1 + 1) * BLOCK = (n + 1) * BLOCK + BLOCK
    BY <1>1, <2>2, Product
  <2>. QED
    BY <2>1, <2>2, <2>3
<1>. HIDE DEF nb
<1>4. x = N * BLOCK + y
  <2>1. Len(m) = nb + r
    BY DEF nb
  <2>2. N * BLOCK = IF r <= Ahead THEN nb + BLOCK ELSE nb + BLOCK + BLOCK
    BY <1>3
  <2> DEFINE w == N * BLOCK
  <2>3. w = IF r <= Ahead THEN nb + BLOCK ELSE nb + BLOCK + BLOCK
    BY <2>2
  <2>. HIDE DEF w
  <2>4. x = w + y
    BY <1>1, <1>3, <2>1, <2>3
  <2>. QED
    BY <2>4 DEF w
<1>5. x \div BLOCK = N
  <2>. HIDE DEF x, N, y
  <2>1. (N * BLOCK + y) \div BLOCK = N
    BY <1>1, <1>2, WholeAndRest
  <2>. QED
    BY <1>4, <2>1
<1>6. (N * BLOCK) \div BLOCK = N
  <2>. HIDE DEF N
  <2>1. 0 \in 0 .. BLOCK - 1
    BY <1>1
  <2>2. (N * BLOCK + 0) \div BLOCK = N
    BY <1>1, <1>2, <2>1, WholeAndRest
  <2>3. N * BLOCK \in Nat
    BY <1>1, <1>2, Product
  <2>4. N * BLOCK + 0 = N * BLOCK
    BY <2>3
  <2>. QED
    BY <2>2, <2>4
<1>7. BlockCount(m) = ((x \div BLOCK) * BLOCK) \div BLOCK
  BY Zenon DEF BlockCount, RoundUp
<1>. HIDE DEF x
<1>8. BlockCount(m) = N
  <2>. HIDE DEF N
  <2>. QED
    BY <1>5, <1>6, <1>7
<1>. QED
  BY <1>8

PadByte(alg, n, i) ==
  IF n = 1 THEN pa(alg) ELSE IF i = 1 THEN End(0, 0) ELSE IF i = n THEN pb(alg) ELSE Num(0)

LEMMA PadBytesAre ==
  ASSUME NEW alg, NEW n \in Nat \ {0}
  PROVE  /\ IsSeq(PadBytes(alg, n)) /\ Len(PadBytes(alg, n)) = n
         /\ \A i \in 1..n : PadBytes(alg, n)[i] = PadByte(alg, n, i)
<1> DEFINE P == PadBytes(alg, n)
<1>1. CASE n = 1
  <2>1. P = <<pa(alg)>>
    BY <1>1 DEF PadBytes
  <2> DEFINE a == pa(alg)
  <2>2. \A i \in 1..n : PadByte(alg, n, i) = a
    BY <1>1 DEF PadByte
  <2>. HIDE DEF P, a
  <2>3. P = <<a>>
    BY <2>1 DEF a
  <2>4. IsSeq(P) /\ Len(P) = 1 /\ P[1] = a
    BY <2>3 DEF IsSeq
  <2>. QED
    BY <1>1, <2>2, <2>4 DEF P
<1>2. CASE n # 1
  <2> DEFINE e == End(0, 0)
             one == <<e>>
             z == Zeros(n - 2)
             q == pb(alg)
             last == <<q>>
             zero == Num(0)
  <2>1. P = one \o z \o last
    BY <1>2, Zenon DEF PadBytes
  <2>2. n - 2 \in Nat /\ 1 + (n - 2) + 1 = n
    BY <1>2
  <2>3. \A i \in 1 .. n - 2 : z[i] = zero
    BY DEF Zeros
  <2>4. IsSeq(z) /\ Len(z) = n - 2
    <3>1. z = [i \in 1 .. n - 2 |-> z[i]]
      BY DEF Zeros
    <3>. HIDE DEF z
    <3>. QED
      BY <2>2, <3>1, Listed
  <2>5. \A i \in 1..n : PadByte(alg, n, i) = IF i = 1 THEN e ELSE IF i = n THEN q ELSE zero
    BY <1>2, Zenon DEF PadByte
  <2>. HIDE DEF e, q, zero, z
  <2>6. IsSeq(one) /\ Len(one) = 1 /\ one[1] = e
    BY DEF IsSeq
  <2>7. IsSeq(last) /\ Len(last) = 1 /\ last[1] = q
    BY DEF IsSeq
  <2>. HIDE DEF one, last, P
  <2> DEFINE c == one \o z
  <2>8. /\ IsSeq(c) /\ Len(c) = Len(one) + Len(z)
        /\ \A i \in 1..Len(one) : c[i] = one[i]
        /\ \A i \in 1..Len(z) : c[Len(one) + i] = z[i]
    <3>1. IsSeq(one) /\ IsSeq(z)
      BY <2>4, <2>6
    <3>. QED
      BY <3>1, Joined
  <2>9. Len(c) = n - 1 /\ c[1] = e /\ \A i \in 2 .. n - 1 : c[i] = zero
    <3>1. Len(c) = n - 1
      BY <2>2, <2>4, <2>6, <2>8
    <3>2. c[1] = e
      BY <2>6, <2>8
    <3>3. ASSUME NEW i \in 2 .. n - 1
          PROVE  c[i] = zero
      <4>1. i - 1 \in 1 .. n - 2 /\ 1 + (i - 1) = i
        OBVIOUS
      <4>2. c[1 + (i - 1)] = z[i - 1] /\ z[i - 1] = zero
        BY <2>3, <2>4, <2>6, <2>8, <4>1
      <4>. QED
        BY <4>1, <4>2
    <3>. QED
      BY <3>1, <3>2, <3>3
  <2>10. IsSeq(c)
    BY <2>8
  <2>. HIDE DEF c
  <2>11. /\ IsSeq(c \o last) /\ Len(c \o last) = Len(c) + Len(last)
         /\ \A i \in 1..Len(c) : (c \o last)[i] = c[i]
         /\ \A i \in 1..Len(last) : (c \o last)[Len(c) + i] = last[i]
    <3>1. IsSeq(last)
      BY <2>7
    <3>. QED
      BY <2>10, <3>1, Joined
  <2>12. P = c \o last
    BY <2>1 DEF c
  <2>13. Len(P) = n /\ \A i \in 1 .. n - 1 : P[i] = c[i]
    BY <2>7, <2>9, <2>11, <2>12
  <2>14. P[n] = q
    <3>1. 1 \in 1..Len(last) /\ Len(c) + 1 = n
      BY <2>7, <2>9
    <3>2. (c \o last)[Len(c) + 1] = last[1]
      BY <2>11, <3>1
    <3>. QED
      BY <2>7, <2>12, <3>1, <3>2
  <2>15. ASSUME NEW i \in 1..n
         PROVE  P[i] = PadByte(alg, n, i)
    <3>1. CASE i = 1
      <4>1. P[i] = e
        BY <1>2, <2>9, <2>13, <3>1
      <4>. QED
        BY <2>5, <3>1, <4>1
    <3>2. CASE i = n /\ i # 1
      BY <2>5, <2>14, <3>2
    <3>3. CASE i # n /\ i # 1
      <4>1. i \in 1 .. n - 1 /\ i \in 2 .. n - 1
        BY <3>3
      <4>2. P[i] = zero
        BY <2>9, <2>13, <4>1
      <4>. QED
        BY <2>5, <3>3, <4>2
    <3>. QED
      BY <3>1, <3>2, <3>3
  <2>. QED
    BY <2>11, <2>12, <2>13, <2>15 DEF P
<1>. QED
  BY <1>1, <1>2

PadGap(m) == BlockCount(m) * BLOCK - LengthBytes - Len(m)

PadsTo(e, alg, m, k) ==
  /\ IsSeq(e) /\ Len(e) = Len(m) + k + LengthBytes
  /\ \A i \in 1..Len(m) : e[i] = m[i]
  /\ \A i \in 1..k : e[Len(m) + i] = PadByte(alg, k, i)
  /\ \A i \in 1..LengthBytes : e[Len(m) + k + i] = LengthField(8 * Len(m))[i]

LEMMA PaddedIs ==
  ASSUME BlakeAssumption, NEW alg, NEW m, IsSeq(m), NEW k \in Nat \ {0}, PadGap(m) = k
  PROVE  PadsTo(Padded(alg, m), alg, m, k)
<1> DEFINE e == Padded(alg, m)
           f == LengthField(8 * Len(m))
           p == PadBytes(alg, k)
           c == m \o p
<1>1. e = c \o f
  BY Zenon DEF Padded, PadGap
<1>2. IsSeq(f) /\ Len(f) = LengthBytes
  BY FieldBytes
<1>3. IsSeq(p) /\ Len(p) = k /\ \A i \in 1..k : p[i] = PadByte(alg, k, i)
  BY PadBytesAre
<1>. HIDE DEF e, f, p
<1>4. IsSeq(m) /\ IsSeq(p) /\ IsSeq(f)
  BY <1>2, <1>3
<1>5. /\ IsSeq(c) /\ Len(c) = Len(m) + Len(p)
      /\ \A i \in 1..Len(m) : c[i] = m[i]
      /\ \A i \in 1..Len(p) : c[Len(m) + i] = p[i]
  BY <1>4, Joined
<1>6. IsSeq(c)
  BY <1>5
<1>. HIDE DEF c
<1>7. /\ IsSeq(c \o f) /\ Len(c \o f) = Len(c) + Len(f)
      /\ \A i \in 1..Len(c) : (c \o f)[i] = c[i]
      /\ \A i \in 1..Len(f) : (c \o f)[Len(c) + i] = f[i]
  <2>1. IsSeq(c) /\ IsSeq(f)
    BY <1>4, <1>5, <1>6
  <2>. QED
    BY <2>1, Joined
<1>8. Len(m) \in Nat /\ LengthBytes \in Nat /\ Len(c) = Len(m) + k
  BY <1>3, <1>5, FinalSizes DEF IsSeq
<1>9. ASSUME NEW i \in 1..Len(m)
      PROVE  e[i] = m[i]
  <2>1. i \in 1..Len(c)
    BY <1>8
  <2>. QED
    BY <1>1, <1>5, <1>7, <2>1
<1>10. ASSUME NEW i \in 1..k
       PROVE  e[Len(m) + i] = PadByte(alg, k, i)
  <2>1. Len(m) + i \in 1..Len(c) /\ i \in 1..Len(p)
    BY <1>3, <1>8
  <2>2. (c \o f)[Len(m) + i] = c[Len(m) + i]
    BY <1>7, <2>1
  <2>3. c[Len(m) + i] = p[i]
    BY <1>5, <2>1
  <2>4. p[i] = PadByte(alg, k, i)
    BY <1>3
  <2>. QED
    BY <1>1, <2>2, <2>3, <2>4
<1>11. ASSUME NEW i \in 1..LengthBytes
       PROVE  e[Len(m) + k + i] = f[i]
  <2>1. i \in 1..Len(f)
    BY <1>2
  <2>2. (c \o f)[Len(c) + i] = f[i]
    BY <1>7, <2>1
  <2>. QED
    BY <1>1, <1>8, <2>2
<1>12. IsSeq(e) /\ Len(e) = Len(m) + k + LengthBytes
  BY <1>1, <1>2, <1>7, <1>8
<1>. QED
  BY <1>9, <1>10, <1>11, <1>12, Zenon DEF e, f, PadsTo

Piece(e, m, i) ==
  [blk |-> BlockAt(e, i), t |-> <<Low(CountUpTo(m, i)), High(CountUpTo(m, i))>>]

LEMMA HashIs ==
  ASSUME BlakeAssumption, NEW alg, NEW m, NEW N \in Nat, BlockCount(m) = N,
         NEW e, e = Padded(alg, m), IsSeq(e), Len(e) = N * BLOCK
  PROVE  /\ IsSeq(Hash(alg, m)) /\ Len(Hash(alg, m)) = N + 1
         /\ Hash(alg, m)[1] = [iv |-> alg]
         /\ \A i \in 1..N : Hash(alg, m)[i + 1] = Piece(e, m, i)
<1> DEFINE v == [iv |-> alg]
           one == <<v>>
           T(i) == <<CountUpTo(m, i) % TMod, (CountUpTo(m, i) \div TMod) % TMod>>
           B(i) == SubSeq(Padded(alg, m), (i - 1) * BLOCK + 1, i * BLOCK)
           c == [i \in 1..N |-> [blk |-> B(i), t |-> T(i)]]
<1>1. Hash(alg, m) = one \o c
  BY Zenon DEF Hash
<1>2. BLOCK \in Nat
  BY BlakeSizes
<1>3. ASSUME NEW i \in 1..N
      PROVE  c[i] = Piece(e, m, i)
  <2>1. c[i] = [blk |-> B(i), t |-> T(i)]
    OBVIOUS
  <2>2. B(i) = BlockAt(e, i)
    <3> DEFINE lo == (i - 1) * BLOCK
    <3>1. i - 1 \in Nat /\ i \in Nat /\ i <= N /\ (i - 1) + 1 = i
      OBVIOUS
    <3>2. lo \in Nat /\ ((i - 1) + 1) * BLOCK = lo + BLOCK
      BY <1>2, <3>1, Product
    <3>3. i * BLOCK = lo + BLOCK
      BY <3>1, <3>2
    <3>4. i * BLOCK <= N * BLOCK
      BY <1>2, <3>1, Monotone
    <3>5. lo + BLOCK <= Len(e)
      BY <3>3, <3>4
    <3>. HIDE DEF lo
    <3>6. SubSeq(e, lo + 1, lo + BLOCK) = [k \in 1..BLOCK |-> e[lo + k]]
      BY <1>2, <3>2, <3>5, CutOut
    <3>. QED
      BY <3>3, <3>6 DEF lo, BlockAt
  <2>3. T(i) = <<Low(CountUpTo(m, i)), High(CountUpTo(m, i))>>
    BY Zenon DEF Low, High
  <2>. QED
    BY <2>1, <2>2, <2>3, Zenon DEF Piece
<1>4. IsSeq(one) /\ Len(one) = 1 /\ one[1] = v
  <2>. HIDE DEF v
  <2>. QED
    BY DEF IsSeq
<1>5. IsSeq(c) /\ Len(c) = N
  <2>1. c = [i \in 1..N |-> c[i]]
    BY Zenon
  <2>. HIDE DEF c
  <2>. QED
    BY <2>1, Listed
<1>. HIDE DEF one, c, v
<1>6. /\ IsSeq(one \o c) /\ Len(one \o c) = Len(one) + Len(c)
      /\ \A i \in 1..Len(one) : (one \o c)[i] = one[i]
      /\ \A i \in 1..Len(c) : (one \o c)[Len(one) + i] = c[i]
  <2>1. IsSeq(one) /\ IsSeq(c)
    BY <1>4, <1>5
  <2>. QED
    BY <2>1, Joined
<1>7. (one \o c)[1] = v
  <2>1. 1 \in 1..Len(one)
    BY <1>4
  <2>. QED
    BY <1>4, <1>6, <2>1
<1>8. ASSUME NEW i \in 1..N
      PROVE  (one \o c)[i + 1] = Piece(e, m, i)
  <2>1. i \in 1..Len(c) /\ Len(one) + i = i + 1
    BY <1>4, <1>5
  <2>2. (one \o c)[Len(one) + i] = c[i]
    BY <1>6, <2>1
  <2>. QED
    BY <1>3, <2>1, <2>2
<1>9. IsSeq(one \o c) /\ Len(one \o c) = N + 1
  BY <1>4, <1>5, <1>6
<1>. QED
  BY <1>1, <1>7, <1>8, <1>9 DEF v

LEMMA Counts ==
  ASSUME BlakeAssumption, NEW m, NEW n \in Nat, NEW r \in Nat, r < BLOCK, Len(m) = n * BLOCK + r
  PROVE  /\ \A i \in 1..n : CountUpTo(m, i) = Bits * i
         /\ CountUpTo(m, n + 1) = IF r = 0 THEN 0 ELSE 8 * Len(m)
         /\ CountUpTo(m, n + 2) = 0
<1> DEFINE nb == n * BLOCK
<1>1. BLOCK \in Nat \ {0}
  BY BlakeSizes
<1>2. nb \in Nat /\ (n + 1) * BLOCK = nb + BLOCK
  BY <1>1, Product
<1>3. Len(m) = nb + r
  OBVIOUS
<1>4. ASSUME NEW i \in 1..n
      PROVE  CountUpTo(m, i) = Bits * i
  <2> DEFINE x == (i - 1) * BLOCK
             y == i * BLOCK
  <2>1. i - 1 \in Nat /\ i \in Nat /\ i <= n /\ (i - 1) + 1 = i
    OBVIOUS
  <2>2. x \in Nat /\ ((i - 1) + 1) * BLOCK = x + BLOCK
    BY <1>1, <2>1, Product
  <2>3. y = x + BLOCK
    BY <2>1, <2>2
  <2>4. y <= nb
    BY <1>1, <2>1, Monotone
  <2>5. 8 * i * BLOCK = Bits * i
    BY <1>1, <2>1, SMT DEF Bits
  <2>. HIDE DEF nb, x, y
  <2>6. ~(x >= Len(m)) /\ y <= Len(m)
    BY <1>1, <1>2, <1>3, <2>2, <2>3, <2>4
  <2>. QED
    BY <2>5, <2>6 DEF CountUpTo, x, y
<1>5. CountUpTo(m, n + 1) = IF r = 0 THEN 0 ELSE 8 * Len(m)
  <2> DEFINE y == (n + 1) * BLOCK
             x == ((n + 1) - 1) * BLOCK
             z == 8 * (n + 1) * BLOCK
             l == 8 * Len(m)
  <2>1. y = nb + BLOCK
    BY <1>2
  <2>2. x = nb
    OBVIOUS
  <2>3. CountUpTo(m, n + 1) = IF x >= Len(m) THEN 0 ELSE IF y <= Len(m) THEN z ELSE l
    BY Zenon DEF CountUpTo
  <2>. HIDE DEF nb, x, y, z, l
  <2>4. (x >= Len(m) <=> r = 0) /\ ~(y <= Len(m))
    BY <1>1, <1>2, <1>3, <2>1, <2>2
  <2>5. CountUpTo(m, n + 1) = IF r = 0 THEN 0 ELSE l
    BY <2>3, <2>4
  <2>. QED
    BY <2>5 DEF l
<1>6. CountUpTo(m, n + 2) = 0
  <2> DEFINE x == ((n + 2) - 1) * BLOCK
             z == IF (n + 2) * BLOCK <= Len(m) THEN 8 * (n + 2) * BLOCK ELSE 8 * Len(m)
  <2>1. (n + 2) - 1 = n + 1
    OBVIOUS
  <2>2. x = nb + BLOCK
    BY <1>2, <2>1
  <2>3. CountUpTo(m, n + 2) = IF x >= Len(m) THEN 0 ELSE z
    BY Zenon DEF CountUpTo
  <2>. HIDE DEF nb, x, z
  <2>4. x >= Len(m)
    BY <1>1, <1>2, <1>3, <2>2
  <2>. QED
    BY <2>3, <2>4
<1>. QED
  BY <1>4, <1>5, <1>6

(* The words of the count, the ones of zero included.                      *)
LEMMA NoBits ==
  ASSUME BlakeAssumption
  PROVE  Low(0) = 0 /\ High(0) = 0
<1>1. TMod \in Nat \ {0}
  BY BlakeSizes
<1>2. 0 % TMod = 0 /\ 0 \div TMod = 0
  BY <1>1, SMT
<1>. QED
  BY <1>2 DEF Low, High

-----------------------------------------------------------------------------
(* blake256_final_h, branch by branch.                                     *)
Words(v) == <<Low(v), High(v)>>

(* The count that Final leaves behind when it is moved back by k bits      *)
(* before a block is compressed with 8r bits of the message.               *)
LEMMA CountInFinal ==
  ASSUME BlakeAssumption, NEW n \in Nat, NEW r \in Nat, r < BLOCK, r # 0
  PROVE  LET v == Bits * n + 8 * r
         IN  /\ (Low(Bits * n) + 8 * r) % TMod = Low(v) /\ Low(v) # 0
             /\ High(Bits * n) = High(v)
<1> DEFINE v == Bits * n + 8 * r
           u == Low(Bits * n)
           x == 8 * r
<1>1. /\ u \in Nat /\ v \in Nat /\ (u + x) % TMod = Low(v) /\ High(Bits * n) = High(v)
      /\ Low(v) >= x
  BY LengthInWords
<1>2. x > 0 /\ x \in Nat /\ TMod \in Nat \ {0}
  BY BlakeSizes
<1>. HIDE DEF v, u, x
<1>3. Low(v) \in Int
  BY <1>1, <1>2 DEF Low
<1>4. Low(v) # 0
  BY <1>1, <1>2, <1>3
<1>. QED
  BY <1>1, <1>4 DEF v, u, x

LEMMA FinalField ==
  ASSUME BlakeAssumption, NEW alg, NEW m, NEW n, NEW r, NEW b, NEW s, Absorbs(s, alg, m, n, r, b)
  PROVE  blake256_final_h(s, alg)
           = blake256_update(Back(PadBlock(s, alg), 8 * LengthBytes), LengthField(8 * Len(m)))
<1> DEFINE v == Bits * n + 8 * r
           u == Low(Bits * n)
           w == High(Bits * n)
           x == 8 * r
           lo == (u + x) % TMod
           hi == IF lo < x THEN (w + 1) % TMod ELSE w
<1>1. /\ n \in Nat /\ r \in Nat /\ r < BLOCK /\ Len(m) = n * BLOCK + r
      /\ s = Rec(Chain(alg, m, n), u, w, x, FALSE, b)
  BY Zenon DEF Absorbs, Mid
<1>2. s.t0 = u /\ s.t1 = w /\ s.buflen = x
  <2> DEFINE h == Chain(alg, m, n)
             no == FALSE
  <2>1. s = Rec(h, u, w, x, no, b)
    BY <1>1
  <2>. HIDE DEF h, u, w, x, no
  <2>. QED
    BY <2>1 DEF Rec
<1>3. u \in Nat /\ v \in Nat /\ lo = Low(v) /\ w = High(v) /\ Low(v) >= x
  BY <1>1, LengthInWords
<1>4. blake256_final_h(s, alg)
        = blake256_update(Back(PadBlock(s, alg), 8 * LengthBytes), U32TO8(hi) \o U32TO8(lo))
  BY <1>2, Zenon DEF blake256_final_h
<1>5. 8 * Len(m) = v
  <2>1. BLOCK \in Nat
    BY BlakeSizes
  <2>. QED
    BY <1>1, <2>1, SMT DEF Bits
<1>6. hi = High(v)
  <2>1. x \in Nat /\ TMod \in Nat \ {0}
    BY <1>1, BlakeSizes
  <2>. HIDE DEF u, w, x, v, lo
  <2>2. Low(v) \in Int
    BY <1>3, <2>1 DEF Low
  <2>3. ~(lo < x)
    BY <1>3, <2>1, <2>2
  <2>. QED
    BY <1>3, <2>3
<1>7. U32TO8(hi) \o U32TO8(lo) = LengthField(v)
  <2>1. hi = (v \div TMod) % TMod /\ lo = v % TMod
    BY <1>3, <1>6, Zenon DEF Low, High
  <2>. HIDE DEF hi, lo, v
  <2>. QED
    BY <2>1, Zenon DEF LengthField
<1>. QED
  BY <1>4, <1>5, <1>7, Zenon

(* The padding byte may be stored before or after the count moves.         *)
LEMMA EarlyBack ==
  ASSUME BlakeAssumption, NEW h, NEW u, NEW t1, NEW nu, NEW b, Len(b) = BLOCK, NEW p
  PROVE  LET s == Rec(h, u, t1, 8 * Ahead, nu, b)
         IN  blake256_update(Back(s, 8), <<p>>) = Back(blake256_update(s, <<p>>), 8)
<1> DEFINE r == Ahead
           bl == 8 * r
           d == <<p>>
           u1 == (u - 8) % TMod
           k == Held(r, d)
           c == Overlay(b, r, d)
<1>1. r \in Nat /\ bl = 8 * r /\ IsSeq(d) /\ Len(d) > 0 /\ r + Len(d) < BLOCK
  <2>1. /\ BLOCK \in Nat \ {0} /\ LengthBytes \in Nat \ {0} /\ r \in Nat \ {0}
        /\ r + 1 + LengthBytes = BLOCK
    BY FinalSizes
  <2>2. IsSeq(d) /\ Len(d) = 1
    BY DEF IsSeq
  <2>. HIDE DEF r, d
  <2>. QED
    BY <2>1, <2>2
<1>. HIDE DEF r, bl, d
<1>2. blake256_update(Rec(h, u, t1, bl, nu, b), d) = Rec(h, u, t1, k, nu, c)
  BY <1>1, Stored
<1>3. Back(Rec(h, u, t1, k, nu, c), 8) = Rec(h, u1, t1, k, nu, c)
  <2>. HIDE DEF k, c
  <2>. QED
    BY BackRec
<1>4. Back(Rec(h, u, t1, bl, nu, b), 8) = Rec(h, u1, t1, bl, nu, b)
  BY BackRec
<1>. HIDE DEF u1
<1>5. blake256_update(Rec(h, u1, t1, bl, nu, b), d) = Rec(h, u1, t1, k, nu, c)
  BY <1>1, Stored
<1>. QED
  BY <1>2, <1>3, <1>4, <1>5, Zenon DEF bl, d, r

(* PadBlock in its three cases; at is the number of bytes in the buffer.   *)
PadFits(s, k, n) ==
  blake256_update(Back([s EXCEPT !.nullt = (s.buflen = 0)], k), SubSeq(padding, 1, n))
PadFull(s, k, n) == blake256_update(Back(s, k), SubSeq(padding, 1, n))
PadNext(s, k, n) == blake256_update(Back(s, k), SubSeq(padding, 2, n + 1))
LastByte(s, p) == Back(blake256_update(s, <<p>>), 8)

LEMMA PadCases ==
  ASSUME BlakeAssumption, NEW s, NEW alg, NEW at \in Nat, at < BLOCK, s.buflen = 8 * at
  PROVE  /\ at = Ahead => PadBlock(s, alg) = blake256_update(Back(s, 8), <<pa(alg)>>)
         /\ at < Ahead =>
              PadBlock(s, alg) = LastByte(PadFits(s, 8 * (Ahead - at), Ahead - at), pb(alg))
         /\ at > Ahead =>
              PadBlock(s, alg) =
                LastByte([PadNext(PadFull(s, 8 * (BLOCK - at), BLOCK - at), 8 * Ahead, Ahead)
                        EXCEPT !.nullt = TRUE], pb(alg))
<1>1. /\ BLOCK \in Nat \ {0} /\ Ahead \in Nat \ {0} /\ Room = 8 * Ahead
  BY FinalSizes
<1> DEFINE x == s.buflen
           kf == Room - x
           kn == 8 * BLOCK - x
           fits == PadFits(s, kf, kf \div 8)
           full == PadFull(s, kn, kn \div 8)
           next == PadNext(full, Room, Room \div 8)
           A == blake256_update(Back(s, 8), <<pa(alg)>>)
           B == LastByte(fits, pb(alg))
           C == LastByte([next EXCEPT !.nullt = TRUE], pb(alg))
<1>2. PadBlock(s, alg) = CASE x = Room -> A [] x < Room -> B [] x > Room -> C
  BY Zenon DEF PadBlock, LastByte, PadFits, PadFull, PadNext
<1>3. x = 8 * at /\ x \in Int /\ Room \in Int
  BY <1>1
<1>4. kf = 8 * (Ahead - at) /\ kn = 8 * (BLOCK - at) /\ kf \div 8 = Ahead - at
      /\ kn \div 8 = BLOCK - at /\ Room \div 8 = Ahead
  <2>. HIDE DEF x
  <2>1. kf = 8 * (Ahead - at) /\ kn = 8 * (BLOCK - at)
    BY <1>1, <1>3
  <2>2. \A y \in Int : (8 * y) \div 8 = y
    BY SMT
  <2>3. Ahead - at \in Int /\ BLOCK - at \in Int /\ Ahead \in Int
    BY <1>1
  <2>. QED
    BY <1>1, <2>1, <2>2, <2>3
<1>. HIDE DEF x
<1>5. /\ at = Ahead => x = Room
      /\ at < Ahead => x # Room /\ x < Room /\ ~(x > Room)
      /\ at > Ahead => x # Room /\ ~(x < Room) /\ x > Room
  BY <1>1, <1>3
<1>6. ~(x = Room /\ x < Room) /\ ~(x = Room /\ x > Room)
  BY <1>3
<1>. HIDE DEF A, B, C
<1>7. /\ at = Ahead => PadBlock(s, alg) = A
      /\ at < Ahead => PadBlock(s, alg) = B
      /\ at > Ahead => PadBlock(s, alg) = C
  BY <1>2, <1>5, <1>6
<1>8. B = LastByte(PadFits(s, 8 * (Ahead - at), Ahead - at), pb(alg))
  BY <1>4, Zenon DEF B
<1>9. C = LastByte([PadNext(PadFull(s, 8 * (BLOCK - at), BLOCK - at), 8 * Ahead, Ahead)
                  EXCEPT !.nullt = TRUE], pb(alg))
  BY <1>1, <1>4, Zenon DEF C
<1>. QED
  BY <1>7, <1>8, <1>9 DEF A

LEMMA LastIsEnding ==
  ASSUME NEW s, NEW p, NEW f
  PROVE  blake256_update(Back(LastByte(s, p), 8 * LengthBytes), f) = Ending(s, p, f)
BY Zenon DEF LastByte, Ending

(* The buffer is full up to the last padding byte.                         *)
LEMMA FinalExact ==
  ASSUME BlakeAssumption, NEW alg, NEW m, NEW n, NEW r, NEW b, NEW s, Absorbs(s, alg, m, n, r, b),
         r = Ahead
  PROVE  blake256_final_h(s, alg).h
           = Append(Chain(alg, m, n), [blk |-> EndOf(b, pa(alg), LengthField(8 * Len(m))),
                                       t |-> Words(8 * Len(m))])
<1> DEFINE v == Bits * n + 8 * r
           u == Low(Bits * n)
           w == High(Bits * n)
           x == 8 * Ahead
           h == Chain(alg, m, n)
           p == pa(alg)
           f == LengthField(8 * Len(m))
           no == FALSE
<1>1. /\ n \in Nat /\ r \in Nat /\ r < BLOCK /\ Len(m) = n * BLOCK + r /\ Len(b) = BLOCK
      /\ s = Rec(h, u, w, x, no, b)
  BY Zenon DEF Absorbs, Mid
<1>2. /\ BLOCK \in Nat \ {0} /\ Ahead \in Nat \ {0} /\ LengthBytes \in Nat
  BY FinalSizes
<1>3. (u + x) % TMod = Low(v) /\ Low(v) # 0 /\ w = High(v) /\ u \in Int
  <2>1. (Low(Bits * n) + 8 * r) % TMod = Low(v) /\ Low(v) # 0 /\ w = High(v)
    BY <1>1, <1>2, CountInFinal
  <2>2. u \in Nat
    BY <1>1, LengthInWords
  <2>. QED
    BY <2>1, <2>2
<1>4. 8 * Len(m) = v
  BY <1>1, <1>2, SMT DEF Bits
<1>5. IsSeq(f) /\ Len(f) = LengthBytes
  BY FieldBytes
<1>. HIDE DEF h, u, w, f, p, no, v
<1>6. s.buflen = 8 * r
  <2>1. x = 8 * r
    OBVIOUS
  <2>. HIDE DEF x
  <2>2. s.buflen = x
    BY <1>1 DEF Rec
  <2>. QED
    BY <2>1, <2>2
<1>7. PadBlock(s, alg) = blake256_update(Back(s, 8), <<p>>)
  BY <1>1, <1>6, PadCases DEF p
<1>8. blake256_update(Back(s, 8), <<p>>) = LastByte(s, p)
  <2>1. blake256_update(Back(Rec(h, u, w, 8 * Ahead, no, b), 8), <<p>>)
          = Back(blake256_update(Rec(h, u, w, 8 * Ahead, no, b), <<p>>), 8)
    BY <1>1, EarlyBack
  <2>. QED
    BY <1>1, <2>1, Zenon DEF LastByte
<1>9. blake256_final_h(s, alg) = Ending(s, p, f)
  <2>1. blake256_final_h(s, alg) = blake256_update(Back(PadBlock(s, alg), 8 * LengthBytes), f)
    BY FinalField DEF f
  <2>. QED
    BY <1>7, <1>8, <2>1, LastIsEnding, Zenon
<1> DEFINE v0 == (u + 8 * Ahead) % TMod
           v1 == IF v0 = 0 THEN (w + 1) % TMod ELSE w
<1>10. Ending(Rec(h, u, w, 8 * Ahead, no, b), p, f).h
         = Append(h, [blk |-> EndOf(b, p, f), t |-> Stamp(no, v0, v1)])
  BY <1>1, <1>3, <1>5, EndingRec
<1>11. v0 = Low(v) /\ v1 = High(v)
  BY <1>3
<1>12. Stamp(no, v0, v1) = Words(v)
  BY <1>11, Zenon DEF Stamp, Words, no
<1>. HIDE DEF v0, v1
<1>13. Ending(s, p, f).h = Append(h, [blk |-> EndOf(b, p, f), t |-> Words(v)])
  BY <1>1, <1>10, <1>12, Zenon
<1>. QED
  BY <1>4, <1>9, <1>13, Zenon DEF h, p, f

LEMMA BackAndOn ==
  ASSUME BlakeAssumption, NEW u \in Int, NEW i \in Int, NEW j \in Int
  PROVE  (((u - i) % TMod) + j) % TMod = (u + (j - i)) % TMod
<1>1. TMod \in Nat \ {0}
  BY BlakeSizes
<1> DEFINE v == u - i
<1>2. v \in Int /\ v + j = u + (j - i)
  OBVIOUS
<1>. HIDE DEF v
<1>3. ((v % TMod) + j) % TMod = (v + j) % TMod
  BY <1>1, <1>2, RestPlus
<1>. QED
  BY <1>2, <1>3 DEF v

(* The bytes of padding that fill the buffer from r to e.                  *)
Fill(r, e) == SubSeq(padding, 1, e - r)

LEMMA FillBytes ==
  ASSUME BlakeAssumption, NEW r \in Nat, NEW e \in Nat, r < e, e <= BLOCK
  PROVE  /\ IsSeq(Fill(r, e)) /\ Len(Fill(r, e)) = e - r
         /\ \A i \in 1 .. e - r : Fill(r, e)[i] = IF i = 1 THEN End(0, 0) ELSE Num(0)
<1> DEFINE n == e - r
           d == SubSeq(padding, 0 + 1, 0 + n)
           zero == Num(0)
           end == End(0, 0)
<1>1. BLOCK \in Nat /\ n \in Nat /\ 0 \in Nat /\ 0 + n <= BLOCK
  BY BlakeSizes
<1>2. 0 + n = n /\ 0 + 1 = 1
  BY <1>1
<1>3. Fill(r, e) = d
  BY <1>2 DEF Fill
<1>. HIDE DEF n
<1>4. /\ IsSeq(d) /\ Len(d) = n
      /\ \A i \in 1..n : d[i] = IF 0 + i = 1 THEN end ELSE zero
  BY <1>1, PaddingBytes
<1>. HIDE DEF d, zero, end
<1>5. \A i \in 1..n : d[i] = IF i = 1 THEN end ELSE zero
  BY <1>1, <1>4
<1>. QED
  BY <1>3, <1>4, <1>5 DEF n, end, zero

(* The padding fits behind the message.                                    *)
LEMMA FinalFits ==
  ASSUME BlakeAssumption, NEW alg, NEW m, NEW n, NEW r, NEW b, NEW s, Absorbs(s, alg, m, n, r, b),
         r < Ahead
  PROVE  blake256_final_h(s, alg).h
           = Append(Chain(alg, m, n),
                    [blk |-> EndOf(Overlay(b, r, Fill(r, Ahead)), pb(alg), LengthField(8 * Len(m))),
                     t |-> IF r = 0 THEN <<0, 0>> ELSE Words(8 * Len(m))])
<1> DEFINE v == Bits * n + 8 * r
           u == Low(Bits * n)
           w == High(Bits * n)
           x == 8 * r
           h == Chain(alg, m, n)
           p == pb(alg)
           f == LengthField(8 * Len(m))
           no == FALSE
           g == Ahead - r
           k == 8 * g
           d == Fill(r, Ahead)
           c == Overlay(b, r, d)
           nul == (s.buflen = 0)
           u1 == (u - k) % TMod
           F == 8 * Ahead
<1>1. /\ n \in Nat /\ r \in Nat /\ r < BLOCK /\ Len(m) = n * BLOCK + r /\ Len(b) = BLOCK
      /\ s = Rec(h, u, w, x, no, b)
  BY Zenon DEF Absorbs, Mid
<1>2. /\ BLOCK \in Nat \ {0} /\ Ahead \in Nat \ {0} /\ LengthBytes \in Nat \ {0}
      /\ Ahead + 1 + LengthBytes = BLOCK
  BY FinalSizes
<1>3. u \in Int /\ (r # 0 => (u + x) % TMod = Low(v) /\ Low(v) # 0 /\ w = High(v))
  <2>1. CASE r = 0
    BY <1>1, <2>1, LengthInWords
  <2>2. CASE r # 0
    <3>1. u \in Nat
      BY <1>1, LengthInWords
    <3>. QED
      BY <1>1, <2>2, <3>1, CountInFinal
  <2>. QED
    BY <2>1, <2>2
<1>4. 8 * Len(m) = v
  BY <1>1, <1>2, SMT DEF Bits
<1>5. IsSeq(f) /\ Len(f) = LengthBytes
  BY FieldBytes
<1>6. IsSeq(d) /\ Len(d) = g
  <2>1. Ahead \in Nat /\ Ahead <= BLOCK
    BY <1>2
  <2>. QED
    BY <1>1, <2>1, FillBytes
<1>. HIDE DEF h, u, w, f, p, no, v
<1>7. s.buflen = x
  <2>. HIDE DEF x
  <2>. QED
    BY <1>1 DEF Rec
<1>8. PadBlock(s, alg) = LastByte(PadFits(s, k, g), p)
  BY ZenonT(60), <1>1, <1>7, PadCases DEF p
<1>9. nul <=> r = 0
  BY <1>1, <1>7
<1>10. [s EXCEPT !.nullt = nul] = Rec(h, u, w, x, nul, b)
  <2>1. s = Rec(h, u, w, x, no, b)
    BY <1>1
  <2>2. [Rec(h, u, w, x, no, b) EXCEPT !.nullt = nul] = Rec(h, u, w, x, nul, b)
    <3>. HIDE DEF x, nul
    <3>. QED
      BY DEF Rec
  <2>. QED
    BY <2>1, <2>2, Zenon
<1>11. Back(Rec(h, u, w, x, nul, b), k) = Rec(h, u1, w, x, nul, b)
  <2>. HIDE DEF x, nul, k
  <2>. QED
    BY BackRec
<1>12. blake256_update(Rec(h, u1, w, x, nul, b), d) = Rec(h, u1, w, F, nul, c)
  <2>1. r \in Nat /\ x = 8 * r /\ Len(d) > 0 /\ r + Len(d) < BLOCK /\ F = Held(r, d)
    <3>. HIDE DEF d
    <3>. QED
      BY <1>1, <1>2, <1>6 DEF Held
  <2>2. IsSeq(d)
    BY <1>6
  <2>. HIDE DEF x, d, nul, u1, F
  <2>3. r \in Nat /\ x = 8 * r /\ Len(d) > 0 /\ r + Len(d) < BLOCK
    BY <2>1
  <2>4. blake256_update(Rec(h, u1, w, x, nul, b), d) = Rec(h, u1, w, Held(r, d), nul, c)
    BY <1>1, <2>2, <2>3, Stored
  <2>. QED
    BY <2>1, <2>4, Zenon
<1>13. PadFits(s, k, g) = Rec(h, u1, w, F, nul, c)
  <2>1. PadFits(s, k, g) = blake256_update(Back([s EXCEPT !.nullt = nul], k), d)
    BY Zenon DEF PadFits, Fill
  <2>. QED
    BY <1>10, <1>11, <1>12, <2>1, Zenon
<1>14. blake256_final_h(s, alg) = Ending(Rec(h, u1, w, F, nul, c), p, f)
  <2>1. blake256_final_h(s, alg) = blake256_update(Back(PadBlock(s, alg), 8 * LengthBytes), f)
    BY FinalField DEF f
  <2> DEFINE q == Rec(h, u1, w, F, nul, c)
             y == PadFits(s, k, g)
  <2>2. PadBlock(s, alg) = LastByte(y, p) /\ y = q
    BY <1>8, <1>13
  <2>. HIDE DEF q, y
  <2>3. blake256_update(Back(LastByte(q, p), 8 * LengthBytes), f) = Ending(q, p, f)
    BY LastIsEnding
  <2>4. blake256_final_h(s, alg) = Ending(q, p, f)
    BY <2>1, <2>2, <2>3, Zenon
  <2>. QED
    BY <2>4 DEF q
<1> DEFINE v0 == (u1 + 8 * Ahead) % TMod
           v1 == IF v0 = 0 THEN (w + 1) % TMod ELSE w
<1>15. Ending(Rec(h, u1, w, 8 * Ahead, nul, c), p, f).h
         = Append(h, [blk |-> EndOf(c, p, f), t |-> Stamp(nul, v0, v1)])
  <2>1. Len(c) = BLOCK
    <3>1. BLOCK \in Nat /\ Len(b) = BLOCK
      BY <1>1, <1>2
    <3>. HIDE DEF d
    <3>2. Len(Overlay(b, r, d)) = BLOCK
      BY <3>1, OverlaySized
    <3>. QED
      BY <3>2
  <2>2. u1 \in Int
    <3>1. k \in Int
      BY <1>1, <1>2
    <3>. HIDE DEF k
    <3>. QED
      BY <1>3, <3>1, BackIsInt
  <2>. HIDE DEF c, nul, u1
  <2>. QED
    BY <1>5, <2>1, <2>2, EndingRec
<1>16. v0 = (u + x) % TMod
  <2>1. k \in Int /\ F \in Int /\ F - k = x
    BY <1>1, <1>2
  <2>. HIDE DEF k, x
  <2>2. (((u - k) % TMod) + F) % TMod = (u + (F - k)) % TMod
    <3>. HIDE DEF F
    <3>. QED
      BY <1>3, <2>1, BackAndOn
  <2>. QED
    BY <2>1, <2>2
<1>17. Stamp(nul, v0, v1) = IF r = 0 THEN <<0, 0>> ELSE Words(v)
  <2>1. CASE r = 0
    <3>. HIDE DEF v0, v1, nul
    <3>1. nul
      BY <1>9, <2>1
    <3>. QED
      BY <2>1, <3>1, Zenon DEF Stamp
  <2>2. CASE r # 0
    <3>1. v0 = Low(v) /\ v1 = High(v)
      <4>1. v0 = Low(v) /\ v0 # 0
        BY <1>3, <1>16, <2>2
      <4>. HIDE DEF v0
      <4>. QED
        BY <1>3, <2>2, <4>1
    <3>. HIDE DEF v0, v1, nul
    <3>2. ~nul
      BY <1>9, <2>2
    <3>. QED
      BY <2>2, <3>1, <3>2, Zenon DEF Stamp, Words
  <2>. QED
    BY <2>1, <2>2
<1>. HIDE DEF v0, v1, nul, c
<1>18. Ending(Rec(h, u1, w, F, nul, c), p, f).h
         = Append(h, [blk |-> EndOf(c, p, f), t |-> IF r = 0 THEN <<0, 0>> ELSE Words(v)])
  BY <1>15, <1>17, Zenon
<1>. QED
  BY <1>4, <1>14, <1>18, Zenon DEF h, p, f, c

(* The zeros in front of the last padding byte, in a block of their own.   *)
Blank == SubSeq(padding, 2, Ahead + 1)

LEMMA BlankBytes ==
  ASSUME BlakeAssumption
  PROVE  IsSeq(Blank) /\ Len(Blank) = Ahead /\ \A i \in 1..Ahead : Blank[i] = Num(0)
<1> DEFINE n == Ahead
           d == SubSeq(padding, 1 + 1, 1 + n)
           zero == Num(0)
           end == End(0, 0)
<1>1. n \in Nat /\ 1 \in Nat /\ 1 + n <= BLOCK
  BY FinalSizes
<1>2. 1 + n = n + 1 /\ 1 + 1 = 2
  BY <1>1
<1>3. Blank = d
  BY <1>2 DEF Blank
<1>. HIDE DEF n
<1>4. /\ IsSeq(d) /\ Len(d) = n
      /\ \A i \in 1..n : d[i] = IF 1 + i = 1 THEN end ELSE zero
  BY <1>1, PaddingBytes
<1>. HIDE DEF d, zero, end
<1>5. \A i \in 1..n : d[i] = zero
  BY <1>1, <1>4
<1>. QED
  BY <1>3, <1>4, <1>5 DEF n, zero

(* The padding takes a second block.                                       *)
LEMMA FinalFull ==
  ASSUME BlakeAssumption, NEW alg, NEW m, NEW n, NEW r, NEW b, NEW s, Absorbs(s, alg, m, n, r, b),
         r > Ahead
  PROVE  LET b1 == Overlay(b, r, Fill(r, BLOCK))
             h1 == Append(Chain(alg, m, n), [blk |-> b1, t |-> Words(8 * Len(m))])
         IN  blake256_final_h(s, alg).h
               = Append(h1, [blk |-> EndOf(Overlay(b1, 0, Blank), pb(alg), LengthField(8 * Len(m))),
                             t |-> <<0, 0>>])
<1> DEFINE v == Bits * n + 8 * r
           u == Low(Bits * n)
           w == High(Bits * n)
           x == 8 * r
           h == Chain(alg, m, n)
           p == pb(alg)
           f == LengthField(8 * Len(m))
           no == FALSE
           yes == TRUE
           g == BLOCK - r
           k == 8 * g
           d == Fill(r, BLOCK)
           b1 == Overlay(b, r, d)
           u1 == (u - k) % TMod
           lv == Low(v)
           hv == High(v)
           h1 == Append(h, [blk |-> b1, t |-> Words(v)])
           F == 8 * Ahead
           u2 == (lv - F) % TMod
           c == Overlay(b1, 0, Blank)
<1>1. /\ n \in Nat /\ r \in Nat /\ r < BLOCK /\ Len(m) = n * BLOCK + r /\ Len(b) = BLOCK
      /\ s = Rec(h, u, w, x, no, b)
  BY Zenon DEF Absorbs, Mid
<1>2. /\ BLOCK \in Nat \ {0} /\ Ahead \in Nat \ {0} /\ LengthBytes \in Nat \ {0}
      /\ Ahead + 1 + LengthBytes = BLOCK /\ r # 0
  BY <1>1, FinalSizes
<1>3. u \in Int /\ (u + x) % TMod = lv /\ lv # 0 /\ w = hv /\ lv \in Int
  <2>1. u \in Nat /\ v \in Nat
    BY <1>1, LengthInWords
  <2>2. TMod \in Nat \ {0}
    BY BlakeSizes
  <2>3. lv \in Int
    <3>. HIDE DEF v
    <3>. QED
      BY <2>1, <2>2 DEF Low
  <2>. QED
    BY <1>1, <1>2, <2>1, <2>3, CountInFinal
<1>4. 8 * Len(m) = v
  BY <1>1, <1>2, SMT DEF Bits
<1>5. IsSeq(f) /\ Len(f) = LengthBytes
  BY FieldBytes
<1>6. IsSeq(d) /\ Len(d) = g
  <2>1. BLOCK \in Nat /\ BLOCK <= BLOCK
    BY <1>2
  <2>. QED
    BY <1>1, <2>1, FillBytes
<1>. HIDE DEF h, u, w, f, p, no, v, yes, lv, hv
<1>7. s.buflen = x
  <2>. HIDE DEF x
  <2>. QED
    BY <1>1 DEF Rec
<1>8. PadBlock(s, alg)
        = LastByte([PadNext(PadFull(s, k, g), F, Ahead) EXCEPT !.nullt = yes], p)
  BY ZenonT(60), <1>1, <1>7, PadCases DEF p, yes
<1>9. Back(s, k) = Rec(h, u1, w, x, no, b)
  <2>1. s = Rec(h, u, w, x, no, b)
    BY <1>1
  <2>. HIDE DEF x, k
  <2>2. Back(Rec(h, u, w, x, no, b), k) = Rec(h, u1, w, x, no, b)
    BY BackRec
  <2>. QED
    BY <2>1, <2>2, Zenon
<1>10. Up0(u1) = lv /\ Up1(u1, w) = hv
  <2>1. k \in Int /\ Bits - k = x
    BY <1>1, <1>2 DEF Bits
  <2>. HIDE DEF k, x
  <2>2. Up0((u - k) % TMod) = (u + (Bits - k)) % TMod
    BY <1>3, <2>1, BackAndUp
  <2>3. Up0(u1) = lv
    BY <1>3, <2>1, <2>2
  <2>. HIDE DEF u1
  <2>. QED
    BY <1>3, <2>3 DEF Up1
<1>11. PadFull(s, k, g) = Rec(h1, lv, hv, 0, no, b1)
  <2>1. r \in Nat /\ r # 0 /\ x = 8 * r /\ Len(d) > 0 /\ r + Len(d) = BLOCK
    <3>. HIDE DEF d
    <3>. QED
      BY <1>1, <1>2, <1>6
  <2>2. IsSeq(d) /\ b1 = Overlay(b, r, d)
    BY <1>6
  <2>3. PadFull(s, k, g) = blake256_update(Back(s, k), d)
    BY Zenon DEF PadFull, Fill
  <2>. HIDE DEF x, d, u1, b1
  <2>4. blake256_update(Rec(h, u1, w, x, no, b), d)
          = Rec(Append(h, [blk |-> b1, t |-> Stamp(no, Up0(u1), Up1(u1, w))]),
                Up0(u1), Up1(u1, w), 0, no, b1)
    BY <1>1, <2>1, <2>2, Closed
  <2>5. Stamp(no, Up0(u1), Up1(u1, w)) = Words(v)
    BY <1>10, Zenon DEF Stamp, Words, no, lv, hv
  <2>. QED
    BY <1>9, <1>10, <2>3, <2>4, <2>5, Zenon
<1>12. Len(b1) = BLOCK
  <2>1. BLOCK \in Nat /\ Len(b) = BLOCK
    BY <1>1, <1>2
  <2>. HIDE DEF d
  <2>2. Len(Overlay(b, r, d)) = BLOCK
    BY <2>1, OverlaySized
  <2>. QED
    BY <2>2
<1>. HIDE DEF b1, h1
<1>13. PadNext(PadFull(s, k, g), F, Ahead) = Rec(h1, u2, hv, F, no, c)
  <2> DEFINE a == 0
             e == Blank
             y == PadFull(s, k, g)
  <2>1. IsSeq(e) /\ Len(e) = Ahead
    BY BlankBytes
  <2>2. Back(Rec(h1, lv, hv, a, no, b1), F) = Rec(h1, u2, hv, a, no, b1)
    <3>. HIDE DEF F, a
    <3>. QED
      BY BackRec
  <2>3. a \in Nat /\ a = 8 * a /\ Len(e) > 0 /\ a + Len(e) < BLOCK /\ F = Held(a, e)
    <3>. HIDE DEF e
    <3>. QED
      BY <1>2, <2>1 DEF Held
  <2>4. PadNext(y, F, Ahead) = blake256_update(Back(y, F), e)
    BY Zenon DEF PadNext, Blank
  <2>5. y = Rec(h1, lv, hv, a, no, b1)
    BY <1>11
  <2>6. c = Overlay(b1, a, e) /\ IsSeq(e)
    BY <2>1
  <2>. HIDE DEF a, e, u2, F, y, c
  <2>7. a \in Nat /\ a = 8 * a /\ Len(e) > 0 /\ a + Len(e) < BLOCK
    BY <2>3
  <2>8. blake256_update(Rec(h1, u2, hv, a, no, b1), e)
          = Rec(h1, u2, hv, Held(a, e), no, Overlay(b1, a, e))
    <3>1. IsSeq(e)
      BY <2>6
    <3>. QED
      BY <1>12, <2>7, <3>1, Stored
  <2>9. PadNext(y, F, Ahead) = Rec(h1, u2, hv, F, no, c)
    BY <2>2, <2>3, <2>4, <2>5, <2>6, <2>8, Zenon
  <2>. QED
    BY <2>9 DEF y
<1>14. [Rec(h1, u2, hv, F, no, c) EXCEPT !.nullt = yes] = Rec(h1, u2, hv, F, yes, c)
  <2>. HIDE DEF u2, F, c
  <2>. QED
    BY DEF Rec
<1>15. blake256_final_h(s, alg) = Ending(Rec(h1, u2, hv, F, yes, c), p, f)
  <2>1. blake256_final_h(s, alg) = blake256_update(Back(PadBlock(s, alg), 8 * LengthBytes), f)
    BY FinalField DEF f
  <2> DEFINE q == Rec(h1, u2, hv, F, yes, c)
             z == PadNext(PadFull(s, k, g), F, Ahead)
  <2>2. PadBlock(s, alg) = LastByte([z EXCEPT !.nullt = yes], p)
    BY <1>8
  <2>3. [z EXCEPT !.nullt = yes] = q
    BY <1>13, <1>14, Zenon
  <2>. HIDE DEF q, z
  <2>4. blake256_update(Back(LastByte(q, p), 8 * LengthBytes), f) = Ending(q, p, f)
    BY LastIsEnding
  <2>5. blake256_final_h(s, alg) = Ending(q, p, f)
    BY <2>1, <2>2, <2>3, <2>4, Zenon
  <2>. QED
    BY <2>5 DEF q
<1> DEFINE v0 == (u2 + 8 * Ahead) % TMod
           v1 == IF v0 = 0 THEN (hv + 1) % TMod ELSE hv
<1>16. Ending(Rec(h1, u2, hv, 8 * Ahead, yes, c), p, f).h
         = Append(h1, [blk |-> EndOf(c, p, f), t |-> Stamp(yes, v0, v1)])
  <2>1. Len(c) = BLOCK
    <3> DEFINE a == 0
               e == Blank
    <3>1. BLOCK \in Nat
      BY <1>2
    <3>. HIDE DEF a, e
    <3>2. Len(Overlay(b1, a, e)) = BLOCK
      BY <1>12, <3>1, OverlaySized
    <3>. QED
      BY <3>2 DEF a, e
  <2>2. u2 \in Int
    <3>1. F \in Int
      BY <1>1, <1>2
    <3>. HIDE DEF F
    <3>. QED
      BY <1>3, <3>1, BackIsInt
  <2>. HIDE DEF c, u2
  <2>. QED
    BY <1>5, <2>1, <2>2, EndingRec
<1>17. Stamp(yes, v0, v1) = <<0, 0>>
  <2>. HIDE DEF v0, v1
  <2>. QED
    BY Zenon DEF Stamp, yes
<1>. HIDE DEF v0, v1, c
<1>18. Ending(Rec(h1, u2, hv, F, yes, c), p, f).h
         = Append(h1, [blk |-> EndOf(c, p, f), t |-> <<0, 0>>])
  BY <1>16, <1>17, Zenon
<1>. QED
  BY <1>4, <1>15, <1>18, Zenon DEF h, p, f, c, b1, h1

-----------------------------------------------------------------------------
(* The last blocks, byte by byte.                                          *)
LEMMA EndBytes ==
  ASSUME BlakeAssumption, NEW b, Len(b) = BLOCK, NEW p, NEW f, Len(f) = LengthBytes
  PROVE  LET o == EndOf(b, p, f)
         IN  /\ IsSeq(o) /\ Len(o) = BLOCK
             /\ \A k \in 1..Ahead : o[k] = b[k]
             /\ o[Ahead + 1] = p
             /\ \A k \in 1..LengthBytes : o[Ahead + 1 + k] = f[k]
<1> DEFINE A == Ahead
           d == <<p>>
           c == Overlay(b, A, d)
           o == EndOf(b, p, f)
<1>1. /\ BLOCK \in Nat /\ LengthBytes \in Nat \ {0} /\ A \in Nat \ {0}
      /\ A + 1 + LengthBytes = BLOCK
  BY FinalSizes
<1>2. Len(d) = 1 /\ d[1] = p
  OBVIOUS
<1>3. o = Overlay(c, A + 1, f)
  BY DEF EndOf
<1>. HIDE DEF A, d
<1>4. /\ Len(c) = BLOCK
      /\ \A k \in 1..BLOCK : c[k] = IF k > A /\ k <= A + Len(d) THEN d[k - A] ELSE b[k]
  <2>1. BLOCK \in Nat
    BY <1>1
  <2>. QED
    BY <2>1, OverlaySized
<1>. HIDE DEF c, o
<1> DEFINE a == A + 1
<1>5. a = A + 1 /\ a \in Nat
  BY <1>1
<1>6. o = Overlay(c, a, f)
  BY <1>3
<1>. HIDE DEF a
<1>7. /\ IsSeq(Overlay(c, a, f)) /\ Len(Overlay(c, a, f)) = BLOCK
      /\ \A k \in 1..BLOCK :
           Overlay(c, a, f)[k] = IF k > a /\ k <= a + Len(f) THEN f[k - a] ELSE c[k]
  <2>1. BLOCK \in Nat
    BY <1>1
  <2>2. Len(c) = BLOCK
    BY <1>4
  <2>3. Laid(Overlay(c, a, f), c, BLOCK, a, f)
    BY <2>1, <2>2, OverlayLaid
  <2>. QED
    BY <2>3, Zenon DEF Laid
<1>8. ASSUME NEW k \in 1..A
      PROVE  o[k] = b[k]
  <2>1. k \in 1..BLOCK /\ ~(k > a) /\ ~(k > A)
    BY <1>1, <1>5
  <2>2. o[k] = c[k]
    BY <1>6, <1>7, <2>1
  <2>3. c[k] = b[k]
    BY <1>4, <2>1
  <2>. QED
    BY <2>2, <2>3
<1>9. o[a] = p
  <2>1. a \in 1..BLOCK /\ ~(a > a) /\ a > A /\ a <= A + Len(d) /\ a - A = 1
    BY <1>1, <1>2, <1>5
  <2>2. o[a] = c[a]
    BY <1>6, <1>7, <2>1
  <2>3. c[a] = d[a - A]
    BY <1>4, <2>1
  <2>. QED
    BY <1>2, <2>1, <2>2, <2>3
<1>10. ASSUME NEW k \in 1..LengthBytes
       PROVE  o[a + k] = f[k]
  <2>1. a + k \in 1..BLOCK /\ a + k > a /\ a + k <= a + Len(f) /\ (a + k) - a = k
    BY <1>1, <1>5
  <2> DEFINE j == a + k
  <2>2. j \in 1..BLOCK /\ j > a /\ j <= a + Len(f) /\ j - a = k
    BY <2>1
  <2>. HIDE DEF j
  <2>3. o[j] = f[j - a]
    BY <1>6, <1>7, <2>2
  <2>. QED
    BY <2>2, <2>3 DEF j
<1>. QED
  BY <1>5, <1>6, <1>7, <1>8, <1>9, <1>10 DEF A, o

LEMMA BlockBytes ==
  ASSUME BlakeAssumption, NEW e, NEW i
  PROVE  /\ IsSeq(BlockAt(e, i)) /\ Len(BlockAt(e, i)) = BLOCK
         /\ \A k \in 1..BLOCK : BlockAt(e, i)[k] = e[(i - 1) * BLOCK + k]
<1> DEFINE c == BlockAt(e, i)
<1>1. BLOCK \in Nat
  BY BlakeSizes
<1>2. c = [k \in 1..BLOCK |-> c[k]] /\ \A k \in 1..BLOCK : c[k] = e[(i - 1) * BLOCK + k]
  BY DEF BlockAt
<1>. HIDE DEF c
<1>3. IsSeq(c) /\ Len(c) = BLOCK
  BY <1>1, <1>2, Listed
<1>. QED
  BY <1>2, <1>3 DEF c

IsBlock(c, e, p) == IsSeq(c) /\ Len(c) = BLOCK /\ \A k \in 1..BLOCK : c[k] = e[p + k]

LEMMA BlockFrom ==
  ASSUME BlakeAssumption, NEW e, NEW i, NEW p, p = (i - 1) * BLOCK
  PROVE  IsBlock(BlockAt(e, i), e, p)
BY BlockBytes DEF IsBlock

(* The bytes of the padded message behind the first n blocks.              *)
Shape(e, alg, m, n, r, k) ==
  /\ IsSeq(e) /\ Len(e) = n * BLOCK + r + k + LengthBytes
  /\ \A i \in 1 .. n * BLOCK + r : e[i] = m[i]
  /\ \A i \in 1..k : e[n * BLOCK + r + i] = PadByte(alg, k, i)
  /\ \A i \in 1..LengthBytes : e[n * BLOCK + r + k + i] = LengthField(8 * Len(m))[i]

PadLength(r) == IF r <= Ahead THEN Ahead + 1 - r ELSE BLOCK + Ahead + 1 - r

LEMMA PaddedShape ==
  ASSUME BlakeAssumption, NEW alg, NEW m, IsSeq(m), NEW n \in Nat, NEW r \in Nat, r < BLOCK,
         Len(m) = n * BLOCK + r
  PROVE  Shape(Padded(alg, m), alg, m, n, r, PadLength(r)) /\ PadLength(r) \in Nat \ {0}
<1> DEFINE k == PadLength(r)
           nb == n * BLOCK
           N == IF r <= Ahead THEN n + 1 ELSE n + 2
<1>1. /\ BLOCK \in Nat /\ LengthBytes \in Nat \ {0} /\ Ahead \in Nat \ {0}
      /\ Ahead + 1 + LengthBytes = BLOCK
  BY FinalSizes
<1>2. k \in Nat \ {0}
  BY <1>1 DEF PadLength
<1>3. nb \in Nat /\ (n + 1) * BLOCK = nb + BLOCK /\ (n + 2) * BLOCK = nb + BLOCK + BLOCK
  <2>1. (n + 1) * BLOCK = nb + BLOCK /\ nb \in Nat
    BY <1>1, Product
  <2>2. n + 1 \in Nat /\ n + 1 + 1 = n + 2
    OBVIOUS
  <2>3. (n + 1 + 1) * BLOCK = (n + 1) * BLOCK + BLOCK
    BY <1>1, <2>2, Product
  <2>. QED
    BY <2>1, <2>2, <2>3
<1>4. BlockCount(m) = N
  BY BlocksOfPadded
<1>5. PadGap(m) = k
  <2>1. BlockCount(m) * BLOCK = IF r <= Ahead THEN nb + BLOCK ELSE nb + BLOCK + BLOCK
    BY <1>3, <1>4
  <2> DEFINE y == BlockCount(m) * BLOCK
  <2>2. y = IF r <= Ahead THEN nb + BLOCK ELSE nb + BLOCK + BLOCK
    BY <2>1
  <2>3. Len(m) = nb + r
    OBVIOUS
  <2>. HIDE DEF y, nb
  <2>4. y - LengthBytes - Len(m) = k
    BY <1>1, <1>3, <2>2, <2>3 DEF PadLength
  <2>. QED
    BY <2>4 DEF y, PadGap
<1>6. PadsTo(Padded(alg, m), alg, m, k)
  <2>. HIDE DEF k
  <2>. QED
    BY <1>2, <1>5, PaddedIs
<1>7. Len(m) = n * BLOCK + r
  OBVIOUS
<1>. HIDE DEF k
<1>8. Shape(Padded(alg, m), alg, m, n, r, k)
  BY <1>6, <1>7, Zenon DEF Shape, PadsTo
<1>. QED
  BY <1>2, <1>8 DEF k

(* What Final compresses are the blocks of the padded message.             *)
LEMMA WholeBlocks ==
  ASSUME BlakeAssumption, NEW e, NEW alg, NEW m, NEW n \in Nat, NEW r \in Nat, NEW k,
         Shape(e, alg, m, n, r, k), NEW i \in 1..n
  PROVE  BlockAt(e, i) = BlockAt(m, i)
<1> DEFINE lo == (i - 1) * BLOCK
           nb == n * BLOCK
<1>1. BLOCK \in Nat
  BY BlakeSizes
<1>2. i - 1 \in Nat /\ i \in Nat /\ i <= n /\ (i - 1) + 1 = i
  OBVIOUS
<1>3. lo \in Nat /\ ((i - 1) + 1) * BLOCK = lo + BLOCK
  BY <1>1, <1>2, Product
<1>4. lo + BLOCK <= nb /\ nb \in Nat
  <2>1. i * BLOCK <= nb
    BY <1>1, <1>2, Monotone
  <2>2. nb \in Nat
    BY <1>1, Product
  <2>. QED
    BY <1>2, <1>3, <2>1, <2>2
<1>5. \A j \in 1 .. nb + r : e[j] = m[j]
  BY DEF Shape
<1>. HIDE DEF lo, nb
<1>6. \A j \in 1..BLOCK : e[lo + j] = m[lo + j]
  BY <1>1, <1>3, <1>4, <1>5
<1>7. /\ BlockAt(e, i) = [j \in 1..BLOCK |-> e[lo + j]]
      /\ BlockAt(m, i) = [j \in 1..BLOCK |-> m[lo + j]]
  BY DEF BlockAt, lo
<1>. QED
  BY <1>6, <1>7

Sized(m, n, r) == n \in Nat /\ r \in Nat /\ r < BLOCK /\ Len(m) = n * BLOCK + r
Buffered(b, m, n, r) == Len(b) = BLOCK /\ \A k \in 1..r : b[k] = m[n * BLOCK + k]
IsField(f, m) == f = LengthField(8 * Len(m)) /\ Len(f) = LengthBytes

LEMMA ExactBlock ==
  ASSUME BlakeAssumption, NEW e, NEW alg, NEW m, NEW n, NEW r, Sized(m, n, r), r = Ahead,
         Shape(e, alg, m, n, r, PadLength(r)),
         NEW f, IsField(f, m), NEW b, Buffered(b, m, n, r)
  PROVE  EndOf(b, pa(alg), f) = BlockAt(e, n + 1)
<1>. USE DEF Sized, Buffered, IsField
<1>0. Shape(e, alg, m, n, r, 1)
  <2>1. Ahead \in Nat
    BY FinalSizes
  <2>2. PadLength(r) = 1
    BY <2>1 DEF PadLength
  <2>. QED
    BY <2>2
<1> DEFINE o == EndOf(b, pa(alg), f)
           c == BlockAt(e, n + 1)
           nb == n * BLOCK
           A == Ahead
<1>1. /\ BLOCK \in Nat /\ LengthBytes \in Nat \ {0} /\ A \in Nat \ {0}
      /\ A + 1 + LengthBytes = BLOCK
  BY FinalSizes
<1>2. nb \in Nat
  BY <1>1, Product
<1>3. /\ IsSeq(o) /\ Len(o) = BLOCK
      /\ \A k \in 1..A : o[k] = b[k]
      /\ o[A + 1] = pa(alg)
      /\ \A k \in 1..LengthBytes : o[A + 1 + k] = f[k]
  BY SMTT(60), EndBytes
<1>4. IsSeq(c) /\ Len(c) = BLOCK /\ \A k \in 1..BLOCK : c[k] = e[nb + k]
  <2> DEFINE i == n + 1
             p == nb
  <2>1. p = (i - 1) * BLOCK
    <3>1. i - 1 = n
      OBVIOUS
    <3>. QED
      BY <3>1
  <2>. HIDE DEF i, p
  <2>2. IsBlock(BlockAt(e, i), e, p)
    BY <2>1, BlockFrom
  <2>. QED
    BY <2>2, Zenon DEF IsBlock, i, p
<1>5. /\ \A i \in 1 .. nb + A : e[i] = m[i]
      /\ \A i \in 1..1 : e[nb + A + i] = PadByte(alg, 1, i)
      /\ \A i \in 1..LengthBytes : e[nb + A + 1 + i] = f[i]
      /\ \A k \in 1..A : b[k] = m[nb + k]
  BY <1>0, Zenon DEF Shape, Buffered, IsField
<1>6. PadByte(alg, 1, 1) = pa(alg)
  BY DEF PadByte
<1>. HIDE DEF o, c, nb, A
<1>7. ASSUME NEW k \in 1..BLOCK
      PROVE  o[k] = c[k]
  <2>1. CASE k <= A
    <3>1. k \in 1..A /\ nb + k \in 1 .. nb + A
      BY <1>1, <1>2, <2>1
    <3>2. o[k] = b[k] /\ b[k] = m[nb + k]
      BY <1>3, <1>5, <3>1
    <3>3. c[k] = e[nb + k] /\ e[nb + k] = m[nb + k]
      BY <1>4, <1>5, <3>1
    <3>. QED
      BY <3>2, <3>3
  <2>2. CASE k = A + 1
    <3>1. e[nb + A + 1] = PadByte(alg, 1, 1)
      BY <1>5
    <3>2. nb + A + 1 = nb + k
      BY <1>1, <1>2, <2>2
    <3>. QED
      BY <1>3, <1>4, <1>6, <2>2, <3>1, <3>2
  <2>3. CASE k > A + 1
    <3> DEFINE j == k - (A + 1)
    <3>1. j \in 1..LengthBytes /\ A + 1 + j = k /\ nb + A + 1 + j = nb + k
      BY <1>1, <1>2, <2>3
    <3>. HIDE DEF j
    <3>2. o[A + 1 + j] = f[j] /\ e[nb + A + 1 + j] = f[j]
      BY <1>3, <1>5, <3>1
    <3>. QED
      BY <1>4, <3>1, <3>2
  <2>. QED
    BY <1>1, <2>1, <2>2, <2>3
<1>8. o = c
  <2>1. IsSeq(o) /\ IsSeq(c) /\ Len(o) = Len(c) /\ \A k \in 1..Len(o) : o[k] = c[k]
    BY <1>3, <1>4, <1>7
  <2>. QED
    BY <2>1, SameSeq
<1>. QED
  BY <1>8 DEF o, c

LEMMA FittingBlock ==
  ASSUME BlakeAssumption, NEW e, NEW alg, NEW m, NEW n, NEW r, Sized(m, n, r), r < Ahead,
         Shape(e, alg, m, n, r, PadLength(r)),
         NEW f, IsField(f, m), NEW b, Buffered(b, m, n, r)
  PROVE  EndOf(Overlay(b, r, Fill(r, Ahead)), pb(alg), f) = BlockAt(e, n + 1)
<1>. USE DEF Sized, Buffered, IsField
<1>0. Shape(e, alg, m, n, r, Ahead + 1 - r)
  <2>1. Ahead \in Nat
    BY FinalSizes
  <2>2. PadLength(r) = Ahead + 1 - r
    BY <2>1 DEF PadLength
  <2>. QED
    BY <2>2
<1> DEFINE d == Fill(r, Ahead)
           b1 == Overlay(b, r, d)
           o == EndOf(b1, pb(alg), f)
           c == BlockAt(e, n + 1)
           nb == n * BLOCK
           A == Ahead
           q == A + 1 - r
           end == End(0, 0)
           zero == Num(0)
           z == pb(alg)
<1>1. /\ BLOCK \in Nat /\ LengthBytes \in Nat \ {0} /\ A \in Nat \ {0}
      /\ A + 1 + LengthBytes = BLOCK
  BY FinalSizes
<1>2. nb \in Nat
  BY <1>1, Product
<1>3. IsSeq(d) /\ Len(d) = A - r /\ \A i \in 1 .. A - r : d[i] = IF i = 1 THEN end ELSE zero
  <2>1. A \in Nat /\ A <= BLOCK
    BY <1>1
  <2>. QED
    BY <2>1, FillBytes
<1>4. Laid(b1, b, BLOCK, r, d)
  <2>1. BLOCK \in Nat
    BY <1>1
  <2>. HIDE DEF d
  <2>. QED
    BY <2>1, OverlayLaid
<1>5. /\ Len(b1) = BLOCK
      /\ \A k \in 1..BLOCK : b1[k] = IF k > r /\ k <= r + Len(d) THEN d[k - r] ELSE b[k]
  BY <1>4, Zenon DEF Laid
<1>6. /\ IsSeq(o) /\ Len(o) = BLOCK
      /\ \A k \in 1..A : o[k] = b1[k]
      /\ o[A + 1] = z
      /\ \A k \in 1..LengthBytes : o[A + 1 + k] = f[k]
  <2>. HIDE DEF b1
  <2>. QED
    BY <1>5, EndBytes
<1>7. IsSeq(c) /\ Len(c) = BLOCK /\ \A k \in 1..BLOCK : c[k] = e[nb + k]
  <2> DEFINE i == n + 1
             p == nb
  <2>1. p = (i - 1) * BLOCK
    <3>1. i - 1 = n
      OBVIOUS
    <3>. QED
      BY <3>1
  <2>. HIDE DEF i, p
  <2>2. IsBlock(BlockAt(e, i), e, p)
    BY <2>1, BlockFrom
  <2>. QED
    BY <2>2, Zenon DEF IsBlock, i, p
<1>8. /\ \A i \in 1 .. nb + r : e[i] = m[i]
      /\ \A i \in 1..q : e[nb + r + i] = PadByte(alg, q, i)
      /\ \A i \in 1..LengthBytes : e[nb + r + q + i] = f[i]
      /\ \A k \in 1..r : b[k] = m[nb + k]
  BY <1>0, Zenon DEF Shape, Buffered, IsField
<1>9. q \in Nat /\ q # 1 /\ q # 0 /\ r + q = A + 1
  BY <1>1
<1>10. \A i \in 1..q : PadByte(alg, q, i) = IF i = 1 THEN end ELSE IF i = q THEN z ELSE zero
  <2>. HIDE DEF q
  <2>. QED
    BY <1>9 DEF PadByte
<1>. HIDE DEF o, c, nb, A, d, b1, q, end, zero, z
<1>11. ASSUME NEW k \in 1..BLOCK
       PROVE  o[k] = c[k]
  <2>1. CASE k <= r
    <3>1. k \in 1..r /\ nb + k \in 1 .. nb + r /\ k \in 1..A /\ ~(k > r)
      BY <1>1, <1>2, <1>9, <2>1 DEF A
    <3>2. o[k] = b1[k] /\ b1[k] = b[k] /\ b[k] = m[nb + k]
      BY <1>5, <1>6, <1>8, <3>1
    <3>3. c[k] = e[nb + k] /\ e[nb + k] = m[nb + k]
      BY <1>7, <1>8, <3>1
    <3>. QED
      BY <3>2, <3>3
  <2>2. CASE k > r /\ k <= A
    <3> DEFINE j == k - r
    <3>1. j \in 1 .. A - r /\ j \in 1..q /\ j # q /\ k <= r + Len(d) /\ k \in 1..A
          /\ nb + r + j = nb + k
      BY <1>1, <1>2, <1>3, <1>9, <2>2
    <3>2. o[k] = b1[k] /\ b1[k] = d[j]
      BY <1>5, <1>6, <2>2, <3>1
    <3>. HIDE DEF j
    <3>3. d[j] = IF j = 1 THEN end ELSE zero
      BY <1>3, <3>1
    <3>4. e[nb + r + j] = PadByte(alg, q, j)
      BY <1>8, <3>1
    <3>5. PadByte(alg, q, j) = IF j = 1 THEN end ELSE zero
      BY <1>10, <3>1
    <3>6. c[k] = e[nb + k]
      BY <1>7
    <3>. QED
      BY <3>1, <3>2, <3>3, <3>4, <3>5, <3>6
  <2>3. CASE k = A + 1
    <3>1. q \in 1..q /\ nb + r + q = nb + k
      BY <1>1, <1>2, <1>9, <2>3
    <3>2. e[nb + r + q] = PadByte(alg, q, q)
      BY <1>8, <3>1
    <3>3. PadByte(alg, q, q) = z
      BY <1>9, <1>10, <3>1
    <3>. QED
      BY <1>6, <1>7, <2>3, <3>1, <3>2, <3>3
  <2>4. CASE k > A + 1
    <3> DEFINE j == k - (A + 1)
    <3>1. j \in 1..LengthBytes /\ A + 1 + j = k /\ nb + r + q + j = nb + k
      BY <1>1, <1>2, <1>9, <2>4
    <3>. HIDE DEF j
    <3>2. o[A + 1 + j] = f[j] /\ e[nb + r + q + j] = f[j]
      BY <1>6, <1>8, <3>1
    <3>. QED
      BY <1>7, <3>1, <3>2
  <2>. QED
    BY <1>1, <2>1, <2>2, <2>3, <2>4
<1>12. o = c
  <2>1. IsSeq(o) /\ IsSeq(c) /\ Len(o) = Len(c) /\ \A k \in 1..Len(o) : o[k] = c[k]
    BY <1>6, <1>7, <1>11
  <2>. QED
    BY <2>1, SameSeq
<1>. QED
  BY <1>12 DEF o, c, b1, d

LEMMA FullBlock ==
  ASSUME BlakeAssumption, NEW e, NEW alg, NEW m, NEW n, NEW r, Sized(m, n, r), r > Ahead,
         Shape(e, alg, m, n, r, PadLength(r)),
         NEW b, Buffered(b, m, n, r)
  PROVE  /\ Overlay(b, r, Fill(r, BLOCK)) = BlockAt(e, n + 1)
         /\ Len(Overlay(b, r, Fill(r, BLOCK))) = BLOCK
<1>. USE DEF Sized, Buffered, IsField
<1>0. Shape(e, alg, m, n, r, BLOCK + Ahead + 1 - r)
  <2>1. Ahead \in Nat
    BY FinalSizes
  <2>2. PadLength(r) = BLOCK + Ahead + 1 - r
    BY <2>1 DEF PadLength
  <2>. QED
    BY <2>2
<1> DEFINE d == Fill(r, BLOCK)
           o == Overlay(b, r, d)
           c == BlockAt(e, n + 1)
           nb == n * BLOCK
           A == Ahead
           q == BLOCK + A + 1 - r
           end == End(0, 0)
           zero == Num(0)
           z == pb(alg)
<1>1. /\ BLOCK \in Nat /\ LengthBytes \in Nat \ {0} /\ A \in Nat \ {0}
      /\ A + 1 + LengthBytes = BLOCK
  BY FinalSizes
<1>2. nb \in Nat
  BY <1>1, Product
<1>3. IsSeq(d) /\ Len(d) = BLOCK - r /\ \A i \in 1 .. BLOCK - r : d[i] = IF i = 1 THEN end ELSE zero
  <2>1. BLOCK \in Nat /\ BLOCK <= BLOCK
    BY <1>1
  <2>. QED
    BY <2>1, FillBytes
<1>4. Laid(o, b, BLOCK, r, d)
  <2>1. BLOCK \in Nat
    BY <1>1
  <2>. HIDE DEF d
  <2>. QED
    BY <2>1, OverlayLaid
<1>5. IsSeq(o) /\ Len(o) = BLOCK
      /\ \A k \in 1..BLOCK : o[k] = IF k > r /\ k <= r + Len(d) THEN d[k - r] ELSE b[k]
  BY <1>4, Zenon DEF Laid
<1>7. IsSeq(c) /\ Len(c) = BLOCK /\ \A k \in 1..BLOCK : c[k] = e[nb + k]
  <2> DEFINE i == n + 1
             p == nb
  <2>1. p = (i - 1) * BLOCK
    <3>1. i - 1 = n
      OBVIOUS
    <3>. QED
      BY <3>1
  <2>. HIDE DEF i, p
  <2>2. IsBlock(BlockAt(e, i), e, p)
    BY <2>1, BlockFrom
  <2>. QED
    BY <2>2, Zenon DEF IsBlock, i, p
<1>8. /\ \A i \in 1 .. nb + r : e[i] = m[i]
      /\ \A i \in 1..q : e[nb + r + i] = PadByte(alg, q, i)
      /\ \A k \in 1..r : b[k] = m[nb + k]
  BY <1>0, Zenon DEF Shape, Buffered, IsField
<1>9. q \in Nat /\ q # 1 /\ q # 0 /\ q > BLOCK - r
  BY <1>1
<1>10. \A i \in 1..q : PadByte(alg, q, i) = IF i = 1 THEN end ELSE IF i = q THEN z ELSE zero
  <2>. HIDE DEF q
  <2>. QED
    BY <1>9 DEF PadByte
<1>. HIDE DEF o, c, nb, A, d, q, end, zero, z
<1>11. ASSUME NEW k \in 1..BLOCK
       PROVE  o[k] = c[k]
  <2>1. CASE k <= r
    <3>1. k \in 1..r /\ nb + k \in 1 .. nb + r /\ ~(k > r)
      BY <1>1, <1>2, <1>9, <2>1
    <3>2. o[k] = b[k] /\ b[k] = m[nb + k]
      BY <1>5, <1>8, <3>1
    <3>3. c[k] = e[nb + k] /\ e[nb + k] = m[nb + k]
      BY <1>7, <1>8, <3>1
    <3>. QED
      BY <3>2, <3>3
  <2>2. CASE k > r
    <3> DEFINE j == k - r
    <3>1. j \in 1 .. BLOCK - r /\ j \in 1..q /\ j # q /\ k <= r + Len(d)
          /\ nb + r + j = nb + k
      BY <1>1, <1>2, <1>3, <1>9, <2>2
    <3>2. o[k] = d[j]
      BY <1>5, <2>2, <3>1
    <3>. HIDE DEF j
    <3>3. d[j] = IF j = 1 THEN end ELSE zero
      BY <1>3, <3>1
    <3>4. e[nb + r + j] = PadByte(alg, q, j)
      BY <1>8, <3>1
    <3>5. PadByte(alg, q, j) = IF j = 1 THEN end ELSE zero
      BY <1>10, <3>1
    <3>6. c[k] = e[nb + k]
      BY <1>7
    <3>. QED
      BY <3>1, <3>2, <3>3, <3>4, <3>5, <3>6
  <2>. QED
    BY <1>1, <2>1, <2>2
<1>12. o = c
  <2>1. IsSeq(o) /\ IsSeq(c) /\ Len(o) = Len(c) /\ \A k \in 1..Len(o) : o[k] = c[k]
    BY <1>5, <1>7, <1>11
  <2>. QED
    BY <2>1, SameSeq
<1>. QED
  BY <1>5, <1>12 DEF o, c, d

LEMMA SecondBlock ==
  ASSUME BlakeAssumption, NEW e, NEW alg, NEW m, NEW n, NEW r, Sized(m, n, r), r > Ahead,
         Shape(e, alg, m, n, r, PadLength(r)),
         NEW f, IsField(f, m), NEW b, Len(b) = BLOCK
  PROVE  EndOf(Overlay(b, 0, Blank), pb(alg), f) = BlockAt(e, n + 2)
<1>. USE DEF Sized, Buffered, IsField
<1>0. Shape(e, alg, m, n, r, BLOCK + Ahead + 1 - r)
  <2>1. Ahead \in Nat
    BY FinalSizes
  <2>2. PadLength(r) = BLOCK + Ahead + 1 - r
    BY <2>1 DEF PadLength
  <2>. QED
    BY <2>2
<1> DEFINE d == Blank
           a == 0
           b1 == Overlay(b, a, d)
           o == EndOf(b1, pb(alg), f)
           c == BlockAt(e, n + 2)
           nb == n * BLOCK
           A == Ahead
           q == BLOCK + A + 1 - r
           end == End(0, 0)
           zero == Num(0)
           z == pb(alg)
<1>1. /\ BLOCK \in Nat /\ LengthBytes \in Nat \ {0} /\ A \in Nat \ {0}
      /\ A + 1 + LengthBytes = BLOCK
  BY FinalSizes
<1>2. nb \in Nat /\ (n + 1) * BLOCK = nb + BLOCK
  BY <1>1, Product
<1>3. Len(d) = A /\ \A i \in 1..A : d[i] = zero
  BY BlankBytes
<1>4. Laid(b1, b, BLOCK, a, d)
  <2>1. BLOCK \in Nat
    BY <1>1
  <2>. HIDE DEF d, a
  <2>. QED
    BY <2>1, OverlayLaid
<1>5. /\ Len(b1) = BLOCK
      /\ \A k \in 1..BLOCK : b1[k] = IF k > a /\ k <= a + Len(d) THEN d[k - a] ELSE b[k]
  BY <1>4, Zenon DEF Laid
<1>6. /\ IsSeq(o) /\ Len(o) = BLOCK
      /\ \A k \in 1..A : o[k] = b1[k]
      /\ o[A + 1] = z
      /\ \A k \in 1..LengthBytes : o[A + 1 + k] = f[k]
  <2>. HIDE DEF b1
  <2>. QED
    BY <1>5, EndBytes
<1>7. IsSeq(c) /\ Len(c) = BLOCK /\ \A k \in 1..BLOCK : c[k] = e[nb + BLOCK + k]
  <2> DEFINE i == n + 2
             p == nb + BLOCK
  <2>1. p = (i - 1) * BLOCK
    <3>1. i - 1 = n + 1
      OBVIOUS
    <3>. QED
      BY <1>2, <3>1
  <2>. HIDE DEF i, p
  <2>2. IsBlock(BlockAt(e, i), e, p)
    BY <2>1, BlockFrom
  <2>. QED
    BY <2>2, Zenon DEF IsBlock, i, p
<1>8. /\ \A i \in 1..q : e[nb + r + i] = PadByte(alg, q, i)
      /\ \A i \in 1..LengthBytes : e[nb + r + q + i] = f[i]
  BY <1>0, Zenon DEF Shape, Buffered, IsField
<1>9. q \in Nat /\ q # 1 /\ q # 0 /\ r + q = BLOCK + A + 1
  BY <1>1
<1>10. \A i \in 1..q : PadByte(alg, q, i) = IF i = 1 THEN end ELSE IF i = q THEN z ELSE zero
  <2>. HIDE DEF q
  <2>. QED
    BY <1>9 DEF PadByte
<1>11. ASSUME NEW k \in 1..A
       PROVE  o[k] = zero
  <2>1. k \in 1..BLOCK /\ k > a /\ k <= a + Len(d) /\ k - a = k
    <3>. HIDE DEF d, A
    <3>. QED
      BY <1>1, <1>3
  <2>. HIDE DEF a, d, A, o, b1, zero
  <2>2. b1[k] = d[k - a]
    BY <1>5, <2>1
  <2>3. d[k] = zero
    BY <1>3
  <2>. QED
    BY <1>6, <2>1, <2>2, <2>3
<1>. HIDE DEF o, c, nb, A, d, b1, q, end, zero, z
<1>12. ASSUME NEW k \in 1..BLOCK
       PROVE  o[k] = c[k]
  <2>2. CASE k <= A
    <3> DEFINE j == BLOCK + k - r
    <3>1. j \in 1..q /\ j # q /\ j # 1 /\ k \in 1..A /\ nb + r + j = nb + BLOCK + k
      BY <1>1, <1>2, <1>9, <2>2
    <3>2. o[k] = zero
      BY <1>11, <3>1
    <3>. HIDE DEF j
    <3>4. e[nb + r + j] = PadByte(alg, q, j)
      BY <1>8, <3>1
    <3>5. PadByte(alg, q, j) = zero
      BY <1>10, <3>1
    <3>6. c[k] = e[nb + BLOCK + k]
      BY <1>7
    <3>. QED
      BY <3>1, <3>2, <3>4, <3>5, <3>6
  <2>3. CASE k = A + 1
    <3>1. q \in 1..q /\ nb + r + q = nb + BLOCK + k
      BY <1>1, <1>2, <1>9, <2>3
    <3>2. e[nb + r + q] = PadByte(alg, q, q)
      BY <1>8, <3>1
    <3>3. PadByte(alg, q, q) = z
      BY <1>9, <1>10, <3>1
    <3>. QED
      BY <1>6, <1>7, <2>3, <3>1, <3>2, <3>3
  <2>4. CASE k > A + 1
    <3> DEFINE j == k - (A + 1)
    <3>1. j \in 1..LengthBytes /\ A + 1 + j = k /\ nb + r + q + j = nb + BLOCK + k
      BY <1>1, <1>2, <1>9, <2>4
    <3>. HIDE DEF j
    <3>2. o[A + 1 + j] = f[j] /\ e[nb + r + q + j] = f[j]
      BY <1>6, <1>8, <3>1
    <3>. QED
      BY <1>7, <3>1, <3>2
  <2>. QED
    BY <1>1, <2>2, <2>3, <2>4
<1>13. o = c
  <2>1. IsSeq(o) /\ IsSeq(c) /\ Len(o) = Len(c) /\ \A k \in 1..Len(o) : o[k] = c[k]
    BY <1>6, <1>7, <1>12
  <2>. QED
    BY <2>1, SameSeq
<1>. QED
  BY <1>13 DEF o, c, b1, d

(* A sequence of the pieces of the padded message is the hash.             *)
LEMMA SameHash ==
  ASSUME BlakeAssumption, NEW alg, NEW m, NEW N \in Nat, BlockCount(m) = N,
         NEW e, e = Padded(alg, m), IsSeq(e), Len(e) = N * BLOCK,
         NEW g, IsSeq(g), Len(g) = N + 1, g[1] = [iv |-> alg],
         \A i \in 1..N : g[i + 1] = Piece(e, m, i)
  PROVE  g = Hash(alg, m)
<1> DEFINE h == Hash(alg, m)
           v == [iv |-> alg]
<1>1. IsSeq(h) /\ Len(h) = N + 1 /\ h[1] = v /\ \A i \in 1..N : h[i + 1] = Piece(e, m, i)
  BY HashIs
<1>2. g[1] = v
  OBVIOUS
<1>. HIDE DEF h, v
<1>3. ASSUME NEW j \in 1 .. N + 1
      PROVE  g[j] = h[j]
  <2>1. CASE j = 1
    BY <1>1, <1>2, <2>1
  <2>2. CASE j # 1
    <3> DEFINE i == j - 1
    <3>1. i \in 1..N /\ i + 1 = j
      BY <2>2
    <3>. HIDE DEF i
    <3>2. g[i + 1] = h[i + 1]
      BY <1>1, <3>1
    <3>. QED
      BY <3>1, <3>2
  <2>. QED
    BY <2>1, <2>2
<1>4. Len(g) = Len(h) /\ \A j \in 1..Len(g) : g[j] = h[j]
  BY <1>1, <1>3
<1>5. IsSeq(h)
  BY <1>1
<1>6. g = h
  BY <1>4, <1>5, SameSeq
<1>. QED
  BY <1>6 DEF h

LEMMA ChainPieces ==
  ASSUME BlakeAssumption, NEW e, NEW alg, NEW m, NEW n, NEW r, Sized(m, n, r),
         NEW k, Shape(e, alg, m, n, r, k)
  PROVE  /\ IsSeq(Chain(alg, m, n)) /\ Len(Chain(alg, m, n)) = n + 1
         /\ Chain(alg, m, n)[1] = [iv |-> alg]
         /\ \A i \in 1..n : Chain(alg, m, n)[i + 1] = Piece(e, m, i)
<1>. USE DEF Sized
<1> DEFINE c == Chain(alg, m, n)
<1>1. IsSeq(c) /\ Len(c) = n + 1
  BY ZenonT(60), ChainSeq
<1>2. c[1] = [iv |-> alg]
  BY DEF Chain
<1>3. ASSUME NEW i \in 1..n
      PROVE  c[i + 1] = Piece(e, m, i)
  <2>1. i + 1 \in 1 .. n + 1 /\ i + 1 # 1 /\ (i + 1) - 1 = i
    OBVIOUS
  <2>2. c[i + 1] = Entry(m, i)
    <3>1. c[i + 1] = Entry(m, (i + 1) - 1)
      BY <2>1 DEF Chain
    <3>. QED
      BY <2>1, <3>1
  <2>3. BlockAt(e, i) = BlockAt(m, i)
    BY WholeBlocks
  <2>4. CountUpTo(m, i) = Bits * i
    BY Counts
  <2>. QED
    BY <2>2, <2>3, <2>4, Zenon DEF Entry, Piece
<1>. QED
  BY <1>1, <1>2, <1>3

(* One more piece.                                                         *)
LEMMA OnePiece ==
  ASSUME NEW alg, NEW e, NEW m, NEW n \in Nat, NEW g, IsSeq(g), Len(g) = n + 1,
         NEW v, g[1] = v, \A i \in 1..n : g[i + 1] = Piece(e, m, i),
         NEW x, x = Piece(e, m, n + 1)
  PROVE  /\ IsSeq(Append(g, x)) /\ Len(Append(g, x)) = n + 2
         /\ Append(g, x)[1] = v
         /\ \A i \in 1 .. n + 1 : Append(g, x)[i + 1] = Piece(e, m, i)
<1> DEFINE a == Append(g, x)
<1>1. /\ IsSeq(a) /\ Len(a) = Len(g) + 1
      /\ \A i \in 1..Len(g) : a[i] = g[i]
      /\ a[Len(g) + 1] = x
  BY Appended
<1>. HIDE DEF a
<1>2. Len(a) = n + 2 /\ a[n + 2] = x
  <2>1. Len(g) + 1 = n + 2
    OBVIOUS
  <2>. QED
    BY <1>1, <2>1
<1>3. a[1] = v
  BY <1>1
<1>4. ASSUME NEW i \in 1 .. n + 1
      PROVE  a[i + 1] = Piece(e, m, i)
  <2>1. CASE i = n + 1
    <3>1. i + 1 = n + 2
      BY <2>1
    <3>. QED
      BY <1>2, <2>1, <3>1
  <2>2. CASE i # n + 1
    <3>1. i \in 1..n /\ i + 1 \in 1..Len(g)
      BY <2>2
    <3>. QED
      BY <1>1, <3>1
  <2>. QED
    BY <2>1, <2>2
<1>. QED
  BY <1>1, <1>2, <1>3, <1>4 DEF a

LEMMA FinalHashes ==
  ASSUME BlakeAssumption, NEW s, NEW alg, NEW m, Absorbed(s, alg, m)
  PROVE  blake256_final_h(s, alg).h = Hash(alg, m)
<1>1. PICK n, r, b : Absorbs(s, alg, m, n, r, b)
  BY DEF Absorbed
<1> DEFINE e == Padded(alg, m)
           f == LengthField(8 * Len(m))
           v == [iv |-> alg]
           C == Chain(alg, m, n)
           h == blake256_final_h(s, alg).h
           k == PadLength(r)
           nb == n * BLOCK
<1>2. /\ IsSeq(m) /\ n \in Nat /\ r \in Nat /\ r < BLOCK /\ Len(m) = n * BLOCK + r
      /\ Len(b) = BLOCK /\ \A i \in 1..r : b[i] = m[n * BLOCK + i]
  BY <1>1, Zenon DEF Absorbs
<1>0. Sized(m, n, r) /\ Buffered(b, m, n, r)
  BY <1>2, Zenon DEF Sized, Buffered
<1>3. /\ BLOCK \in Nat /\ LengthBytes \in Nat \ {0} /\ Ahead \in Nat \ {0}
      /\ Ahead + 1 + LengthBytes = BLOCK
  BY FinalSizes
<1>4. nb \in Nat /\ (n + 1) * BLOCK = nb + BLOCK /\ (n + 2) * BLOCK = nb + BLOCK + BLOCK
  <2>1. (n + 1) * BLOCK = nb + BLOCK /\ nb \in Nat
    BY <1>2, <1>3, Product
  <2>2. n + 1 \in Nat /\ n + 1 + 1 = n + 2
    BY <1>2
  <2>3. (n + 1 + 1) * BLOCK = (n + 1) * BLOCK + BLOCK
    BY <1>3, <2>2, Product
  <2>. QED
    BY <2>1, <2>2, <2>3
<1>5. Shape(e, alg, m, n, r, k)
  BY <1>2, PaddedShape
<1>6. IsSeq(e) /\ Len(e) = nb + r + k + LengthBytes
  BY <1>5, Zenon DEF Shape
<1>7. IsSeq(f) /\ Len(f) = LengthBytes
  BY FieldBytes
<1>15. IsField(f, m)
  BY <1>7 DEF IsField
<1>8. IsSeq(C) /\ Len(C) = n + 1 /\ C[1] = v /\ \A i \in 1..n : C[i + 1] = Piece(e, m, i)
  <2>. HIDE DEF e, k
  <2>. QED
    BY <1>0, <1>5, ChainPieces
<1>9. BlockCount(m) = IF r <= Ahead THEN n + 1 ELSE n + 2
  BY <1>2, BlocksOfPadded
<1>10. /\ CountUpTo(m, n + 1) = IF r = 0 THEN 0 ELSE 8 * Len(m)
       /\ CountUpTo(m, n + 2) = 0
  BY <1>2, Counts
<1>11. Low(0) = 0 /\ High(0) = 0
  BY NoBits
<1>12. CASE r <= Ahead
  <2> DEFINE t == IF r = 0 THEN <<0, 0>> ELSE Words(8 * Len(m))
             x == [blk |-> BlockAt(e, n + 1), t |-> t]
  <2>1. k = Ahead + 1 - r
    BY <1>12 DEF PadLength
  <2>2. h = Append(C, x)
    <3>1. CASE r = Ahead
      <4>2. EndOf(b, pa(alg), f) = BlockAt(e, n + 1)
        <5>. HIDE DEF f, e
        <5>. QED
          BY <1>0, <1>5, <1>15, <3>1, ExactBlock
      <4>3. t = Words(8 * Len(m))
        BY <1>3, <3>1
      <4>4. h = Append(C, [blk |-> EndOf(b, pa(alg), f), t |-> Words(8 * Len(m))])
        BY <1>1, <3>1, FinalExact
      <4>. QED
        BY <4>2, <4>3, <4>4, Zenon
    <3>2. CASE r < Ahead
      <4> DEFINE b1 == Overlay(b, r, Fill(r, Ahead))
      <4>1. EndOf(b1, pb(alg), f) = BlockAt(e, n + 1)
        <5>. HIDE DEF f, e
        <5>. QED
          BY <1>0, <1>5, <1>15, <3>2, FittingBlock
      <4>2. h = Append(C, [blk |-> EndOf(b1, pb(alg), f), t |-> t])
        BY <1>1, <3>2, FinalFits
      <4>. QED
        BY <4>1, <4>2, Zenon
    <3>. QED
      BY <1>2, <1>3, <1>12, <3>1, <3>2
  <2>3. t = <<Low(CountUpTo(m, n + 1)), High(CountUpTo(m, n + 1))>>
    <3>1. CASE r = 0
      BY <1>10, <1>11, <3>1
    <3>2. CASE r # 0
      BY <1>10, <3>2, Zenon DEF Words
    <3>. QED
      BY <3>1, <3>2
  <2>4. x = Piece(e, m, n + 1)
    BY <2>3, Zenon DEF Piece
  <2> DEFINE g == Append(C, x)
             N == n + 1
  <2>. HIDE DEF C, x, e, v
  <2>5. IsSeq(g) /\ Len(g) = n + 2 /\ g[1] = v /\ \A i \in 1 .. n + 1 : g[i + 1] = Piece(e, m, i)
    BY <1>2, <1>8, <2>4, OnePiece
  <2>6. N \in Nat /\ BlockCount(m) = N /\ Len(e) = N * BLOCK /\ Len(g) = N + 1
    <3>1. N \in Nat /\ BlockCount(m) = N /\ N + 1 = n + 2
      BY <1>2, <1>9, <1>12
    <3>2. nb + r + k + LengthBytes = nb + BLOCK
      <4>. HIDE DEF nb, k
      <4>. QED
        BY <1>2, <1>3, <1>4, <2>1
    <3>. QED
      BY <1>4, <1>6, <2>5, <3>1, <3>2
  <2>7. e = Padded(alg, m) /\ v = [iv |-> alg]
    BY DEF e, v
  <2>8. \A i \in 1..N : g[i + 1] = Piece(e, m, i)
    BY <2>5
  <2>9. IsSeq(g) /\ g[1] = [iv |-> alg] /\ IsSeq(e)
    BY <1>6, <2>5, <2>7
  <2>. HIDE DEF g, N
  <2>10. g = Hash(alg, m)
    BY <2>6, <2>7, <2>8, <2>9, SameHash
  <2>. QED
    BY <2>2, <2>10 DEF g
<1>13. CASE r > Ahead
  <2> DEFINE b1 == Overlay(b, r, Fill(r, BLOCK))
             w == Words(8 * Len(m))
             x == [blk |-> b1, t |-> w]
             C1 == Append(C, x)
             y == [blk |-> EndOf(Overlay(b1, 0, Blank), pb(alg), f), t |-> <<0, 0>>]
             N == n + 2
             g == Append(C1, y)
  <2>1. ~(r <= Ahead) /\ r # 0
    BY <1>2, <1>3, <1>13
  <2>2. k = BLOCK + Ahead + 1 - r
    BY <2>1 DEF PadLength
  <2>3. h = g
    BY <1>1, <1>13, FinalFull
  <2>5. b1 = BlockAt(e, n + 1) /\ Len(b1) = BLOCK
    <3>. HIDE DEF e
    <3>. QED
      BY <1>0, <1>5, <1>13, FullBlock
  <2>6. EndOf(Overlay(b1, 0, Blank), pb(alg), f) = BlockAt(e, n + 2)
    <3>1. Len(b1) = BLOCK
      BY <2>5
    <3>. HIDE DEF f, e, b1
    <3>. QED
      BY <1>0, <1>5, <1>13, <1>15, <3>1, SecondBlock
  <2>7. x = Piece(e, m, n + 1)
    <3>1. CountUpTo(m, n + 1) = 8 * Len(m)
      BY <1>10, <2>1
    <3>. QED
      BY <2>5, <3>1, Zenon DEF Piece, Words
  <2>8. y = Piece(e, m, (n + 1) + 1)
    <3>1. (n + 1) + 1 = n + 2
      BY <1>2
    <3>2. <<Low(CountUpTo(m, n + 2)), High(CountUpTo(m, n + 2))>> = <<0, 0>>
      BY <1>10, <1>11
    <3>3. y = Piece(e, m, n + 2)
      BY <2>6, <3>2, Zenon DEF Piece
    <3>. QED
      BY <3>1, <3>3
  <2>. HIDE DEF C, x, e, v, y
  <2>9. /\ IsSeq(C1) /\ Len(C1) = n + 2 /\ C1[1] = v
        /\ \A i \in 1 .. n + 1 : C1[i + 1] = Piece(e, m, i)
    BY <1>2, <1>8, <2>7, OnePiece
  <2>. HIDE DEF C1
  <2>10. IsSeq(g) /\ Len(g) = n + 3 /\ g[1] = v /\ \A i \in 1..N : g[i + 1] = Piece(e, m, i)
    <3> DEFINE n1 == n + 1
    <3>1. n1 \in Nat /\ n1 + 1 = N /\ n1 + 2 = n + 3 /\ n + 2 = n1 + 1
      BY <1>2
    <3>2. Len(C1) = n1 + 1 /\ y = Piece(e, m, n1 + 1) /\ IsSeq(C1) /\ C1[1] = v
          /\ \A i \in 1..n1 : C1[i + 1] = Piece(e, m, i)
      BY <2>8, <2>9, <3>1
    <3>. HIDE DEF n1
    <3>3. /\ IsSeq(g) /\ Len(g) = n1 + 2 /\ g[1] = v
          /\ \A i \in 1 .. n1 + 1 : g[i + 1] = Piece(e, m, i)
      BY <3>1, <3>2, OnePiece
    <3>. QED
      BY <3>1, <3>3
  <2>11. N \in Nat /\ BlockCount(m) = N /\ Len(e) = N * BLOCK /\ Len(g) = N + 1
    <3>1. N \in Nat /\ BlockCount(m) = N /\ N + 1 = n + 3
      BY <1>2, <1>9, <2>1
    <3>2. nb + r + k + LengthBytes = nb + BLOCK + BLOCK
      <4>. HIDE DEF nb, k
      <4>. QED
        BY <1>2, <1>3, <1>4, <2>2
    <3>. QED
      BY <1>4, <1>6, <2>10, <3>1, <3>2
  <2>12. e = Padded(alg, m) /\ v = [iv |-> alg]
    BY DEF e, v
  <2>13. IsSeq(g) /\ g[1] = [iv |-> alg] /\ IsSeq(e)
    BY <1>6, <2>10, <2>12
  <2>14. \A i \in 1..N : g[i + 1] = Piece(e, m, i)
    BY <2>10
  <2>. HIDE DEF g, N
  <2>15. g = Hash(alg, m)
    BY <2>11, <2>12, <2>13, <2>14, SameHash
  <2>. QED
    BY <2>3, <2>15
<1>. QED
  BY <1>2, <1>3, <1>12, <1>13

-----------------------------------------------------------------------------
(* What callers pass.                                                      *)
LEMMA DataBytes ==
  ASSUME NEW from \in Nat, NEW n \in Nat
  PROVE  /\ IsSeq(Data(from, 8 * n)) /\ Len(Data(from, 8 * n)) = n
         /\ \A i \in 1..n : Data(from, 8 * n)[i] = Msg(from + i)
<1> DEFINE x == 8 * n
           d == [i \in 1..n |-> Msg(from + i)]
           none == <<>>
<1>1. x \div 8 = n /\ x % 8 = 0
  BY SMT
<1>2. Data(from, x) = d \o none
  <2>. HIDE DEF x
  <2>. QED
    BY <1>1, Zenon DEF Data
<1>3. IsSeq(d) /\ Len(d) = n /\ \A i \in 1..n : d[i] = Msg(from + i)
  <2>1. d = [i \in 1..n |-> d[i]] /\ \A i \in 1..n : d[i] = Msg(from + i)
    BY Zenon
  <2>. HIDE DEF d
  <2>. QED
    BY <2>1, Listed
<1>4. IsSeq(none) /\ Len(none) = 0
  BY DEF IsSeq
<1>. HIDE DEF d, none, x
<1>5. /\ IsSeq(d \o none) /\ Len(d \o none) = Len(d) + Len(none)
      /\ \A i \in 1..Len(d) : (d \o none)[i] = d[i]
  <2>1. IsSeq(d) /\ IsSeq(none)
    BY <1>3, <1>4
  <2>. QED
    BY <2>1, Joined
<1>6. /\ IsSeq(Data(from, x)) /\ Len(Data(from, x)) = n
      /\ \A i \in 1..n : Data(from, x)[i] = Msg(from + i)
  BY <1>2, <1>3, <1>4, <1>5
<1>. QED
  BY <1>6 DEF x

(* Data one after the other, behind other bytes or none.                   *)
LEMMA DataJoined ==
  ASSUME NEW t \in Nat, NEW n \in Nat
  PROVE  Data(0, 8 * t) \o Data(t, 8 * n) = Data(0, 8 * (t + n))
<1> DEFINE a == Data(0, 8 * t)
           c == Data(t, 8 * n)
           e == Data(0, 8 * (t + n))
<1>1. IsSeq(a) /\ Len(a) = t /\ \A i \in 1..t : a[i] = Msg(0 + i)
  BY DataBytes
<1>2. IsSeq(c) /\ Len(c) = n /\ \A i \in 1..n : c[i] = Msg(t + i)
  BY DataBytes
<1>3. IsSeq(e) /\ Len(e) = t + n /\ \A i \in 1 .. t + n : e[i] = Msg(0 + i)
  <2> DEFINE u == t + n
  <2>1. u \in Nat
    OBVIOUS
  <2>. HIDE DEF u
  <2>2. /\ IsSeq(Data(0, 8 * u)) /\ Len(Data(0, 8 * u)) = u
        /\ \A i \in 1..u : Data(0, 8 * u)[i] = Msg(0 + i)
    BY <2>1, DataBytes
  <2>. QED
    BY <2>2 DEF u
<1>. HIDE DEF a, c, e
<1>4. /\ IsSeq(a \o c) /\ Len(a \o c) = Len(a) + Len(c)
      /\ \A i \in 1..Len(a) : (a \o c)[i] = a[i]
      /\ \A i \in 1..Len(c) : (a \o c)[Len(a) + i] = c[i]
  <2>1. IsSeq(a) /\ IsSeq(c)
    BY <1>1, <1>2
  <2>. QED
    BY <2>1, Joined
<1>5. ASSUME NEW i \in 1 .. t + n
      PROVE  (a \o c)[i] = e[i]
  <2>1. CASE i <= t
    <3>1. i \in 1..t
      BY <2>1
    <3>. QED
      BY <1>1, <1>3, <1>4, <3>1
  <2>2. CASE i > t
    <3> DEFINE j == i - t
    <3>1. j \in 1..n /\ t + j = i /\ 0 + i = i
      BY <2>2
    <3>. HIDE DEF j
    <3>2. (a \o c)[t + j] = c[j] /\ c[j] = Msg(t + j)
      BY <1>1, <1>2, <1>4, <3>1
    <3>3. e[i] = Msg(0 + i)
      BY <1>3
    <3>. QED
      BY <3>1, <3>2, <3>3
  <2>3. i <= t \/ i > t
    OBVIOUS
  <2>. QED
    BY <2>1, <2>2, <2>3, Zenon
<1>6. /\ IsSeq(a \o c) /\ IsSeq(e) /\ Len(a \o c) = Len(e)
      /\ \A i \in 1..Len(a \o c) : (a \o c)[i] = e[i]
  BY <1>1, <1>2, <1>3, <1>4, <1>5
<1>7. a \o c = e
  <2> DEFINE g == a \o c
  <2>. HIDE DEF g
  <2>1. IsSeq(g) /\ IsSeq(e) /\ Len(g) = Len(e) /\ \A i \in 1..Len(g) : g[i] = e[i]
    BY <1>6 DEF g
  <2>2. g = e
    BY <2>1, SameSeq
  <2>. QED
    BY <2>2 DEF g
<1>. QED
  BY <1>7 DEF a, c, e

LEMMA JoinAgain ==
  ASSUME NEW a, IsSeq(a), NEW b, IsSeq(b), NEW c, IsSeq(c)
  PROVE  (a \o b) \o c = a \o (b \o c)
<1> DEFINE V == {a[i] : i \in 1..Len(a)} \cup {b[i] : i \in 1..Len(b)} \cup {c[i] : i \in 1..Len(c)}
<1>1. /\ Len(a) \in Nat /\ Len(b) \in Nat /\ Len(c) \in Nat
      /\ a \in [1..Len(a) -> V] /\ b \in [1..Len(b) -> V] /\ c \in [1..Len(c) -> V]
  BY DEF IsSeq
<1>. HIDE DEF V
<1>2. a \in Seq(V) /\ b \in Seq(V) /\ c \in Seq(V)
  BY <1>1
<1>. QED
  BY <1>2, ConcatAssociative

LEMMA NothingAhead ==
  ASSUME NEW a, IsSeq(a)
  PROVE  <<>> \o a = a /\ a \o <<>> = a
<1> DEFINE V == {a[i] : i \in 1..Len(a)}
<1>1. Len(a) \in Nat /\ a \in [1..Len(a) -> V]
  BY DEF IsSeq
<1>. HIDE DEF V
<1>2. a \in Seq(V)
  BY <1>1
<1>. QED
  BY <1>2, ConcatEmptySeq

LEMMA NoData == Data(0, 8 * 0) = <<>>
<1>1. 8 * 0 = 0 /\ 0 \div 8 = 0 /\ 0 % 8 = 0
  OBVIOUS
<1> DEFINE d == [i \in 1..0 |-> Msg(0 + i)]
<1>2. d = <<>>
  OBVIOUS
<1>3. Data(0, 0) = d \o <<>>
  BY <1>1, Zenon DEF Data
<1>4. <<>> \o <<>> = <<>>
  OBVIOUS
<1>. QED
  BY <1>1, <1>2, <1>3, <1>4

LEMMA NewAbsorbs ==
  ASSUME BlakeAssumption, NEW alg
  PROVE  Absorbed(New(alg), alg, <<>>)
<1> DEFINE m == <<>>
           b == [i \in 1..BLOCK |-> Junk]
           h == Chain(alg, m, 0)
           v == [iv |-> alg]
           no == FALSE
<1>1. BLOCK \in Nat \ {0} /\ Bits \in Nat
  BY BlakeSizes DEF Bits
<1>2. IsSeq(b) /\ Len(b) = BLOCK
  <2>1. b = [i \in 1..BLOCK |-> b[i]] /\ BLOCK \in Nat
    BY <1>1, Zenon
  <2>. HIDE DEF b
  <2>. QED
    BY <2>1, Listed
<1>3. IsSeq(m) /\ Len(m) = 0 * BLOCK + 0
  <2>1. IsSeq(m) /\ Len(m) = 0
    BY DEF IsSeq
  <2>2. 0 * BLOCK + 0 = 0
    BY <1>1, SMT
  <2>. QED
    BY <2>1, <2>2
<1>4. h = <<v>>
  <2>1. IsSeq(h) /\ Len(h) = 0 + 1 /\ h[1] = v
    BY ZenonT(60), ChainSeq
  <2>. HIDE DEF h, v
  <2>2. IsSeq(<<v>>) /\ Len(<<v>>) = 1 /\ <<v>>[1] = v
    BY DEF IsSeq
  <2> DEFINE o == <<v>>
  <2>3. IsSeq(o) /\ Len(h) = Len(o) /\ \A i \in 1..Len(h) : h[i] = o[i]
    BY <2>1, <2>2
  <2>4. IsSeq(h)
    BY <2>1
  <2>. HIDE DEF o
  <2>5. h = o
    BY <2>3, <2>4, SameSeq
  <2>. QED
    BY <2>5 DEF o
<1>5. Low(Bits * 0) = 0 /\ High(Bits * 0) = 0
  <2>1. Bits * 0 = 0
    BY <1>1, SMT
  <2>. QED
    BY <2>1, NoBits
<1>6. New(alg) = Mid(alg, m, 0, 8 * 0, b)
  <2>1. New(alg) = Rec(<<v>>, 0, 0, 0, no, b)
    BY Zenon DEF New, Rec
  <2>2. Mid(alg, m, 0, 8 * 0, b) = Rec(h, Low(Bits * 0), High(Bits * 0), 8 * 0, no, b)
    BY Zenon DEF Mid
  <2>3. 8 * 0 = 0
    OBVIOUS
  <2>. QED
    BY <1>4, <1>5, <2>1, <2>2, <2>3, Zenon
<1>7. \A k \in 1..0 : b[k] = m[0 * BLOCK + k]
  OBVIOUS
<1>8. 0 \in Nat /\ 0 < BLOCK
  BY <1>1
<1>. HIDE DEF m, b
<1>9. Absorbs(New(alg), alg, m, 0, 0, b)
  BY <1>2, <1>3, <1>6, <1>7, <1>8, Zenon DEF Absorbs
<1>10. Absorbed(New(alg), alg, m)
  BY <1>9, Zenon DEF Absorbed
<1>. QED
  BY <1>10 DEF m

LEMMA FirstData ==
  ASSUME BlakeAssumption, NEW alg, NEW d, IsSeq(d), Len(d) > 0
  PROVE  Absorbed(blake256_update(New(alg), d), alg, d)
<1> DEFINE m == <<>>
           s == New(alg)
<1>1. Absorbed(s, alg, m)
  BY NewAbsorbs
<1>2. m \o d = d
  BY NothingAhead
<1>. HIDE DEF m, s
<1>3. Absorbed(blake256_update(s, d), alg, m \o d)
  BY <1>1, UpdateAbsorbs
<1>. QED
  BY <1>2, <1>3 DEF s

-----------------------------------------------------------------------------
(* Keys, and the blocks made of them.                                      *)
LEMMA MaskedBytes ==
  ASSUME BlakeAssumption, NEW mask, NEW key
  PROVE  IsSeq(Masked(mask, key)) /\ Len(Masked(mask, key)) = BLOCK /\ BLOCK > 0
<1> DEFINE c == Masked(mask, key)
<1>1. BLOCK \in Nat /\ BLOCK > 0
  BY BlakeSizes
<1>2. c = [i \in 1..BLOCK |-> c[i]]
  BY Zenon DEF Masked
<1>. HIDE DEF c
<1>3. IsSeq(c) /\ Len(c) = BLOCK
  BY <1>1, <1>2, Listed
<1>. QED
  BY <1>1, <1>3 DEF c

LEMMA DigestIsSeq ==
  ASSUME NEW h, NEW n \in Nat
  PROVE  IsSeq(DigestBytes(h, n)) /\ Len(DigestBytes(h, n)) = n
<1> DEFINE c == DigestBytes(h, n)
<1>1. c = [i \in 1..n |-> c[i]]
  BY Zenon DEF DigestBytes
<1>. HIDE DEF c
<1>2. IsSeq(c) /\ Len(c) = n
  BY <1>1, Listed
<1>. QED
  BY <1>2 DEF c

LEMMA KeyIsSeq ==
  ASSUME NEW n \in Nat
  PROVE  IsSeq(KeyBytes(n)) /\ Len(KeyBytes(n)) = n
<1> DEFINE c == KeyBytes(n)
<1>1. c = [i \in 1..n |-> c[i]]
  BY Zenon DEF KeyBytes
<1>. HIDE DEF c
<1>2. IsSeq(c) /\ Len(c) = n
  BY <1>1, Listed
<1>. QED
  BY <1>2 DEF c

(* The key of RFC 2104: a long one is replaced by its hash.                *)
ShortKey(alg, key) == IF Len(key) > BLOCK THEN DigestBytes(Hash(alg, key), Size(alg)) ELSE key

LEMMA BlakeOfKey ==
  ASSUME BlakeAssumption, NEW key, IsSeq(key), Len(key) > 0
  PROVE  blake256_hash(key) = Hash(256, key)
<1> DEFINE s == blake256_update(blake256_init, key)
<1>1. Absorbed(s, 256, key)
  BY FirstData DEF blake256_init
<1>. HIDE DEF s
<1>2. blake256_final_h(s, 256).h = Hash(256, key)
  BY <1>1, FinalHashes
<1>. QED
  BY <1>2, Zenon DEF blake256_hash, blake256_final, s

LEMMA HmacBegins ==
  ASSUME BlakeAssumption, NEW key, IsSeq(key)
  PROVE  LET k == ShortKey(256, key)
             new == hmac_blake256_init(key)
         IN  /\ Absorbed(new.inner, 256, Masked("0x36", k))
             /\ Absorbed(new.outer, 256, Masked("0x5c", k))
<1> DEFINE k == ShortKey(256, key)
           A == Masked("0x36", k)
           B == Masked("0x5c", k)
           x == blake256_update(blake256_init, A)
           y == blake256_update(blake256_init, B)
<1>1. IsSeq(A) /\ Len(A) > 0 /\ IsSeq(B) /\ Len(B) > 0
  <2>. HIDE DEF k
  <2>. QED
    BY MaskedBytes
<1>2. k = IF Len(key) > BLOCK THEN DigestBytes(blake256_hash(key), Digest256) ELSE key
  <2>1. CASE Len(key) > BLOCK
    <3>1. Len(key) > 0
      BY <2>1, BlakeSizes DEF IsSeq
    <3>2. blake256_hash(key) = Hash(256, key)
      BY <3>1, BlakeOfKey
    <3>3. Size(256) = Digest256
      BY DEF Size
    <3>. QED
      BY <2>1, <3>2, <3>3, Zenon DEF ShortKey
  <2>2. CASE ~(Len(key) > BLOCK)
    BY <2>2, Zenon DEF ShortKey
  <2>. QED
    BY <2>1, <2>2
<1>. HIDE DEF k
<1>3. hmac_blake256_init(key) = [inner |-> x, outer |-> y]
  BY <1>2, Zenon DEF hmac_blake256_init
<1>4. hmac_blake256_init(key).inner = x /\ hmac_blake256_init(key).outer = y
  <2>. HIDE DEF x, y
  <2>. QED
    BY <1>3
<1>5. Absorbed(x, 256, A) /\ Absorbed(y, 256, B)
  <2>. HIDE DEF A, B
  <2>. QED
    BY <1>1, FirstData DEF blake256_init
<1>. QED
  BY <1>4, <1>5, Zenon DEF k

LEMMA Hmac224Begins ==
  ASSUME BlakeAssumption, NEW key, IsSeq(key), ~(Len(key) > BLOCK)
  PROVE  LET k == ShortKey(224, key)
             new == hmac_blake224_init(key)
         IN  /\ Absorbed(new.inner, 224, Masked("0x36", k))
             /\ Absorbed(new.outer, 224, Masked("0x5c", k))
<1> DEFINE A == Masked("0x36", key)
           B == Masked("0x5c", key)
           x == blake256_update(New(224), A)
           y == blake256_update(New(224), B)
<1>1. IsSeq(A) /\ Len(A) > 0 /\ IsSeq(B) /\ Len(B) > 0
  BY MaskedBytes
<1>2. ShortKey(224, key) = key
  BY Zenon DEF ShortKey
<1>3. hmac_blake224_init(key) = [inner |-> x, outer |-> y]
  BY Zenon DEF hmac_blake224_init, blake224_update, blake224_init
<1>4. hmac_blake224_init(key).inner = x /\ hmac_blake224_init(key).outer = y
  <2>. HIDE DEF x, y
  <2>. QED
    BY <1>3
<1>5. Absorbed(x, 224, A) /\ Absorbed(y, 224, B)
  <2>. HIDE DEF A, B
  <2>. QED
    BY <1>1, FirstData
<1>. QED
  BY <1>2, <1>4, <1>5, Zenon

(* The outer hash.                                                         *)
LEMMA HmacEnds ==
  ASSUME BlakeAssumption, NEW alg, alg \in {256, 224}, NEW s, NEW o, NEW k, NEW m, IsSeq(m),
         Absorbed(s, alg, Masked("0x36", k) \o m), Absorbed(o, alg, Masked("0x5c", k))
  PROVE  blake256_final_h(blake256_update(o, DigestBytes(blake256_final_h(s, alg).h, Size(alg))), alg).h
           = Hash(alg, Masked("0x5c", k) \o DigestBytes(Hash(alg, Masked("0x36", k) \o m), Size(alg)))
<1> DEFINE A == Masked("0x36", k) \o m
           B == Masked("0x5c", k)
           z == Size(alg)
           d == DigestBytes(Hash(alg, A), z)
           o1 == blake256_update(o, d)
<1>1. blake256_final_h(s, alg).h = Hash(alg, A)
  <2>1. Absorbed(s, alg, A)
    OBVIOUS
  <2>. HIDE DEF A
  <2>. QED
    BY <2>1, FinalHashes
<1>2. z \in Nat /\ z > 0
  BY DEF Size, BlakeAssumption
<1>3. IsSeq(d) /\ Len(d) > 0
  <2>1. IsSeq(d) /\ Len(d) = z
    <3>. HIDE DEF z
    <3>. QED
      BY <1>2, DigestIsSeq
  <2>. QED
    BY <1>2, <2>1
<1>4. Absorbed(o, alg, B)
  OBVIOUS
<1>. HIDE DEF d, B
<1>5. Absorbed(o1, alg, B \o d)
  BY <1>3, <1>4, UpdateAbsorbs
<1>. HIDE DEF o1
<1>6. blake256_final_h(o1, alg).h = Hash(alg, B \o d)
  <2> DEFINE e == B \o d
  <2>1. Absorbed(o1, alg, e)
    BY <1>5
  <2>. HIDE DEF e
  <2>2. blake256_final_h(o1, alg).h = Hash(alg, e)
    BY <2>1, FinalHashes
  <2>. QED
    BY <2>2 DEF e
<1>. QED
  BY <1>1, <1>6, Zenon DEF o1, d, B

-----------------------------------------------------------------------------
(* The state of a caller.                                                  *)
Message == Data(0, 8 * total)
UsedKey == ShortKey(use.alg, KeyBytes(use.key))

\* The callers of the repository pass no empty pieces; long keys are for
\* BLAKE-256 only, as hmac_blake224_init hashes them with it.
Callers ==
  /\ MinPiece > 0
  /\ \A u \in Uses : u.alg = 224 => u.key <= BLOCK

BlakeTypes ==
  /\ use \in Uses /\ total \in Nat
  /\ phase \in {"new", "open", "done"} /\ (phase = "new" => total = 0)

PlainState == phase = "open" /\ use.key = NoKey => Absorbed(S, use.alg, Message)

KeyedState ==
  phase = "open" /\ use.key # NoKey =>
    /\ Absorbed(S, use.alg, Masked("0x36", UsedKey) \o Message)
    /\ Absorbed(outer, use.alg, Masked("0x5c", UsedKey))

BlakeInv == BlakeTypes /\ PlainState /\ KeyedState /\ HashesPaddedMessage /\ HmacIsRFC2104

LEMMA UseTypes ==
  ASSUME BlakeAssumption, BlakeTypes
  PROVE  /\ use.alg \in {256, 224} /\ use.key \in Nat \cup {NoKey}
         /\ use.key # NoKey => use.key \in Nat
         /\ NoKey \notin Nat
<1>1. use \in [alg : {256, 224}, key : Nat \cup {NoKey}]
  BY DEF BlakeAssumption, BlakeTypes
<1>. QED
  BY <1>1 DEF NoKey

LEMMA MessageBytes ==
  ASSUME BlakeTypes
  PROVE  IsSeq(Message)
<1>1. total \in Nat /\ 0 \in Nat
  BY DEF BlakeTypes
<1>. QED
  BY <1>1, DataBytes DEF Message

LEMMA BeginKeeps ==
  ASSUME BlakeAssumption, Callers, BlakeInv, Begin
  PROVE  BlakeInv'
<1>. USE DEF BlakeInv
<1>1. phase = "new" /\ phase' = "open" /\ use' = use /\ total' = total /\ total = 0
  BY DEF Begin, BlakeTypes
<1>2. BlakeTypes'
  BY <1>1 DEF BlakeTypes
<1>3. HashesPaddedMessage' /\ HmacIsRFC2104'
  BY <1>1 DEF HashesPaddedMessage, HmacIsRFC2104
<1>4. Message = <<>> /\ Message' = Message
  BY <1>1, NoData DEF Message
<1>5. use.alg \in {256, 224} /\ (use.key # NoKey => use.key \in Nat)
  BY UseTypes
<1>6. CASE use.key = NoKey
  <2>1. S' = New(use.alg)
    BY <1>5, <1>6 DEF Begin, blake256_init, blake224_init
  <2> DEFINE a == use.alg
  <2>2. Absorbed(New(a), a, <<>>)
    BY NewAbsorbs
  <2>3. Absorbed(S, use.alg, Message)'
    BY <1>1, <1>4, <2>1, <2>2
  <2>4. PlainState'
    BY <2>3 DEF PlainState
  <2>5. KeyedState'
    BY <1>1, <1>6 DEF KeyedState
  <2>. QED
    BY <1>2, <1>3, <2>4, <2>5
<1>7. CASE use.key # NoKey
  <2> DEFINE key == KeyBytes(use.key)
             k == ShortKey(use.alg, key)
             A == Masked("0x36", k)
             B == Masked("0x5c", k)
  <2>1. IsSeq(key) /\ Len(key) = use.key
    BY <1>5, <1>7, KeyIsSeq
  <2>2. Absorbed(S', use.alg, A) /\ Absorbed(outer', use.alg, B)
    <3>. HIDE DEF key
    <3>1. CASE use.alg = 256
      <4> DEFINE new == hmac_blake256_init(key)
      <4>1. S' = new.inner /\ outer' = new.outer
        BY <1>7, <3>1 DEF Begin, key
      <4>2. Absorbed(new.inner, 256, Masked("0x36", ShortKey(256, key)))
            /\ Absorbed(new.outer, 256, Masked("0x5c", ShortKey(256, key)))
        BY <2>1, HmacBegins
      <4>. HIDE DEF new
      <4>. QED
        BY <3>1, <4>1, <4>2
    <3>2. CASE use.alg = 224
      <4> DEFINE new == hmac_blake224_init(key)
      <4>1. S' = new.inner /\ outer' = new.outer
        BY <1>7, <3>2 DEF Begin, key
      <4>2. ~(Len(key) > BLOCK)
        <5>1. use.key <= BLOCK /\ BLOCK \in Nat
          BY <3>2, BlakeSizes DEF Callers, BlakeTypes
        <5>. QED
          BY <1>5, <1>7, <2>1, <5>1
      <4>3. Absorbed(new.inner, 224, Masked("0x36", ShortKey(224, key)))
            /\ Absorbed(new.outer, 224, Masked("0x5c", ShortKey(224, key)))
        BY <2>1, <4>2, Hmac224Begins
      <4>. HIDE DEF new
      <4>. QED
        BY <3>2, <4>1, <4>3
    <3>. QED
      BY <1>5, <3>1, <3>2
  <2>3. UsedKey = k /\ UsedKey' = UsedKey
    BY <1>1 DEF UsedKey
  <2>4. A \o <<>> = A
    <3>1. IsSeq(A)
      <4>. HIDE DEF k
      <4>. QED
        BY MaskedBytes
    <3>. HIDE DEF A
    <3>. QED
      BY <3>1, NothingAhead
  <2>5. Absorbed(S', use.alg, Masked("0x36", UsedKey) \o Message)
    BY <1>4, <2>2, <2>3, <2>4
  <2>6. (Absorbed(S, use.alg, Masked("0x36", UsedKey) \o Message)
         /\ Absorbed(outer, use.alg, Masked("0x5c", UsedKey)))'
    BY <1>1, <1>4, <2>2, <2>3, <2>5
  <2>7. KeyedState'
    BY <2>6 DEF KeyedState
  <2>8. PlainState'
    BY <1>1, <1>7 DEF PlainState
  <2>. QED
    BY <1>2, <1>3, <2>7, <2>8
<1>. QED
  BY <1>6, <1>7

LEMMA UpdateKeeps ==
  ASSUME BlakeAssumption, Callers, BlakeInv, NEW n \in MinPiece..MaxBytes, Update(n)
  PROVE  BlakeInv'
<1>. USE DEF BlakeInv
<1> DEFINE d == Data(total, 8 * n)
<1>1. phase = "open" /\ phase' = phase /\ use' = use /\ outer' = outer /\ digest' = digest
      /\ total' = total + n
  BY DEF Update
<1>2. total \in Nat /\ n \in Nat /\ n > 0 /\ total + n \in Nat
  <2>1. MinPiece \in Nat /\ MinPiece > 0 /\ total \in Nat
    BY DEF BlakeAssumption, Callers, BlakeTypes
  <2>. QED
    BY <2>1
<1>3. BlakeTypes'
  BY <1>1, <1>2 DEF BlakeTypes
<1>4. HashesPaddedMessage' /\ HmacIsRFC2104'
  BY <1>1 DEF HashesPaddedMessage, HmacIsRFC2104
<1>5. S' = blake256_update(S, d)
  BY Zenon DEF Update, blake224_update
<1>6. IsSeq(d) /\ Len(d) > 0
  BY <1>2, DataBytes
<1>7. Message' = Message \o d
  <2>1. Data(0, 8 * total) \o Data(total, 8 * n) = Data(0, 8 * (total + n))
    BY <1>2, DataJoined
  <2>. QED
    BY <1>1, <2>1 DEF Message
<1>8. IsSeq(Message)
  BY MessageBytes
<1>. HIDE DEF d
<1>9. CASE use.key = NoKey
  <2>1. Absorbed(S, use.alg, Message)
    BY <1>1, <1>9 DEF PlainState
  <2> DEFINE m == Message
             a == use.alg
             s == S
  <2>2. Absorbed(s, a, m)
    BY <2>1
  <2>. HIDE DEF m, a, s
  <2>3. Absorbed(blake256_update(s, d), a, m \o d)
    BY <1>6, <2>2, UpdateAbsorbs
  <2>4. Absorbed(S', use.alg, Message')
    BY <1>5, <1>7, <2>3, Zenon DEF m, a, s
  <2>5. PlainState'
    BY <1>1, <2>4 DEF PlainState
  <2>6. KeyedState'
    BY <1>1, <1>9 DEF KeyedState
  <2>. QED
    BY <1>3, <1>4, <2>5, <2>6
<1>10. CASE use.key # NoKey
  <2> DEFINE p == Masked("0x36", UsedKey)
             m == p \o Message
             a == use.alg
             s == S
  <2>1. Absorbed(s, a, m) /\ Absorbed(outer, use.alg, Masked("0x5c", UsedKey))
    BY <1>1, <1>10 DEF KeyedState
  <2>2. m \o d = p \o Message'
    <3>1. IsSeq(p)
      BY MaskedBytes
    <3> DEFINE t == Message
    <3>2. IsSeq(t)
      BY <1>8
    <3>. HIDE DEF p, t
    <3>3. (p \o t) \o d = p \o (t \o d)
      BY <1>6, <3>1, <3>2, JoinAgain
    <3>. QED
      BY <1>7, <3>3, Zenon DEF t
  <2>. HIDE DEF m, a, s
  <2>3. Absorbed(blake256_update(s, d), a, m \o d)
    BY <1>6, <2>1, UpdateAbsorbs
  <2>4. Absorbed(S', use.alg, p \o Message')
    BY <1>5, <2>2, <2>3, Zenon DEF a, s
  <2>5. UsedKey' = UsedKey
    BY <1>1 DEF UsedKey
  <2>6. KeyedState'
    BY <1>1, <2>1, <2>4, <2>5 DEF KeyedState
  <2>7. PlainState'
    BY <1>1, <1>10 DEF PlainState
  <2>. QED
    BY <1>3, <1>4, <2>6, <2>7
<1>. QED
  BY <1>9, <1>10

LEMMA FinalKeeps ==
  ASSUME BlakeAssumption, Callers, BlakeInv, Final
  PROVE  BlakeInv'
<1>. USE DEF BlakeInv
<1>1. phase = "open" /\ phase' = "done" /\ use' = use /\ total' = total
  BY DEF Final
<1>2. BlakeTypes'
  BY <1>1 DEF BlakeTypes
<1>3. PlainState' /\ KeyedState'
  BY <1>1 DEF PlainState, KeyedState
<1>4. use.alg \in {256, 224} /\ Message' = Message
  BY <1>1, UseTypes DEF Message
<1>5. S' = blake256_final_h(S, use.alg)
  <2>1. CASE use.alg = 256
    BY <2>1, Zenon DEF Final, blake256_final
  <2>2. CASE use.alg = 224
    <3>1. use.alg # 256
      BY <2>2
    <3>. QED
      BY <2>2, <3>1, Zenon DEF Final, blake224_final
  <2>. QED
    BY <1>4, <2>1, <2>2
<1>6. CASE use.key = NoKey
  <2>1. digest' = S'.h
    BY <1>6, Zenon DEF Final
  <2>2. Absorbed(S, use.alg, Message)
    BY <1>1, <1>6 DEF PlainState
  <2> DEFINE m == Message
             a == use.alg
             s == S
  <2>3. Absorbed(s, a, m)
    BY <2>2
  <2>. HIDE DEF m, a, s
  <2>4. blake256_final_h(s, a).h = Hash(a, m)
    BY <2>3, FinalHashes
  <2>5. digest' = Hash(use.alg, Message)
    BY <1>5, <2>1, <2>4, Zenon DEF m, a, s
  <2>6. HashesPaddedMessage'
    BY <1>1, <2>5 DEF HashesPaddedMessage, Message
  <2>7. HmacIsRFC2104'
    BY <1>1, <1>6 DEF HmacIsRFC2104
  <2>. QED
    BY <1>2, <1>3, <2>6, <2>7
<1>7. CASE use.key # NoKey
  <2> DEFINE a == use.alg
             k == UsedKey
             m == Message
             s == S
             o == outer
             f == blake256_final_h(blake256_update(o, DigestBytes(blake256_final_h(s, a).h, Size(a))), a)
  <2>1. outer' = f
    <3>1. CASE a = 256
      <4>1. outer' = hmac_blake256_final(S, outer)
        BY <1>7, <3>1 DEF Final
      <4>2. Size(a) = Digest256
        BY <3>1 DEF Size
      <4>. QED
        BY <3>1, <4>1, <4>2, Zenon DEF hmac_blake256_final, blake256_final
    <3>2. CASE a = 224
      <4>1. outer' = hmac_blake224_final(S, outer)
        BY <1>7, <3>2 DEF Final
      <4>2. Size(a) = Digest224
        BY <3>2 DEF Size
      <4>. QED
        BY <3>2, <4>1, <4>2, Zenon DEF hmac_blake224_final, blake224_final, blake224_update
    <3>. QED
      BY <1>4, <3>1, <3>2
  <2>2. digest' = f.h
    BY <1>7, <2>1, Zenon DEF Final
  <2>3. Absorbed(s, a, Masked("0x36", k) \o m) /\ Absorbed(o, a, Masked("0x5c", k))
    BY <1>1, <1>7 DEF KeyedState
  <2>4. IsSeq(m) /\ a \in {256, 224}
    BY <1>4, MessageBytes
  <2> DEFINE r == Hash(a, Masked("0x5c", k) \o DigestBytes(Hash(a, Masked("0x36", k) \o m), Size(a)))
  <2>5. f.h = r
    <3>. HIDE DEF a, k, m, s, o
    <3>. QED
      BY <2>3, <2>4, HmacEnds
  <2>6. HMAC(use.alg, KeyBytes(use.key), Message) = r
    BY Zenon DEF HMAC, UsedKey, ShortKey
  <2>7. digest' = HMAC(use.alg, KeyBytes(use.key), Data(0, 8 * total))
    BY <2>2, <2>5, <2>6, Zenon DEF Message
  <2>8. HmacIsRFC2104'
    BY <1>1, <2>7 DEF HmacIsRFC2104
  <2>9. HashesPaddedMessage'
    BY <1>1, <1>7 DEF HashesPaddedMessage
  <2>. QED
    BY <1>2, <1>3, <2>8, <2>9
<1>. QED
  BY <1>6, <1>7

LEMMA BlakeInductive ==
  ASSUME BlakeAssumption, Callers
  PROVE  Spec => []BlakeInv
<1>1. Init => BlakeInv
  <2> SUFFICES ASSUME Init PROVE BlakeInv
    OBVIOUS
  <2>1. phase = "new" /\ total = 0 /\ use \in Uses
    BY DEF Init
  <2>2. phase # "open" /\ phase # "done"
    BY <2>1
  <2>3. BlakeTypes
    BY <2>1 DEF BlakeTypes
  <2>4. PlainState /\ KeyedState
    BY <2>2 DEF PlainState, KeyedState
  <2>5. HashesPaddedMessage /\ HmacIsRFC2104
    BY <2>2 DEF HashesPaddedMessage, HmacIsRFC2104
  <2>. QED
    BY <2>3, <2>4, <2>5 DEF BlakeInv
<1>2. BlakeInv /\ [Next]_vars => BlakeInv'
  <2> SUFFICES ASSUME BlakeInv, [Next]_vars PROVE BlakeInv'
    OBVIOUS
  <2>1. CASE Begin
    BY <2>1, BeginKeeps
  <2>2. ASSUME NEW n \in MinPiece..MaxBytes, Update(n)
        PROVE  BlakeInv'
    BY <2>2, UpdateKeeps
  <2>3. CASE Final
    BY <2>3, FinalKeeps
  <2>4. CASE UNCHANGED vars
    BY <2>4 DEF vars, BlakeInv, BlakeTypes, PlainState, KeyedState, HashesPaddedMessage,
                HmacIsRFC2104, Message, UsedKey
  <2>. QED
    BY <2>1, <2>2, <2>3, <2>4 DEF Next
<1>. QED
  BY <1>1, <1>2, PTL DEF Spec

(***************************************************************************)
(* blake256_init, any number of blake256_update with pieces that are not   *)
(* empty and blake256_final (and the BLAKE-224 functions): the digest is   *)
(* the one of the padded message with the counts of message bits, however  *)
(* the message is cut, whatever the sizes of blocks and words.             *)
(***************************************************************************)
THEOREM BlakeHashesPaddedMessage ==
  ASSUME BlakeAssumption, Callers
  PROVE  Spec => []HashesPaddedMessage
<1>1. BlakeInv => HashesPaddedMessage
  BY DEF BlakeInv
<1>. QED
  BY <1>1, BlakeInductive, PTL

(***************************************************************************)
(* The hmac_ functions compute the HMAC of RFC 2104, long keys of          *)
(* BLAKE-256 included.                                                     *)
(***************************************************************************)
THEOREM HmacFollowsRFC2104 ==
  ASSUME BlakeAssumption, Callers
  PROVE  Spec => []HmacIsRFC2104
<1>1. BlakeInv => HmacIsRFC2104
  BY DEF BlakeInv
<1>. QED
  BY <1>1, BlakeInductive, PTL

-----------------------------------------------------------------------------
(***************************************************************************)
(* keccak() stays inside temp and absorbs the padded message, for every    *)
(* length of the message, every length of the digest and all sizes of the  *)
(* state, of temp and of a word.                                           *)
(***************************************************************************)
CONSTANTS STATE_T, TEMP, HASH_DATA_AREA, WORD, MdLens, MaxLen
VARIABLES mdlen, size, inlen, st, top, stage

KE == INSTANCE Keccak WITH total <- size, phase <- stage

(* The bytes that occur.                                                   *)
Bytes == {KE!Msg(k) : k \in Int} \cup {KE!Num(v) : v \in Int}

(* Block n of the message, and the position k of the padded message.       *)
WholeBlock(n) == [m \in 1..KE!rsiz |-> KE!Msg((n - 1) * KE!rsiz + m)]

Behind(k, end) ==
  IF k = size + 1 THEN (IF k = end THEN KE!Num(129) ELSE KE!Num(1))
  ELSE IF k = end THEN KE!Num(128) ELSE KE!Num(0)

PaddedByte(k, end) == IF k <= size THEN KE!Msg(k) ELSE Behind(k, end)

-----------------------------------------------------------------------------
(* The inductive invariant.  The arguments do not change; behind the first *)
(* check the block has a size; behind the second one the block fits into   *)
(* temp; and what has been absorbed are the first blocks of the message.   *)
KeccakTypes ==
  /\ mdlen \in Int /\ size \in Nat /\ inlen \in Nat
  /\ stage \in {"enter", "absorb", "last", "done", "aborted"}
  /\ st \in Seq(Seq(Bytes))

SizeInv ==
  /\ stage \in {"absorb", "last", "done"} => KE!rsiz \in Nat
  /\ stage = "last" => inlen < KE!rsiz /\ ~KE!BadLast

AbsorbedInv ==
  stage \in {"enter", "absorb", "last"} /\ KE!rsiz > 0 /\ KE!rsiz % WORD = 0 =>
    /\ size = Len(st) * KE!rsiz + inlen
    /\ \A n \in 1..Len(st) : st[n] = WholeBlock(n)

KeccakInv == KeccakTypes /\ SizeInv /\ AbsorbedInv /\ KE!AbsorbsPaddedMessage /\ KE!StaysInTemp

-----------------------------------------------------------------------------
(* Arithmetic of blocks.                                                   *)

(* What is divided by a divisor and multiplied by it again.                *)
LEMMA Multiple ==
  ASSUME NEW n \in Nat, NEW m \in Nat \ {0}
  PROVE  /\ (n \div m) * m \in Nat
         /\ n % m = 0 => (n \div m) * m = n
<1> DEFINE q == n \div m
<1>1. q \in Nat /\ (n % m = 0 => n = q * m)
  BY SMT
<1> HIDE DEF q
<1>2. q * m \in Nat
  BY <1>1, SMT
<1> QED
  BY <1>1, <1>2 DEF q

(* A message that ends in the middle of a block is padded up to its end.   *)
LEMMA PaddedLength ==
  ASSUME NEW n \in Nat, NEW r \in Nat \ {0}, NEW k \in 0 .. r - 1
  PROVE  KE!RoundUp(n * r + k + 1, r) = n * r + r
<1> DEFINE x == n * r
           y == (n + 1) * r
<1>1. x \in Nat /\ y = x + r
  BY SMT
<1>2. (y + k) \div r = n + 1
  BY SMT
<1> HIDE DEF x
<1>3. x + k + 1 + r - 1 = (x + r) + k
  BY <1>1, SMT
<1> HIDE DEF y
<1>4. (x + k + 1 + r - 1) \div r = n + 1
  BY <1>1, <1>2, <1>3
<1>5. KE!RoundUp(x + k + 1, r) = (n + 1) * r
  BY <1>4 DEF KE!RoundUp
<1> QED
  BY <1>1, <1>5 DEF x, y

(* A position in block j of n + 1 blocks.                                  *)
LEMMA Position ==
  ASSUME NEW n \in Nat, NEW r \in Nat \ {0}, NEW j \in 1 .. n + 1, NEW m \in 1 .. r
  PROVE  /\ (j - 1) * r \in Nat
         /\ (j - 1) * r + m \in 1 .. n * r + r
         /\ j * r = (j - 1) * r + r
         /\ j <= n => (j - 1) * r + m <= n * r
<1>1. j \in Nat /\ j - 1 \in Nat /\ j - 1 <= n
  OBVIOUS
<1>2. (j - 1) * r \in Nat /\ j * r = (j - 1) * r + r /\ n * r \in Nat
  BY <1>1, SMT
<1>3. (j - 1) * r <= n * r
  BY <1>1, SMT
<1>4. j <= n => (j - 1) * r + r <= n * r
  BY <1>1, <1>2, SMT
<1> DEFINE u == (j - 1) * r
           v == n * r
<1> HIDE DEF u, v
<1>5. u \in Nat /\ v \in Nat /\ u <= v /\ (j <= n => u + r <= v)
  BY <1>2, <1>3, <1>4 DEF u, v
<1>6. u + m \in 1 .. v + r /\ (j <= n => u + m <= v)
  BY <1>5
<1> QED
  BY <1>2, <1>6 DEF u, v

-----------------------------------------------------------------------------
(* Sequences of bytes.                                                     *)

(* A sequence given by its elements.                                       *)
LEMMA ListedIn ==
  ASSUME NEW V, NEW n \in Nat, NEW f, f \in [1..n -> V]
  PROVE  f \in Seq(V) /\ Len(f) = n
OBVIOUS

(* Every byte of the message and every number is a byte.                   *)
LEMMA ByteTypes ==
  /\ \A k \in Int : KE!Msg(k) \in Bytes /\ KE!Num(k) \in Bytes
  /\ KE!Num(0) # KE!Num(1)
<1>1. \A k \in Int : KE!Msg(k) \in Bytes /\ KE!Num(k) \in Bytes
  BY DEF Bytes
<1>2. KE!Num(0) # KE!Num(1)
  BY DEF KE!Num
<1> QED
  BY <1>1, <1>2

(* Two sequences one after the other.                                      *)
Follow(c, s, m, t, n) ==
  /\ c \in Seq(Bytes) /\ Len(c) = m + n
  /\ \A k \in 1..m : c[k] = s[k]
  /\ \A k \in 1..n : c[m + k] = t[k]

LEMMA JoinedIn ==
  ASSUME NEW s \in Seq(Bytes), NEW t \in Seq(Bytes),
         NEW m \in Nat, Len(s) = m, NEW n \in Nat, Len(t) = n
  PROVE  Follow(s \o t, s, m, t, n)
<1>1. /\ s \o t \in Seq(Bytes)
      /\ Len(s \o t) = Len(s) + Len(t)
      /\ \A i \in 1 .. Len(s) + Len(t) :
           (s \o t)[i] = IF i <= Len(s) THEN s[i] ELSE t[i - Len(s)]
  BY ConcatProperties
<1>2. \A k \in 1..m : (s \o t)[k] = s[k]
  BY <1>1
<1>3. \A k \in 1..n : (s \o t)[m + k] = t[k]
  <2> TAKE k \in 1..n
  <2>1. m + k \in 1 .. Len(s) + Len(t) /\ ~(m + k <= Len(s)) /\ (m + k) - Len(s) = k
    OBVIOUS
  <2> QED
    BY <1>1, <2>1
<1> QED
  BY <1>1, <1>2, <1>3 DEF Follow

(* One byte behind a sequence, and one in front of it.                     *)
LEMMA OneMore ==
  ASSUME NEW s \in Seq(Bytes), NEW m \in Nat, Len(s) = m, NEW c \in Bytes
  PROVE  /\ s \o <<c>> \in Seq(Bytes) /\ Len(s \o <<c>>) = m + 1
         /\ \A k \in 1..m : (s \o <<c>>)[k] = s[k]
         /\ (s \o <<c>>)[m + 1] = c
         /\ <<c>> \o s \in Seq(Bytes) /\ Len(<<c>> \o s) = m + 1
         /\ (<<c>> \o s)[1] = c
         /\ \A k \in 1..m : (<<c>> \o s)[1 + k] = s[k]
<1> DEFINE one == <<c>>
           n   == 1
<1>1. one \in Seq(Bytes) /\ Len(one) = n /\ one[1] = c /\ n \in Nat
  OBVIOUS
<1> HIDE DEF one, n
<1>2. /\ s \o one \in Seq(Bytes) /\ Len(s \o one) = Len(s) + Len(one)
      /\ \A i \in 1 .. Len(s) + Len(one) :
           (s \o one)[i] = IF i <= Len(s) THEN s[i] ELSE one[i - Len(s)]
  BY <1>1, ConcatProperties
<1>3. /\ one \o s \in Seq(Bytes) /\ Len(one \o s) = Len(one) + Len(s)
      /\ \A i \in 1 .. Len(one) + Len(s) :
           (one \o s)[i] = IF i <= Len(one) THEN one[i] ELSE s[i - Len(one)]
  BY <1>1, ConcatProperties
<1>4. /\ Len(s \o one) = m + 1 /\ (s \o one)[m + 1] = c
      /\ \A k \in 1..m : (s \o one)[k] = s[k]
  <2>1. /\ m + 1 \in 1 .. Len(s) + Len(one) /\ ~(m + 1 <= Len(s))
        /\ (m + 1) - Len(s) = 1
    BY <1>1 DEF n
  <2> QED
    BY <1>1, <1>2, <2>1 DEF n
<1>5. /\ Len(one \o s) = m + 1 /\ (one \o s)[1] = c
      /\ \A k \in 1..m : (one \o s)[1 + k] = s[k]
  <2>1. \A k \in 1..m : /\ 1 + k \in 1 .. Len(one) + Len(s)
                        /\ ~(1 + k <= Len(one)) /\ (1 + k) - Len(one) = k
    BY <1>1 DEF n
  <2>2. 1 \in 1 .. Len(one) + Len(s) /\ 1 <= Len(one)
    BY <1>1 DEF n
  <2>3. (one \o s)[1] = c
    BY <1>1, <1>3, <2>2
  <2>4. \A k \in 1..m : (one \o s)[1 + k] = s[k]
    BY <1>3, <2>1
  <2> QED
    BY <1>1, <1>3, <2>3, <2>4 DEF n
<1> QED
  BY <1>2, <1>3, <1>4, <1>5 DEF one

(* A block of a sequence.                                                  *)
LEMMA CutOutIn ==
  ASSUME NEW V, NEW s \in Seq(V), NEW lo \in Nat, NEW n \in Nat, lo + n <= Len(s)
  PROVE  SubSeq(s, lo + 1, lo + n) = [k \in 1..n |-> s[lo + k]]
<1>1. \A i \in lo + 1 .. lo + n : i \in 1 .. Len(s)
  OBVIOUS
<1> QED
  BY <1>1, SubSeqProperties

(* n zeros.                                                                *)
LEMMA ZerosType ==
  ASSUME NEW n \in Nat
  PROVE  /\ KE!Zeros(n) \in Seq(Bytes) /\ Len(KE!Zeros(n)) = n
         /\ \A k \in 1..n : KE!Zeros(n)[k] = KE!Num(0)
<1>1. KE!Zeros(n) \in [1..n -> Bytes]
  BY ByteTypes DEF KE!Zeros
<1>2. \A k \in 1..n : KE!Zeros(n)[k] = KE!Num(0)
  BY DEF KE!Zeros
<1> QED
  BY <1>1, <1>2, ListedIn

(* The part of the message from a position on.                             *)
LEMMA MessageType ==
  ASSUME NEW from \in Int, NEW n \in Nat
  PROVE  /\ [k \in 1..n |-> KE!Msg(from + k)] \in Seq(Bytes)
         /\ Len([k \in 1..n |-> KE!Msg(from + k)]) = n
<1>1. [k \in 1..n |-> KE!Msg(from + k)] \in [1..n -> Bytes]
  BY ByteTypes
<1> QED
  BY <1>1, ListedIn

-----------------------------------------------------------------------------
(* The last block as the code fills it: memcpy, the 1, memset and the or.  *)
LEMMA PaddedBlock ==
  ASSUME size \in Nat, inlen \in Nat, KE!rsiz \in Nat, inlen < KE!rsiz
  PROVE  /\ KE!Padded \in Seq(Bytes)
         /\ Len(KE!Padded) = KE!rsiz
         /\ \A k \in 1..KE!rsiz :
              KE!Padded[k] = PaddedByte(size - inlen + k, size - inlen + KE!rsiz)
<1> DEFINE A == [k \in 1..inlen |-> KE!Msg(size - inlen + k)]
           B == <<KE!Num(1)>>
           C == KE!Zeros(KE!rsiz - inlen - 1)
           F == (A \o B) \o C
<1>1. KE!rsiz - inlen - 1 \in Nat /\ size - inlen \in Int
  OBVIOUS
<1>2. A \in Seq(Bytes) /\ Len(A) = inlen
  BY <1>1, MessageType
<1>3. KE!Num(1) \in Bytes
  BY ByteTypes
<1>4. /\ C \in Seq(Bytes) /\ Len(C) = KE!rsiz - inlen - 1
      /\ \A k \in 1 .. KE!rsiz - inlen - 1 : C[k] = KE!Num(0)
  BY <1>1, ZerosType
<1>5. \A k \in 1..inlen : A[k] = KE!Msg(size - inlen + k)
  OBVIOUS
<1> HIDE DEF A, C
<1> DEFINE AB == A \o B
           z  == KE!rsiz - inlen - 1
           y  == inlen + 1
<1>6. /\ AB \in Seq(Bytes) /\ Len(AB) = y
      /\ \A k \in 1..inlen : AB[k] = A[k]
      /\ AB[inlen + 1] = KE!Num(1)
  BY <1>2, <1>3, OneMore
<1>7. z \in Nat /\ y \in Nat /\ y + z = KE!rsiz /\ Len(C) = z
  BY <1>4
<1> HIDE DEF AB, z, y
<1>8. /\ AB \o C \in Seq(Bytes) /\ Len(AB \o C) = y + z
      /\ \A k \in 1..y : (AB \o C)[k] = AB[k]
      /\ \A k \in 1..z : (AB \o C)[y + k] = C[k]
  <2>1. Follow(AB \o C, AB, y, C, z)
    BY <1>4, <1>6, <1>7, JoinedIn
  <2> QED
    BY <2>1 DEF Follow
<1>9. F = AB \o C
  BY DEF AB
<1> HIDE DEF F
<1>10. /\ F \in Seq(Bytes) /\ Len(F) = KE!rsiz
       /\ \A k \in 1 .. inlen + 1 : F[k] = AB[k]
       /\ \A k \in 1 .. KE!rsiz - inlen - 1 : F[inlen + 1 + k] = C[k]
  BY <1>7, <1>8, <1>9 DEF y, z
<1>11. /\ \A k \in 1..inlen : F[k] = KE!Msg(size - inlen + k)
      /\ F[inlen + 1] = KE!Num(1)
      /\ \A k \in inlen + 2 .. KE!rsiz : F[k] = KE!Num(0)
  <2>1. \A k \in 1..inlen : k \in 1 .. inlen + 1
    OBVIOUS
  <2>2. \A k \in inlen + 2 .. KE!rsiz :
          k - inlen - 1 \in 1 .. KE!rsiz - inlen - 1 /\ inlen + 1 + (k - inlen - 1) = k
    OBVIOUS
  <2>3. \A k \in 1..inlen : F[k] = KE!Msg(size - inlen + k)
    BY <1>5, <1>6, <1>10, <2>1
  <2>4. F[inlen + 1] = KE!Num(1)
    BY <1>6, <1>10
  <2>5. \A k \in inlen + 2 .. KE!rsiz : F[k] = KE!Num(0)
    BY <1>4, <1>10, <2>2
  <2> QED
    BY <2>3, <2>4, <2>5
<1>12. KE!Or80(F[KE!rsiz]) = Behind(size - inlen + KE!rsiz, size - inlen + KE!rsiz)
  <2>1. CASE KE!rsiz = inlen + 1
    BY <2>1, <1>11 DEF KE!Or80, Behind
  <2>2. CASE KE!rsiz # inlen + 1
    BY <2>2, <1>11, ByteTypes DEF KE!Or80, Behind
  <2> QED
    BY <2>1, <2>2
<1>13. KE!Padded = [F EXCEPT ![KE!rsiz] = KE!Or80(F[KE!rsiz])]
  BY DEF KE!Padded, F, A, C, AB
<1>14. KE!Or80(F[KE!rsiz]) \in Bytes
  BY ByteTypes DEF KE!Or80
<1>15. KE!rsiz \in 1 .. Len(F)
  BY <1>10
<1>16. /\ KE!Padded \in Seq(Bytes) /\ Len(KE!Padded) = KE!rsiz
       /\ \A k \in 1..KE!rsiz :
            KE!Padded[k] = IF k = KE!rsiz THEN KE!Or80(F[KE!rsiz]) ELSE F[k]
  BY <1>10, <1>13, <1>14, <1>15, ExceptSeq
<1>17. ASSUME NEW k \in 1..KE!rsiz
       PROVE  KE!Padded[k] = PaddedByte(size - inlen + k, size - inlen + KE!rsiz)
  <2>1. CASE k = KE!rsiz
    BY <2>1, <1>12, <1>16 DEF PaddedByte
  <2>2. CASE k # KE!rsiz /\ k <= inlen
    BY <2>2, <1>11, <1>16 DEF PaddedByte
  <2>3. CASE k # KE!rsiz /\ k = inlen + 1
    BY <2>3, <1>11, <1>16 DEF PaddedByte, Behind
  <2>4. CASE k # KE!rsiz /\ k > inlen + 1
    BY <2>4, <1>11, <1>16 DEF PaddedByte, Behind
  <2> QED
    BY <2>1, <2>2, <2>3, <2>4
<1> QED
  BY <1>16, <1>17

(* The padded message of the reference.                                    *)
LEMMA PaddedWhole ==
  ASSUME size \in Nat, NEW end \in Nat, end > size, KE!RoundUp(size + 1, KE!rsiz) = end
  PROVE  /\ KE!PaddedMessage \in Seq(Bytes)
         /\ Len(KE!PaddedMessage) = end
         /\ \A k \in 1..end : KE!PaddedMessage[k] = PaddedByte(k, end)
<1> DEFINE pad == end - size
           A == [k \in 1..size |-> KE!Msg(k)]
           C == (<<KE!Num(1)>> \o KE!Zeros(pad - 2)) \o <<KE!Num(128)>>
           B == IF pad = 1 THEN <<KE!Num(129)>> ELSE C
<1>1. pad \in Nat \ {0} /\ size + pad = end
  OBVIOUS
<1>2. KE!PaddedMessage = A \o B
  BY DEF KE!PaddedMessage
<1>3. A \in Seq(Bytes) /\ Len(A) = size /\ \A k \in 1..size : A[k] = KE!Msg(k)
  <2>1. A \in [1..size -> Bytes]
    BY ByteTypes
  <2> QED
    BY <2>1, ListedIn
<1> HIDE DEF A, pad
<1>4. /\ B \in Seq(Bytes) /\ Len(B) = pad
      /\ \A k \in 1..pad : B[k] = Behind(size + k, end)
  <2>1. CASE pad = 1
    <3>1. B = <<KE!Num(129)>>
      BY <2>1
    <3>2. /\ <<KE!Num(129)>> \in Seq(Bytes) /\ Len(<<KE!Num(129)>>) = 1
          /\ <<KE!Num(129)>>[1] = KE!Num(129)
      BY ByteTypes
    <3>3. Behind(size + 1, end) = KE!Num(129)
      BY <1>1, <2>1 DEF Behind
    <3> QED
      BY <2>1, <3>1, <3>2, <3>3
  <2>2. CASE pad # 1
    <3> DEFINE D == <<KE!Num(1)>> \o KE!Zeros(pad - 2)
    <3>1. pad - 2 \in Nat
      BY <1>1, <2>2
    <3>2. /\ KE!Zeros(pad - 2) \in Seq(Bytes) /\ Len(KE!Zeros(pad - 2)) = pad - 2
          /\ \A k \in 1 .. pad - 2 : KE!Zeros(pad - 2)[k] = KE!Num(0)
      BY <3>1, ZerosType
    <3>3. KE!Num(1) \in Bytes /\ KE!Num(128) \in Bytes
      BY ByteTypes
    <3>4. /\ D \in Seq(Bytes) /\ Len(D) = pad - 1 /\ D[1] = KE!Num(1)
          /\ \A k \in 1 .. pad - 2 : D[1 + k] = KE!Num(0)
      <4> DEFINE zs == KE!Zeros(pad - 2)
                 z  == pad - 2
      <4>1. z \in Nat /\ zs \in Seq(Bytes) /\ Len(zs) = z /\ z + 1 = pad - 1
            /\ \A k \in 1..z : zs[k] = KE!Num(0)
        BY <1>1, <3>1, <3>2
      <4>2. D = <<KE!Num(1)>> \o zs
        OBVIOUS
      <4> HIDE DEF zs, D
      <4>3. /\ D \in Seq(Bytes) /\ Len(D) = z + 1 /\ D[1] = KE!Num(1)
            /\ \A k \in 1..z : D[1 + k] = zs[k]
        <5> HIDE DEF z
        <5> QED
          BY <3>3, <4>1, <4>2, OneMore
      <4> QED
        BY <4>1, <4>3
    <3> HIDE DEF D
    <3>5. /\ C \in Seq(Bytes) /\ Len(C) = pad
          /\ \A k \in 1 .. pad - 1 : C[k] = D[k]
          /\ C[pad] = KE!Num(128)
      <4> DEFINE z == pad - 1
      <4>1. z \in Nat /\ Len(D) = z /\ z + 1 = pad
        BY <1>1, <3>4
      <4>2. C = D \o <<KE!Num(128)>>
        BY DEF D
      <4> HIDE DEF C, z
      <4>3. /\ C \in Seq(Bytes) /\ Len(C) = z + 1
            /\ \A k \in 1..z : C[k] = D[k]
            /\ C[z + 1] = KE!Num(128)
        BY <3>3, <3>4, <4>1, <4>2, OneMore
      <4> QED
        BY <4>1, <4>3 DEF z
    <3>6. B = C
      BY <2>2
    <3> HIDE DEF B, C
    <3>7. ASSUME NEW k \in 1..pad
          PROVE  C[k] = Behind(size + k, end)
      <4>1. CASE k = pad
        BY <4>1, <1>1, <2>2, <3>5 DEF Behind
      <4>2. CASE k # pad /\ k = 1
        BY <4>2, <1>1, <3>4, <3>5 DEF Behind
      <4>3. CASE k # pad /\ k # 1
        <5>1. k - 1 \in 1 .. pad - 2 /\ 1 + (k - 1) = k /\ k \in 1 .. pad - 1
          BY <4>3, <1>1
        <5>2. C[k] = KE!Num(0)
          BY <5>1, <3>4, <3>5
        <5> QED
          BY <4>3, <5>2, <1>1 DEF Behind
      <4> QED
        BY <4>1, <4>2, <4>3
    <3> QED
      BY <3>5, <3>6, <3>7
  <2> QED
    BY <2>1, <2>2
<1> HIDE DEF B
<1>5. /\ A \o B \in Seq(Bytes) /\ Len(A \o B) = end
      /\ \A k \in 1..size : (A \o B)[k] = A[k]
      /\ \A k \in 1..pad : (A \o B)[size + k] = B[k]
  <2>1. /\ A \o B \in Seq(Bytes) /\ Len(A \o B) = size + pad
        /\ \A k \in 1..size : (A \o B)[k] = A[k]
        /\ \A k \in 1..pad : (A \o B)[size + k] = B[k]
    <3>1. A \in Seq(Bytes) /\ B \in Seq(Bytes)
      BY <1>3, <1>4
    <3>2. size \in Nat /\ pad \in Nat /\ Len(A) = size /\ Len(B) = pad
      BY <1>1, <1>3, <1>4
    <3> DEFINE n == size
               X == A
               Y == B
    <3>3. /\ X \in Seq(Bytes) /\ Y \in Seq(Bytes) /\ n \in Nat /\ pad \in Nat
          /\ Len(X) = n /\ Len(Y) = pad
      BY <3>1, <3>2
    <3> HIDE DEF X, Y, n
    <3>4. /\ X \o Y \in Seq(Bytes) /\ Len(X \o Y) = n + pad
          /\ \A k \in 1..n : (X \o Y)[k] = X[k]
          /\ \A k \in 1..pad : (X \o Y)[n + k] = Y[k]
      <4>1. Follow(X \o Y, X, n, Y, pad)
        BY <3>3, JoinedIn
      <4> QED
        BY <4>1 DEF Follow
    <3> QED
      BY <3>4 DEF n, X, Y
  <2> QED
    BY <1>1, <2>1
<1>6. ASSUME NEW k \in 1..end
      PROVE  (A \o B)[k] = PaddedByte(k, end)
  <2>1. CASE k <= size
    BY <2>1, <1>3, <1>5 DEF PaddedByte
  <2>2. CASE k > size
    <3>1. k - size \in 1..pad /\ size + (k - size) = k
      BY <2>2, <1>1
    <3> QED
      BY <2>2, <3>1, <1>4, <1>5 DEF PaddedByte
  <2>3. k <= size \/ k > size
    OBVIOUS
  <2> QED
    BY <2>1, <2>2, <2>3
<1> QED
  BY <1>2, <1>5, <1>6

(* The blocks absorbed so far and the padded last one are the blocks of    *)
(* the padded message.                                                     *)
LEMMA LastBlockCompletes ==
  ASSUME size \in Nat, inlen \in Nat, KE!rsiz \in Nat, inlen < KE!rsiz,
         st \in Seq(Seq(Bytes)), size = Len(st) * KE!rsiz + inlen,
         \A n \in 1..Len(st) : st[n] = WholeBlock(n)
  PROVE  Append(st, SubSeq(KE!Padded, 1, KE!rsiz)) = KE!Blocks(KE!PaddedMessage, KE!rsiz)
<1> DEFINE N   == Len(st)
           r   == KE!rsiz
           lo  == N * r
           end == lo + r
           PM  == KE!PaddedMessage
           B   == KE!Blocks(PM, r)
           new == SubSeq(KE!Padded, 1, r)
<1>1. N \in Nat /\ r \in Nat \ {0} /\ inlen \in 0 .. r - 1
  BY LenProperties
<1>2. lo \in Nat /\ end \in Nat /\ size = lo + inlen /\ size - inlen = lo
      /\ end > size
  BY <1>1, SMT
<1>3. KE!RoundUp(size + 1, r) = end
  <2>1. KE!RoundUp(N * r + inlen + 1, r) = N * r + r
    BY <1>1, PaddedLength
  <2> QED
    BY <1>2, <2>1
<1>4. /\ PM \in Seq(Bytes) /\ Len(PM) = end
      /\ \A k \in 1..end : PM[k] = PaddedByte(k, end)
  BY <1>2, <1>3, PaddedWhole
<1>5. /\ KE!Padded \in Seq(Bytes) /\ Len(KE!Padded) = r
      /\ \A k \in 1..r : KE!Padded[k] = PaddedByte(lo + k, end)
  <2>1. /\ KE!Padded \in Seq(Bytes) /\ Len(KE!Padded) = r
        /\ \A k \in 1..r :
             KE!Padded[k] = PaddedByte(size - inlen + k, size - inlen + r)
    BY PaddedBlock
  <2> QED
    BY <1>2, <2>1
<1>6. end \div r = N + 1
  <2>1. end = (N + 1) * r
    BY <1>1, SMT
  <2>2. ((N + 1) * r) \div r = N + 1
    BY <1>1, SMT
  <2> QED
    BY <2>1, <2>2
<1> HIDE DEF PM
<1>7. ASSUME NEW j \in 1 .. N + 1
      PROVE  SubSeq(PM, (j - 1) * r + 1, j * r)
               = [k \in 1..r |-> PaddedByte((j - 1) * r + k, end)]
  <2> DEFINE u == (j - 1) * r
  <2>1. u \in Nat /\ j * r = u + r /\ u + r <= end
    BY <1>1, Position
  <2>2. \A k \in 1..r : u + k \in 1..end
    BY <1>1, Position
  <2> HIDE DEF u
  <2>3. SubSeq(PM, u + 1, u + r) = [k \in 1..r |-> PM[u + k]]
    BY <1>1, <1>4, <2>1, CutOutIn
  <2>4. \A k \in 1..r : PM[u + k] = PaddedByte(u + k, end)
    BY <1>4, <2>2
  <2>5. SubSeq(PM, u + 1, u + r) = [k \in 1..r |-> PaddedByte(u + k, end)]
    BY <2>3, <2>4
  <2> QED
    BY <2>1, <2>5 DEF u
<1>8. B = [j \in 1 .. N + 1 |-> [k \in 1..r |-> PaddedByte((j - 1) * r + k, end)]]
  <2>1. B = [j \in 1 .. N + 1 |-> SubSeq(PM, (j - 1) * r + 1, j * r)]
    BY <1>4, <1>6 DEF KE!Blocks
  <2> QED
    BY <1>7, <2>1
<1>9. new = [k \in 1..r |-> PaddedByte(lo + k, end)]
  <2>1. SubSeq(KE!Padded, 0 + 1, 0 + r) = [k \in 1..r |-> KE!Padded[0 + k]]
    BY <1>1, <1>5, CutOutIn
  <2>2. 0 + 1 = 1 /\ 0 + r = r /\ \A k \in 1..r : 0 + k = k
    BY <1>1
  <2>3. new = [k \in 1..r |-> KE!Padded[k]]
    BY <2>1, <2>2
  <2> QED
    BY <1>5, <2>3
<1>10. ASSUME NEW j \in 1..N
       PROVE  st[j] = [k \in 1..r |-> PaddedByte((j - 1) * r + k, end)]
  <2>1. \A k \in 1..r : (j - 1) * r + k <= size
    <3> TAKE k \in 1..r
    <3>1. j \in 1 .. N + 1 /\ j <= N
      BY <1>1
    <3>2. (j - 1) * r \in Nat /\ (j - 1) * r + k <= lo
      BY <1>1, <3>1, Position
    <3> QED
      BY <1>2, <3>2
  <2>2. \A k \in 1..r : PaddedByte((j - 1) * r + k, end) = KE!Msg((j - 1) * r + k)
    BY <2>1 DEF PaddedByte
  <2>3. st[j] = WholeBlock(j)
    OBVIOUS
  <2> QED
    BY <2>2, <2>3 DEF WholeBlock
<1>11. (N + 1) - 1 = N
  BY <1>1
<1> DEFINE T == Append(st, new)
<1>12. /\ DOMAIN T = 1 .. N + 1
       /\ T = [j \in 1 .. N + 1 |-> T[j]]
       /\ \A j \in 1..N : T[j] = st[j]
       /\ T[N + 1] = new
  <2>1. new \in Seq(Bytes)
    BY <1>1, <1>5, SubSeqProperties
  <2> HIDE DEF new
  <2>2. /\ T \in Seq(Seq(Bytes)) /\ Len(T) = N + 1
        /\ \A j \in 1..N : T[j] = st[j]
        /\ T[N + 1] = new
    BY <2>1, AppendProperties
  <2>3. T \in [1 .. N + 1 -> Seq(Bytes)]
    <3> HIDE DEF T
    <3> QED
      BY <2>2, LenProperties
  <2> HIDE DEF T
  <2> QED
    BY <2>2, <2>3
<1>13. ASSUME NEW j \in 1 .. N + 1
       PROVE  T[j] = [k \in 1..r |-> PaddedByte((j - 1) * r + k, end)]
  <2> HIDE DEF T, end
  <2>1. CASE j \in 1..N
    BY <2>1, <1>10, <1>12
  <2>2. CASE j = N + 1
    BY <2>2, <1>9, <1>11, <1>12
  <2> QED
    BY <1>1, <2>1, <2>2
<1> HIDE DEF T, B, end
<1>14. T = B
  BY <1>8, <1>12, <1>13
<1> QED
  BY <1>14 DEF T, B, PM

-----------------------------------------------------------------------------
(* The initial states satisfy the invariant.                               *)
LEMMA KeccakInit ==
  ASSUME KE!KeccakAssumption, KE!Init
  PROVE  KeccakInv
<1>1. KeccakTypes /\ SizeInv /\ KE!AbsorbsPaddedMessage /\ KE!StaysInTemp
  BY DEF KE!KeccakAssumption, KE!Init, KeccakTypes, SizeInv, KE!AbsorbsPaddedMessage, KE!StaysInTemp
<1>2. AbsorbedInv
  <2>1. Len(st) = 0 /\ inlen = size /\ size \in Nat
    BY DEF KE!Init, KE!KeccakAssumption
  <2>2. KE!rsiz \in Int
    BY DEF KE!rsiz, KE!KeccakAssumption, KE!Init
  <2> QED
    BY <2>1, <2>2 DEF AbsorbedInv
<1> QED
  BY <1>1, <1>2 DEF KeccakInv

(* Behind the check of the digest's length a block has a size.             *)
LEMMA SizeOfBlock ==
  ASSUME KE!KeccakAssumption, mdlen \in Int, ~KE!BadUse
  PROVE  KE!rsiz \in Nat
<1>1. CASE mdlen = STATE_T
  BY <1>1 DEF KE!rsiz, KE!KeccakAssumption
<1>2. CASE mdlen # STATE_T
  <2>1. mdlen \in Nat /\ mdlen <= STATE_T \div 2 /\ STATE_T \in Nat
    BY <1>2 DEF KE!BadUse, KE!KeccakAssumption
  <2>2. STATE_T - 2 * mdlen \in Nat
    BY <2>1, SMT
  <2> QED
    BY <1>2, <2>2 DEF KE!rsiz
<1> QED
  BY <1>1, <1>2

(* Steps that absorb nothing.                                              *)
LEMMA KeccakEnter ==
  ASSUME KE!KeccakAssumption, KeccakInv, KE!Enter \/ KE!LeaveLoop
  PROVE  KeccakInv'
<1>1. KE!rsiz' = KE!rsiz /\ KE!rsizw' = KE!rsizw
  BY DEF KE!Enter, KE!LeaveLoop, KE!rsiz, KE!rsizw
<1>2. KeccakTypes'
  BY DEF KeccakInv, KeccakTypes, KE!Enter, KE!LeaveLoop
<1>3. KE!BadLast' = KE!BadLast
  BY <1>1 DEF KE!BadLast, KE!Enter, KE!LeaveLoop
<1>4. SizeInv'
  <2>1. CASE KE!Enter
    BY <2>1, <1>1, <1>3, SizeOfBlock DEF KeccakInv, KeccakTypes, SizeInv, KE!Enter
  <2>2. CASE KE!LeaveLoop
    BY <2>2, <1>1, <1>3 DEF KeccakInv, SizeInv, KE!LeaveLoop
  <2> QED
    BY <2>1, <2>2
<1>5. AbsorbedInv'
  <2>1. \A n : WholeBlock(n)' = WholeBlock(n)
    BY <1>1 DEF WholeBlock
  <2> QED
    BY <1>1, <2>1 DEF KeccakInv, AbsorbedInv, KE!Enter, KE!LeaveLoop
<1>6. KE!AbsorbsPaddedMessage' /\ KE!StaysInTemp'
  BY DEF KeccakInv, KE!AbsorbsPaddedMessage, KE!StaysInTemp, KE!Enter, KE!LeaveLoop
<1> QED
  BY <1>2, <1>4, <1>5, <1>6 DEF KeccakInv

(* One whole block.                                                        *)
LEMMA KeccakAbsorb ==
  ASSUME KE!KeccakAssumption, KeccakInv, KE!Absorb
  PROVE  KeccakInv'
<1> DEFINE K   == KE!rsizw * WORD
           new == [k \in 1..K |-> KE!Msg(size - inlen + k)]
<1>1. /\ mdlen \in Int /\ size \in Nat /\ inlen \in Nat /\ st \in Seq(Seq(Bytes))
      /\ KE!rsiz \in Nat /\ WORD \in Nat \ {0} /\ stage = "absorb" /\ inlen >= KE!rsiz
  BY DEF KeccakInv, KeccakTypes, SizeInv, KE!Absorb, KE!KeccakAssumption
<1>2. K \in Nat /\ (KE!rsiz % WORD = 0 => K = KE!rsiz)
  BY <1>1, Multiple DEF KE!rsizw
<1>3. KE!rsiz' = KE!rsiz /\ KE!rsizw' = KE!rsizw /\ inlen' = inlen - KE!rsiz /\ inlen' \in Nat
      /\ UNCHANGED <<mdlen, size, top, stage>>
  BY <1>1 DEF KE!Absorb, KE!rsiz, KE!rsizw
<1>4. new \in Seq(Bytes)
  <2>1. size - inlen \in Int
    BY <1>1
  <2> HIDE DEF K
  <2> QED
    BY <1>2, <2>1, MessageType
<1>5. st' = IF KE!rsiz = 0 THEN st ELSE Append(st, new)
  BY DEF KE!Absorb
<1> HIDE DEF K, new
<1>6. st' \in Seq(Seq(Bytes))
  BY <1>1, <1>4, <1>5, AppendProperties
<1>7. KeccakTypes' /\ SizeInv'
  BY <1>1, <1>3, <1>6 DEF KeccakTypes, SizeInv
<1>8. AbsorbedInv'
  <2> SUFFICES ASSUME KE!rsiz > 0, KE!rsiz % WORD = 0
               PROVE  /\ size = Len(st') * KE!rsiz + inlen'
                      /\ \A n \in 1..Len(st') : st'[n] = WholeBlock(n)'
    BY <1>3 DEF AbsorbedInv
  <2>1. /\ size = Len(st) * KE!rsiz + inlen
        /\ \A n \in 1..Len(st) : st[n] = WholeBlock(n)
    BY <1>1 DEF KeccakInv, AbsorbedInv
  <2>2. \A n : WholeBlock(n)' = WholeBlock(n)
    BY <1>3 DEF WholeBlock
  <2>3. st' = Append(st, new)
    BY <1>1, <1>5
  <2>4. /\ Len(st) \in Nat /\ Len(st') = Len(st) + 1
        /\ \A n \in 1..Len(st) : st'[n] = st[n]
        /\ st'[Len(st) + 1] = new
    BY <1>1, <1>4, <2>3, AppendProperties, LenProperties
  <2>5. (Len(st) + 1) * KE!rsiz = Len(st) * KE!rsiz + KE!rsiz
    BY <1>1, <2>4, SMT
  <2>6. Len(st) * KE!rsiz \in Nat
    BY <1>1, <2>4, SMT
  <2>7. size - inlen = Len(st) * KE!rsiz
    BY <1>1, <2>1, <2>6
  <2>8. size = Len(st') * KE!rsiz + inlen'
    BY <1>1, <1>3, <2>1, <2>4, <2>5, <2>6
  <2>9. new = WholeBlock(Len(st) + 1)
    <3>1. (Len(st) + 1) - 1 = Len(st)
      BY <2>4
    <3> QED
      BY <1>2, <2>7, <3>1 DEF new, WholeBlock
  <2>10. \A n \in 1 .. Len(st) + 1 : n \in 1..Len(st) \/ n = Len(st) + 1
    BY <2>4
  <2> QED
    BY <2>1, <2>2, <2>4, <2>8, <2>9, <2>10
<1>9. KE!AbsorbsPaddedMessage' /\ KE!StaysInTemp'
  BY <1>1, <1>3 DEF KeccakInv, KE!AbsorbsPaddedMessage, KE!StaysInTemp
<1> QED
  BY <1>7, <1>8, <1>9 DEF KeccakInv

(* The padded block.                                                       *)
LEMMA KeccakLastBlock ==
  ASSUME KE!KeccakAssumption, KeccakInv, KE!LastBlock
  PROVE  KeccakInv'
<1> DEFINE K   == KE!rsizw * WORD
           new == SubSeq(KE!Padded, 1, K)
<1>1. /\ mdlen \in Int /\ size \in Nat /\ inlen \in Nat /\ st \in Seq(Seq(Bytes))
      /\ KE!rsiz \in Nat /\ WORD \in Nat \ {0} /\ stage = "last"
      /\ inlen < KE!rsiz /\ ~KE!BadLast /\ TEMP \in Nat
  BY DEF KeccakInv, KeccakTypes, SizeInv, KE!LastBlock, KE!KeccakAssumption
<1>2. K \in Nat /\ K <= KE!rsiz /\ (KE!rsiz % WORD = 0 => K = KE!rsiz)
  <2>1. K \in Nat /\ (KE!rsiz % WORD = 0 => K = KE!rsiz)
    BY <1>1, Multiple DEF KE!rsizw
  <2>2. K <= KE!rsiz
    BY <1>1, SMT DEF KE!rsizw
  <2> QED
    BY <2>1, <2>2
<1>3. KE!rsiz' = KE!rsiz /\ inlen' = inlen + 1 /\ stage' = "done"
      /\ UNCHANGED <<mdlen, size>>
  BY DEF KE!LastBlock, KE!rsiz
<1>4. st' = Append(st, new) /\ top' = Len(KE!Padded) - 1
  BY DEF KE!LastBlock
<1>5. KE!Padded \in Seq(Bytes) /\ Len(KE!Padded) = KE!rsiz
  BY <1>1, PaddedBlock
<1>6. new \in Seq(Bytes)
  <2>1. \A k \in 1..K : k \in 1..Len(KE!Padded)
    BY <1>1, <1>2, <1>5
  <2>2. \A k \in 1..K : KE!Padded[k] \in Bytes
    BY <1>5, <2>1, ElementOfSeq
  <2> HIDE DEF K
  <2> QED
    BY <1>2, <2>2, SubSeqProperties
<1>7. KeccakTypes'
  <2> HIDE DEF new
  <2>1. st' \in Seq(Seq(Bytes))
    BY <1>1, <1>4, <1>6, AppendProperties
  <2> QED
    BY <1>1, <1>3, <2>1 DEF KeccakTypes
<1>8. SizeInv' /\ AbsorbedInv'
  BY <1>1, <1>3 DEF SizeInv, AbsorbedInv
<1>9. KE!AbsorbsPaddedMessage'
  <2> SUFFICES ASSUME KE!rsiz % WORD = 0
               PROVE  st' = KE!Blocks(KE!PaddedMessage', KE!rsiz)
    BY <1>3 DEF KE!AbsorbsPaddedMessage
  <2>1. KE!PaddedMessage' = KE!PaddedMessage
    BY <1>3 DEF KE!PaddedMessage
  <2>2. /\ size = Len(st) * KE!rsiz + inlen
        /\ \A n \in 1..Len(st) : st[n] = WholeBlock(n)
    BY <1>1 DEF KeccakInv, AbsorbedInv
  <2>3. Append(st, SubSeq(KE!Padded, 1, KE!rsiz)) = KE!Blocks(KE!PaddedMessage, KE!rsiz)
    BY <1>1, <2>2, LastBlockCompletes
  <2> QED
    BY <1>2, <1>4, <2>1, <2>3
<1>10. KE!StaysInTemp'
  BY <1>1, <1>4, <1>5 DEF KE!StaysInTemp, KE!BadLast
<1> QED
  BY <1>7, <1>8, <1>9, <1>10 DEF KeccakInv

(* Every step keeps the invariant.                                         *)
LEMMA KeccakNext ==
  ASSUME KE!KeccakAssumption, KeccakInv, [KE!Next]_KE!vars
  PROVE  KeccakInv'
<1>1. CASE UNCHANGED KE!vars
  BY <1>1 DEF KE!vars, KeccakInv, KeccakTypes, SizeInv, AbsorbedInv, WholeBlock, KE!BadLast,
              KE!AbsorbsPaddedMessage, KE!PaddedMessage, KE!StaysInTemp, KE!rsiz, KE!rsizw
<1>2. CASE KE!Next
  BY <1>2, KeccakEnter, KeccakAbsorb, KeccakLastBlock DEF KE!Next
<1> QED
  BY <1>1, <1>2

(* keccak() never accesses temp outside its bounds, for every length of    *)
(* the digest that a caller may pass and every length of the message.      *)
THEOREM KeccakStaysInTemp ==
  ASSUME KE!KeccakAssumption
  PROVE  KE!Spec => []KE!StaysInTemp
<1>1. KeccakInv => KE!StaysInTemp
  BY DEF KeccakInv
<1>2. KE!Init => KeccakInv
  BY KeccakInit
<1>3. KeccakInv /\ [KE!Next]_KE!vars => KeccakInv'
  BY KeccakNext
<1> QED
  BY <1>1, <1>2, <1>3, PTL DEF KE!Spec

(* When keccak() ends, the state has absorbed exactly the blocks of the    *)
(* padded message, for every length of the message.                        *)
THEOREM KeccakAbsorbsMessage ==
  ASSUME KE!KeccakAssumption
  PROVE  KE!Spec => []KE!AbsorbsPaddedMessage
<1>1. KeccakInv => KE!AbsorbsPaddedMessage
  BY DEF KeccakInv
<1>2. KE!Init => KeccakInv
  BY KeccakInit
<1>3. KeccakInv /\ [KE!Next]_KE!vars => KeccakInv'
  BY KeccakNext
<1> QED
  BY <1>1, <1>2, <1>3, PTL DEF KE!Spec

-----------------------------------------------------------------------------
(***************************************************************************)
(* Skein.  A context that has absorbed a message m holds its last block    *)
(* back: n blocks are in the chaining value, with the tweak of each, and   *)
(* the r bytes behind them in the buffer.                                  *)
(***************************************************************************)
CONSTANTS Block512, Block1024, MaxHashBits512, CounterBytes, CfgLen, Precomputed,
          HashLengths, Rems, MaxBits
VARIABLES ctx, hashVal, passed, mode

SK == INSTANCE Skein WITH total <- passed, phase <- mode

Context(h, B, cnt, T0, T1, X, b) ==
  [hashBitLen |-> h, B |-> B, bCnt |-> cnt, T0 |-> T0, T1 |-> T1, X |-> X, b |-> b]

(* The tweak behind n blocks of a message with `rest` bits in a last byte. *)
Twk(n, rest) == [type |-> "MSG", first |-> n = 0, final |-> FALSE, bitPad |-> rest # 0]

(* The tweak behind the first block.                                       *)
Later(t) == [t EXCEPT !.first = FALSE]

Compressed(blk, T0, T1) == [blk |-> blk, T0 |-> T0, T1 |-> T1]

PieceOf(m, B, i) == [k \in 1..B |-> m[(i - 1) * B + k]]
Unit(m, B, i) ==
  Compressed(PieceOf(m, B, i), i * B, Twk(i - 1, 0))
Units(x, m, B, n) == [j \in 1 .. n + 1 |-> IF j = 1 THEN x ELSE Unit(m, B, j - 1)]

Between(h, B, x, m, n, r, b, rest) ==
  Context(h, B, r, n * B, Twk(n, rest), Units(x, m, B, n), b)

HoldsBack(c, h, B, x, m, rest, n, r, b) ==
  /\ IsSeq(m) /\ n \in Nat /\ r \in 0..B /\ (r = 0 => n = 0) /\ Len(m) = n * B + r
  /\ IsSeq(b) /\ Len(b) = B
  /\ \A k \in 1..r : b[k] = m[n * B + k]
  /\ c = Between(h, B, x, m, n, r, b, rest)

HeldBack(c, h, B, x, m, rest) == \E n, r, b : HoldsBack(c, h, B, x, m, rest, n, r, b)

(* The element the chaining value starts with.                             *)
FirstUnit(B, h) ==
  IF h \in Precomputed THEN [iv |-> h]
  ELSE Compressed(SK!CfgBlock(B, h), CfgLen, SK!Tweak("CFG", TRUE, TRUE))

-----------------------------------------------------------------------------
(* Skein's names for bytes and blocks are the common ones.                 *)
LEMMA SkeinBytes ==
  /\ \A s, at, d : SK!Overlay(s, at, d) = Overlay(s, at, d)
  /\ \A s, n : SK!Blocks(s, n) = Blocks(s, n)
  /\ \A s, k : SK!From(s, k) = From(s, k)
  /\ \A n : SK!Zeros(n) = Zeros(n)
  /\ \A a, n : SK!Data(a, n) = Data(a, n)
  /\ \A n : SK!Terminated(n) = Terminated(n)
  /\ \A k, n : SK!RoundUp(k, n) = RoundUp(k, n)
BY Zenon DEF SK!Overlay, Overlay, SK!Blocks, Blocks, SK!From, From, SK!Zeros, Zeros, SK!Num, Num,
       SK!Data, Data, SK!Msg, Msg, SK!Cut, Cut, SK!Terminated, Terminated, SK!End, End,
       SK!RoundUp, RoundUp

(* Contexts as records.                                                    *)
LEMMA ContextSet ==
  ASSUME NEW h, NEW B, NEW cnt, NEW T0, NEW T1, NEW X, NEW b, NEW v
  PROVE  LET c == Context(h, B, cnt, T0, T1, X, b)
         IN  /\ c.hashBitLen = h /\ c.B = B /\ c.bCnt = cnt /\ c.T0 = T0 /\ c.T1 = T1
             /\ c.X = X /\ c.b = b
             /\ [c EXCEPT !.bCnt = v] = Context(h, B, v, T0, T1, X, b)
             /\ [c EXCEPT !.T0 = v] = Context(h, B, cnt, v, T1, X, b)
             /\ [c EXCEPT !.T1 = v] = Context(h, B, cnt, T0, v, X, b)
             /\ [c EXCEPT !.X = v] = Context(h, B, cnt, T0, T1, v, b)
             /\ [c EXCEPT !.b = v] = Context(h, B, cnt, T0, T1, X, v)
BY DEF Context

LEMMA TweakNext ==
  ASSUME NEW n \in Nat
  PROVE  Later(Twk(n, 0)) = Twk(n + 1, 0) /\ Twk(n, 0) = Twk((n + 1) - 1, 0)
<1>1. (n + 1 = 0) = FALSE /\ (n + 1) - 1 = n
  OBVIOUS
<1>2. Later(Twk(n, 0)) = [type |-> "MSG", first |-> FALSE, final |-> FALSE, bitPad |-> 0 # 0]
  <2> DEFINE f == n = 0
             e == FALSE
             p == 0 # 0
             t == [type |-> "MSG", first |-> f, final |-> e, bitPad |-> p]
  <2>1. Later(Twk(n, 0)) = [t EXCEPT !.first = e]
    BY DEF Later, Twk
  <2>2. [t EXCEPT !.first = e] = [type |-> "MSG", first |-> e, final |-> e, bitPad |-> p]
    <3>. HIDE DEF f, e, p
    <3>. QED
      OBVIOUS
  <2>. QED
    BY <2>1, <2>2
<1>3. Twk(n + 1, 0) = [type |-> "MSG", first |-> FALSE, final |-> FALSE, bitPad |-> 0 # 0]
  BY <1>1, Zenon DEF Twk
<1>. QED
  BY <1>1, <1>2, <1>3, Zenon

(* Counting and compressing one block.                                     *)
LEMMA ProcessContext ==
  ASSUME NEW h, NEW B, NEW cnt, NEW T0, NEW t, NEW X, NEW b, NEW blk, NEW add
  PROVE  SK!Process_One(Context(h, B, cnt, T0, t, X, b), blk, add)
           = Context(h, B, cnt, T0 + add, Later(t), Append(X, Compressed(blk, T0 + add, t)), b)
<1> DEFINE u == T0 + add
           y == Append(X, Compressed(blk, u, t))
           w == Later(t)
           c == Context(h, B, cnt, T0, t, X, b)
           c1 == Context(h, B, cnt, u, t, X, b)
           c2 == Context(h, B, cnt, u, t, y, b)
<1>1. SK!Process_One(c, blk, add)
        = [c EXCEPT !.T0 = u, !.X = y, !.T1.first = FALSE]
  <2>1. c.T0 = T0 /\ c.X = X /\ c.T1 = t
    BY ContextSet
  <2>2. [c EXCEPT !.X = Append(@, [blk |-> blk, T0 |-> u, T1 |-> t])] = [c EXCEPT !.X = y]
    BY <2>1 DEF Context, Compressed
  <2>. QED
    BY <2>1, <2>2 DEF SK!Process_One, Context
<1>2. [t EXCEPT !.first = FALSE] = w
  BY DEF Later
<1>. HIDE DEF u, y, w
<1>3. [c EXCEPT !.T0 = u] = c1 /\ [c1 EXCEPT !.X = y] = c2
  BY DEF Context
<1>4. c2.T1 = t
  BY DEF Context
<1>5. [c2 EXCEPT !.T1 = w] = Context(h, B, cnt, u, w, y, b)
  BY DEF Context
<1>. HIDE DEF c, c1, c2
<1>6. SK!Process_One(c, blk, add) = Context(h, B, cnt, u, w, y, b)
  BY <1>1, <1>2, <1>3, <1>4, <1>5
<1>. QED
  BY <1>6, Zenon DEF c, u, y, w

(* Chaining values.                                                        *)
LEMMA UnitsSeq ==
  ASSUME NEW x, NEW m, NEW B, NEW n \in Nat
  PROVE  /\ IsSeq(Units(x, m, B, n)) /\ Len(Units(x, m, B, n)) = n + 1
         /\ Units(x, m, B, n)[1] = x
         /\ \A j \in 2 .. n + 1 : Units(x, m, B, n)[j] = Unit(m, B, j - 1)
<1> DEFINE c == Units(x, m, B, n)
<1>1. c = [j \in 1 .. n + 1 |-> IF j = 1 THEN x ELSE Unit(m, B, j - 1)]
  BY DEF Units
<1>. HIDE DEF c
<1>2. c = [j \in 1 .. n + 1 |-> c[j]] /\ n + 1 \in Nat
  BY <1>1
<1>3. IsSeq(c) /\ Len(c) = n + 1
  BY <1>2, Listed
<1>4. c[1] = x
  BY <1>1
<1>5. \A j \in 2 .. n + 1 : c[j] = Unit(m, B, j - 1)
  BY <1>1
<1>. QED
  BY <1>3, <1>4, <1>5 DEF c

LEMMA UnitsNext ==
  ASSUME NEW x, NEW m, NEW B, NEW n \in Nat
  PROVE  Append(Units(x, m, B, n), Unit(m, B, n + 1)) = Units(x, m, B, n + 1)
<1> DEFINE c == Units(x, m, B, n)
           d == Units(x, m, B, n + 1)
           e == Unit(m, B, n + 1)
           a == Append(c, e)
<1>1. /\ IsSeq(c) /\ Len(c) = n + 1 /\ c[1] = x
      /\ \A j \in 2 .. n + 1 : c[j] = Unit(m, B, j - 1)
  BY UnitsSeq
<1>2. /\ IsSeq(d) /\ Len(d) = n + 2 /\ d[1] = x
      /\ \A j \in 2 .. n + 2 : d[j] = Unit(m, B, j - 1)
  <2>1. n + 1 \in Nat /\ (n + 1) + 1 = n + 2
    OBVIOUS
  <2> DEFINE k == n + 1
  <2>. HIDE DEF k
  <2>2. /\ IsSeq(Units(x, m, B, k)) /\ Len(Units(x, m, B, k)) = k + 1
        /\ Units(x, m, B, k)[1] = x
        /\ \A j \in 2 .. k + 1 : Units(x, m, B, k)[j] = Unit(m, B, j - 1)
    BY <2>1, UnitsSeq DEF k
  <2>. QED
    BY <2>1, <2>2 DEF k
<1>. HIDE DEF c, d, e
<1>3. /\ IsSeq(a) /\ Len(a) = Len(c) + 1 /\ \A i \in 1..Len(c) : a[i] = c[i]
      /\ a[Len(c) + 1] = e
  BY <1>1, Appended
<1>. HIDE DEF a
<1>4. ASSUME NEW j \in 1 .. n + 2
      PROVE  a[j] = d[j]
  <2>1. CASE j = 1
    <3>1. 1 \in 1 .. Len(c)
      BY <1>1
    <3>. QED
      BY <1>1, <1>2, <1>3, <2>1, <3>1
  <2>2. CASE j \in 2 .. n + 1
    <3>1. j \in 1..Len(c) /\ j \in 2 .. n + 2
      BY <1>1, <2>2
    <3>. QED
      BY <1>1, <1>2, <1>3, <2>2, <3>1
  <2>3. CASE j = n + 2
    <3>1. j = Len(c) + 1 /\ j - 1 = n + 1 /\ j \in 2 .. n + 2
      BY <1>1, <2>3
    <3>. QED
      BY <1>2, <1>3, <3>1 DEF e
  <2>. QED
    BY <2>1, <2>2, <2>3
<1>5. Len(a) = n + 2
  BY <1>1, <1>3
<1>6. a = d
  BY <1>2, <1>3, <1>4, <1>5, SameSeq
<1>. QED
  BY <1>6 DEF a, c, d, e

(* Only the compressed bytes matter.                                       *)
LEMMA UnitsPrefix ==
  ASSUME NEW B \in Nat \ {0}, NEW x, NEW m, NEW e, NEW n \in Nat,
         \A k \in 1 .. n * B : m[k] = e[k]
  PROVE  Units(x, m, B, n) = Units(x, e, B, n)
<1>1. ASSUME NEW j \in 1..n
      PROVE  Unit(m, B, j) = Unit(e, B, j)
  <2>1. ASSUME NEW k \in 1..B
        PROVE  (j - 1) * B + k \in 1 .. n * B
    <3>1. j - 1 \in Nat /\ (j - 1) + 1 = j
      OBVIOUS
    <3>2. (j - 1) * B \in Nat /\ ((j - 1) + 1) * B = (j - 1) * B + B
      BY <3>1, Product
    <3>3. j * B <= n * B /\ n * B \in Nat
      BY SMT
    <3> DEFINE lo == (j - 1) * B
               hi == n * B
    <3>4. lo \in Nat /\ hi \in Nat /\ lo + B <= hi
      BY <3>1, <3>2, <3>3
    <3>. HIDE DEF lo, hi
    <3>5. lo + k \in 1..hi
      BY <3>4
    <3>. QED
      BY <3>5 DEF lo, hi
  <2>2. PieceOf(m, B, j) = PieceOf(e, B, j)
    BY <2>1 DEF PieceOf
  <2>. QED
    BY <2>2 DEF Unit
<1>2. ASSUME NEW j \in 1 .. n + 1, j # 1
      PROVE  Unit(m, B, j - 1) = Unit(e, B, j - 1)
  <2>1. j - 1 \in 1..n
    BY <1>2
  <2>. QED
    BY <1>1, <2>1
<1>. QED
  BY <1>2 DEF Units

(* One turn of the do loop on a block of the message.                      *)
LEMMA ProcessBetween ==
  ASSUME NEW h, NEW B \in Nat, NEW x, NEW m, NEW n \in Nat, NEW r, NEW b
  PROVE  SK!Process_One(Between(h, B, x, m, n, r, b, 0), PieceOf(m, B, n + 1), B)
           = Between(h, B, x, m, n + 1, r, b, 0)
<1> DEFINE X == Units(x, m, B, n)
           u == n * B
           t == Twk(n, 0)
           blk == PieceOf(m, B, n + 1)
<1>1. SK!Process_One(Context(h, B, r, u, t, X, b), blk, B)
        = Context(h, B, r, u + B, Later(t), Append(X, Compressed(blk, u + B, t)), b)
  <2>. HIDE DEF X, u, t, blk
  <2>. QED
    BY ProcessContext
<1>2. u + B = (n + 1) * B
  BY Product
<1>3. Later(t) = Twk(n + 1, 0)
  BY TweakNext
<1>4. t = Twk((n + 1) - 1, 0)
  BY TweakNext
<1>5. Compressed(blk, u + B, t) = Unit(m, B, n + 1)
  BY <1>2, <1>4, Zenon DEF Unit
<1>6. Append(X, Unit(m, B, n + 1)) = Units(x, m, B, n + 1)
  BY UnitsNext
<1>. HIDE DEF blk, t, u
<1>7. SK!Process_One(Context(h, B, r, u, t, X, b), blk, B)
        = Context(h, B, r, (n + 1) * B, Twk(n + 1, 0),
                  Units(x, m, B, n + 1), b)
  BY <1>1, <1>2, <1>3, <1>5, <1>6, Zenon
<1>. QED
  BY <1>7, Zenon DEF Between, blk, t, u

(* The do loop on no block and on one.                                     *)
LEMMA ProcessNone ==
  ASSUME NEW c, NEW blks, Len(blks) = 0, NEW add
  PROVE  SK!Skein_512_Process_Block(c, blks, add) = c
<1> DEFINE turn[i \in 0..0] == IF i = 0 THEN c ELSE SK!Process_One(turn[i - 1], blks[i], add)
           g == [i \in 0..0 |-> c]
<1>1. SK!Skein_512_Process_Block(c, blks, add) = turn[0]
  BY DEF SK!Skein_512_Process_Block
<1>2. g = [i \in 0..0 |-> IF i = 0 THEN c ELSE SK!Process_One(g[i - 1], blks[i], add)]
  OBVIOUS
<1>. HIDE DEF g
<1>3. turn = [i \in 0..0 |-> IF i = 0 THEN c ELSE SK!Process_One(turn[i - 1], blks[i], add)]
  BY <1>2
<1>. HIDE DEF turn
<1>4. turn[0] = c
  BY <1>3
<1>. QED
  BY <1>1, <1>4

LEMMA ProcessSingle ==
  ASSUME NEW c, NEW blk, NEW add
  PROVE  SK!Skein_512_Process_Block(c, <<blk>>, add) = SK!Process_One(c, blk, add)
<1> DEFINE s == <<blk>>
           turn[i \in 0..1] == IF i = 0 THEN c ELSE SK!Process_One(turn[i - 1], s[i], add)
           g == [i \in 0..1 |-> IF i = 0 THEN c ELSE SK!Process_One(c, s[i], add)]
<1>0. Len(s) = 1 /\ s[1] = blk
  OBVIOUS
<1>. HIDE DEF s
<1>1. SK!Skein_512_Process_Block(c, s, add) = turn[1]
  BY <1>0 DEF SK!Skein_512_Process_Block
<1>2. g = [i \in 0..1 |-> IF i = 0 THEN c ELSE SK!Process_One(g[i - 1], s[i], add)]
  <2>1. \A i \in 0..1 : i = 0 \/ (i # 0 /\ i - 1 = 0)
    OBVIOUS
  <2>2. g[0] = c
    OBVIOUS
  <2>. QED
    BY <2>1, <2>2
<1>. HIDE DEF g
<1>3. turn = [i \in 0..1 |-> IF i = 0 THEN c ELSE SK!Process_One(turn[i - 1], s[i], add)]
  BY <1>2
<1>. HIDE DEF turn
<1>4. turn[0] = c
  BY <1>3
<1>5. turn[1] = SK!Process_One(turn[0], s[1], add)
  <2>1. 1 \in 0..1 /\ 1 - 1 = 0 /\ 1 # 0
    OBVIOUS
  <2>. QED
    BY <1>3, <2>1
<1>. QED
  BY <1>0, <1>1, <1>4, <1>5 DEF s

Pieces(blks, q, m, B, p, n) ==
  /\ B \in Nat /\ p \in Nat /\ q \in Nat /\ n = p + q
  /\ Len(blks) = q /\ \A i \in 1..q : blks[i] = PieceOf(m, B, p + i)

(* The do loop on q pieces of the message that follow the first p ones.    *)
LEMMA ProcessPieces ==
  ASSUME NEW h, NEW B, NEW x, NEW m, NEW p, NEW r, NEW b, NEW blks, NEW q, NEW n,
         Pieces(blks, q, m, B, p, n)
  PROVE  SK!Skein_512_Process_Block(Between(h, B, x, m, p, r, b, 0), blks, B)
           = Between(h, B, x, m, n, r, b, 0)
<1> DEFINE c == Between(h, B, x, m, p, r, b, 0)
           turn[i \in 0..q] == IF i = 0 THEN c ELSE SK!Process_One(turn[i - 1], blks[i], B)
           g == [i \in 0..q |-> Between(h, B, x, m, p + i, r, b, 0)]
<1>0. /\ B \in Nat /\ p \in Nat /\ q \in Nat /\ n = p + q
      /\ Len(blks) = q /\ \A i \in 1..q : blks[i] = PieceOf(m, B, p + i)
  BY DEF Pieces
<1>1. ASSUME NEW i \in 1..q
      PROVE  g[i] = SK!Process_One(g[i - 1], blks[i], B)
  <2>1. p + (i - 1) \in Nat /\ (p + (i - 1)) + 1 = p + i /\ i - 1 \in 0..q /\ i \in 0..q
    BY <1>0
  <2> DEFINE a == p + (i - 1)
  <2>0. a \in Nat
    BY <2>1
  <2>. HIDE DEF a
  <2>2. SK!Process_One(Between(h, B, x, m, a, r, b, 0), PieceOf(m, B, a + 1), B)
          = Between(h, B, x, m, a + 1, r, b, 0)
    BY <1>0, <2>0, ProcessBetween
  <2>3. /\ g[i - 1] = Between(h, B, x, m, a, r, b, 0)
        /\ g[i] = Between(h, B, x, m, a + 1, r, b, 0)
    BY <2>1 DEF a
  <2>4. blks[i] = PieceOf(m, B, a + 1)
    BY <1>0, <2>1 DEF a
  <2>. HIDE DEF g
  <2>. QED
    BY <2>2, <2>3, <2>4
<1>2. g[0] = c
  <2>1. p + 0 = p /\ 0 \in 0..q
    BY <1>0
  <2>. QED
    BY <2>1, Zenon
<1>3. SK!Skein_512_Process_Block(c, blks, B) = turn[q]
  BY <1>0 DEF SK!Skein_512_Process_Block
<1>. HIDE DEF c
<1>4. g = [i \in 0..q |-> IF i = 0 THEN c ELSE SK!Process_One(g[i - 1], blks[i], B)]
  <2>1. g = [i \in 0..q |-> g[i]]
    OBVIOUS
  <2>. HIDE DEF g
  <2>2. \A i \in 0..q : g[i] = IF i = 0 THEN c ELSE SK!Process_One(g[i - 1], blks[i], B)
    BY <1>1, <1>2
  <2>. QED
    BY <2>1, <2>2
<1>. HIDE DEF g
<1>5. turn = [i \in 0..q |-> IF i = 0 THEN c ELSE SK!Process_One(turn[i - 1], blks[i], B)]
  BY <1>4
<1>. HIDE DEF turn
<1>6. \A i \in Nat : i \in {k \in Nat : k <= q => turn[k] = g[k]}
  <2> DEFINE V == {k \in Nat : k <= q => turn[k] = g[k]}
  <2>1. 0 \in V
    BY <1>0, <1>4, <1>5
  <2>2. ASSUME NEW k \in Nat, k \in V
        PROVE  k + 1 \in V
    <3>1. CASE k + 1 <= q
      <4>1. turn[k] = g[k] /\ k + 1 \in 0..q /\ k + 1 # 0 /\ (k + 1) - 1 = k
        BY <1>0, <2>2, <3>1
      <4>2. /\ turn[k + 1] = SK!Process_One(turn[k], blks[k + 1], B)
            /\ g[k + 1] = SK!Process_One(g[k], blks[k + 1], B)
        BY <1>4, <1>5, <4>1
      <4>. QED
        BY <4>1, <4>2
    <3>. QED
      BY <3>1
  <2>. HIDE DEF V
  <2>3. \A i \in Nat : i \in V
    BY <2>1, <2>2, Induction
  <2>. QED
    BY <2>3 DEF V
<1>7. turn[q] = g[q]
  BY <1>0, <1>6
<1>8. g[q] = Between(h, B, x, m, n, r, b, 0)
  BY <1>0 DEF g
<1>. QED
  BY <1>3, <1>7, <1>8 DEF c

-----------------------------------------------------------------------------
(* Skein_512_Update.                                                       *)

(* The blocks of the first q * B bytes.                                    *)
LEMMA CutBlocks ==
  ASSUME NEW d, IsSeq(d), NEW B \in Nat \ {0}, NEW q \in Nat, q * B <= Len(d)
  PROVE  /\ Len(Blocks(SubSeq(d, 1, q * B), B)) = q
         /\ \A i \in 1..q : Blocks(SubSeq(d, 1, q * B), B)[i] = PieceOf(d, B, i)
<1> DEFINE z == q * B
           f == SubSeq(d, 1, z)
           g == Blocks(f, B)
<1>1. z \in Nat
  BY Product
<1>2. IsSeq(f) /\ Len(f) = z /\ \A i \in 1..z : f[i] = d[i]
  <2>. HIDE DEF z
  <2>1. z <= Len(d)
    BY DEF z
  <2>. QED
    BY <1>1, <2>1, FrontBytes
<1>3. z \div B = q
  <2>1. 0 \in 0 .. B - 1
    OBVIOUS
  <2>2. (q * B + 0) \div B = q
    BY <2>1, WholeAndRest
  <2>. HIDE DEF z
  <2>3. z + 0 = z
    BY <1>1
  <2>. QED
    BY <2>2, <2>3 DEF z
<1>. HIDE DEF f
<1>4. g = [i \in 1..q |-> SubSeq(f, (i - 1) * B + 1, i * B)]
  BY <1>2, <1>3 DEF Blocks
<1>. HIDE DEF g
<1>5. g = [i \in 1..q |-> g[i]]
  BY <1>4
<1>6. Len(g) = q
  BY <1>5, Listed
<1>7. ASSUME NEW i \in 1..q
      PROVE  g[i] = PieceOf(d, B, i)
  <2> DEFINE lo == (i - 1) * B
  <2>1. lo \in Nat /\ i * B = lo + B
    <3>1. i - 1 \in Nat /\ (i - 1) + 1 = i
      OBVIOUS
    <3>2. (i - 1) * B \in Nat /\ ((i - 1) + 1) * B = (i - 1) * B + B
      BY <3>1, Product
    <3>. QED
      BY <3>1, <3>2
  <2>2. i * B <= z
    <3>1. i \in Nat /\ i <= q
      OBVIOUS
    <3>. QED
      BY <3>1, Monotone
  <2>3. g[i] = SubSeq(f, lo + 1, lo + B)
    BY <1>4, <2>1
  <2>. HIDE DEF lo, z
  <2>4. lo + B <= Len(f)
    BY <1>1, <1>2, <2>1, <2>2
  <2>5. SubSeq(f, lo + 1, lo + B) = [k \in 1..B |-> f[lo + k]]
    BY <2>1, <2>4, CutOut
  <2>6. ASSUME NEW k \in 1..B
        PROVE  f[lo + k] = d[lo + k]
    <3>1. lo + k \in 1..z
      BY <1>1, <2>1, <2>2
    <3>. QED
      BY <1>2, <3>1
  <2>7. PieceOf(d, B, i) = [k \in 1..B |-> d[lo + k]]
    BY DEF PieceOf, lo
  <2>. QED
    BY <2>3, <2>5, <2>6, <2>7
<1>. QED
  BY <1>6, <1>7 DEF g, f, z

(* What is left goes into the buffer.                                      *)
LEMMA KeepContext ==
  ASSUME NEW h, NEW B, NEW r, NEW T0, NEW t, NEW X, NEW b, NEW d
  PROVE  SK!Keep(Context(h, B, r, T0, t, X, b), d)
           = Context(h, B, r + Len(d), T0, t, X, Overlay(b, r, d))
<1> DEFINE c == Context(h, B, r, T0, t, X, b)
           o == Overlay(b, r, d)
           k == r + Len(d)
           c1 == Context(h, B, r, T0, t, X, o)
<1>1. c.b = b /\ c.bCnt = r
  BY ContextSet
<1>2. [c EXCEPT !.b = Overlay(@, c.bCnt, d), !.bCnt = @ + Len(d)]
        = [c EXCEPT !.b = o, !.bCnt = k]
  BY <1>1 DEF Context
<1>. HIDE DEF o, k
<1>3. [c EXCEPT !.b = o] = c1 /\ [c1 EXCEPT !.bCnt = k] = Context(h, B, k, T0, t, X, o)
  BY DEF Context
<1>. HIDE DEF c, c1
<1>4. [c EXCEPT !.b = o, !.bCnt = k] = Context(h, B, k, T0, t, X, o)
  BY <1>3
<1>. QED
  BY <1>2, <1>4, SkeinBytes, Zenon DEF SK!Keep, c, o, k

(* From the loop over whole blocks on: q blocks of d follow p blocks of e. *)
Looping(d, q, B, e, p) ==
  /\ B \in Nat \ {0} /\ p \in Nat /\ q \in Nat /\ IsSeq(d) /\ q * B <= Len(d)
  /\ q = IF Len(d) > B THEN (Len(d) - 1) \div B ELSE 0
  /\ \A k \in 1 .. q * B : d[k] = e[p * B + k]

LEMMA CompressBetween ==
  ASSUME NEW h, NEW B, NEW x, NEW e, NEW p, NEW r, NEW b, NEW d, NEW q, Looping(d, q, B, e, p)
  PROVE  SK!CompressAndKeep(Between(h, B, x, e, p, r, b, 0), d, B)
           = Between(h, B, x, e, p + q, r + Len(From(d, q * B)), Overlay(b, r, From(d, q * B)), 0)
<1>0. /\ B \in Nat \ {0} /\ p \in Nat /\ q \in Nat /\ IsSeq(d) /\ q * B <= Len(d)
      /\ q = IF Len(d) > B THEN (Len(d) - 1) \div B ELSE 0
      /\ \A k \in 1 .. q * B : d[k] = e[p * B + k]
  BY DEF Looping
<1> DEFINE blks == Blocks(SubSeq(d, 1, q * B), B)
           f == From(d, q * B)
<1>1. Len(blks) = q /\ \A i \in 1..q : blks[i] = PieceOf(d, B, i)
  BY <1>0, CutBlocks
<1>2. ASSUME NEW i \in 1..q
      PROVE  PieceOf(d, B, i) = PieceOf(e, B, p + i)
  <2> DEFINE lo == (i - 1) * B
             hi == p * B
             z == q * B
  <2>1. lo \in Nat /\ hi \in Nat /\ z \in Nat /\ i * B = lo + B
    <3>1. i - 1 \in Nat /\ (i - 1) + 1 = i
      BY <1>0
    <3>2. (i - 1) * B \in Nat /\ ((i - 1) + 1) * B = (i - 1) * B + B
      BY <1>0, <3>1, Product
    <3>3. p * B \in Nat /\ q * B \in Nat
      BY <1>0, Product
    <3>. QED
      BY <3>1, <3>2, <3>3
  <2>2. ((p + i) - 1) * B = hi + lo
    BY <1>0, SMT
  <2>3. i * B <= z
    <3>1. i \in Nat /\ i <= q
      BY <1>0
    <3>. QED
      BY <1>0, <3>1, Monotone
  <2>4. \A k \in 1..z : d[k] = e[hi + k]
    BY <1>0
  <2>5. PieceOf(d, B, i) = [k \in 1..B |-> d[lo + k]]
    BY DEF PieceOf
  <2>6. PieceOf(e, B, p + i) = [k \in 1..B |-> e[hi + lo + k]]
    BY <2>2 DEF PieceOf
  <2>. HIDE DEF lo, hi, z
  <2>7. ASSUME NEW k \in 1..B
        PROVE  d[lo + k] = e[hi + lo + k]
    <3>1. lo + k \in 1..z /\ hi + (lo + k) = hi + lo + k
      BY <1>0, <2>1, <2>3
    <3>. QED
      BY <2>4, <3>1
  <2>. QED
    BY <2>5, <2>6, <2>7
<1>. HIDE DEF blks
<1>3. SK!Skein_512_Process_Block(Between(h, B, x, e, p, r, b, 0), blks, B)
        = Between(h, B, x, e, p + q, r, b, 0)
  <2> DEFINE n == p + q
  <2>1. Pieces(blks, q, e, B, p, n)
    BY <1>0, <1>1, <1>2 DEF Pieces
  <2>. HIDE DEF n
  <2>2. SK!Skein_512_Process_Block(Between(h, B, x, e, p, r, b, 0), blks, B)
          = Between(h, B, x, e, n, r, b, 0)
    BY <2>1, ProcessPieces
  <2>. QED
    BY <2>2, Zenon DEF n
<1>. HIDE DEF f
<1> DEFINE u == (p + q) * B
           t == Twk(p + q, 0)
           X == Units(x, e, B, p + q)
           c2 == Context(h, B, r, u, t, X, b)
<1>4. SK!Keep(c2, f)
        = Context(h, B, r + Len(f), u, t, X, Overlay(b, r, f))
  <2>. HIDE DEF u, t, X
  <2>. QED
    BY KeepContext
<1>5. Between(h, B, x, e, p + q, r, b, 0) = c2
  BY Zenon DEF Between
<1>6. Between(h, B, x, e, p + q, r + Len(f), Overlay(b, r, f), 0)
        = Context(h, B, r + Len(f), u, t, X, Overlay(b, r, f))
  BY Zenon DEF Between
<1>. HIDE DEF c2, u, t, X
<1>7. SK!CompressAndKeep(Between(h, B, x, e, p, r, b, 0), d, B)
        = SK!Keep(c2, f)
  BY <1>0, <1>3, <1>5, SkeinBytes, Zenon DEF SK!CompressAndKeep, blks, f
<1>8. SK!CompressAndKeep(Between(h, B, x, e, p, r, b, 0), d, B)
        = Between(h, B, x, e, p + q, r + Len(f), Overlay(b, r, f), 0)
  BY <1>4, <1>6, <1>7, Zenon
<1>. QED
  BY <1>8, Zenon DEF f

(* The bytes that complete the buffered block.                             *)
LEMMA FilledPiece ==
  ASSUME NEW c, NEW h, NEW x, NEW B \in Nat \ {0}, NEW n, NEW r, NEW m, NEW b,
         HoldsBack(c, h, B, x, m, 0, n, r, b),
         NEW d, IsSeq(d), B - r <= Len(d)
  PROVE  /\ Overlay(b, r, SubSeq(d, 1, B - r)) = PieceOf(m \o d, B, n + 1)
         /\ IsSeq(Overlay(b, r, SubSeq(d, 1, B - r)))
         /\ Len(Overlay(b, r, SubSeq(d, 1, B - r))) = B
<1> DEFINE e == m \o d
           z == B - r
           f == SubSeq(d, 1, z)
           o == Overlay(b, r, f)
           lo == n * B
<1>0. /\ IsSeq(m) /\ n \in Nat /\ r \in 0..B /\ Len(m) = n * B + r
      /\ IsSeq(b) /\ Len(b) = B
      /\ \A k \in 1..r : b[k] = m[n * B + k]
  BY DEF HoldsBack
<1>1. lo \in Nat /\ z \in Nat /\ r \in Nat /\ r + z = B
  BY <1>0, Product
<1>2. IsSeq(f) /\ Len(f) = z /\ \A i \in 1..z : f[i] = d[i]
  <2>. HIDE DEF z
  <2>1. z <= Len(d)
    BY DEF z
  <2>. QED
    BY <1>1, <2>1, FrontBytes
<1>3. /\ \A i \in 1..Len(m) : e[i] = m[i]
      /\ \A i \in 1..Len(d) : e[Len(m) + i] = d[i]
  <2>1. IsSeq(m)
    BY <1>0
  <2>. QED
    BY <2>1, Joined
<1>. HIDE DEF f, e
<1>4. /\ IsSeq(o) /\ Len(o) = B
      /\ \A k \in 1..B : o[k] = IF k > r /\ k <= r + Len(f) THEN f[k - r] ELSE b[k]
  <2>1. B \in Nat
    OBVIOUS
  <2>. QED
    BY SMTT(60), <1>0, <2>1, OverlaySized
<1>. HIDE DEF o
<1>5. /\ z <= Len(d) /\ Len(d) \in Nat /\ Len(m) = lo + r
      /\ \A k \in 1..r : b[k] = m[lo + k]
  BY <1>0 DEF IsSeq
<1>6. PieceOf(e, B, n + 1) = [k \in 1..B |-> e[lo + k]]
  <2>1. (n + 1) - 1 = n
    BY <1>0
  <2>. QED
    BY <2>1 DEF PieceOf
<1>. HIDE DEF lo, z
<1>7. ASSUME NEW k \in 1..B
      PROVE  o[k] = e[lo + k]
  <2>1. CASE k <= r
    <3>1. k \in 1..r /\ lo + k \in 1..Len(m) /\ ~(k > r)
      BY <1>1, <1>5, <2>1
    <3>2. o[k] = b[k]
      BY <1>4, <3>1
    <3>. QED
      BY <1>3, <1>5, <3>1, <3>2
  <2>2. CASE k > r
    <3>1. k - r \in 1..z /\ k - r \in 1..Len(d) /\ k <= r + Len(f)
      BY <1>1, <1>2, <1>5, <2>2
    <3>2. Len(m) + (k - r) = lo + k
      BY <1>1, <1>5, <2>2
    <3>3. o[k] = f[k - r]
      BY <1>4, <2>2, <3>1
    <3>4. e[Len(m) + (k - r)] = d[k - r] /\ f[k - r] = d[k - r]
      BY <1>2, <1>3, <3>1
    <3>. QED
      BY <3>2, <3>3, <3>4
  <2>. QED
    BY <1>1, <2>1, <2>2
<1>8. o = [k \in 1..B |-> o[k]]
  BY <1>4 DEF IsSeq
<1>9. o = PieceOf(e, B, n + 1)
  BY <1>6, <1>7, <1>8
<1>. QED
  BY <1>4, <1>9 DEF o, f, z, e

(* How many blocks do not hold the last byte.                              *)
LEMMA HeldSize ==
  ASSUME NEW B \in Nat \ {0}, NEW l \in Nat \ {0},
         NEW q, q = IF l > B THEN (l - 1) \div B ELSE 0
  PROVE  q \in Nat /\ q * B \in Nat /\ q * B <= l /\ l - q * B \in 1..B /\ q = (l - 1) \div B
<1>1. l - 1 \in Nat /\ B \in Nat /\ B > 0
  OBVIOUS
<1> DEFINE a == l - 1
           t == a \div B
           s == a % B
<1>2. t \in Nat /\ s \in 0 .. B - 1 /\ a = t * B + s
  <2>. HIDE DEF a
  <2>. QED
    BY <1>1, Euclid DEF a
<1>3. CASE l > B
  <2>1. q = t
    BY <1>3
  <2>2. t * B \in Nat
    BY <1>2, Product
  <2> DEFINE z == t * B
  <2>3. z \in Nat /\ a = z + s
    BY <1>2, <2>2
  <2>. HIDE DEF t, s, z
  <2>4. z <= l /\ l - z \in 1..B
    BY <1>2, <2>3
  <2>. QED
    BY <1>2, <2>1, <2>3, <2>4 DEF t, z
<1>4. CASE ~(l > B)
  <2>1. a \in 0 .. B - 1 /\ q = 0
    BY <1>4
  <2>2. (0 * B + a) \div B = 0 /\ 0 * B + a = a
    <3>. HIDE DEF a
    <3>. QED
      BY <2>1, WholeAndRest
  <2>3. 0 * B = 0
    OBVIOUS
  <2>. QED
    BY <1>4, <2>1, <2>2, <2>3
<1>. QED
  BY <1>3, <1>4

LEMMA CompressHolds ==
  ASSUME NEW h, NEW B \in Nat \ {0}, NEW x, NEW e, IsSeq(e), NEW p \in Nat,
         NEW b, IsSeq(b), Len(b) = B, NEW d, IsSeq(d), Len(d) # 0,
         Len(e) = p * B + Len(d), \A k \in 1..Len(d) : d[k] = e[p * B + k]
  PROVE  HeldBack(SK!CompressAndKeep(Between(h, B, x, e, p, 0, b, 0), d, B), h, B, x, e, 0)
<1> DEFINE l == Len(d)
           q == IF l > B THEN (l - 1) \div B ELSE 0
           z == q * B
           y == p * B
           s == l - z
           f == From(d, z)
           o == Overlay(b, 0, f)
           n == p + q
<1>1. l \in Nat /\ l \in Nat \ {0}
  BY DEF IsSeq
<1>2. q \in Nat /\ z \in Nat /\ z <= l /\ s \in 1..B
  <2>. HIDE DEF l
  <2>1. q \in Nat /\ q * B \in Nat /\ q * B <= l /\ l - q * B \in 1..B
    <3> DEFINE v == q
    <3>1. v = IF l > B THEN (l - 1) \div B ELSE 0
      OBVIOUS
    <3>. HIDE DEF v
    <3>2. v \in Nat /\ v * B \in Nat /\ v * B <= l /\ l - v * B \in 1..B
      BY <1>1, <3>1, HeldSize
    <3>. QED
      BY <3>2 DEF v
  <2>. HIDE DEF q
  <2>. QED
    BY <2>1
<1>3. y \in Nat /\ n \in Nat /\ n * B = y + z
  <2>1. p * B \in Nat
    BY Product
  <2>. HIDE DEF q
  <2>2. (p + q) * B = p * B + q * B
    BY <1>2, SMT
  <2>. QED
    BY <1>2, <2>1, <2>2
<1>4. Len(e) = y + l /\ \A k \in 1..l : d[k] = e[y + k]
  OBVIOUS
<1>5. SK!CompressAndKeep(Between(h, B, x, e, p, 0, b, 0), d, B)
        = Between(h, B, x, e, n, 0 + Len(f), o, 0)
  <2>1. q = IF Len(d) > B THEN (Len(d) - 1) \div B ELSE 0
    OBVIOUS
  <2>. HIDE DEF q
  <2>2. q \in Nat /\ q * B <= Len(d)
    BY <1>2
  <2>3. \A k \in 1 .. q * B : d[k] = e[p * B + k]
    <3>. HIDE DEF z, l
    <3>1. \A k \in 1..z : k \in 1..l
      BY <1>1, <1>2
    <3>. QED
      BY <1>4, <3>1 DEF z, y
  <2>. QED
    <3>1. Looping(d, q, B, e, p)
      BY <2>1, <2>2, <2>3 DEF Looping
    <3> DEFINE zero == 0
    <3>. HIDE DEF zero
    <3>2. SK!CompressAndKeep(Between(h, B, x, e, p, zero, b, 0), d, B)
            = Between(h, B, x, e, p + q, zero + Len(From(d, q * B)),
                      Overlay(b, zero, From(d, q * B)), 0)
      BY <3>1, CompressBetween
    <3>. QED
      BY <3>2 DEF zero
<1>. HIDE DEF q, n
<1>6. IsSeq(f) /\ Len(f) = s /\ \A k \in 1..s : f[k] = d[z + k]
  <2>. HIDE DEF z
  <2>. QED
    BY <1>2, FromBytes
<1>. HIDE DEF f
<1>7. /\ IsSeq(o) /\ Len(o) = B
      /\ \A k \in 1..B : o[k] = IF k > 0 /\ k <= 0 + Len(f) THEN f[k - 0] ELSE b[k]
  <2>1. B \in Nat
    OBVIOUS
  <2>2. Laid(o, b, B, 0, f)
    BY <2>1, OverlayLaid
  <2>. QED
    BY <2>2 DEF Laid
<1>. HIDE DEF o, l, z, y
<1>8. s \in Nat /\ s <= B /\ 0 + Len(f) = s
  BY <1>2, <1>6
<1>9. ASSUME NEW k \in 1..s
      PROVE  o[k] = e[n * B + k]
  <2>1. k \in 1..B /\ k > 0 /\ k <= 0 + Len(f) /\ k - 0 = k
    BY <1>8
  <2>2. o[k] = f[k]
    BY <1>7, <2>1
  <2>3. z + k \in 1..l /\ y + (z + k) = n * B + k
    BY <1>1, <1>2, <1>3
  <2>4. f[k] = d[z + k]
    BY <1>6
  <2>5. d[z + k] = e[n * B + k]
    BY <1>4, <2>3
  <2>. QED
    BY <2>2, <2>4, <2>5
<1>10. Len(e) = n * B + s
  <2> DEFINE w == n * B
  <2>1. w = y + z /\ y \in Nat /\ z \in Nat /\ l \in Nat /\ Len(e) = y + l
    BY <1>1, <1>2, <1>3, <1>4
  <2>. HIDE DEF w
  <2>2. Len(e) = w + s
    BY ONLY <2>1
  <2>. QED
    BY <2>2 DEF w
<1>11. s \in 0..B /\ s # 0
  BY <1>2
<1>12. SK!CompressAndKeep(Between(h, B, x, e, p, 0, b, 0), d, B) = Between(h, B, x, e, n, s, o, 0)
  BY <1>5, <1>8
<1>. HIDE DEF s
<1>13. HoldsBack(SK!CompressAndKeep(Between(h, B, x, e, p, 0, b, 0), d, B),
                 h, B, x, e, 0, n, s, o)
  BY <1>3, <1>7, <1>9, <1>10, <1>11, <1>12 DEF HoldsBack
<1>. QED
  BY <1>13 DEF HeldBack

(* Finishing the buffered block.                                           *)
LEMMA FinishContext ==
  ASSUME NEW h, NEW B, NEW r, NEW T0, NEW t, NEW X, NEW b, NEW f
  PROVE  LET o == Overlay(b, r, f)
         IN  SK!FinishBuffer(Context(h, B, r, T0, t, X, b), f, B)
               = [SK!Process_One(Context(h, B, r, T0, t, X, o), o, B) EXCEPT !.bCnt = 0]
<1> DEFINE o == Overlay(b, r, f)
           c == Context(h, B, r, T0, t, X, b)
           c1 == Context(h, B, r, T0, t, X, o)
<1>1. c.b = b /\ c.bCnt = r
  BY ContextSet
<1>2. SK!Overlay(c.b, c.bCnt, f) = o
  BY <1>1, SkeinBytes, Zenon
<1>. HIDE DEF o
<1>3. [c EXCEPT !.b = o] = c1
  BY DEF Context
<1>. HIDE DEF c, c1
<1>4. SK!FinishBuffer(c, f, B)
        = [SK!Skein_512_Process_Block(c1, <<o>>, B) EXCEPT !.bCnt = 0]
  BY <1>2, <1>3, Zenon DEF SK!FinishBuffer
<1>5. SK!Skein_512_Process_Block(c1, <<o>>, B) = SK!Process_One(c1, o, B)
  BY ProcessSingle
<1>6. SK!FinishBuffer(c, f, B) = [SK!Process_One(c1, o, B) EXCEPT !.bCnt = 0]
  BY <1>4, <1>5, Zenon
<1>. QED
  BY <1>6, Zenon DEF c, c1, o

LEMMA FinishBetween ==
  ASSUME NEW h, NEW B \in Nat, NEW x, NEW e, NEW n \in Nat, NEW r, NEW b, NEW f,
         Overlay(b, r, f) = PieceOf(e, B, n + 1)
  PROVE  SK!FinishBuffer(Between(h, B, x, e, n, r, b, 0), f, B)
           = Between(h, B, x, e, n + 1, 0, Overlay(b, r, f), 0)
<1> DEFINE o == Overlay(b, r, f)
           u == n * B
           t == Twk(n, 0)
           X == Units(x, e, B, n)
           v == (n + 1) * B
           t2 == Twk(n + 1, 0)
           X2 == Units(x, e, B, n + 1)
           zero == 0
<1>1. SK!FinishBuffer(Context(h, B, r, u, t, X, b), f, B)
        = [SK!Process_One(Context(h, B, r, u, t, X, o), o, B) EXCEPT !.bCnt = zero]
  <2>. HIDE DEF u, t, X
  <2>. QED
    BY FinishContext
<1>2. o = PieceOf(e, B, n + 1)
  OBVIOUS
<1>. HIDE DEF o
<1>3. SK!Process_One(Context(h, B, r, u, t, X, o), o, B) = Context(h, B, r, v, t2, X2, o)
  <2>1. SK!Process_One(Between(h, B, x, e, n, r, o, 0), PieceOf(e, B, n + 1), B)
          = Between(h, B, x, e, n + 1, r, o, 0)
    BY ProcessBetween
  <2>. QED
    BY <1>2, <2>1, Zenon DEF Between
<1>4. [Context(h, B, r, v, t2, X2, o) EXCEPT !.bCnt = zero]
        = Context(h, B, zero, v, t2, X2, o)
  <2>. HIDE DEF v, t2, X2, zero
  <2>. QED
    BY DEF Context
<1>5. SK!FinishBuffer(Context(h, B, r, u, t, X, b), f, B) = Context(h, B, zero, v, t2, X2, o)
  <2>. HIDE DEF u, t, X, v, t2, X2, zero
  <2>. QED
    BY <1>1, <1>3, <1>4
<1>. QED
  BY <1>5, Zenon DEF Between, o

(* Skein_512_Update holds the last block of the longer message back.       *)
LEMMA UpdateHolds ==
  ASSUME NEW c, NEW h, NEW B \in Nat \ {0}, NEW x, NEW m, HeldBack(c, h, B, x, m, 0),
         NEW d, IsSeq(d)
  PROVE  HeldBack(SK!Skein_512_Update(c, d), h, B, x, m \o d, 0)
<1>1. PICK n, r, b : HoldsBack(c, h, B, x, m, 0, n, r, b)
  BY DEF HeldBack
<1>2. /\ IsSeq(m) /\ n \in Nat /\ r \in 0..B /\ (r = 0 => n = 0) /\ Len(m) = n * B + r
      /\ IsSeq(b) /\ Len(b) = B
      /\ \A k \in 1..r : b[k] = m[n * B + k]
      /\ c = Between(h, B, x, m, n, r, b, 0)
  BY <1>1 DEF HoldsBack
<1> DEFINE e == m \o d
           l == Len(d)
           w == n * B
<1>3. /\ IsSeq(e) /\ Len(e) = Len(m) + l
      /\ \A i \in 1..Len(m) : e[i] = m[i]
      /\ \A i \in 1..l : e[Len(m) + i] = d[i]
  <2>1. IsSeq(m)
    BY <1>2
  <2>. QED
    BY <2>1, Joined
<1>4. w \in Nat /\ l \in Nat /\ r \in Nat /\ r <= B /\ Len(m) = w + r
  BY <1>2, Product DEF IsSeq
<1>5. c.B = B /\ c.bCnt = r
  <2> DEFINE u == n * B
             t == Twk(n, 0)
             X == Units(x, m, B, n)
  <2>1. c = Context(h, B, r, u, t, X, b)
    BY <1>2, Zenon DEF Between
  <2>. HIDE DEF u, t, X
  <2>. QED
    BY <2>1, ContextSet
<1>6. Units(x, m, B, n) = Units(x, e, B, n)
  <2>. HIDE DEF e
  <2>1. \A k \in 1..w : m[k] = e[k]
    <3>. HIDE DEF w
    <3>1. \A k \in 1..w : k \in 1..Len(m)
      BY <1>4
    <3>. QED
      BY <1>3, <3>1
  <2>. QED
    BY <1>2, <2>1, UnitsPrefix
<1>7. c = Between(h, B, x, e, n, r, b, 0)
  BY <1>2, <1>6, Zenon DEF Between
<1>. HIDE DEF e
<1>8. CASE l + r <= B
  <2> DEFINE o == Overlay(b, r, d)
             s == r + l
  <2>1. SK!Skein_512_Update(c, d) = SK!Keep(c, d)
    <3>1. Len(d) + c.bCnt <= c.B
      BY <1>5, <1>8
    <3>. QED
      BY <3>1, Zenon DEF SK!Skein_512_Update
  <2>2. SK!Keep(c, d) = Between(h, B, x, e, n, s, o, 0)
    <3> DEFINE u == n * B
               t == Twk(n, 0)
               X == Units(x, e, B, n)
    <3>1. SK!Keep(Context(h, B, r, u, t, X, b), d) = Context(h, B, r + Len(d), u, t, X, o)
      <4>. HIDE DEF u, t, X
      <4>. QED
        BY KeepContext
    <3>. QED
      BY <1>7, <3>1, Zenon DEF Between
  <2>3. /\ IsSeq(o) /\ Len(o) = B
        /\ \A k \in 1..B : o[k] = IF k > r /\ k <= r + Len(d) THEN d[k - r] ELSE b[k]
    <3>1. B \in Nat
      OBVIOUS
    <3>2. Laid(o, b, B, r, d)
      BY <1>2, <3>1, OverlayLaid
    <3>. QED
      BY <3>2 DEF Laid
  <2>. HIDE DEF o, l, w
  <2>4. ASSUME NEW k \in 1..s
        PROVE  o[k] = e[w + k]
    <3>1. k \in 1..B /\ k <= r + Len(d) /\ Len(d) = l
      BY <1>4, <1>8 DEF l
    <3>2. CASE k <= r
      <4>1. k \in 1..r /\ w + k \in 1..Len(m) /\ ~(k > r)
        BY <1>4, <3>1, <3>2
      <4>2. o[k] = b[k]
        BY <2>3, <3>1, <4>1
      <4>3. b[k] = m[w + k]
        BY <1>2, <4>1 DEF w
      <4>. QED
        BY <1>3, <4>1, <4>2, <4>3
    <3>3. CASE k > r
      <4>1. k - r \in 1..l /\ Len(m) + (k - r) = w + k
        BY <1>4, <3>1, <3>3
      <4>2. o[k] = d[k - r]
        BY <2>3, <3>1, <3>3
      <4>. QED
        BY <1>3, <4>1, <4>2
    <3>. QED
      BY <1>4, <3>1, <3>2, <3>3
  <2>5. s \in 0..B /\ (s = 0 => n = 0) /\ Len(e) = w + s
    <3>1. r = 0 => n = 0
      BY <1>2
    <3>. QED
      BY <1>3, <1>4, <1>8, <3>1
  <2>. HIDE DEF s
  <2>6. HoldsBack(SK!Skein_512_Update(c, d), h, B, x, e, 0, n, s, o)
    BY <1>2, <1>3, <2>1, <2>2, <2>3, <2>4, <2>5 DEF HoldsBack, w
  <2>. QED
    BY <2>6 DEF HeldBack, e
<1>9. CASE ~(l + r <= B) /\ r = 0
  <2>1. SK!Skein_512_Update(c, d) = SK!CompressAndKeep(c, d, B)
    <3>1. ~(Len(d) + c.bCnt <= c.B) /\ c.bCnt = 0
      BY <1>5, <1>9
    <3>. QED
      BY <1>5, <3>1, Zenon DEF SK!Skein_512_Update
  <2>2. n = 0 /\ w = 0 /\ l # 0
    BY <1>2, <1>4, <1>9
  <2>3. Len(e) = w + l /\ \A k \in 1..l : d[k] = e[w + k]
    <3>1. Len(m) = w
      BY <1>4, <1>9
    <3>. QED
      BY <1>3, <1>4, <3>1
  <2>4. HeldBack(SK!CompressAndKeep(Between(h, B, x, e, n, 0, b, 0), d, B), h, B, x, e, 0)
    BY <1>2, <1>3, <2>2, <2>3, CompressHolds
  <2>. QED
    BY <1>7, <1>9, <2>1, <2>4 DEF e
<1>10. CASE ~(l + r <= B) /\ r # 0
  <2> DEFINE z == B - r
             f == SubSeq(d, 1, z)
             g == From(d, z)
             o == Overlay(b, r, f)
             c1 == Between(h, B, x, e, n + 1, 0, o, 0)
  <2>1. SK!Skein_512_Update(c, d) = SK!CompressAndKeep(SK!FinishBuffer(c, f, B), g, B)
    <3>1. ~(Len(d) + c.bCnt <= c.B) /\ c.bCnt # 0
      BY <1>5, <1>10
    <3>. QED
      BY <1>5, <3>1, SkeinBytes, Zenon DEF SK!Skein_512_Update
  <2>2. z \in Nat /\ z < l
    BY <1>4, <1>10
  <2>3. o = PieceOf(e, B, n + 1) /\ IsSeq(o) /\ Len(o) = B
    <3>1. B - r <= Len(d)
      BY <1>4, <2>2
    <3>. QED
      BY <1>1, <3>1, FilledPiece DEF e
  <2>4. SK!FinishBuffer(c, f, B) = c1
    <3>. HIDE DEF f
    <3>1. B \in Nat /\ Overlay(b, r, f) = PieceOf(e, B, n + 1)
      BY <2>3
    <3>2. SK!FinishBuffer(Between(h, B, x, e, n, r, b, 0), f, B)
            = Between(h, B, x, e, n + 1, 0, Overlay(b, r, f), 0)
      BY <1>2, <3>1, FinishBetween
    <3>. QED
      BY <1>7, <3>2
  <2>5. IsSeq(g) /\ Len(g) = l - z /\ \A i \in 1 .. l - z : g[i] = d[z + i]
    <3>1. z <= Len(d)
      BY <1>4, <2>2
    <3>. HIDE DEF z
    <3>. QED
      BY <2>2, <3>1, FromBytes
  <2>. HIDE DEF f, g, o
  <2>6. (n + 1) * B = w + B /\ n + 1 \in Nat
    BY <1>2, Product
  <2> DEFINE p == n + 1
             y == p * B
  <2>7. y = w + B /\ y \in Nat
    BY <1>4, <2>6
  <2>. HIDE DEF l, w, y
  <2>8. Len(g) # 0 /\ Len(e) = y + Len(g)
    BY <1>3, <1>4, <2>2, <2>5, <2>7
  <2>9. ASSUME NEW k \in 1..Len(g)
        PROVE  g[k] = e[y + k]
    <3>1. k \in 1 .. l - z /\ z + k \in 1..l /\ Len(m) + (z + k) = y + k
      BY <1>4, <2>2, <2>5, <2>7
    <3>2. g[k] = d[z + k]
      BY <2>5, <3>1
    <3>3. e[Len(m) + (z + k)] = d[z + k]
      BY <1>3, <3>1
    <3>. QED
      BY <3>1, <3>2, <3>3
  <2>10. p \in Nat
    BY <2>6
  <2>. HIDE DEF p
  <2>11. HeldBack(SK!CompressAndKeep(Between(h, B, x, e, p, 0, o, 0), g, B), h, B, x, e, 0)
    BY <1>3, <2>3, <2>5, <2>8, <2>9, <2>10, CompressHolds DEF y
  <2>. QED
    BY <2>1, <2>4, <2>11 DEF e, p
<1>. QED
  BY <1>8, <1>9, <1>10

-----------------------------------------------------------------------------
(* Skein_512_Init.                                                         *)
Opening(type, final) == SK!Tweak(type, TRUE, final)

LEMMA StartContext ==
  ASSUME NEW h, NEW B, NEW cnt, NEW T0, NEW t, NEW X, NEW b, NEW ty, NEW fin
  PROVE  SK!Skein_Start_New_Type(Context(h, B, cnt, T0, t, X, b), ty, fin)
           = Context(h, B, 0, 0, Opening(ty, fin), X, b)
<1> DEFINE c == Context(h, B, cnt, T0, t, X, b)
           w == Opening(ty, fin)
           zero == 0
           c1 == Context(h, B, cnt, zero, t, X, b)
           c2 == Context(h, B, cnt, zero, w, X, b)
           c3 == Context(h, B, zero, zero, w, X, b)
<1>1. SK!Skein_Start_New_Type(c, ty, fin) = [c EXCEPT !.T0 = zero, !.T1 = w, !.bCnt = zero]
  BY Zenon DEF SK!Skein_Start_New_Type, Opening
<1>. HIDE DEF w, zero
<1>2. [c EXCEPT !.T0 = zero] = c1 /\ [c1 EXCEPT !.T1 = w] = c2 /\ [c2 EXCEPT !.bCnt = zero] = c3
  BY DEF Context
<1>. HIDE DEF c, c1, c2, c3
<1>3. SK!Skein_Start_New_Type(c, ty, fin) = c3
  BY <1>1, <1>2
<1>. QED
  BY <1>3, Zenon DEF c, c3, w, zero

(* A sequence of one element.                                              *)
LEMMA OneElement ==
  ASSUME NEW x
  PROVE  IsSeq(<<x>>) /\ Len(<<x>>) = 1 /\ <<x>>[1] = x /\ Append(<<>>, x) = <<x>>
BY DEF IsSeq

LEMMA UnitsStart ==
  ASSUME NEW x, NEW m, NEW B
  PROVE  Units(x, m, B, 0) = <<x>>
<1> DEFINE z == 0
           u == Units(x, m, B, z)
           v == <<x>>
<1>1. z \in Nat
  OBVIOUS
<1>2. IsSeq(v) /\ Len(v) = 1 /\ v[1] = x
  BY OneElement
<1>. HIDE DEF v
<1>3. IsSeq(u) /\ Len(u) = z + 1 /\ u[1] = x
  <2>. HIDE DEF z
  <2>. QED
    BY <1>1, UnitsSeq
<1>. HIDE DEF u
<1>4. \A i \in 1..Len(u) : u[i] = v[i]
  BY <1>2, <1>3
<1>5. u = v
  BY <1>2, <1>3, <1>4, SameSeq
<1>. QED
  BY <1>5 DEF u, v

LEMMA StartIsFirst ==
  ASSUME NEW B, NEW h
  PROVE  SK!Start(B, h) = <<FirstUnit(B, h)>>
BY Zenon DEF SK!Start, FirstUnit, Compressed

(* Both ways to the first chaining value.                                  *)
LEMMA InitHolds ==
  ASSUME SK!SkeinAssumption, NEW B \in Nat \ {0}, NEW h
  PROVE  HeldBack(SK!Skein_512_Init(B, h), h, B, FirstUnit(B, h), <<>>, 0)
<1> DEFINE junk == [i \in 1..B |-> SK!Junk]
           cfg == SK!Tweak("CFG", TRUE, TRUE)
           none == <<>>
           zero == 0
           yes == TRUE
           blk == SK!CfgBlock(B, h)
           x == FirstUnit(B, h)
           iv == [iv |-> h]
           new == Context(h, B, zero, zero, cfg, none, junk)
           first == Context(h, B, zero, CfgLen, Later(cfg), <<x>>, junk)
           given == Context(h, B, zero, zero, cfg, <<x>>, junk)
           chained == IF h \in Precomputed THEN given ELSE first
<1>1. SK!Skein_Start_New_Type(new, "CFG", TRUE) = new
  <2> DEFINE ty == "CFG"
  <2>1. SK!Skein_Start_New_Type(Context(h, B, zero, zero, cfg, none, junk), ty, yes)
          = Context(h, B, 0, 0, Opening(ty, yes), none, junk)
    <3>. HIDE DEF zero, cfg, none, junk, ty, yes
    <3>. QED
      BY StartContext
  <2>. QED
    BY <2>1, Zenon DEF Opening
<1>2. h \notin Precomputed => SK!Skein_512_Process_Block(new, <<blk>>, CfgLen) = first
  <2> SUFFICES ASSUME h \notin Precomputed
               PROVE  SK!Skein_512_Process_Block(new, <<blk>>, CfgLen) = first
    OBVIOUS
  <2>1. SK!Skein_512_Process_Block(new, <<blk>>, CfgLen) = SK!Process_One(new, blk, CfgLen)
    BY ProcessSingle
  <2>2. SK!Process_One(Context(h, B, zero, zero, cfg, none, junk), blk, CfgLen)
          = Context(h, B, zero, zero + CfgLen, Later(cfg),
                    Append(none, Compressed(blk, zero + CfgLen, cfg)), junk)
    <3>. HIDE DEF zero, cfg, none, junk, blk
    <3>. QED
      BY ProcessContext
  <2>3. zero + CfgLen = CfgLen
    BY DEF SK!SkeinAssumption
  <2>4. Compressed(blk, CfgLen, cfg) = x
    BY Zenon DEF FirstUnit
  <2>5. Append(none, x) = <<x>>
    BY OneElement
  <2>. HIDE DEF x, cfg, blk
  <2>6. SK!Process_One(Context(h, B, zero, zero, cfg, none, junk), blk, CfgLen) = first
    BY <2>2, <2>3, <2>4, <2>5, Zenon
  <2>. QED
    BY <2>1, <2>6, Zenon
<1>3. h \in Precomputed => [new EXCEPT !.X = <<iv>>] = given
  <2> SUFFICES ASSUME h \in Precomputed PROVE [new EXCEPT !.X = <<iv>>] = given
    OBVIOUS
  <2>1. iv = x
    BY Zenon DEF FirstUnit
  <2> DEFINE v == <<iv>>
  <2>2. [new EXCEPT !.X = v] = Context(h, B, zero, zero, cfg, v, junk)
    <3>. HIDE DEF v, zero, cfg, none, junk
    <3>. QED
      BY DEF Context
  <2>. QED
    BY <2>1, <2>2, Zenon
<1>4. SK!Skein_512_Init(B, h) = SK!Skein_Start_New_Type(chained, "MSG", FALSE)
  <2> DEFINE ch == IF h \in Precomputed THEN [new EXCEPT !.X = <<iv>>]
                   ELSE SK!Skein_512_Process_Block(
                          SK!Skein_Start_New_Type(new, "CFG", TRUE), <<blk>>, CfgLen)
  <2>1. SK!Skein_512_Init(B, h) = SK!Skein_Start_New_Type(ch, "MSG", FALSE)
    BY Zenon DEF SK!Skein_512_Init, Context
  <2>2. ch = chained
    <3>. HIDE DEF new, given, first
    <3>. QED
      BY <1>1, <1>2, <1>3, Zenon
  <2>. HIDE DEF ch, chained
  <2>. QED
    BY <2>1, <2>2, Zenon
<1>5. SK!Skein_Start_New_Type(chained, "MSG", FALSE)
        = Context(h, B, 0, 0, SK!Tweak("MSG", TRUE, FALSE), <<x>>, junk)
  <2> DEFINE ty == "MSG"
             no == FALSE
             v == <<x>>
             w == Later(cfg)
             r == Context(h, B, 0, 0, Opening(ty, no), v, junk)
  <2>1. SK!Skein_Start_New_Type(Context(h, B, zero, CfgLen, w, v, junk), ty, no) = r
    <3>. HIDE DEF zero, w, v, junk, ty, no
    <3>. QED
      BY StartContext
  <2>2. SK!Skein_Start_New_Type(Context(h, B, zero, zero, cfg, v, junk), ty, no) = r
    <3>. HIDE DEF zero, cfg, v, junk, ty, no
    <3>. QED
      BY StartContext
  <2>3. chained = Context(h, B, zero, CfgLen, w, v, junk)
          \/ chained = Context(h, B, zero, zero, cfg, v, junk)
    BY Zenon
  <2>. HIDE DEF chained, r
  <2>4. SK!Skein_Start_New_Type(chained, ty, no) = r
    BY <2>1, <2>2, <2>3, Zenon
  <2>. QED
    BY <2>4, Zenon DEF r, Opening
<1>6. SK!Tweak("MSG", TRUE, FALSE) = Twk(0, 0)
  <2>1. (0 = 0) = TRUE /\ (0 # 0) = FALSE
    OBVIOUS
  <2>. QED
    BY <2>1, Zenon DEF SK!Tweak, Twk
<1>7. IsSeq(junk) /\ Len(junk) = B
  <2>1. junk = [i \in 1..B |-> junk[i]] /\ B \in Nat
    OBVIOUS
  <2>. HIDE DEF junk
  <2>. QED
    BY <2>1, Listed
<1>8. 0 * B = 0
  OBVIOUS
<1>. HIDE DEF junk, x
<1>9. SK!Skein_512_Init(B, h) = Between(h, B, x, none, 0, 0, junk, 0)
  <2>1. Units(x, none, B, 0) = <<x>>
    BY UnitsStart
  <2>. HIDE DEF chained, none
  <2>. QED
    BY <1>4, <1>5, <1>6, <1>8, <2>1, Zenon DEF Between
<1>10. IsSeq(none) /\ Len(none) = 0
  BY DEF IsSeq
<1>11. Len(none) = 0 * B + 0 /\ 0 \in Nat /\ 0 \in 0..B /\ \A k \in 1..0 : junk[k] = none[0 * B + k]
  BY <1>8, <1>10
<1>. HIDE DEF none
<1>12. HoldsBack(SK!Skein_512_Init(B, h), h, B, x, none, 0, 0, 0, junk)
  BY <1>7, <1>9, <1>10, <1>11 DEF HoldsBack
<1>13. HeldBack(SK!Skein_512_Init(B, h), h, B, x, none, 0)
  BY <1>12 DEF HeldBack
<1>. QED
  BY <1>13 DEF x, none

-----------------------------------------------------------------------------
(* The message and the data of an update.                                  *)

(* n bytes of the message behind the first a.                              *)
MsgBytes(a, n) == [i \in 1..n |-> Msg(a + i)]

LEMMA MsgBytesSeq ==
  ASSUME NEW a, NEW n \in Nat
  PROVE  /\ IsSeq(MsgBytes(a, n)) /\ Len(MsgBytes(a, n)) = n
         /\ \A i \in 1..n : MsgBytes(a, n)[i] = Msg(a + i)
<1> DEFINE f == MsgBytes(a, n)
<1>1. f = [i \in 1..n |-> Msg(a + i)]
  BY DEF MsgBytes
<1>. HIDE DEF f
<1>2. f = [i \in 1..n |-> f[i]]
  BY <1>1
<1>3. IsSeq(f) /\ Len(f) = n
  BY <1>2, Listed
<1>. QED
  BY <1>1, <1>3 DEF f

LEMMA NothingBehind ==
  ASSUME NEW s, IsSeq(s)
  PROVE  s \o <<>> = s
<1> DEFINE e == <<>>
           t == s \o e
<1>1. IsSeq(e) /\ Len(e) = 0
  BY DEF IsSeq
<1>. HIDE DEF e
<1>2. IsSeq(t) /\ Len(t) = Len(s) + Len(e) /\ \A i \in 1..Len(s) : t[i] = s[i]
  <2>1. IsSeq(s) /\ IsSeq(e)
    BY <1>1
  <2>. QED
    BY <2>1, Joined
<1>. HIDE DEF t
<1>3. Len(t) = Len(s)
  <2>1. Len(s) \in Nat
    BY DEF IsSeq
  <2>. QED
    BY <1>1, <1>2, <2>1
<1>4. \A i \in 1..Len(t) : t[i] = s[i]
  BY <1>2, <1>3
<1>5. t = s
  BY <1>2, <1>3, <1>4, SameSeq
<1>. QED
  BY <1>5 DEF t, e

LEMMA DataForm ==
  ASSUME NEW a, NEW v \in Nat, NEW n, n = v \div 8
  PROVE  /\ v % 8 = 0 => SK!Data(a, v) = MsgBytes(a, n)
         /\ v % 8 # 0 => SK!Data(a, v) = MsgBytes(a, n) \o <<Cut(a + n + 1, v % 8)>>
<1>1. SK!Data(a, v) = Data(a, v)
  BY SkeinBytes, Zenon
<1>2. Data(a, v) = MsgBytes(a, n)
                     \o IF v % 8 = 0 THEN <<>> ELSE <<Cut(a + n + 1, v % 8)>>
  BY Zenon DEF Data, MsgBytes
<1>3. n \in Nat
  <2>1. v \div 8 \in Nat
    BY Euclid
  <2>. QED
    BY <2>1
<1>4. MsgBytes(a, n) \o <<>> = MsgBytes(a, n)
  BY <1>3, MsgBytesSeq, NothingBehind
<1>. QED
  BY <1>1, <1>2, <1>4, Zenon

LEMMA MessageForm ==
  ASSUME NEW t \in Nat, NEW n, n = t \div 8
  PROVE  /\ t % 8 = 0 => SK!Message(t) = MsgBytes(0, n)
         /\ t % 8 # 0 => SK!Message(t) = MsgBytes(0, n) \o <<End(n + 1, t % 8)>>
<1>1. n \in Nat
  <2>1. t \div 8 \in Nat
    BY Euclid
  <2>. QED
    BY <2>1
<1>2. CASE t % 8 = 0
  <2>1. SK!Data(0, t) = MsgBytes(0, n)
    <3> DEFINE z == 0
    <3>1. z \in Nat /\ (t % 8 = 0 => SK!Data(z, t) = MsgBytes(z, n))
      <4>1. z \in Nat
        OBVIOUS
      <4>. HIDE DEF z
      <4>. QED
        BY <4>1, DataForm
    <3>. QED
      BY <1>2, <3>1
  <2>. QED
    BY <1>2, <2>1, Zenon DEF SK!Message
<1>3. CASE t % 8 # 0
  <2>1. SK!Message(t) = Terminated(t)
    BY <1>3, SkeinBytes, Zenon DEF SK!Message
  <2>2. [i \in 1..n |-> Msg(i)] = MsgBytes(0, n)
    <3>1. \A i \in 1..n : 0 + i = i
      BY <1>1
    <3>. QED
      BY <3>1 DEF MsgBytes
  <2>3. Terminated(t) = [i \in 1..n |-> Msg(i)] \o <<End(n + 1, t % 8)>>
    BY Zenon DEF Terminated
  <2>. QED
    BY <1>3, <2>1, <2>2, <2>3, Zenon
<1>. QED
  BY <1>2, <1>3

LEMMA MessageSeq ==
  ASSUME NEW t \in Nat
  PROVE  IsSeq(SK!Message(t)) /\ (Len(SK!Message(t)) = 0 <=> t = 0)
<1> DEFINE n == t \div 8
           r == t % 8
           m == SK!Message(t)
           a == MsgBytes(0, n)
           b == <<End(n + 1, r)>>
<1>1. n \in Nat /\ r \in 0..7 /\ t = n * 8 + r
  BY Euclid
<1>2. (r = 0 => m = a) /\ (r # 0 => m = a \o b)
  <2>1. n = t \div 8
    OBVIOUS
  <2>2. r = t % 8
    OBVIOUS
  <2>. HIDE DEF n, r
  <2>. QED
    BY <2>1, <2>2, MessageForm
<1>. HIDE DEF n, r, m
<1>3. IsSeq(a) /\ Len(a) = n
  BY <1>1, MsgBytesSeq
<1>4. IsSeq(b) /\ Len(b) = 1
  BY OneElement
<1>. HIDE DEF a, b
<1>5. IsSeq(a \o b) /\ Len(a \o b) = n + 1
  <2>1. IsSeq(a \o b) /\ Len(a \o b) = Len(a) + Len(b)
    <3>1. IsSeq(a) /\ IsSeq(b)
      BY <1>3, <1>4
    <3>. QED
      BY <3>1, Joined
  <2>. QED
    BY <1>3, <1>4, <2>1
<1>6. CASE r = 0
  <2>1. m = a /\ (n = 0 <=> t = 0)
    BY <1>1, <1>2, <1>6
  <2>. QED
    BY <1>3, <2>1 DEF m
<1>7. CASE r # 0
  <2>1. m = a \o b /\ n + 1 # 0 /\ t # 0
    BY <1>1, <1>2, <1>7
  <2>. QED
    BY <1>5, <2>1 DEF m
<1>. QED
  BY <1>6, <1>7

(* n bytes and v more ones.                                                *)
LEMMA MsgBytesJoin ==
  ASSUME NEW n \in Nat, NEW v \in Nat
  PROVE  MsgBytes(0, n) \o MsgBytes(n, v) = MsgBytes(0, n + v)
<1> DEFINE a == MsgBytes(0, n)
           b == MsgBytes(n, v)
           c == a \o b
           w == n + v
           d == MsgBytes(0, w)
<1>1. IsSeq(a) /\ Len(a) = n /\ \A i \in 1..n : a[i] = Msg(0 + i)
  BY MsgBytesSeq
<1>2. IsSeq(b) /\ Len(b) = v /\ \A i \in 1..v : b[i] = Msg(n + i)
  BY MsgBytesSeq
<1>3. w \in Nat
  OBVIOUS
<1>4. IsSeq(d) /\ Len(d) = w /\ \A i \in 1..w : d[i] = Msg(0 + i)
  <2>. HIDE DEF w
  <2>. QED
    BY <1>3, MsgBytesSeq
<1>. HIDE DEF a, b, d
<1>5. /\ IsSeq(c) /\ Len(c) = Len(a) + Len(b)
      /\ \A i \in 1..Len(a) : c[i] = a[i]
      /\ \A i \in 1..Len(b) : c[Len(a) + i] = b[i]
  <2>1. IsSeq(a) /\ IsSeq(b)
    BY <1>1, <1>2
  <2>. QED
    BY <2>1, Joined
<1>. HIDE DEF c
<1>6. ASSUME NEW i \in 1..Len(c)
      PROVE  c[i] = d[i]
  <2>0. Len(c) = n + v /\ i \in 1..w /\ 0 + i = i
    BY <1>1, <1>2, <1>5
  <2>1. CASE i <= n
    <3>1. i \in 1..n
      BY <2>1
    <3>. QED
      BY <1>1, <1>4, <1>5, <2>0, <3>1
  <2>2. CASE i > n
    <3>1. i - n \in 1..v /\ n + (i - n) = i
      BY <2>0, <2>2
    <3>2. c[n + (i - n)] = b[i - n] /\ b[i - n] = Msg(n + (i - n))
      BY <1>1, <1>2, <1>5, <3>1
    <3>3. c[i] = Msg(i)
      BY <3>1, <3>2
    <3>4. d[i] = Msg(i)
      BY <1>4, <2>0
    <3>. QED
      BY <3>3, <3>4
  <2>. QED
    BY <2>0, <2>1, <2>2
<1>7. Len(c) = Len(d)
  BY <1>1, <1>2, <1>4, <1>5
<1>8. c = d
  BY <1>4, <1>5, <1>6, <1>7, SameSeq
<1>. QED
  BY <1>8 DEF a, b, c, d

(* The bits of a message of whole bytes and of v more bits.                *)
LEMMA BitsSum ==
  ASSUME NEW t \in Nat, t % 8 = 0, NEW v \in Nat
  PROVE  /\ t + v \in Nat
         /\ (t + v) \div 8 = (t \div 8) + (v \div 8)
         /\ (t + v) % 8 = v % 8
<1> DEFINE a == t \div 8
           b == v \div 8
           r == v % 8
<1>1. a \in Nat /\ t = a * 8
  <2>1. t \div 8 \in Nat /\ t = (t \div 8) * 8 + (t % 8)
    BY Euclid
  <2>. QED
    BY <2>1
<1>2. b \in Nat /\ r \in 0..7 /\ v = b * 8 + r
  BY Euclid
<1>. HIDE DEF a, b, r
<1>3. t + v = (a + b) * 8 + r /\ a + b \in Nat /\ t + v \in Nat
  BY <1>1, <1>2
<1>4. ((a + b) * 8 + r) \div 8 = a + b /\ ((a + b) * 8 + r) % 8 = r
  BY <1>2, <1>3
<1>. QED
  BY <1>3, <1>4 DEF a, b, r

(* The message after an update of whole bytes.                             *)
LEMMA ExtendWhole ==
  ASSUME NEW t \in Nat, t % 8 = 0, NEW v \in Nat, v % 8 = 0
  PROVE  /\ SK!Message(t) \o SK!Data(t \div 8, v) = SK!Message(t + v)
         /\ IsSeq(SK!Data(t \div 8, v))
<1> DEFINE a == t \div 8
           b == v \div 8
           w == t + v
           e == w \div 8
<1>1. w \in Nat /\ e = a + b /\ w % 8 = 0 /\ a \in Nat /\ b \in Nat
  BY BitsSum, Euclid
<1>2. SK!Message(t) = MsgBytes(0, a)
  BY MessageForm
<1>3. SK!Data(a, v) = MsgBytes(a, b)
  <2>. HIDE DEF a
  <2>. QED
    BY DataForm
<1>4. SK!Message(w) = MsgBytes(0, e)
  <2>1. e = w \div 8
    OBVIOUS
  <2>. HIDE DEF w, e
  <2>. QED
    BY <1>1, <2>1, MessageForm
<1>5. MsgBytes(0, a) \o MsgBytes(a, b) = MsgBytes(0, a + b) /\ IsSeq(MsgBytes(a, b))
  <2>. HIDE DEF a, b
  <2>. QED
    BY <1>1, MsgBytesJoin, MsgBytesSeq
<1>. HIDE DEF a, e, w
<1>6. SK!Message(t) \o SK!Data(a, v) = SK!Message(w) /\ IsSeq(SK!Data(a, v))
  BY <1>1, <1>2, <1>3, <1>4, <1>5
<1>. QED
  BY <1>6 DEF a, w

(* The message after an update with bits in a last byte.                   *)
LEMMA ExtendPart ==
  ASSUME NEW t \in Nat, t % 8 = 0, NEW v \in Nat, v % 8 # 0, NEW n, n = v \div 8
  PROVE  LET d == SK!Data(t \div 8, v)
             f == SubSeq(d, 1, n)
             g == <<End(d[n + 1][2], v % 8)>>
         IN  /\ IsSeq(f) /\ IsSeq(g)
             /\ (SK!Message(t) \o f) \o g = SK!Message(t + v)
<1> DEFINE a == t \div 8
           r == v % 8
           d == SK!Data(a, v)
           f == SubSeq(d, 1, n)
           p == MsgBytes(a, n)
           q == <<Cut(a + n + 1, r)>>
           w == t + v
           e == w \div 8
           g == <<End(d[n + 1][2], r)>>
<1>1. w \in Nat /\ e = a + n /\ w % 8 = r /\ a \in Nat /\ n \in Nat
  BY BitsSum, Euclid
<1>2. SK!Message(t) = MsgBytes(0, a)
  BY MessageForm
<1>3. d = p \o q
  <2>. HIDE DEF a
  <2>. QED
    BY DataForm
<1>4. SK!Message(w) = MsgBytes(0, e) \o <<End(e + 1, r)>>
  <2>1. e = w \div 8 /\ w % 8 # 0
    BY <1>1
  <2>2. SK!Message(w) = MsgBytes(0, e) \o <<End(e + 1, w % 8)>>
    <3>. HIDE DEF w, e
    <3>. QED
      BY <1>1, <2>1, MessageForm
  <2>. QED
    BY <1>1, <2>2
<1>. HIDE DEF a, r, e, w
<1>5. MsgBytes(0, a) \o p = MsgBytes(0, a + n)
  BY <1>1, MsgBytesJoin
<1>6. IsSeq(p) /\ Len(p) = n
  BY <1>1, MsgBytesSeq
<1>7. IsSeq(q) /\ Len(q) = 1 /\ q[1] = Cut(a + n + 1, r)
  BY OneElement
<1>. HIDE DEF p, q
<1>8. /\ IsSeq(p \o q) /\ Len(p \o q) = Len(p) + Len(q)
      /\ \A i \in 1..Len(p) : (p \o q)[i] = p[i]
      /\ \A i \in 1..Len(q) : (p \o q)[Len(p) + i] = q[i]
  <2>1. IsSeq(p) /\ IsSeq(q)
    BY <1>6, <1>7
  <2>. QED
    BY <2>1, Joined
<1>. HIDE DEF d
<1>9. f = p
  <2>1. IsSeq(d) /\ n <= Len(d)
    BY <1>1, <1>3, <1>6, <1>7, <1>8
  <2>2. IsSeq(f) /\ Len(f) = n /\ \A i \in 1..n : f[i] = d[i]
    BY <1>1, <2>1, FrontBytes
  <2>. HIDE DEF f
  <2>3. Len(f) = Len(p)
    BY <1>6, <2>2
  <2>4. \A i \in 1..Len(f) : f[i] = p[i]
    BY <1>3, <1>6, <1>8, <2>2
  <2>. QED
    BY <1>6, <2>2, <2>3, <2>4, SameSeq
<1>10. d[n + 1][2] = a + n + 1
  <2>1. 1 \in 1..Len(q)
    BY <1>7
  <2>2. d[n + 1] = Cut(a + n + 1, r)
    BY <1>3, <1>6, <1>7, <1>8, <2>1
  <2>3. <<"cut", a + n + 1, r>>[2] = a + n + 1
    OBVIOUS
  <2>. QED
    BY <2>2, <2>3 DEF Cut
<1>11. g = <<End(e + 1, r)>>
  BY <1>1, <1>10
<1>12. IsSeq(g)
  BY OneElement
<1>. HIDE DEF f, g
<1>13. (SK!Message(t) \o f) \o g = SK!Message(w)
  BY <1>1, <1>2, <1>4, <1>5, <1>9, <1>11
<1>14. IsSeq(f)
  BY <1>6, <1>9
<1>. QED
  BY <1>12, <1>13, <1>14 DEF f, g, d, a, r, w

-----------------------------------------------------------------------------
(* Update: whole bytes, and a partial last byte passed by itself.          *)

(* Marking the tweak after the partial byte.                               *)
LEMMA PadTweak ==
  ASSUME NEW n, NEW rest, rest # 0
  PROVE  [Twk(n, 0) EXCEPT !.bitPad = TRUE] = Twk(n, rest)
<1> DEFINE f == n = 0
           no == 0 # 0
           yes == TRUE
           off == FALSE
           t == [type |-> "MSG", first |-> f, final |-> off, bitPad |-> no]
<1>1. (rest # 0) = yes
  OBVIOUS
<1>2. [t EXCEPT !.bitPad = yes] = [type |-> "MSG", first |-> f, final |-> off, bitPad |-> yes]
  <2>. HIDE DEF f, no, yes, off
  <2>. QED
    OBVIOUS
<1>3. Twk(n, rest) = [type |-> "MSG", first |-> f, final |-> off, bitPad |-> yes]
  BY <1>1, Zenon DEF Twk
<1>4. Twk(n, 0) = t
  BY Zenon DEF Twk
<1>. QED
  BY <1>2, <1>3, <1>4, Zenon

LEMMA PadBetween ==
  ASSUME NEW h, NEW B, NEW x, NEW m, NEW n, NEW r, NEW b, NEW rest, rest # 0
  PROVE  [Between(h, B, x, m, n, r, b, 0) EXCEPT !.T1.bitPad = TRUE]
           = Between(h, B, x, m, n, r, b, rest)
<1> DEFINE u == n * B
           t == Twk(n, 0)
           w == Twk(n, rest)
           X == Units(x, m, B, n)
           c == Context(h, B, r, u, t, X, b)
           d == Context(h, B, r, u, w, X, b)
<1>1. [t EXCEPT !.bitPad = TRUE] = w
  BY PadTweak
<1>. HIDE DEF u, t, w, X
<1>2. c.T1 = t
  BY DEF Context
<1>3. [c EXCEPT !.T1 = w] = d
  BY DEF Context
<1>4. [c EXCEPT !.T1.bitPad = TRUE] = [c EXCEPT !.T1 = w]
  BY <1>1, <1>2 DEF Context
<1>. HIDE DEF c, d
<1>5. [c EXCEPT !.T1.bitPad = TRUE] = d
  BY <1>3, <1>4
<1>. QED
  BY <1>5, Zenon DEF Between, c, d, u, t, w, X

LEMMA PadHolds ==
  ASSUME NEW c, NEW h, NEW B, NEW x, NEW m, HeldBack(c, h, B, x, m, 0), NEW rest, rest # 0
  PROVE  HeldBack([c EXCEPT !.T1.bitPad = TRUE], h, B, x, m, rest)
<1>1. PICK n, r, b : HoldsBack(c, h, B, x, m, 0, n, r, b)
  BY DEF HeldBack
<1>2. [c EXCEPT !.T1.bitPad = TRUE] = Between(h, B, x, m, n, r, b, rest)
  <2>1. c = Between(h, B, x, m, n, r, b, 0)
    BY <1>1 DEF HoldsBack
  <2>2. [Between(h, B, x, m, n, r, b, 0) EXCEPT !.T1.bitPad = TRUE]
          = Between(h, B, x, m, n, r, b, rest)
    BY PadBetween
  <2>. QED
    BY <2>1, <2>2
<1> DEFINE e == [c EXCEPT !.T1.bitPad = TRUE]
<1>. HIDE DEF e
<1>3. e = Between(h, B, x, m, n, r, b, rest)
  BY <1>2, Zenon DEF e
<1>4. HoldsBack(e, h, B, x, m, rest, n, r, b)
  BY <1>1, <1>3 DEF HoldsBack
<1>5. HeldBack(e, h, B, x, m, rest)
  BY <1>4 DEF HeldBack
<1>. QED
  BY <1>5 DEF e

(* Both sizes of the state.                                                *)
LEMMA UpdateBytesHolds ==
  ASSUME NEW c, NEW h, NEW B \in Nat \ {0}, NEW x, NEW m, HeldBack(c, h, B, x, m, 0),
         NEW d, IsSeq(d)
  PROVE  HeldBack(SK!UpdateBytes(c, d), h, B, x, m \o d, 0)
<1>1. SK!UpdateBytes(c, d) = SK!Skein_512_Update(c, d)
  BY Zenon DEF SK!UpdateBytes, SK!Skein1024_Update
<1>2. HeldBack(SK!Skein_512_Update(c, d), h, B, x, m \o d, 0)
  BY UpdateHolds
<1>. QED
  BY <1>1, <1>2, Zenon

LEMMA UpdateCallHolds ==
  ASSUME NEW c, NEW h, NEW B \in Nat \ {0}, NEW x, NEW t \in Nat, t % 8 = 0,
         HeldBack(c, h, B, x, SK!Message(t), 0), NEW v \in Nat
  PROVE  HeldBack(SK!Update(c, SK!Data(t \div 8, v), v), h, B, x,
                  SK!Message(t + v), (t + v) % 8)
<1> DEFINE d == SK!Data(t \div 8, v)
           m == SK!Message(t)
           e == SK!Message(t + v)
           s == SK!Update(c, d, v)
<1>0. (t + v) % 8 = v % 8
  BY BitsSum
<1>1. CASE v % 8 = 0
  <2>1. m \o d = e /\ IsSeq(d)
    BY <1>1, ExtendWhole
  <2>2. s = SK!UpdateBytes(c, d)
    BY <1>1, Zenon DEF SK!Update
  <2>. HIDE DEF d, m, e, s
  <2>3. HeldBack(c, h, B, x, m, 0)
    BY DEF m
  <2>4. HeldBack(SK!UpdateBytes(c, d), h, B, x, m \o d, 0)
    BY <2>1, <2>3, UpdateBytesHolds
  <2>5. HeldBack(s, h, B, x, e, 0)
    BY <2>1, <2>2, <2>4, Zenon
  <2>6. HeldBack(s, h, B, x, e, (t + v) % 8)
    BY <1>0, <1>1, <2>5, Zenon
  <2>. QED
    BY <2>6 DEF s, d, e
<1>2. CASE v % 8 # 0
  <2> DEFINE n == v \div 8
             r == v % 8
             f == SubSeq(d, 1, n)
             g == <<End(d[n + 1][2], r)>>
             c1 == SK!UpdateBytes(c, f)
             c2 == SK!UpdateBytes(c1, g)
  <2>1. IsSeq(f) /\ IsSeq(g) /\ (m \o f) \o g = e
    <3> DEFINE a == v \div 8
    <3>1. a = v \div 8
      OBVIOUS
    <3>. HIDE DEF a
    <3>2. /\ IsSeq(SubSeq(SK!Data(t \div 8, v), 1, a))
          /\ IsSeq(<<End(SK!Data(t \div 8, v)[a + 1][2], v % 8)>>)
          /\ (SK!Message(t) \o SubSeq(SK!Data(t \div 8, v), 1, a))
               \o <<End(SK!Data(t \div 8, v)[a + 1][2], v % 8)>> = SK!Message(t + v)
      BY <1>2, <3>1, ExtendPart
    <3>. QED
      BY <3>1, <3>2
  <2>2. s = [c2 EXCEPT !.T1.bitPad = TRUE]
    <3>1. \A k, j : SK!End(k, j) = End(k, j)
      BY Zenon DEF SK!End, End
    <3>. QED
      BY <1>2, <3>1, Zenon DEF SK!Update
  <2>. HIDE DEF d, m, e, s, f, g, n, r
  <2>3. HeldBack(c, h, B, x, m, 0)
    BY DEF m
  <2>4. HeldBack(c1, h, B, x, m \o f, 0)
    BY <2>1, <2>3, UpdateBytesHolds
  <2>. HIDE DEF c1
  <2>5. HeldBack(c2, h, B, x, (m \o f) \o g, 0)
    <3> DEFINE mf == m \o f
    <3>1. HeldBack(c1, h, B, x, mf, 0)
      BY <2>4
    <3>. HIDE DEF mf
    <3>2. HeldBack(SK!UpdateBytes(c1, g), h, B, x, mf \o g, 0)
      BY <2>1, <3>1, UpdateBytesHolds
    <3>. QED
      BY <3>2, Zenon DEF mf
  <2>. HIDE DEF c2
  <2>6. HeldBack(c2, h, B, x, e, 0)
    BY <2>1, <2>5, Zenon
  <2>7. (t + v) % 8 # 0
    BY <1>0, <1>2
  <2>8. HeldBack(s, h, B, x, e, (t + v) % 8)
    <3> DEFINE q == (t + v) % 8
    <3>. HIDE DEF q
    <3>1. q # 0
      BY <2>7 DEF q
    <3>2. HeldBack([c2 EXCEPT !.T1.bitPad = TRUE], h, B, x, e, q)
      BY <2>6, <3>1, PadHolds
    <3>3. HeldBack(s, h, B, x, e, q)
      BY <2>2, <3>2, Zenon
    <3>. QED
      BY <3>3 DEF q
  <2>. QED
    BY <2>8 DEF s, d, e
<1>. QED
  BY <1>1, <1>2

-----------------------------------------------------------------------------
(* The reference: the message in blocks, the last one marked.              *)

EndTwk(n, rest) == [type |-> "MSG", first |-> n = 0, final |-> TRUE, bitPad |-> rest # 0]

LastPiece(m, B, n, r) == [k \in 1..B |-> IF k <= r THEN m[n * B + k] ELSE Num(0)]
LastUnit(m, B, n, r, rest) ==
  Compressed(LastPiece(m, B, n, r), n * B + r, EndTwk(n, rest))

(* A message of n whole blocks, the last one held back, and r bytes.       *)
Divided(m, B, n, r) ==
  /\ IsSeq(m) /\ B \in Nat \ {0} /\ n \in Nat /\ r \in 0..B /\ (r = 0 => n = 0)
  /\ Len(m) = n * B + r

LEMMA Smaller ==
  ASSUME NEW a \in Int, NEW b \in Int
  PROVE  SK!Min({a, b}) = IF a <= b THEN a ELSE b
<1> DEFINE T == {a, b}
           s == CHOOSE y \in T : \A z \in T : y <= z
<1>1. \E y \in T : \A z \in T : y <= z
  OBVIOUS
<1>2. s \in T /\ \A z \in T : s <= z
  BY <1>1
<1>3. SK!Min(T) = s
  BY Zenon DEF SK!Min
<1>. HIDE DEF s
<1>4. s = IF a <= b THEN a ELSE b
  BY <1>2
<1>. QED
  BY <1>3, <1>4

LEMMA DividedSize ==
  ASSUME NEW m, NEW B, NEW n, NEW r, Divided(m, B, n, r)
  PROVE  /\ n * B \in Nat /\ (n + 1) * B = n * B + B
         /\ (Len(m) = 0 <=> r = 0)
         /\ (r # 0 => RoundUp(Len(m), B) \div B = n + 1 /\ (Len(m) - 1) \div B = n)
<1>1. B \in Nat \ {0} /\ n \in Nat /\ r \in 0..B /\ (r = 0 => n = 0) /\ Len(m) = n * B + r
  BY DEF Divided
<1> DEFINE u == n * B
           v == (n + 1) * B
<1>2. u \in Nat /\ v = u + B
  BY <1>1, Product
<1>3. r = 0 => u = 0
  BY <1>1
<1>4. ASSUME r # 0
      PROVE  RoundUp(Len(m), B) \div B = n + 1 /\ (Len(m) - 1) \div B = n
  <2> DEFINE q == r - 1
  <2>1. q \in 0 .. B - 1
    BY <1>1, <1>4
  <2>. HIDE DEF q
  <2>2. (n * B + q) \div B = n
    BY <1>1, <2>1, WholeAndRest
  <2>3. ((n + 1) * B + q) \div B = n + 1
    <3> DEFINE k == n + 1
    <3>1. k \in Nat
      BY <1>1
    <3>. HIDE DEF k
    <3>2. (k * B + q) \div B = k
      BY <1>1, <2>1, <3>1, WholeAndRest
    <3>. QED
      BY <3>2 DEF k
  <2>4. ((n + 1) * B) \div B = n + 1
    <3> DEFINE k == n + 1
               z == 0
               kb == k * B
    <3>1. k \in Nat /\ z \in 0 .. B - 1
      BY <1>1
    <3>2. (k * B + z) \div B = k
      <4>. HIDE DEF k, z
      <4>. QED
        BY <1>1, <3>1, WholeAndRest
    <3>3. kb + z = kb
      <4>1. kb \in Nat
        BY <1>2, <1>1
      <4>. HIDE DEF kb
      <4>. QED
        BY <4>1
    <3>. QED
      BY <3>2, <3>3
  <2>5. Len(m) - 1 = u + q /\ Len(m) + B - 1 = v + q
    <3>. HIDE DEF u, v
    <3>1. Len(m) = u + r
      BY <1>1 DEF u
    <3>. QED
      BY <1>1, <1>2, <3>1 DEF q
  <2>6. (Len(m) - 1) \div B = n
    BY <2>2, <2>5
  <2>7. RoundUp(Len(m), B) = v
    BY <2>3, <2>5 DEF RoundUp
  <2>. QED
    BY <2>4, <2>6, <2>7
<1>. HIDE DEF u, v
<1>5. Len(m) = u + r
  BY <1>1 DEF u
<1>6. Len(m) = 0 <=> r = 0
  BY <1>1, <1>2, <1>3, <1>5
<1>. QED
  BY <1>2, <1>4, <1>6 DEF u, v

(* The zero padded message, block by block.                                *)
LEMMA PaddedBlocks ==
  ASSUME NEW m, NEW B, NEW n, NEW r, Divided(m, B, n, r)
  PROVE  LET p == m \o Zeros((n + 1) * B - Len(m))
         IN  /\ \A i \in 1..n : SubSeq(p, (i - 1) * B + 1, i * B) = PieceOf(m, B, i)
             /\ SubSeq(p, n * B + 1, (n + 1) * B) = LastPiece(m, B, n, r)
<1> DEFINE u == n * B
           v == (n + 1) * B
           z == v - Len(m)
           s == Zeros(z)
           p == m \o s
<1>1. /\ IsSeq(m) /\ B \in Nat \ {0} /\ n \in Nat /\ r \in 0..B /\ Len(m) = u + r
  BY DEF Divided
<1>2. u \in Nat /\ v = u + B
  BY DividedSize
<1>3. z \in Nat /\ z = B - r
  <2>. HIDE DEF u, v
  <2>. QED
    BY <1>1, <1>2
<1>4. IsSeq(s) /\ Len(s) = z /\ \A i \in 1..z : s[i] = Num(0)
  <2>. HIDE DEF z
  <2>1. s = [i \in 1..z |-> Num(0)]
    BY DEF Zeros
  <2>. HIDE DEF s
  <2>2. s = [i \in 1..z |-> s[i]]
    BY <2>1
  <2>. QED
    BY <1>3, <2>1, <2>2, Listed
<1>. HIDE DEF s, z
<1>5. /\ IsSeq(p) /\ Len(p) = Len(m) + Len(s)
      /\ \A i \in 1..Len(m) : p[i] = m[i]
      /\ \A i \in 1..Len(s) : p[Len(m) + i] = s[i]
  <2>1. IsSeq(m) /\ IsSeq(s)
    BY <1>1, <1>4
  <2>. QED
    BY <2>1, Joined
<1>. HIDE DEF p
<1>6. Len(p) = v /\ v \in Nat
  <2>. HIDE DEF u, v
  <2>. QED
    BY <1>1, <1>2, <1>3, <1>4, <1>5
<1>7. ASSUME NEW i \in 0..n
      PROVE  SubSeq(p, i * B + 1, (i + 1) * B) = [k \in 1..B |-> p[i * B + k]]
  <2> DEFINE lo == i * B
  <2>1. lo \in Nat /\ (i + 1) * B = lo + B
    BY <1>1, Product
  <2>2. lo <= u
    <3>1. i \in Nat /\ B \in Nat /\ i <= n /\ n \in Nat
      BY <1>1
    <3>. QED
      BY <3>1, Monotone
  <2>. HIDE DEF lo, u, v
  <2>3. lo + B <= Len(p) /\ B \in Nat
    BY <1>1, <1>2, <1>6, <2>1, <2>2
  <2>4. SubSeq(p, lo + 1, lo + B) = [k \in 1..B |-> p[lo + k]]
    BY <1>5, <2>1, <2>3, CutOut
  <2>. QED
    BY <2>1, <2>4 DEF lo
<1>8. ASSUME NEW i \in 1..n
      PROVE  SubSeq(p, (i - 1) * B + 1, i * B) = PieceOf(m, B, i)
  <2> DEFINE j == i - 1
             lo == j * B
  <2>1. j \in 0..n /\ j + 1 = i /\ j \in Nat
    BY <1>1
  <2>2. SubSeq(p, lo + 1, (j + 1) * B) = [k \in 1..B |-> p[lo + k]]
    <3>. HIDE DEF j
    <3>. QED
      BY <1>7, <2>1
  <2>3. lo \in Nat /\ lo + B <= u
    <3>1. (j + 1) * B = lo + B /\ lo \in Nat
      <4>. HIDE DEF j
      <4>. QED
        BY <1>1, <2>1, Product
    <3>2. i * B <= n * B
      <4>1. i \in Nat /\ B \in Nat /\ i <= n /\ n \in Nat
        BY <1>1
      <4>. QED
        BY <4>1, Monotone
    <3>. HIDE DEF lo, j
    <3>. QED
      BY <2>1, <3>1, <3>2
  <2>4. ASSUME NEW k \in 1..B
        PROVE  p[lo + k] = m[lo + k]
    <3>1. lo + k \in 1..Len(m)
      <4>. HIDE DEF lo, u
      <4>. QED
        BY <1>1, <1>2, <2>3
    <3>. QED
      BY <1>5, <3>1
  <2>5. [k \in 1..B |-> p[lo + k]] = PieceOf(m, B, i)
    BY <2>4 DEF PieceOf
  <2>. QED
    BY <2>1, <2>2, <2>5
<1>9. SubSeq(p, u + 1, v) = LastPiece(m, B, n, r)
  <2>1. SubSeq(p, u + 1, v) = [k \in 1..B |-> p[u + k]]
    <3>1. n \in 0..n
      BY <1>1
    <3>. QED
      BY <1>7, <3>1
  <2>2. ASSUME NEW k \in 1..B
        PROVE  p[u + k] = IF k <= r THEN m[u + k] ELSE Num(0)
    <3>. HIDE DEF u, v
    <3>1. CASE k <= r
      <4>1. u + k \in 1..Len(m)
        BY <1>1, <1>2, <3>1
      <4>. QED
        BY <1>5, <3>1, <4>1
    <3>2. CASE ~(k <= r)
      <4>1. k - r \in 1..z /\ Len(m) + (k - r) = u + k
        BY <1>1, <1>2, <1>3, <3>2
      <4>2. p[Len(m) + (k - r)] = s[k - r]
        BY <1>4, <1>5, <4>1
      <4>. QED
        BY <1>4, <3>2, <4>1, <4>2
    <3>. QED
      BY <3>1, <3>2
  <2>. QED
    BY <2>1, <2>2 DEF LastPiece
<1>. QED
  BY <1>8, <1>9 DEF p, s, z

(* One entry of the reference.                                             *)
UbiEntry(blk, T0, a, b, c) ==
  [blk |-> blk, T0 |-> T0,
   T1 |-> [type |-> "MSG", first |-> a, final |-> b, bitPad |-> c]]

ZeroPadded(B, t, m, n, p) ==
  /\ m = SK!Message(t)
  /\ n = IF t = 0 THEN 1 ELSE RoundUp(Len(m), B) \div B
  /\ p = m \o Zeros(n * B - Len(m))

Entries(B, t, m, n, p) ==
  [i \in 1..n |-> UbiEntry(SubSeq(p, (i - 1) * B + 1, i * B), SK!Min({i * B, Len(m)}),
                       i = 1, i = n, i = n /\ t % 8 # 0)]

LEMMA UbiForm ==
  ASSUME NEW B, NEW t, NEW m, NEW n, NEW p, ZeroPadded(B, t, m, n, p)
  PROVE  SK!UBI(B, t) = Entries(B, t, m, n, p)
BY SkeinBytes, Zenon DEF SK!UBI, UbiEntry, Entries, ZeroPadded

LEMMA UbiBlocks ==
  ASSUME NEW t \in Nat, NEW m, m = SK!Message(t), NEW B, NEW n, NEW r,
         Divided(m, B, n, r)
  PROVE  SK!UBI(B, t)
           = [i \in 1 .. n + 1 |->
                IF i = n + 1 THEN LastUnit(m, B, n, r, t % 8) ELSE Unit(m, B, i)]
<1> DEFINE w == n + 1
           l == Len(m)
           p == m \o Zeros(w * B - l)
           rest == t % 8
           e(i) == UbiEntry(SubSeq(p, (i - 1) * B + 1, i * B), SK!Min({i * B, l}),
                         i = 1, i = w, i = w /\ rest # 0)
<1>1. /\ IsSeq(m) /\ B \in Nat \ {0} /\ n \in Nat /\ r \in 0..B /\ (r = 0 => n = 0)
      /\ l = n * B + r
  BY DEF Divided
<1>2. w = IF t = 0 THEN 1 ELSE RoundUp(l, B) \div B
  <2>1. l = 0 <=> t = 0
    BY MessageSeq
  <2>2. l = 0 <=> r = 0
    BY DividedSize
  <2>3. r # 0 => RoundUp(l, B) \div B = w
    BY DividedSize
  <2>4. r = 0 => w = 1
    BY <1>1
  <2>. QED
    BY <2>1, <2>2, <2>3, <2>4
<1>3. SK!UBI(B, t) = [i \in 1..w |-> e(i)]
  <2>1. ZeroPadded(B, t, m, w, p)
    BY <1>2 DEF ZeroPadded
  <2>2. SK!UBI(B, t) = Entries(B, t, m, w, p)
    <3>. HIDE DEF w, p
    <3>. QED
      BY <2>1, UbiForm
  <2>. QED
    BY <2>2, Zenon DEF Entries
<1>4. /\ \A i \in 1..n : SubSeq(p, (i - 1) * B + 1, i * B) = PieceOf(m, B, i)
      /\ SubSeq(p, n * B + 1, w * B) = LastPiece(m, B, n, r)
  BY PaddedBlocks
<1>. HIDE DEF p
<1>5. n * B \in Nat /\ w * B = n * B + B
  BY DividedSize
<1>6. ASSUME NEW i \in 1..n
      PROVE  e(i) = Unit(m, B, i)
  <2>1. SK!Min({i * B, l}) = i * B
    <3> DEFINE u == n * B
               v == i * B
    <3>1. v <= u /\ v \in Nat
      <4>1. i \in Nat /\ B \in Nat /\ n \in Nat /\ i <= n
        BY <1>1
      <4>. QED
        BY <4>1, Monotone, Product
    <3>2. u \in Nat /\ l = u + r
      BY <1>1, <1>5
    <3>. HIDE DEF u, v, l
    <3>3. v <= l /\ v \in Int /\ l \in Int
      BY <1>1, <3>1, <3>2
    <3>4. SK!Min({v, l}) = v
      BY <3>3, Smaller
    <3>. QED
      BY <3>4 DEF v
  <2>2. (i = 1) = (i - 1 = 0) /\ (i = w) = FALSE /\ (0 # 0) = FALSE
    BY <1>1
  <2>3. (i = w /\ rest # 0) = (0 # 0)
    BY <1>1
  <2>4. SubSeq(p, (i - 1) * B + 1, i * B) = PieceOf(m, B, i)
    BY <1>4
  <2>. HIDE DEF w, l, rest
  <2>. QED
    BY <2>1, <2>2, <2>3, <2>4, Zenon DEF UbiEntry, Unit, Compressed, Twk
<1>7. e(w) = LastUnit(m, B, n, r, rest)
  <2>1. SK!Min({w * B, l}) = n * B + r
    <3> DEFINE u == n * B
               v == w * B
    <3>1. u \in Nat /\ v = u + B /\ l = u + r
      BY <1>1, <1>5
    <3>. HIDE DEF u, v, l
    <3>2. v \in Int /\ l \in Int /\ l <= v /\ (v <= l => v = l)
      BY <1>1, <3>1
    <3>3. SK!Min({v, l}) = l
      BY <3>2, Smaller
    <3>. QED
      BY <3>1, <3>3 DEF v, u
  <2>2. (w = 1) = (n = 0) /\ w - 1 = n /\ (w = w) = TRUE
    BY <1>1
  <2>3. (w = w /\ rest # 0) = (rest # 0)
    OBVIOUS
  <2>4. SubSeq(p, (w - 1) * B + 1, w * B) = LastPiece(m, B, n, r)
    BY <1>4, <2>2
  <2>. HIDE DEF w, l, rest
  <2>. QED
    BY <2>1, <2>2, <2>3, <2>4, Zenon DEF UbiEntry, LastUnit, Compressed, EndTwk
<1>8. \A i \in 1..w : i # w => i \in 1..n
  BY <1>1
<1>9. [i \in 1..w |-> e(i)]
        = [i \in 1..w |-> IF i = w THEN LastUnit(m, B, n, r, rest) ELSE Unit(m, B, i)]
  <2>1. \A i \in 1..w : e(i) = IF i = w THEN LastUnit(m, B, n, r, rest) ELSE Unit(m, B, i)
    <3>. HIDE DEF e, w
    <3>. QED
      BY <1>6, <1>7, <1>8
  <2>. HIDE DEF e, w
  <2>. QED
    BY <2>1
<1>. QED
  BY <1>3, <1>9, Zenon

(* The chaining value of a context that has absorbed the message.          *)
MessageCut(t, m, B, n, r) == t \in Nat /\ m = SK!Message(t) /\ Divided(m, B, n, r)

IsUbi(t, m, B, n, r, x) ==
  /\ Units(x, m, B, n) = <<x>> \o SubSeq(SK!UBI(B, t), 1, n)
  /\ Append(Units(x, m, B, n), LastUnit(m, B, n, r, t % 8)) = <<x>> \o SK!UBI(B, t)

LEMMA UnitsAreUbi ==
  ASSUME NEW t, NEW m, NEW B, NEW n, NEW r, MessageCut(t, m, B, n, r), NEW x
  PROVE  IsUbi(t, m, B, n, r, x)
<1> DEFINE u == Units(x, m, B, n)
           v == SK!UBI(B, t)
           o == <<x>>
           f == SubSeq(v, 1, n)
           l == LastUnit(m, B, n, r, t % 8)
           a == Append(u, l)
           p == o \o f
           q == o \o v
<1>0. n \in Nat
  BY DEF MessageCut, Divided
<1>1. /\ IsSeq(u) /\ Len(u) = n + 1 /\ u[1] = x
      /\ \A j \in 2 .. n + 1 : u[j] = Unit(m, B, j - 1)
  BY <1>0, UnitsSeq
<1>2. v = [i \in 1 .. n + 1 |-> IF i = n + 1 THEN l ELSE Unit(m, B, i)]
  <2>1. t \in Nat /\ m = SK!Message(t) /\ Divided(m, B, n, r)
    BY DEF MessageCut
  <2>. QED
    BY <2>1, UbiBlocks
<1>3. IsSeq(o) /\ Len(o) = 1 /\ o[1] = x
  BY OneElement
<1>. HIDE DEF u, v, o, l
<1>4. IsSeq(v) /\ Len(v) = n + 1 /\ v[n + 1] = l /\ \A i \in 1..n : v[i] = Unit(m, B, i)
  <2>1. v = [i \in 1 .. n + 1 |-> v[i]] /\ n + 1 \in Nat
    BY <1>0, <1>2
  <2>2. IsSeq(v) /\ Len(v) = n + 1
    <3> DEFINE k == n + 1
    <3>1. k \in Nat /\ v = [i \in 1..k |-> v[i]]
      BY <2>1
    <3>. HIDE DEF k
    <3>2. IsSeq(v) /\ Len(v) = k
      BY <3>1, Listed
    <3>. QED
      BY <3>2 DEF k
  <2>3. n + 1 \in 1 .. n + 1 /\ \A i \in 1..n : i \in 1 .. n + 1 /\ i # n + 1
    BY <1>0
  <2>. QED
    BY <1>2, <2>2, <2>3
<1>5. IsSeq(f) /\ Len(f) = n /\ \A i \in 1..n : f[i] = v[i]
  BY <1>0, <1>4, FrontBytes
<1>. HIDE DEF f
<1>6. /\ IsSeq(a) /\ Len(a) = n + 2 /\ a[n + 2] = l
      /\ \A i \in 1 .. n + 1 : a[i] = u[i]
  <2>1. /\ IsSeq(a) /\ Len(a) = Len(u) + 1 /\ a[Len(u) + 1] = l
        /\ \A i \in 1..Len(u) : a[i] = u[i]
    BY <1>1, Appended
  <2>. HIDE DEF a
  <2>2. Len(u) + 1 = n + 2
    BY <1>0, <1>1
  <2>. QED
    BY <1>1, <2>1, <2>2
<1>. HIDE DEF a
<1>7. /\ IsSeq(p) /\ Len(p) = 1 + n /\ p[1] = x /\ \A i \in 1..n : p[1 + i] = f[i]
  <2>1. IsSeq(o) /\ IsSeq(f)
    BY <1>3, <1>5
  <2>2. /\ IsSeq(p) /\ Len(p) = Len(o) + Len(f) /\ \A i \in 1..Len(o) : p[i] = o[i]
        /\ \A i \in 1..Len(f) : p[Len(o) + i] = f[i]
    BY <2>1, Joined
  <2>. HIDE DEF p
  <2>3. 1 \in 1..Len(o)
    BY <1>3
  <2>. QED
    BY <1>3, <1>5, <2>2, <2>3
<1>8. /\ IsSeq(q) /\ Len(q) = 1 + (n + 1) /\ q[1] = x /\ \A i \in 1 .. n + 1 : q[1 + i] = v[i]
  <2>1. IsSeq(o) /\ IsSeq(v)
    BY <1>3, <1>4
  <2>2. /\ IsSeq(q) /\ Len(q) = Len(o) + Len(v) /\ \A i \in 1..Len(o) : q[i] = o[i]
        /\ \A i \in 1..Len(v) : q[Len(o) + i] = v[i]
    BY <2>1, Joined
  <2>. HIDE DEF q
  <2>3. 1 \in 1..Len(o)
    BY <1>3
  <2>. QED
    BY <1>3, <1>4, <2>2, <2>3
<1>. HIDE DEF p, q
<1>9. u = p
  <2>1. ASSUME NEW j \in 1..Len(u)
        PROVE  u[j] = p[j]
    <3>1. CASE j = 1
      BY <1>1, <1>7, <3>1
    <3>2. CASE j # 1
      <4>1. j \in 2 .. n + 1 /\ j - 1 \in 1..n /\ 1 + (j - 1) = j
        BY <1>0, <1>1, <3>2
      <4>2. p[1 + (j - 1)] = f[j - 1] /\ f[j - 1] = v[j - 1] /\ v[j - 1] = Unit(m, B, j - 1)
        BY <1>4, <1>5, <1>7, <4>1
      <4>. QED
        BY <1>1, <4>1, <4>2
    <3>. QED
      BY <3>1, <3>2
  <2>2. Len(u) = Len(p)
    BY <1>0, <1>1, <1>7
  <2>. QED
    BY <1>1, <1>7, <2>1, <2>2, SameSeq
<1>10. a = q
  <2>1. ASSUME NEW j \in 1..Len(a)
        PROVE  a[j] = q[j]
    <3>0. j \in 1 .. n + 2
      BY <1>6
    <3>1. CASE j = 1
      <4>1. a[1] = u[1]
        <5>1. 1 \in 1 .. n + 1
          BY <1>0
        <5>. QED
          BY <1>6, <5>1
      <4>. QED
        BY <1>1, <1>8, <3>1, <4>1
    <3>2. CASE j = n + 2
      <4>1. n + 1 \in 1 .. n + 1 /\ 1 + (n + 1) = j
        BY <1>0, <3>2
      <4>. QED
        BY <1>4, <1>6, <1>8, <3>2, <4>1
    <3>3. CASE j # 1 /\ j # n + 2
      <4>1. /\ j \in 2 .. n + 1 /\ j \in 1 .. n + 1 /\ j - 1 \in 1..n
            /\ j - 1 \in 1 .. n + 1 /\ 1 + (j - 1) = j
        BY <1>0, <3>0, <3>3
      <4>2. q[1 + (j - 1)] = v[j - 1] /\ v[j - 1] = Unit(m, B, j - 1)
        BY <1>4, <1>8, <4>1
      <4>3. a[j] = u[j] /\ u[j] = Unit(m, B, j - 1)
        BY <1>1, <1>6, <4>1
      <4>. QED
        BY <4>1, <4>2, <4>3
    <3>. QED
      BY <3>1, <3>2, <3>3
  <2>2. Len(a) = Len(q)
    BY <1>0, <1>6, <1>8
  <2>. QED
    BY <1>6, <1>8, <2>1, <2>2, SameSeq
<1>. QED
  BY <1>9, <1>10 DEF IsUbi, u, v, o, l, f, a, p, q

-----------------------------------------------------------------------------
(* Final: the rest of the buffer zero padded, the block marked.            *)
Counter(B, i) == <<Num(i)>> \o Zeros(B - 1)
CounterUnit(B, i) == Compressed(Counter(B, i), CounterBytes, SK!Tweak("OUT", TRUE, TRUE))

LEMMA FinalTweak ==
  ASSUME NEW n, NEW rest
  PROVE  [Twk(n, rest) EXCEPT !.final = TRUE] = EndTwk(n, rest)
<1> DEFINE f == n = 0
           p == rest # 0
           yes == TRUE
           off == FALSE
           t == [type |-> "MSG", first |-> f, final |-> off, bitPad |-> p]
<1>1. [t EXCEPT !.final = yes] = [type |-> "MSG", first |-> f, final |-> yes, bitPad |-> p]
  <2>. HIDE DEF f, p, yes, off
  <2>. QED
    OBVIOUS
<1>2. EndTwk(n, rest) = [type |-> "MSG", first |-> f, final |-> yes, bitPad |-> p]
  BY Zenon DEF EndTwk
<1>3. Twk(n, rest) = t
  BY Zenon DEF Twk
<1>. QED
  BY <1>1, <1>2, <1>3, Zenon

(* The zeros behind the r bytes of the last block.                         *)
LEMMA LastOverlay ==
  ASSUME NEW c, NEW h, NEW B \in Nat \ {0}, NEW x, NEW m, NEW rest, NEW n, NEW r, NEW b,
         HoldsBack(c, h, B, x, m, rest, n, r, b)
  PROVE  Overlay(b, r, Zeros(B - r)) = LastPiece(m, B, n, r)
<1> DEFINE z == B - r
           f == Zeros(z)
           o == Overlay(b, r, f)
           d == LastPiece(m, B, n, r)
<1>1. r \in 0..B /\ IsSeq(b) /\ Len(b) = B /\ \A k \in 1..r : b[k] = m[n * B + k]
  BY DEF HoldsBack
<1>2. z \in Nat /\ r + z = B
  BY <1>1
<1>3. Len(f) = z /\ \A i \in 1..z : f[i] = Num(0)
  <2>. HIDE DEF z
  <2>1. f = [i \in 1..z |-> Num(0)]
    BY DEF Zeros
  <2>. HIDE DEF f
  <2>2. f = [i \in 1..z |-> f[i]]
    BY <2>1
  <2>. QED
    BY <1>2, <2>1, <2>2, Listed
<1>. HIDE DEF f, z
<1>4. /\ IsSeq(o) /\ Len(o) = B
      /\ \A k \in 1..B : o[k] = IF k > r /\ k <= r + Len(f) THEN f[k - r] ELSE b[k]
  BY <1>1, OverlaySized
<1>. HIDE DEF o
<1>5. o = [k \in 1..B |-> o[k]]
  BY <1>4 DEF IsSeq
<1>6. ASSUME NEW k \in 1..B
      PROVE  o[k] = IF k <= r THEN m[n * B + k] ELSE Num(0)
  <2>1. CASE k <= r
    <3>1. k \in 1..r /\ ~(k > r)
      BY <1>1, <2>1
    <3>. QED
      BY <1>1, <1>4, <2>1, <3>1
  <2>2. CASE ~(k <= r)
    <3>1. k - r \in 1..z /\ k > r /\ k <= r + z
      BY <1>1, <1>2, <2>2
    <3>. QED
      BY <1>3, <1>4, <2>2, <3>1
  <2>. QED
    BY <2>1, <2>2
<1>7. o = d
  BY <1>5, <1>6 DEF LastPiece
<1>. QED
  BY <1>7 DEF o, f, z

(* The last block, compressed.                                             *)
ClosedContext(h, B, x, m, n, r, rest) ==
  Context(h, B, r, n * B + r, Later(EndTwk(n, rest)),
          Append(Units(x, m, B, n), LastUnit(m, B, n, r, rest)), LastPiece(m, B, n, r))

LEMMA FinalCloses ==
  ASSUME NEW c, NEW h, NEW B \in Nat \ {0}, NEW x, NEW m, NEW rest, NEW n, NEW r, NEW b,
         HoldsBack(c, h, B, x, m, rest, n, r, b)
  PROVE  SK!Skein_512_Final(c)
           = SK!Output(ClosedContext(h, B, x, m, n, r, rest), (h + 7) \div 8)
<1> DEFINE u == n * B
           t == Twk(n, rest)
           w == EndTwk(n, rest)
           X == Units(x, m, B, n)
           o == LastPiece(m, B, n, r)
           d == Context(h, B, r, u, t, X, b)
           d1 == Context(h, B, r, u, w, X, b)
           d2 == Context(h, B, r, u, w, X, o)
           z == ClosedContext(h, B, x, m, n, r, rest)
           pad == [c EXCEPT !.T1.final = TRUE, !.b = SK!Overlay(@, c.bCnt, SK!Zeros(c.B - c.bCnt))]
<1>1. c = d
  BY Zenon DEF HoldsBack, Between
<1>2. [t EXCEPT !.final = TRUE] = w
  BY FinalTweak
<1>3. SK!Overlay(b, r, SK!Zeros(B - r)) = o
  <2>1. Overlay(b, r, Zeros(B - r)) = LastPiece(m, B, n, r)
    BY LastOverlay
  <2>. QED
    BY <2>1, SkeinBytes, Zenon
<1>4. LastUnit(m, B, n, r, rest) = Compressed(o, u + r, w)
  BY Zenon DEF LastUnit
<1>5. pad = d2
  <2>. HIDE DEF u, t, w, X, o
  <2>1. c.T1 = t /\ c.b = b /\ c.bCnt = r /\ c.B = B
    BY <1>1 DEF Context
  <2>2. pad = [d EXCEPT !.T1.final = TRUE, !.b = o]
    BY <1>1, <1>3, <2>1 DEF Context
  <2>3. [d EXCEPT !.T1.final = TRUE] = d1
    <3>1. d.T1 = t
      BY DEF Context
    <3>2. [d EXCEPT !.T1.final = TRUE] = [d EXCEPT !.T1 = w]
      BY <1>2, <3>1 DEF Context
    <3>3. [d EXCEPT !.T1 = w] = d1
      BY DEF Context
    <3>. HIDE DEF d, d1
    <3>. QED
      BY <3>2, <3>3
  <2>4. [d1 EXCEPT !.b = o] = d2
    BY DEF Context
  <2>. HIDE DEF d, d1, d2, pad
  <2>. QED
    BY <2>2, <2>3, <2>4
<1>6. c.bCnt = r /\ c.hashBitLen = h /\ d2.b = o
  BY <1>1 DEF Context
<1>7. SK!Skein_512_Final(c)
        = SK!Output(SK!Skein_512_Process_Block(d2, <<o>>, r), (h + 7) \div 8)
  <2>1. SK!Skein_512_Final(c)
          = SK!Output(SK!Skein_512_Process_Block(pad, <<pad.b>>, c.bCnt),
                      (c.hashBitLen + 7) \div 8)
    BY Zenon DEF SK!Skein_512_Final
  <2>. HIDE DEF pad, d2, o
  <2>. QED
    BY <1>5, <1>6, <2>1, Zenon
<1>8. SK!Skein_512_Process_Block(d2, <<o>>, r) = SK!Process_One(d2, o, r)
  BY ProcessSingle
<1>9. SK!Process_One(d2, o, r)
        = Context(h, B, r, u + r, Later(w), Append(X, Compressed(o, u + r, w)), o)
  <2>. HIDE DEF u, w, X, o
  <2>. QED
    BY ProcessContext
<1>10. SK!Process_One(d2, o, r) = z
  <2>1. z = Context(h, B, r, u + r, Later(w), Append(X, Compressed(o, u + r, w)), o)
    BY <1>4, Zenon DEF ClosedContext
  <2>. HIDE DEF z, d2
  <2>. QED
    BY <1>9, <2>1, Zenon
<1>. QED
  BY <1>7, <1>8, <1>10, Zenon

(* The output function starts every block from the same chaining value.    *)
OutputX(c, B, i) ==
  SK!Skein_512_Process_Block(SK!Skein_Start_New_Type(c, "OUT", TRUE),
                             <<Counter(B, i)>>, CounterBytes).X

LEMMA OutputBlock ==
  ASSUME SK!SkeinAssumption, NEW h, NEW B, NEW cnt, NEW T0, NEW t, NEW X, NEW b, NEW i
  PROVE  OutputX(Context(h, B, cnt, T0, t, X, b), B, i) = Append(X, CounterUnit(B, i))
<1> DEFINE ty == "OUT"
           yes == TRUE
           zero == 0
           w == Opening(ty, yes)
           blk == Counter(B, i)
           s == Context(h, B, zero, zero, w, X, b)
           y == Append(X, Compressed(blk, zero + CounterBytes, w))
           e == Context(h, B, zero, zero + CounterBytes, Later(w), y, b)
<1>1. SK!Skein_Start_New_Type(Context(h, B, cnt, T0, t, X, b), ty, yes)
        = Context(h, B, 0, 0, Opening(ty, yes), X, b)
  <2>. HIDE DEF ty, yes
  <2>. QED
    BY StartContext
<1>2. SK!Skein_512_Process_Block(s, <<blk>>, CounterBytes) = SK!Process_One(s, blk, CounterBytes)
  BY ProcessSingle
<1>3. SK!Process_One(s, blk, CounterBytes) = e
  <2>. HIDE DEF zero, w, blk
  <2>. QED
    BY ProcessContext
<1>4. e.X = y
  BY DEF Context
<1>5. zero + CounterBytes = CounterBytes
  BY DEF SK!SkeinAssumption
<1>6. y = Append(X, CounterUnit(B, i))
  BY <1>5, Zenon DEF CounterUnit, Opening
<1>7. SK!Skein_Start_New_Type(Context(h, B, cnt, T0, t, X, b), ty, yes) = s
  BY <1>1, Zenon
<1>. HIDE DEF s, e, y, blk
<1>8. SK!Skein_512_Process_Block(
         SK!Skein_Start_New_Type(Context(h, B, cnt, T0, t, X, b), ty, yes),
         <<blk>>, CounterBytes).X = y
  BY <1>2, <1>3, <1>4, <1>7, Zenon
<1>. QED
  BY <1>6, <1>8, Zenon DEF blk, OutputX

(* How many bytes of the i-th block belong to the output.                  *)
LEMMA OutputSize ==
  ASSUME NEW B \in Nat \ {0}, NEW v \in Nat, NEW i \in 1 .. (RoundUp(v, B) \div B)
  PROVE  SK!Min({B, v - (i - 1) * B}) = IF i * B <= v THEN B ELSE v % B
<1> DEFINE k == (v + B - 1) \div B
           q == (v + B - 1) % B
           j == i - 1
           u == j * B
<1>1. k \in Nat /\ q \in 0 .. B - 1 /\ v + B - 1 = k * B + q
  <2> DEFINE a == v + B - 1
  <2>1. a \in Nat /\ B > 0 /\ B \in Nat
    OBVIOUS
  <2>2. a \div B \in Nat /\ a % B \in 0 .. B - 1 /\ a = (a \div B) * B + (a % B)
    <3>. HIDE DEF a
    <3>. QED
      BY <2>1, Euclid
  <2>. QED
    BY <2>2
<1>. HIDE DEF k, q
<1>2. RoundUp(v, B) \div B = k
  <2>1. RoundUp(v, B) = k * B
    BY DEF RoundUp, k
  <2>2. (k * B + 0) \div B = k
    <3> DEFINE z == 0
    <3>1. z \in 0 .. B - 1
      OBVIOUS
    <3>2. (k * B + z) \div B = k
      <4>. HIDE DEF z
      <4>. QED
        BY <1>1, <3>1, WholeAndRest
    <3>. QED
      BY <3>2
  <2>3. k * B + 0 = k * B
    <3> DEFINE kb == k * B
    <3>1. kb \in Nat
      BY <1>1, Product
    <3>. HIDE DEF kb
    <3>2. kb + 0 = kb
      BY <3>1
    <3>. QED
      BY <3>2 DEF kb
  <2>. QED
    BY <2>1, <2>2, <2>3
<1>3. i \in 1..k /\ j \in Nat /\ j + 1 = i /\ j <= k - 1
  <2>1. i \in 1..k
    BY <1>2
  <2>. QED
    BY <1>1, <2>1
<1>4. u \in Nat /\ i * B = u + B
  <2>1. u \in Nat /\ (j + 1) * B = u + B
    <3>. HIDE DEF j
    <3>. QED
      BY <1>3, Product
  <2>. QED
    BY <1>3, <2>1
<1>5. u + B <= v + B - 1
  <2>1. i * B <= k * B
    <3>1. i \in Nat /\ i <= k /\ B \in Nat
      BY <1>1, <1>3
    <3>. QED
      BY <1>1, <3>1, Monotone
  <2> DEFINE kb == k * B
  <2>2. kb \in Nat
    BY <1>1, Product
  <2>3. v + B - 1 = kb + q /\ u + B <= kb
    BY <1>1, <1>4, <2>1
  <2>4. q \in Nat /\ u \in Nat
    BY <1>1, <1>4
  <2>. HIDE DEF kb, u
  <2>. QED
    BY ONLY <2>2, <2>3, <2>4, B \in Nat, v \in Nat
<1>6. SK!Min({B, v - u}) = IF u + B <= v THEN B ELSE v % B
  <2> DEFINE s == v - u
  <2>1. s \in Int /\ B \in Int
    <3>. HIDE DEF u
    <3>. QED
      BY <1>4
  <2>2. SK!Min({B, s}) = IF B <= s THEN B ELSE s
    <3>. HIDE DEF s
    <3>. QED
      BY <2>1, Smaller
  <2>3. B <= s <=> u + B <= v
    <3>. HIDE DEF u
    <3>. QED
      BY <1>4
  <2>4. ASSUME ~ (u + B <= v)
        PROVE  v % B = s
    <3>1. s \in 0 .. B - 1 /\ v = u + s
      <4>. HIDE DEF u
      <4>. QED
        BY <1>4, <1>5, <2>4
    <3>2. (j * B + s) % B = s
      <4>. HIDE DEF j, s
      <4>. QED
        BY <1>3, <3>1, WholeAndRest
    <3>. QED
      BY <3>1, <3>2
  <2>. QED
    BY <2>2, <2>3, <2>4
<1>. QED
  BY <1>4, <1>6

(* Append is the concatenation of one element.                             *)
LEMMA AppendJoins ==
  ASSUME NEW s, IsSeq(s), NEW e
  PROVE  Append(s, e) = s \o <<e>>
<1> DEFINE o == <<e>>
           p == s \o o
           a == Append(s, e)
<1>1. IsSeq(o) /\ Len(o) = 1 /\ o[1] = e
  BY OneElement
<1>. HIDE DEF o
<1>2. /\ IsSeq(p) /\ Len(p) = Len(s) + Len(o) /\ \A i \in 1..Len(s) : p[i] = s[i]
      /\ \A i \in 1..Len(o) : p[Len(s) + i] = o[i]
  <2>1. IsSeq(s) /\ IsSeq(o)
    BY <1>1
  <2>. QED
    BY <2>1, Joined
<1>3. /\ IsSeq(a) /\ Len(a) = Len(s) + 1 /\ \A i \in 1..Len(s) : a[i] = s[i]
      /\ a[Len(s) + 1] = e
  BY Appended
<1>4. Len(s) \in Nat
  BY DEF IsSeq
<1>. HIDE DEF p, a
<1>5. p[Len(s) + 1] = e /\ Len(p) = Len(a)
  BY <1>1, <1>2, <1>3
<1>6. ASSUME NEW i \in 1..Len(a)
      PROVE  a[i] = p[i]
  <2>1. i \in 1..Len(s) \/ i = Len(s) + 1
    BY <1>3, <1>4
  <2>. QED
    BY <1>2, <1>3, <1>5, <2>1
<1>7. a = p
  BY <1>2, <1>3, <1>5, <1>6, SameSeq
<1>. QED
  BY <1>7 DEF a, p, o

(* One block of output.                                                    *)
OutBlock(X, n) == [X |-> X, n |-> n]

LEMMA OutputForm ==
  ASSUME NEW c, NEW v
  PROVE  SK!Output(c, v)
           = [i \in 1 .. (RoundUp(v, c.B) \div c.B) |->
                OutBlock(OutputX(c, c.B, i - 1),
                         SK!Min({c.B, v - (i - 1) * c.B}))]
BY SkeinBytes, Zenon DEF SK!Output, OutputX, OutBlock, Counter, SK!Num, Num

Outputs(B, h, t, v) ==
  [i \in 1 .. (RoundUp(v, B) \div B) |->
     OutBlock(SK!Start(B, h) \o SK!UBI(B, t) \o <<CounterUnit(B, i - 1)>>,
              IF i * B <= v THEN B ELSE v % B)]

LEMMA ReferenceForm ==
  ASSUME NEW B, NEW h, NEW t
  PROVE  SK!ReferenceOutput(B, h, t) = Outputs(B, h, t, (h + 7) \div 8)
BY SkeinBytes, Zenon
   DEF SK!ReferenceOutput, Outputs, OutBlock, CounterUnit, Compressed, Counter, SK!Num, Num

LEMMA HeldDivided ==
  ASSUME NEW c, NEW h, NEW B \in Nat \ {0}, NEW x, NEW m, NEW rest, NEW n, NEW r, NEW b,
         HoldsBack(c, h, B, x, m, rest, n, r, b)
  PROVE  Divided(m, B, n, r)
BY DEF HoldsBack, Divided

(* Final returns the reference's output.                                   *)
LEMMA FinalReference ==
  ASSUME SK!SkeinAssumption, NEW c, NEW h \in Nat, NEW B \in Nat \ {0}, NEW t \in Nat,
         HeldBack(c, h, B, FirstUnit(B, h), SK!Message(t), t % 8)
  PROVE  SK!Skein_512_Final(c) = SK!ReferenceOutput(B, h, t)
<1> DEFINE m == SK!Message(t)
           x == FirstUnit(B, h)
           rest == t % 8
           v == (h + 7) \div 8
           k == RoundUp(v, B) \div B
<1>1. PICK n, r, b : HoldsBack(c, h, B, x, m, rest, n, r, b)
  BY DEF HeldBack
<1> DEFINE z == ClosedContext(h, B, x, m, n, r, rest)
           F == Append(Units(x, m, B, n), LastUnit(m, B, n, r, rest))
           G == SK!Start(B, h) \o SK!UBI(B, t)
           got(i) == OutputX(z, B, i - 1)
           width(i) == SK!Min({B, v - (i - 1) * B})
<1>2. SK!Skein_512_Final(c) = SK!Output(z, v)
  <2>. HIDE DEF m, x, rest
  <2>. QED
    BY <1>1, FinalCloses
<1>3. z.B = B
  BY DEF ClosedContext, Context
<1>4. SK!Output(z, v) = [i \in 1..k |-> OutBlock(got(i), width(i))]
  <2>1. SK!Output(z, v)
           = [i \in 1 .. (RoundUp(v, z.B) \div z.B) |->
                OutBlock(OutputX(z, z.B, i - 1),
                         SK!Min({z.B, v - (i - 1) * z.B}))]
    <3>. HIDE DEF z, v
    <3>. QED
      BY OutputForm
  <2>. HIDE DEF z, v
  <2>. QED
    BY <1>3, <2>1, Zenon
<1>5. v \in Nat
  <2> DEFINE a == h + 7
  <2>1. a \in Nat
    OBVIOUS
  <2>2. a \div 8 \in Nat
    <3>. HIDE DEF a
    <3>. QED
      BY <2>1, Euclid
  <2>. QED
    BY <2>2
<1>6. F = G
  <2>1. SK!Start(B, h) = <<x>>
    BY StartIsFirst
  <2>2. Divided(m, B, n, r)
    <3>. HIDE DEF m, x, rest
    <3>. QED
      BY <1>1, HeldDivided
  <2>3. Append(Units(x, m, B, n), LastUnit(m, B, n, r, t % 8)) = <<x>> \o SK!UBI(B, t)
    <3>1. MessageCut(t, m, B, n, r)
      BY <2>2 DEF MessageCut
    <3>. HIDE DEF x, m
    <3>2. IsUbi(t, m, B, n, r, x)
      BY <3>1, UnitsAreUbi
    <3>. QED
      BY <3>2, Zenon DEF IsUbi
  <2>. QED
    BY <2>1, <2>3, Zenon
<1>7. IsSeq(F)
  <2>1. n \in Nat
    BY <1>1 DEF HoldsBack
  <2>2. IsSeq(Units(x, m, B, n))
    <3>. HIDE DEF x, m
    <3>. QED
      BY <2>1, UnitsSeq
  <2> DEFINE u == Units(x, m, B, n)
             l == LastUnit(m, B, n, r, rest)
  <2>3. IsSeq(Append(u, l))
    <3>1. IsSeq(u)
      BY <2>2
    <3>. HIDE DEF u, l
    <3>. QED
      BY <3>1, Appended
  <2>. QED
    BY <2>3
<1>8. ASSUME NEW i \in 1..k
      PROVE  got(i) = G \o <<CounterUnit(B, i - 1)>>
  <2>1. got(i) = Append(F, CounterUnit(B, i - 1))
    <3> DEFINE a == n * B + r
               w == Later(EndTwk(n, rest))
               o == LastPiece(m, B, n, r)
               j == i - 1
    <3>1. OutputX(Context(h, B, r, a, w, F, o), B, j) = Append(F, CounterUnit(B, j))
      <4>. HIDE DEF a, w, F, o, j
      <4>. QED
        BY OutputBlock
    <3>. QED
      BY <3>1, Zenon DEF ClosedContext
  <2> DEFINE e == CounterUnit(B, i - 1)
  <2>2. Append(F, e) = F \o <<e>>
    <3>. HIDE DEF F, e
    <3>. QED
      BY <1>7, AppendJoins
  <2>. HIDE DEF F, G, e
  <2>. QED
    BY <1>6, <2>1, <2>2, Zenon DEF e
<1>9. ASSUME NEW i \in 1..k
      PROVE  width(i) = IF i * B <= v THEN B ELSE v % B
  <2>. HIDE DEF v
  <2>. QED
    BY <1>5, OutputSize
<1>10. SK!ReferenceOutput(B, h, t)
        = [i \in 1..k |-> OutBlock(G \o <<CounterUnit(B, i - 1)>>,
                                   IF i * B <= v THEN B ELSE v % B)]
  <2>1. SK!ReferenceOutput(B, h, t) = Outputs(B, h, t, v)
    BY ReferenceForm
  <2>. HIDE DEF v
  <2>. QED
    BY <2>1, Zenon DEF Outputs
<1>. HIDE DEF got, width, G, k
<1>11. [i \in 1..k |-> OutBlock(got(i), width(i))]
         = [i \in 1..k |-> OutBlock(G \o <<CounterUnit(B, i - 1)>>,
                                    IF i * B <= v THEN B ELSE v % B)]
  <2>1. \A i \in 1..k : OutBlock(got(i), width(i))
                         = OutBlock(G \o <<CounterUnit(B, i - 1)>>,
                                    IF i * B <= v THEN B ELSE v % B)
    BY <1>8, <1>9, Zenon
  <2>. HIDE DEF v
  <2>. QED
    BY <2>1, Zenon
<1>. QED
  BY <1>2, <1>4, <1>10, <1>11, Zenon

-----------------------------------------------------------------------------
(* The context between two calls.                                          *)
SkeinHeld(c, t) ==
  \E h \in HashLengths, B \in {Block512, Block1024} :
    HeldBack(c, h, B, FirstUnit(B, h), SK!Message(t), t % 8)

SkeinInv ==
  /\ mode \in {"new", "open", "done"} /\ passed \in Nat
  /\ mode = "new" => passed = 0
  /\ mode = "open" => SkeinHeld(ctx, passed)
  /\ SK!HashesWholeMessage

LEMMA NoMessage ==
  SK!Message(0) = <<>> /\ 0 % 8 = 0
<1> DEFINE z == 0
           m == SK!Message(z)
           e == <<>>
<1>1. z \in Nat /\ z = 0
  OBVIOUS
<1>2. IsSeq(m) /\ (Len(m) = 0 <=> z = 0)
  <2>. HIDE DEF z
  <2>. QED
    BY <1>1, MessageSeq
<1>3. IsSeq(e) /\ Len(e) = 0
  BY DEF IsSeq
<1>. HIDE DEF m, e
<1>4. Len(m) = Len(e) /\ \A i \in 1..Len(m) : m[i] = e[i]
  BY <1>1, <1>2, <1>3
<1>5. m = e
  BY <1>2, <1>3, <1>4, SameSeq
<1>6. 0 % 8 = 0
  OBVIOUS
<1>. QED
  BY <1>5, <1>6 DEF m, e, z

LEMMA SkeinInitCall ==
  ASSUME SK!SkeinAssumption, SkeinInv, NEW h \in HashLengths, SK!InitCall(h)
  PROVE  SkeinInv'
<1> DEFINE B == IF h <= MaxHashBits512 THEN Block512 ELSE Block1024
           c == SK!Skein_512_Init(B, h)
<1>1. B \in {Block512, Block1024} /\ B \in Nat \ {0}
  BY DEF SK!SkeinAssumption
<1>2. ctx' = c /\ mode' = "open" /\ passed' = passed /\ passed = 0
  <2>1. ctx' = IF h <= MaxHashBits512 THEN SK!Skein_512_Init(Block512, h)
               ELSE SK!Skein_512_Init(Block1024, h)
    BY Zenon DEF SK!InitCall, SK!Skein1024_Init
  <2>2. ctx' = c
    BY <2>1, Zenon
  <2>. QED
    BY <2>2 DEF SK!InitCall, SkeinInv
<1>. HIDE DEF B, c
<1>3. HeldBack(c, h, B, FirstUnit(B, h), <<>>, 0)
  BY <1>1, InitHolds DEF c
<1>4. HeldBack(c, h, B, FirstUnit(B, h), SK!Message(0), 0 % 8)
  BY <1>3, NoMessage, Zenon
<1>5. SkeinHeld(c, 0)
  BY <1>1, <1>4, Zenon DEF SkeinHeld
<1>6. SkeinHeld(ctx, passed)'
  <2>1. SkeinHeld(ctx', passed')
    BY <1>2, <1>5, Zenon
  <2>. QED
    BY <2>1, Zenon DEF SkeinHeld
<1>7. SK!HashesWholeMessage'
  BY <1>2 DEF SK!HashesWholeMessage
<1>. QED
  BY <1>2, <1>6, <1>7 DEF SkeinInv

LEMMA SkeinUpdateCall ==
  ASSUME SK!SkeinAssumption, SkeinInv, NEW v \in Nat, SK!UpdateCall(v)
  PROVE  SkeinInv'
<1> DEFINE d == SK!Data(passed \div 8, v)
           t == passed + v
<1>1. /\ mode = "open" /\ mode' = "open" /\ passed % 8 = 0 /\ passed' = t
      /\ ctx' = SK!Update(ctx, d, v) /\ passed \in Nat /\ t \in Nat
  BY DEF SK!UpdateCall, SkeinInv
<1>2. PICK h \in HashLengths, B \in {Block512, Block1024} :
        HeldBack(ctx, h, B, FirstUnit(B, h), SK!Message(passed), passed % 8)
  BY <1>1 DEF SkeinInv, SkeinHeld
<1>3. B \in Nat \ {0}
  BY DEF SK!SkeinAssumption
<1> DEFINE x == FirstUnit(B, h)
<1>. HIDE DEF x
<1>4. HeldBack(ctx, h, B, x, SK!Message(passed), 0)
  BY <1>1, <1>2, Zenon DEF x
<1>5. HeldBack(SK!Update(ctx, d, v), h, B, x, SK!Message(t), t % 8)
  BY <1>1, <1>3, <1>4, UpdateCallHolds
<1>. HIDE DEF d, t
<1>6. SkeinHeld(ctx', t)
  BY <1>1, <1>5, Zenon DEF SkeinHeld, x
<1>7. SkeinHeld(ctx, passed)'
  <2>1. SkeinHeld(ctx', passed')
    BY <1>1, <1>6, Zenon
  <2>. QED
    BY <2>1, Zenon DEF SkeinHeld
<1>8. SK!HashesWholeMessage'
  BY <1>1 DEF SK!HashesWholeMessage
<1>. QED
  BY <1>1, <1>7, <1>8 DEF SkeinInv

LEMMA HeldContext ==
  ASSUME NEW c, NEW h, NEW B, NEW x, NEW m, NEW rest, NEW n, NEW r, NEW b,
         HoldsBack(c, h, B, x, m, rest, n, r, b)
  PROVE  /\ c.B = B /\ c.hashBitLen = h /\ c.bCnt = r /\ c.b = b
         /\ c.X = Units(x, m, B, n) /\ c.T1.bitPad = (rest # 0)
<1> DEFINE t == Twk(n, rest)
           X == Units(x, m, B, n)
           u == n * B
<1>1. c = Context(h, B, r, u, t, X, b)
  BY Zenon DEF HoldsBack, Between
<1>2. t.bitPad = (rest # 0)
  BY DEF Twk
<1>. HIDE DEF t, X, u
<1>3. c.B = B /\ c.hashBitLen = h /\ c.bCnt = r /\ c.b = b /\ c.X = X /\ c.T1 = t
  BY <1>1 DEF Context
<1>. QED
  BY <1>2, <1>3 DEF X

LEMMA SkeinFinal ==
  ASSUME SK!SkeinAssumption, SkeinInv, SK!Final
  PROVE  SkeinInv'
<1>1. /\ mode = "open" /\ mode' = "done" /\ passed' = passed /\ ctx' = ctx
      /\ passed \in Nat
  BY DEF SK!Final, SkeinInv
<1>2. hashVal' = SK!Skein_512_Final(ctx)
  BY Zenon DEF SK!Final, SK!Skein1024_Final
<1>3. PICK h \in HashLengths, B \in {Block512, Block1024} :
        HeldBack(ctx, h, B, FirstUnit(B, h), SK!Message(passed), passed % 8)
  BY <1>1 DEF SkeinInv, SkeinHeld
<1>4. B \in Nat \ {0} /\ h \in Nat
  BY DEF SK!SkeinAssumption
<1>5. SK!Skein_512_Final(ctx) = SK!ReferenceOutput(B, h, passed)
  BY <1>1, <1>3, <1>4, FinalReference
<1>6. ctx.B = B /\ ctx.hashBitLen = h
  BY <1>3, HeldContext DEF HeldBack
<1>7. hashVal' = SK!ReferenceOutput(ctx'.B, ctx'.hashBitLen, passed')
  BY <1>1, <1>2, <1>5, <1>6, Zenon
<1>8. SK!HashesWholeMessage'
  BY <1>7, Zenon DEF SK!HashesWholeMessage, SK!ReferenceOutput
<1>. QED
  BY <1>1, <1>8 DEF SkeinInv

LEMMA SkeinInduction ==
  ASSUME SK!SkeinAssumption
  PROVE  SK!Spec => []SkeinInv
<1>1. SK!Init => SkeinInv
  BY DEF SK!Init, SkeinInv, SK!HashesWholeMessage
<1>2. ASSUME SkeinInv, [SK!Next]_SK!vars
      PROVE  SkeinInv'
  <2>1. CASE UNCHANGED SK!vars
    <3>1. mode' = mode /\ passed' = passed /\ ctx' = ctx /\ hashVal' = hashVal
      BY <2>1 DEF SK!vars
    <3>2. SkeinHeld(ctx, passed) => SkeinHeld(ctx', passed')
      BY <3>1, Zenon
    <3>3. SkeinHeld(ctx', passed') => SkeinHeld(ctx, passed)'
      BY Zenon DEF SkeinHeld
    <3>4. SK!HashesWholeMessage'
      BY <1>2, <3>1, Zenon DEF SkeinInv, SK!HashesWholeMessage, SK!ReferenceOutput
    <3>. QED
      BY <1>2, <3>1, <3>2, <3>3, <3>4 DEF SkeinInv
  <2>2. ASSUME NEW h \in HashLengths, SK!InitCall(h)
        PROVE  SkeinInv'
    BY <1>2, <2>2, SkeinInitCall
  <2>3. ASSUME NEW n \in 0..(MaxBits \div 8), NEW r \in Rems, SK!UpdateCall(8 * n + r)
        PROVE  SkeinInv'
    <3> DEFINE v == 8 * n + r
    <3>1. v \in Nat
      <4>1. r \in 0..7 /\ n \in Nat
        BY DEF SK!SkeinAssumption
      <4>. QED
        BY <4>1
    <3>2. SK!UpdateCall(v)
      BY <2>3
    <3>. HIDE DEF v
    <3>. QED
      BY <1>2, <3>1, <3>2, SkeinUpdateCall
  <2>4. ASSUME SK!Final
        PROVE  SkeinInv'
    BY <1>2, <2>4, SkeinFinal
  <2>. QED
    BY <1>2, <2>1, <2>2, <2>3, <2>4 DEF SK!Next
<1>. QED
  BY <1>1, <1>2, PTL DEF SK!Spec

(* Skein, the code's context against the reference: however skein_hash's   *)
(* message comes in pieces (skein.c Init, Update and Final), the output is *)
(* the one of the message cut into blocks at once, with the right position *)
(* and flags in every tweak, for every size of block, length of hash and   *)
(* message.                                                                *)
THEOREM SkeinHashesWholeMessage ==
  ASSUME SK!SkeinAssumption
  PROVE  SK!Spec => []SK!HashesWholeMessage
<1>1. SkeinInv => SK!HashesWholeMessage
  BY DEF SkeinInv
<1>2. SK!Spec => []SkeinInv
  BY SkeinInduction
<1>. QED
  BY <1>1, <1>2, PTL

(* Between two calls of Skein_512_Update the last block is still in the    *)
(* buffer: the chaining value holds the blocks before it and nothing else. *)
THEOREM SkeinHoldsLastBlockBack ==
  ASSUME SK!SkeinAssumption
  PROVE  SK!Spec => []SK!HoldsLastBlockBack
<1>1. ASSUME SkeinInv
      PROVE  SK!HoldsLastBlockBack
  <2> SUFFICES ASSUME mode = "open"
               PROVE  SK!HoldsLastBlockBack
    BY Zenon DEF SK!HoldsLastBlockBack
  <2> DEFINE m == SK!Message(passed)
             rest == passed % 8
             ubi == SK!UBI(ctx.B, passed)
  <2>1. passed \in Nat /\ SkeinHeld(ctx, passed)
    BY <1>1 DEF SkeinInv
  <2>2. PICK h \in HashLengths, B \in {Block512, Block1024} :
          HeldBack(ctx, h, B, FirstUnit(B, h), m, rest)
    BY <2>1 DEF SkeinHeld
  <2>3. B \in Nat \ {0}
    BY DEF SK!SkeinAssumption
  <2> DEFINE x == FirstUnit(B, h)
             k == IF passed = 0 THEN 0 ELSE (Len(m) - 1) \div ctx.B
  <2>4. PICK n, r, b : HoldsBack(ctx, h, B, x, m, rest, n, r, b)
    BY <2>2 DEF HeldBack
  <2>. HIDE DEF x, rest
  <2>5. /\ ctx.B = B /\ ctx.hashBitLen = h /\ ctx.bCnt = r /\ ctx.b = b
        /\ ctx.X = Units(x, m, B, n) /\ ctx.T1.bitPad = (rest # 0)
    <3>. HIDE DEF m
    <3>. QED
      BY <2>4, HeldContext
  <2>6. Divided(m, B, n, r)
    <3>. HIDE DEF m
    <3>. QED
      BY <2>3, <2>4, HeldDivided
  <2>7. k = n
    <3>1. Len(m) = 0 <=> passed = 0
      BY <2>1, MessageSeq
    <3>. HIDE DEF m
    <3>2. (Len(m) = 0 <=> r = 0) /\ (r # 0 => (Len(m) - 1) \div B = n)
      BY <2>6, DividedSize
    <3>3. r = 0 => n = 0
      BY <2>6 DEF Divided
    <3>. QED
      BY <2>5, <3>1, <3>2, <3>3
  <2>8. ctx.X = SK!Start(ctx.B, ctx.hashBitLen) \o SubSeq(ubi, 1, k)
    <3>1. MessageCut(passed, m, B, n, r)
      BY <2>1, <2>6 DEF MessageCut
    <3>. HIDE DEF m, k
    <3>2. IsUbi(passed, m, B, n, r, x)
      BY <3>1, UnitsAreUbi
    <3>3. Units(x, m, B, n) = <<x>> \o SubSeq(SK!UBI(B, passed), 1, n)
      BY <3>2, Zenon DEF IsUbi
    <3>4. SK!Start(B, h) = <<x>>
      BY StartIsFirst DEF x
    <3>. QED
      BY <2>5, <2>7, <3>3, <3>4, Zenon
  <2>9. SubSeq(ctx.b, 1, ctx.bCnt) = From(m, k * ctx.B)
    <3> DEFINE f == SubSeq(b, 1, r)
               w == n * B
               g == From(m, w)
    <3>1. /\ IsSeq(m) /\ n \in Nat /\ r \in 0..B /\ Len(m) = w + r
          /\ IsSeq(b) /\ Len(b) = B /\ \A j \in 1..r : b[j] = m[w + j]
      <4>. HIDE DEF m
      <4>. QED
        BY <2>4 DEF HoldsBack
    <3>2. w \in Nat
      BY <2>3, <3>1, Product
    <3>. HIDE DEF m, k, w
    <3>3. r \in Nat /\ r <= Len(b) /\ w <= Len(m) /\ Len(m) - w = r
      BY <2>3, <3>1, <3>2
    <3>4. IsSeq(f) /\ Len(f) = r /\ \A j \in 1..r : f[j] = b[j]
      BY <3>1, <3>3, FrontBytes
    <3>5. IsSeq(g) /\ Len(g) = r /\ \A j \in 1..r : g[j] = m[w + j]
      BY <3>1, <3>2, <3>3, FromBytes
    <3>. HIDE DEF f, g
    <3>6. f = g
      <4>1. Len(f) = Len(g) /\ \A j \in 1..Len(f) : f[j] = g[j]
        BY <3>1, <3>4, <3>5
      <4>. QED
        BY <3>4, <3>5, <4>1, SameSeq
    <3>. QED
      BY <2>5, <2>7, <3>6, Zenon DEF f, g, w
  <2>10. ctx.T1.bitPad = (passed % 8 # 0)
    BY <2>5 DEF rest
  <2>. QED
    BY <2>8, <2>9, <2>10, SkeinBytes, Zenon DEF SK!HoldsLastBlockBack
<1>2. SK!Spec => []SkeinInv
  BY SkeinInduction
<1>. QED
  BY <1>1, <1>2, PTL
=============================================================================
