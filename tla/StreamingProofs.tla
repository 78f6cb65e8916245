--------------------------- MODULE StreamingProofs ---------------------------
(***************************************************************************)
(* JH and Groestl compress the padded message, for every length in bits,   *)
(* every way of cutting it into pieces and every size of a block and of    *)
(* the length field.  The bytes that JH's Update copies from behind its    *)
(* data never reach the compression function, and Groestl's two counters   *)
(* give the number of blocks although the first one wraps.                 *)
(***************************************************************************)
EXTENDS Jh, SequenceTheorems, TLAPS

IsSeq(s) == Len(s) \in Nat /\ s = [i \in 1..Len(s) |-> s[i]]

(* Byte k of a message of t bits.                                          *)
MsgByte(k, t) == IF 8 * k <= t THEN Msg(k) ELSE Cut(k, t % 8)

WholeBlock(j) == [m \in 1..BLOCK |-> Msg((j - 1) * BLOCK + m)]

(* The hash state and the arguments of Update as records, and a buffer     *)
(* after memcpy.                                                           *)
Rec(x, b, t, h) == [x |-> x, buffer |-> b, databitlen |-> t, datasize_in_buffer |-> h]
Args(d, i, p) == [data |-> d, index |-> i, databitlen |-> p]
Into(b, at, data, index, n) ==
  Overlay(b, at, [i \in 1..n |-> IF index + i <= Len(data) THEN data[index + i] ELSE Junk])
ByteOf(b, at, data, index, n, i) ==
  IF i > at /\ i <= at + n
  THEN IF index + (i - at) <= Len(data) THEN data[index + (i - at)] ELSE Junk
  ELSE b[i]

-----------------------------------------------------------------------------
(* The inductive invariant.  Of a message of t bits the first blocks have  *)
(* been compressed, h bits are in the buffer, whatever lies behind them,   *)
(* and p bits are still in the caller's data; only one of h and p is not   *)
(* zero.                                                                   *)
Types(x, b, t, h, p, data, index) ==
  /\ IsSeq(x) /\ IsSeq(b) /\ Len(b) = BLOCK /\ IsSeq(data)
  /\ t \in Nat /\ h \in Nat /\ p \in Nat /\ index \in Nat

Counted(n, t, h, p) ==
  /\ t = 8 * (n * BLOCK) + h + p
  /\ h < 8 * BLOCK /\ (h > 0 => p = 0)

Compressed(x) == \A j \in 1..Len(x) : x[j] = WholeBlock(j)

Held(b, t, h, from) ==
  \A k \in 1..BLOCK : 8 * (k - 1) < h => b[k] = MsgByte(from + k, t)

Pending(data, index, p, t, from) ==
  \A i \in Nat \ {0} : 8 * (i - 1) < p =>
     index + i <= Len(data) /\ data[index + i] = MsgByte(from + i, t)

Good(x, b, t, h, p, data, index) ==
  /\ Types(x, b, t, h, p, data, index)
  /\ Counted(Len(x), t, h, p)
  /\ Compressed(x)
  /\ Held(b, t, h, Len(x) * BLOCK)
  /\ Pending(data, index, p, t, Len(x) * BLOCK)

IInv ==
  /\ phase \in {"open", "update", "done"}
  /\ state = Rec(state.x, state.buffer, state.databitlen, state.datasize_in_buffer)
  /\ call = Args(call.data, call.index, call.databitlen)
  /\ phase = "open" => call.databitlen = 0
  /\ phase # "done" => Good(state.x, state.buffer, state.databitlen, state.datasize_in_buffer,
                            call.databitlen, call.data, call.index)
  /\ HashesPaddedMessage

-----------------------------------------------------------------------------
(* Sequences.                                                              *)
LEMMA Listed ==
  ASSUME NEW n \in Nat, NEW f, f = [i \in 1..n |-> f[i]]
  PROVE  IsSeq(f) /\ Len(f) = n
<1> DEFINE S == {f[i] : i \in 1..n}
<1>1. f \in [1..n -> S]
  OBVIOUS
<1>2. f \in Seq(S) /\ Len(f) = n
  BY <1>1
<1>. QED
  BY <1>2 DEF IsSeq

LEMMA SameSeq ==
  ASSUME NEW s, IsSeq(s), NEW t, IsSeq(t), Len(s) = Len(t), \A i \in 1..Len(s) : s[i] = t[i]
  PROVE  s = t
BY DEF IsSeq

LEMMA Appended ==
  ASSUME NEW s, IsSeq(s), NEW e
  PROVE  /\ IsSeq(Append(s, e)) /\ Len(Append(s, e)) = Len(s) + 1
         /\ \A i \in 1..Len(s) : Append(s, e)[i] = s[i]
         /\ Append(s, e)[Len(s) + 1] = e
<1> DEFINE S == {s[i] : i \in 1..Len(s)} \cup {e}
<1>1. s \in Seq(S) /\ e \in S
  <2>1. s \in [1..Len(s) -> S] /\ Len(s) \in Nat
    BY DEF IsSeq
  <2>. QED
    BY <2>1
<1>. HIDE DEF S
<1>2. /\ Append(s, e) \in Seq(S) /\ Len(Append(s, e)) = Len(s) + 1
      /\ \A i \in 1..Len(s) : Append(s, e)[i] = s[i]
      /\ Append(s, e)[Len(s) + 1] = e
  BY <1>1, AppendProperties
<1>3. Len(Append(s, e)) \in Nat /\ Append(s, e) \in [1..Len(Append(s, e)) -> S]
  BY <1>2, LenProperties
<1>. QED
  BY <1>2, <1>3 DEF IsSeq

LEMMA Joined ==
  ASSUME NEW s, IsSeq(s), NEW t, IsSeq(t)
  PROVE  /\ IsSeq(s \o t) /\ Len(s \o t) = Len(s) + Len(t)
         /\ \A i \in 1..Len(s) : (s \o t)[i] = s[i]
         /\ \A i \in 1..Len(t) : (s \o t)[Len(s) + i] = t[i]
<1> DEFINE S == {s[i] : i \in 1..Len(s)} \cup {t[i] : i \in 1..Len(t)}
<1>1. s \in Seq(S) /\ t \in Seq(S) /\ Len(s) \in Nat /\ Len(t) \in Nat
  <2>1. s \in [1..Len(s) -> S] /\ Len(s) \in Nat /\ t \in [1..Len(t) -> S] /\ Len(t) \in Nat
    BY DEF IsSeq
  <2>. QED
    BY <2>1
<1>. HIDE DEF S
<1>2. /\ s \o t \in Seq(S) /\ Len(s \o t) = Len(s) + Len(t)
      /\ \A i \in 1 .. Len(s) + Len(t) :
           (s \o t)[i] = IF i <= Len(s) THEN s[i] ELSE t[i - Len(s)]
  BY <1>1, ConcatProperties
<1>3. IsSeq(s \o t)
  <2>1. Len(s \o t) \in Nat /\ s \o t \in [1..Len(s \o t) -> S]
    BY <1>2, LenProperties
  <2>. QED
    BY <2>1 DEF IsSeq
<1>4. \A i \in 1..Len(s) : (s \o t)[i] = s[i]
  BY <1>1, <1>2
<1>5. \A i \in 1..Len(t) : (s \o t)[Len(s) + i] = t[i]
  <2> TAKE i \in 1..Len(t)
  <2>1. Len(s) + i \in 1 .. Len(s) + Len(t) /\ ~(Len(s) + i <= Len(s)) /\ (Len(s) + i) - Len(s) = i
    BY <1>1
  <2>. QED
    BY <1>2, <2>1
<1>. QED
  BY <1>2, <1>3, <1>4, <1>5

(* A block of a sequence.                                                  *)
LEMMA CutOut ==
  ASSUME NEW s, IsSeq(s), NEW lo \in Nat, NEW n \in Nat, n = 0 \/ lo + n <= Len(s)
  PROVE  SubSeq(s, lo + 1, lo + n) = [k \in 1..n |-> s[lo + k]]
<1> DEFINE S == {s[i] : i \in 1..Len(s)}
<1>1. s \in Seq(S) /\ Len(s) \in Nat
  <2>1. s \in [1..Len(s) -> S] /\ Len(s) \in Nat
    BY DEF IsSeq
  <2>. HIDE DEF S
  <2>. QED
    BY <2>1
<1>. HIDE DEF S
<1>2. \A i \in lo + 1 .. lo + n : i \in 1 .. Len(s)
  BY <1>1
<1>. QED
  BY <1>1, <1>2, SubSeqProperties

-----------------------------------------------------------------------------
(* Records and memcpy.                                                     *)
LEMMA RecFields ==
  ASSUME NEW x, NEW b, NEW t, NEW h
  PROVE  /\ Rec(x, b, t, h).x = x /\ Rec(x, b, t, h).buffer = b
         /\ Rec(x, b, t, h).databitlen = t /\ Rec(x, b, t, h).datasize_in_buffer = h
BY DEF Rec

LEMMA ArgsFields ==
  ASSUME NEW d, NEW i, NEW p
  PROVE  Args(d, i, p).data = d /\ Args(d, i, p).index = i /\ Args(d, i, p).databitlen = p
BY DEF Args

LEMMA F8Rec ==
  ASSUME NEW x, NEW b, NEW t, NEW h
  PROVE  F8(Rec(x, b, t, h)) = Rec(Append(x, b), b, t, h)
BY DEF F8, Rec

LEMMA CopyRec ==
  ASSUME NEW x, NEW b, NEW t, NEW h, NEW at, NEW data, NEW index, NEW n
  PROVE  Copy(Rec(x, b, t, h), at, data, index, n) = Rec(x, Into(b, at, data, index, n), t, h)
<1> DEFINE c == Into(b, at, data, index, n)
<1>1. Copy(Rec(x, b, t, h), at, data, index, n) = [Rec(x, b, t, h) EXCEPT !.buffer = c]
  BY RecFields DEF Copy, Into
<1>. HIDE DEF c
<1>2. [Rec(x, b, t, h) EXCEPT !.buffer = c] = Rec(x, c, t, h)
  BY DEF Rec
<1>. QED
  BY <1>1, <1>2 DEF c

LEMMA SizeRec ==
  ASSUME NEW x, NEW b, NEW t, NEW h, NEW n
  PROVE  /\ [Rec(x, b, t, h) EXCEPT !.datasize_in_buffer = n] = Rec(x, b, t, n)
         /\ [Rec(x, b, t, h) EXCEPT !.databitlen = n] = Rec(x, b, n, h)
         /\ [Rec(x, b, t, h) EXCEPT !.buffer = n] = Rec(x, n, t, h)
BY DEF Rec

LEMMA IntoBytes ==
  ASSUME NEW b, Len(b) = BLOCK, BLOCK \in Nat, NEW at \in Nat, NEW data, NEW index \in Nat,
         NEW n \in Nat
  PROVE  /\ IsSeq(Into(b, at, data, index, n)) /\ Len(Into(b, at, data, index, n)) = BLOCK
         /\ \A i \in 1..BLOCK :
              Into(b, at, data, index, n)[i] = ByteOf(b, at, data, index, n, i)
<1> DEFINE d == [i \in 1..n |-> IF index + i <= Len(data) THEN data[index + i] ELSE Junk]
           c == Into(b, at, data, index, n)
<1>1. d = [i \in 1..n |-> d[i]]
  OBVIOUS
<1>2. Len(d) = n
  <2>. HIDE DEF d
  <2>. QED
    BY <1>1, Listed
<1>3. c = [i \in 1..BLOCK |-> IF i > at /\ i <= at + Len(d) THEN d[i - at] ELSE b[i]]
  BY DEF Into, Overlay
<1>4. \A i \in 1..BLOCK : c[i] = IF i > at /\ i <= at + n THEN d[i - at] ELSE b[i]
  <2>. HIDE DEF d, c
  <2>. QED
    BY <1>2, <1>3
<1>5. \A i \in 1..BLOCK : i > at /\ i <= at + n =>
         d[i - at] = IF index + (i - at) <= Len(data) THEN data[index + (i - at)] ELSE Junk
  <2> SUFFICES ASSUME NEW i \in 1..BLOCK, i > at, i <= at + n
               PROVE  d[i - at] = IF index + (i - at) <= Len(data) THEN data[index + (i - at)]
                                  ELSE Junk
    OBVIOUS
  <2>1. i - at \in 1..n
    OBVIOUS
  <2>. QED
    BY <2>1
<1>6. IsSeq(c) /\ Len(c) = BLOCK
  <2>. HIDE DEF d, c
  <2>1. c = [i \in 1..BLOCK |-> c[i]]
    BY <1>3
  <2>. QED
    BY <2>1, Listed
<1>. HIDE DEF d
<1>. QED
  BY <1>4, <1>5, <1>6 DEF ByteOf

-----------------------------------------------------------------------------
(* Arithmetic.                                                             *)
LEMMA Product ==
  ASSUME NEW n \in Nat, NEW b \in Nat
  PROVE  n * b \in Nat /\ (n + 1) * b = n * b + b
BY SMT

(* Positions: q bytes lie in whole blocks.                                 *)
LEMMA NextBlock ==
  ASSUME NEW x, IsSeq(x), BLOCK \in Nat, Compressed(x), NEW c,
         IsSeq(c), Len(c) = BLOCK, \A k \in 1..BLOCK : c[k] = Msg(Len(x) * BLOCK + k)
  PROVE  /\ IsSeq(Append(x, c)) /\ Len(Append(x, c)) = Len(x) + 1
         /\ Compressed(Append(x, c))
         /\ Len(x) \in Nat /\ Len(x) * BLOCK \in Nat
         /\ Len(Append(x, c)) * BLOCK = Len(x) * BLOCK + BLOCK
<1>1. /\ IsSeq(Append(x, c)) /\ Len(Append(x, c)) = Len(x) + 1
      /\ \A i \in 1..Len(x) : Append(x, c)[i] = x[i]
      /\ Append(x, c)[Len(x) + 1] = c
  BY Appended
<1>2. Len(x) \in Nat
  BY DEF IsSeq
<1>3. c = WholeBlock(Len(x) + 1)
  <2>1. (Len(x) + 1) - 1 = Len(x)
    BY <1>2
  <2>. QED
    BY <2>1 DEF IsSeq, WholeBlock
<1>4. ASSUME NEW j \in 1 .. Len(x) + 1
      PROVE  Append(x, c)[j] = WholeBlock(j)
  <2>1. CASE j \in 1..Len(x)
    BY <1>1, <2>1 DEF Compressed
  <2>2. CASE j = Len(x) + 1
    BY <1>1, <1>3, <2>2
  <2>. QED
    BY <1>2, <2>1, <2>2
<1>5. Compressed(Append(x, c))
  BY <1>1, <1>4 DEF Compressed
<1>6. Len(x) * BLOCK \in Nat /\ (Len(x) + 1) * BLOCK = Len(x) * BLOCK + BLOCK
  BY <1>2, Product
<1>. QED
  BY <1>1, <1>2, <1>5, <1>6

(* What a caller passes.                                                   *)
LEMMA DataBytes ==
  ASSUME NEW from \in Nat, NEW bits \in Nat
  PROVE  /\ IsSeq(Data(from, bits))
         /\ Pending(Data(from, bits), 0, bits, 8 * from + bits, from)
<1> DEFINE n == bits \div 8
           r == bits % 8
           A == [i \in 1..n |-> Msg(from + i)]
           c == Cut(from + n + 1, r)
           B == IF r = 0 THEN <<>> ELSE <<c>>
           d == Data(from, bits)
<1>1. n \in Nat /\ r \in 0..7 /\ bits = 8 * n + r /\ (8 * from + bits) % 8 = r
  BY SMT
<1>2. d = A \o B
  BY DEF Data
<1>. HIDE DEF n, r, c, d
<1>3. IsSeq(A) /\ Len(A) = n /\ \A i \in 1..n : A[i] = Msg(from + i)
  <2>1. A = [i \in 1..n |-> A[i]] /\ \A i \in 1..n : A[i] = Msg(from + i)
    OBVIOUS
  <2>. HIDE DEF A
  <2>. QED
    BY <1>1, <2>1, Listed
<1>. HIDE DEF A
<1>4. IsSeq(B) /\ (r = 0 => Len(B) = 0) /\ (r # 0 => Len(B) = 1 /\ B[1] = c)
  <2>1. CASE r = 0
    BY <2>1 DEF IsSeq
  <2>2. CASE r # 0
    BY <2>2 DEF IsSeq
  <2>. QED
    BY <2>1, <2>2
<1>. HIDE DEF B
<1>5. /\ IsSeq(d) /\ (r = 0 => Len(d) = n) /\ (r # 0 => Len(d) = n + 1)
      /\ \A i \in 1..n : d[i] = A[i]
      /\ (r # 0 => d[n + 1] = c)
  <2>1. /\ IsSeq(A \o B) /\ Len(A \o B) = Len(A) + Len(B)
        /\ \A i \in 1..Len(A) : (A \o B)[i] = A[i]
        /\ \A i \in 1..Len(B) : (A \o B)[Len(A) + i] = B[i]
    <3>1. IsSeq(A) /\ IsSeq(B)
      BY <1>3, <1>4
    <3>. QED
      BY <3>1, Joined
  <2>2. /\ IsSeq(d) /\ Len(d) = n + Len(B)
        /\ \A i \in 1..n : d[i] = A[i]
        /\ \A i \in 1..Len(B) : d[n + i] = B[i]
    BY <1>2, <1>3, <2>1
  <2>3. r # 0 => 1 \in 1..Len(B)
    BY <1>4
  <2>4. r # 0 => d[n + 1] = c
    BY <1>4, <2>2, <2>3
  <2>5. (r = 0 => Len(d) = n) /\ (r # 0 => Len(d) = n + 1)
    BY <1>1, <1>4, <2>2
  <2>. QED
    BY <2>2, <2>4, <2>5
<1>6. ASSUME NEW i \in Nat \ {0}, 8 * (i - 1) < bits
      PROVE  0 + i <= Len(d) /\ d[0 + i] = MsgByte(from + i, 8 * from + bits)
  <2>1. CASE i <= n
    <3>1. i \in 1..n /\ 8 * (from + i) <= 8 * from + bits /\ 0 + i = i
      BY <1>1, <2>1
    <3>2. i <= Len(d)
      BY <1>1, <1>5, <2>1
    <3>. QED
      BY <1>3, <1>5, <3>1, <3>2 DEF MsgByte
  <2>2. CASE ~(i <= n)
    <3>1. r # 0 /\ i = n + 1 /\ ~(8 * (from + i) <= 8 * from + bits)
          /\ from + i = from + n + 1 /\ 0 + i = i
      BY <1>1, <1>6, <2>2
    <3>2. Len(d) = n + 1 /\ d[i] = c
      BY <1>5, <3>1
    <3>3. i <= Len(d)
      BY <1>1, <3>1, <3>2
    <3>. QED
      BY <1>1, <3>1, <3>2, <3>3 DEF MsgByte, c
  <2>. QED
    BY <2>1, <2>2
<1>. QED
  BY <1>5, <1>6 DEF Pending, d

-----------------------------------------------------------------------------
LEMMA Numbers ==
  ASSUME BLOCK \in Nat, NEW x, NEW b, NEW t, NEW h, NEW p, NEW data, NEW index,
         Good(x, b, t, h, p, data, index)
  PROVE  /\ Len(x) \in Nat /\ Len(x) * BLOCK \in Nat
         /\ t \in Nat /\ h \in Nat /\ p \in Nat /\ index \in Nat
         /\ t = 8 * (Len(x) * BLOCK) + h + p /\ h < 8 * BLOCK /\ (h > 0 => p = 0)
<1>1. Len(x) \in Nat /\ t \in Nat /\ h \in Nat /\ p \in Nat /\ index \in Nat
  BY DEF Good, Types, IsSeq
<1>2. Len(x) * BLOCK \in Nat
  BY <1>1, Product
<1>3. t = 8 * (Len(x) * BLOCK) + h + p /\ h < 8 * BLOCK /\ (h > 0 => p = 0)
  BY DEF Good, Counted
<1>. QED
  BY <1>1, <1>2, <1>3

(* The steps of Update.  A piece of which nothing is in the buffer.        *)
LEMMA Start ==
  ASSUME BLOCK \in Nat, NEW x, NEW b, NEW t, NEW data, NEW index,
         Good(x, b, t, 0, 0, data, index), t % 8 = 0, NEW bits \in Nat
  PROVE  Good(x, b, t + bits, 0, bits, Data(t \div 8, bits), 0)
<1> DEFINE q == Len(x) * BLOCK
           d == Data(t \div 8, bits)
<1>0. /\ Len(x) \in Nat /\ t \in Nat /\ q \in Nat
      /\ t = 8 * q + 0 + 0 /\ 0 < 8 * BLOCK
  BY Numbers
<1>. HIDE DEF q
<1>1. Len(x) \in Nat /\ t \in Nat /\ q \in Nat /\ t = 8 * q /\ BLOCK > 0
  BY <1>0
<1>2. t \div 8 = q
  BY <1>1
<1>3. IsSeq(d) /\ Pending(d, 0, bits, t + bits, q)
  BY <1>1, <1>2, DataBytes
<1>. HIDE DEF d
<1>4. Types(x, b, t + bits, 0, bits, d, 0)
  BY <1>1, <1>3 DEF Good, Types
<1>5. Counted(Len(x), t + bits, 0, bits)
  BY <1>1 DEF Counted, q
<1>6. Held(b, t + bits, 0, q)
  BY DEF Held
<1>. QED
  BY <1>3, <1>4, <1>5, <1>6 DEF Good, q, d

(* The bytes that have been buffered are whole ones.                       *)
LEMMA HeldBytes ==
  ASSUME BLOCK \in Nat, NEW x, NEW b, NEW t, NEW h, NEW data, NEW index,
         Good(x, b, t, h, 0, data, index), t % 8 = 0
  PROVE  /\ Len(x) * BLOCK \in Nat /\ t = 8 * (Len(x) * BLOCK) + h /\ h < 8 * BLOCK
         /\ h \div 8 \in 0 .. BLOCK - 1 /\ h = 8 * (h \div 8)
         /\ t \div 8 = Len(x) * BLOCK + (h \div 8) /\ t = 8 * (t \div 8)
         /\ t \in Nat /\ h \in Nat
         /\ \A k \in 1 .. h \div 8 : b[k] = Msg(Len(x) * BLOCK + k)
<1> DEFINE q == Len(x) * BLOCK
<1>0. /\ Len(x) \in Nat /\ t \in Nat /\ h \in Nat /\ q \in Nat
      /\ t = 8 * q + h + 0 /\ h < 8 * BLOCK
  BY Numbers
<1>2. Held(b, t, h, q)
  BY DEF Good
<1>. HIDE DEF q
<1>1. Len(x) \in Nat /\ t \in Nat /\ h \in Nat /\ q \in Nat /\ t = 8 * q + h /\ h < 8 * BLOCK
  BY <1>0
<1>3. /\ h \div 8 \in 0 .. BLOCK - 1 /\ h = 8 * (h \div 8)
      /\ t \div 8 = q + (h \div 8) /\ t = 8 * (t \div 8)
  BY <1>1
<1>4. ASSUME NEW k \in 1 .. h \div 8
      PROVE  b[k] = Msg(q + k)
  <2>1. k \in 1..BLOCK /\ 8 * (k - 1) < h /\ 8 * (q + k) <= t
    BY <1>1, <1>3
  <2>. QED
    BY <1>2, <2>1 DEF Held, MsgByte
<1>. QED
  BY <1>1, <1>3, <1>4 DEF q


(* A piece that does not complete the block in the buffer.                 *)
LEMMA Gathered ==
  ASSUME BLOCK \in Nat, NEW x, NEW b, NEW t, NEW h, NEW data, NEW index,
         Good(x, b, t, h, 0, data, index), t % 8 = 0, NEW bits \in Nat,
         h + bits < 8 * BLOCK, NEW n \in Nat, 8 * n >= bits
  PROVE  LET d == Data(t \div 8, bits)
         IN  Good(x, Into(b, h \div 8, d, 0, n), t + bits, h + bits, 0, d, 0)
<1> DEFINE q == Len(x) * BLOCK
           at == h \div 8
           d == Data(t \div 8, bits)
           c == Into(b, at, d, 0, n)
<1>1. /\ q \in Nat /\ t = 8 * q + h
      /\ at \in 0 .. BLOCK - 1 /\ h = 8 * at
      /\ t \div 8 = q + at /\ t = 8 * (t \div 8) /\ t \in Nat /\ h \in Nat
      /\ \A k \in 1..at : b[k] = Msg(q + k)
  BY HeldBytes
<1>2. Len(b) = BLOCK /\ IsSeq(x) /\ Compressed(x) /\ Len(x) \in Nat
  BY DEF Good, Types, IsSeq
<1>. HIDE DEF q, at
<1>3. IsSeq(d) /\ Pending(d, 0, bits, t + bits, q + at)
  <2>1. t \div 8 \in Nat /\ t + bits = 8 * (t \div 8) + bits
    BY <1>1
  <2>. QED
    BY <1>1, <2>1, DataBytes
<1>. HIDE DEF d
<1>4. /\ IsSeq(c) /\ Len(c) = BLOCK
      /\ \A i \in 1..BLOCK : c[i] = ByteOf(b, at, d, 0, n, i)
  <2>1. Len(b) = BLOCK /\ at \in Nat /\ 0 \in Nat
    BY <1>1, <1>2
  <2>. QED
    BY <2>1, IntoBytes
<1>. HIDE DEF c
<1>5. ASSUME NEW k \in 1..BLOCK, 8 * (k - 1) < h + bits
      PROVE  c[k] = MsgByte(q + k, t + bits)
  <2>1. CASE k <= at
    <3>1. k \in 1..at /\ ~(k > at) /\ 8 * (q + k) <= t + bits
      BY <1>1, <2>1
    <3>. QED
      BY <1>1, <1>4, <3>1 DEF MsgByte, ByteOf
  <2>2. CASE ~(k <= at)
    <3>1. k > at /\ k <= at + n /\ k - at \in Nat \ {0} /\ 8 * ((k - at) - 1) < bits
          /\ (q + at) + (k - at) = q + k
      BY <1>1, <1>5, <2>2
    <3>2. 0 + (k - at) <= Len(d) /\ d[0 + (k - at)] = MsgByte((q + at) + (k - at), t + bits)
      BY <1>3, <3>1 DEF Pending
    <3>. QED
      BY <1>4, <3>1, <3>2 DEF ByteOf
  <2>. QED
    BY <2>1, <2>2
<1>6. Types(x, c, t + bits, h + bits, 0, d, 0)
  <2>1. t + bits \in Nat /\ h + bits \in Nat
    BY <1>1
  <2>. QED
    BY <1>2, <1>3, <1>4, <2>1 DEF Types
<1>7. Counted(Len(x), t + bits, h + bits, 0)
  <2>1. t + bits = 8 * q + (h + bits) + 0
    BY <1>1
  <2>. QED
    BY <2>1 DEF Counted, q
<1>8. Held(c, t + bits, h + bits, q)
  BY <1>5 DEF Held
<1>9. Pending(d, 0, 0, t + bits, q)
  BY DEF Pending
<1>10. Good(x, c, t + bits, h + bits, 0, d, 0)
  BY <1>2, <1>6, <1>7, <1>8, <1>9 DEF Good, q
<1>. QED
  BY <1>10 DEF c, d, at

(* A piece that completes the block in the buffer.                         *)
LEMMA Completed ==
  ASSUME BLOCK \in Nat, NEW x, NEW b, NEW t, NEW h, NEW data, NEW index,
         Good(x, b, t, h, 0, data, index), t % 8 = 0, NEW bits \in Nat,
         h + bits >= 8 * BLOCK
  PROVE  LET d == Data(t \div 8, bits)
             c == Into(b, h \div 8, d, 0, BLOCK - (h \div 8))
         IN  Good(Append(x, c), c, t + bits, 0, bits - (8 * BLOCK - h), d, BLOCK - (h \div 8))
<1> DEFINE q == Len(x) * BLOCK
           at == h \div 8
           n == BLOCK - at
           d == Data(t \div 8, bits)
           c == Into(b, at, d, 0, n)
           y == Append(x, c)
           p == bits - (8 * BLOCK - h)
<1>1. /\ q \in Nat /\ t = 8 * q + h
      /\ at \in 0 .. BLOCK - 1 /\ h = 8 * at
      /\ t \div 8 = q + at /\ t = 8 * (t \div 8) /\ t \in Nat /\ h \in Nat
      /\ \A k \in 1..at : b[k] = Msg(q + k)
  BY HeldBytes
<1>2. Len(b) = BLOCK /\ IsSeq(x) /\ Compressed(x) /\ Len(x) \in Nat
  BY DEF Good, Types, IsSeq
<1>. HIDE DEF q, at
<1>3. IsSeq(d) /\ Pending(d, 0, bits, t + bits, q + at)
  <2>1. t \div 8 \in Nat /\ t + bits = 8 * (t \div 8) + bits
    BY <1>1
  <2>. QED
    BY <1>1, <2>1, DataBytes
<1>4. n \in Nat /\ at + n = BLOCK /\ BLOCK > 0 /\ p \in Nat
  BY <1>1
<1>. HIDE DEF d, n
<1>5. /\ IsSeq(c) /\ Len(c) = BLOCK
      /\ \A i \in 1..BLOCK : c[i] = ByteOf(b, at, d, 0, n, i)
  <2>1. Len(b) = BLOCK /\ at \in Nat /\ 0 \in Nat /\ n \in Nat
    BY <1>1, <1>2, <1>4
  <2>. QED
    BY <2>1, IntoBytes
<1>. HIDE DEF c
<1>6. ASSUME NEW k \in 1..BLOCK
      PROVE  c[k] = Msg(q + k)
  <2>1. CASE k <= at
    <3>1. k \in 1..at /\ ~(k > at)
      BY <1>1, <2>1
    <3>. QED
      BY <1>1, <1>5, <3>1 DEF ByteOf
  <2>2. CASE ~(k <= at)
    <3>1. k > at /\ k <= at + n /\ k - at \in Nat \ {0} /\ 8 * ((k - at) - 1) < bits
          /\ (q + at) + (k - at) = q + k /\ 8 * (q + k) <= t + bits
      BY <1>1, <1>4, <2>2
    <3>2. 0 + (k - at) <= Len(d) /\ d[0 + (k - at)] = MsgByte((q + at) + (k - at), t + bits)
      BY <1>3, <3>1 DEF Pending
    <3>. QED
      BY <1>5, <3>1, <3>2 DEF MsgByte, ByteOf
  <2>. QED
    BY <2>1, <2>2
<1>7. IsSeq(y) /\ Len(y) = Len(x) + 1 /\ Compressed(y) /\ Len(y) * BLOCK = q + BLOCK
  BY <1>2, <1>5, <1>6, NextBlock DEF q
<1>. HIDE DEF y
<1>8. Types(y, c, t + bits, 0, p, d, n)
  BY <1>1, <1>3, <1>4, <1>5, <1>7 DEF Types
<1>9. Counted(Len(y), t + bits, 0, p)
  <2>1. t + bits = 8 * (q + BLOCK) + 0 + p /\ 0 < 8 * BLOCK
    BY <1>1, <1>4
  <2>. QED
    BY <1>7, <2>1 DEF Counted
<1>10. Held(c, t + bits, 0, q + BLOCK)
  BY DEF Held
<1>11. ASSUME NEW i \in Nat \ {0}, 8 * (i - 1) < p
       PROVE  n + i <= Len(d) /\ d[n + i] = MsgByte((q + BLOCK) + i, t + bits)
  <2>1. n + i \in Nat \ {0} /\ 8 * ((n + i) - 1) < bits /\ (q + at) + (n + i) = (q + BLOCK) + i
        /\ 0 + (n + i) = n + i
    BY <1>1, <1>4, <1>11
  <2>2. 0 + (n + i) <= Len(d) /\ d[0 + (n + i)] = MsgByte((q + at) + (n + i), t + bits)
    BY <1>3, <2>1 DEF Pending
  <2>. QED
    BY <2>1, <2>2
<1>12. Pending(d, n, p, t + bits, q + BLOCK)
  BY <1>11 DEF Pending
<1>13. Good(y, c, t + bits, 0, p, d, n)
  BY <1>7, <1>8, <1>9, <1>10, <1>12 DEF Good
<1>. QED
  BY <1>13 DEF y, c, d, n, at


(* A full block of the data.                                               *)
LEMMA BlockRead ==
  ASSUME BLOCK \in Nat, NEW x, NEW b, NEW t, NEW h, NEW p, NEW data, NEW index,
         Good(x, b, t, h, p, data, index), p >= 8 * BLOCK
  PROVE  LET c == Into(b, 0, data, index, BLOCK)
         IN  Good(Append(x, c), c, t, h, p - 8 * BLOCK, data, index + BLOCK)
<1> DEFINE q == Len(x) * BLOCK
           c == Into(b, 0, data, index, BLOCK)
           y == Append(x, c)
           r == p - 8 * BLOCK
           at == index + BLOCK
<1>1. /\ Len(x) \in Nat /\ q \in Nat
      /\ t \in Nat /\ h \in Nat /\ p \in Nat /\ index \in Nat
      /\ t = 8 * q + h + p /\ h < 8 * BLOCK /\ (h > 0 => p = 0)
  BY Numbers
<1>2. /\ Len(b) = BLOCK /\ IsSeq(x) /\ Compressed(x) /\ IsSeq(data)
      /\ Pending(data, index, p, t, q)
  BY DEF Good, Types
<1>. HIDE DEF q
<1>3. h = 0 /\ BLOCK > 0 /\ t = 8 * q + p
  BY <1>1
<1>4. r \in Nat /\ at \in Nat /\ p = r + 8 * BLOCK
  BY <1>1
<1>. HIDE DEF r, at
<1>5. /\ IsSeq(c) /\ Len(c) = BLOCK
      /\ \A i \in 1..BLOCK : c[i] = ByteOf(b, 0, data, index, BLOCK, i)
  <2>1. Len(b) = BLOCK /\ 0 \in Nat
    BY <1>2
  <2>. QED
    BY <1>1, <2>1, IntoBytes
<1>. HIDE DEF c
<1>6. ASSUME NEW k \in 1..BLOCK
      PROVE  c[k] = Msg(q + k)
  <2>1. k > 0 /\ k <= 0 + BLOCK /\ k - 0 = k /\ k \in Nat \ {0} /\ 8 * (k - 1) < p
        /\ 8 * (q + k) <= t
    BY <1>1, <1>3, <1>4
  <2>2. index + k <= Len(data) /\ data[index + k] = MsgByte(q + k, t)
    BY <1>2, <2>1 DEF Pending
  <2>. QED
    BY <1>5, <2>1, <2>2 DEF MsgByte, ByteOf
<1>7. IsSeq(y) /\ Len(y) = Len(x) + 1 /\ Compressed(y) /\ Len(y) * BLOCK = q + BLOCK
  BY <1>2, <1>5, <1>6, NextBlock DEF q
<1>. HIDE DEF y
<1>8. Types(y, c, t, h, r, data, at)
  BY <1>1, <1>2, <1>4, <1>5, <1>7 DEF Types
<1>9. Counted(Len(y), t, h, r)
  <2>1. t = 8 * (q + BLOCK) + h + r /\ h < 8 * BLOCK /\ ~(h > 0)
    BY <1>1, <1>3, <1>4
  <2>. QED
    BY <1>7, <2>1 DEF Counted
<1>10. Held(c, t, h, q + BLOCK)
  BY <1>3 DEF Held
<1>11. ASSUME NEW i \in Nat \ {0}, 8 * (i - 1) < r
       PROVE  at + i <= Len(data) /\ data[at + i] = MsgByte((q + BLOCK) + i, t)
  <2>1. BLOCK + i \in Nat \ {0} /\ 8 * ((BLOCK + i) - 1) < p /\ q + (BLOCK + i) = (q + BLOCK) + i
        /\ index + (BLOCK + i) = at + i
    BY <1>1, <1>4, <1>11 DEF at
  <2>2. index + (BLOCK + i) <= Len(data)
        /\ data[index + (BLOCK + i)] = MsgByte(q + (BLOCK + i), t)
    BY <1>2, <2>1 DEF Pending
  <2>. QED
    BY <2>1, <2>2
<1>12. Pending(data, at, r, t, q + BLOCK)
  BY <1>11 DEF Pending
<1>13. Good(y, c, t, h, r, data, at)
  BY <1>7, <1>8, <1>9, <1>10, <1>12 DEF Good
<1>. QED
  BY <1>13 DEF y, c, r, at

(* The partial block at the end of the data.                               *)
LEMMA RestKept ==
  ASSUME BLOCK \in Nat, NEW x, NEW b, NEW t, NEW h, NEW p, NEW data, NEW index,
         Good(x, b, t, h, p, data, index), p < 8 * BLOCK, p # 0 \/ h = 0,
         NEW n, n = (p \div 8) + IF p % 8 = 0 THEN 0 ELSE 1
  PROVE  Good(x, Into(b, 0, data, index, n), t, p, 0, <<>>, 0)
<1> DEFINE q == Len(x) * BLOCK
           c == Into(b, 0, data, index, n)
<1>1. /\ Len(x) \in Nat /\ q \in Nat
      /\ t \in Nat /\ h \in Nat /\ p \in Nat /\ index \in Nat
      /\ t = 8 * q + h + p /\ h < 8 * BLOCK /\ (h > 0 => p = 0)
  BY Numbers
<1>2. /\ Len(b) = BLOCK /\ IsSeq(x) /\ Compressed(x) /\ Pending(data, index, p, t, q)
  BY DEF Good, Types
<1>. HIDE DEF q
<1>3. n \in Nat /\ \A k \in Nat : 8 * (k - 1) < p => k <= n
  <2>1. CASE p % 8 = 0
    BY <1>1, <2>1
  <2>2. CASE p % 8 # 0
    BY <1>1, <2>2
  <2>. QED
    BY <2>1, <2>2
<1>4. /\ IsSeq(c) /\ Len(c) = BLOCK
      /\ \A i \in 1..BLOCK : c[i] = ByteOf(b, 0, data, index, n, i)
  <2>1. Len(b) = BLOCK /\ 0 \in Nat
    BY <1>2
  <2>. QED
    BY <1>1, <1>3, <2>1, IntoBytes
<1>. HIDE DEF c
<1>5. ASSUME NEW k \in 1..BLOCK, 8 * (k - 1) < p
      PROVE  c[k] = MsgByte(q + k, t)
  <2>1. k \in Nat \ {0} /\ k <= n
    BY <1>3, <1>5
  <2>2. k > 0 /\ k <= 0 + n /\ k - 0 = k
    BY <1>3, <2>1
  <2>3. index + k <= Len(data) /\ data[index + k] = MsgByte(q + k, t)
    BY <1>2, <1>5, <2>1 DEF Pending
  <2>. QED
    BY <1>4, <2>2, <2>3 DEF ByteOf
<1>6. IsSeq(<<>>)
  BY DEF IsSeq
<1>7. Types(x, c, t, p, 0, <<>>, 0)
  BY <1>1, <1>2, <1>4, <1>6 DEF Types
<1>8. Counted(Len(x), t, p, 0)
  <2>1. t = 8 * q + p + 0
    BY <1>1
  <2>. QED
    BY <2>1 DEF Counted, q
<1>9. Held(c, t, p, q)
  BY <1>5 DEF Held
<1>10. Pending(<<>>, 0, 0, t, q)
  BY DEF Pending
<1>11. Good(x, c, t, p, 0, <<>>, 0)
  BY <1>2, <1>7, <1>8, <1>9, <1>10 DEF Good, q
<1>. QED
  BY <1>11 DEF c

(* Nothing is left of the data.                                            *)
LEMMA NothingLeft ==
  ASSUME BLOCK \in Nat, NEW x, NEW b, NEW t, NEW h, NEW data, NEW index,
         Good(x, b, t, h, 0, data, index)
  PROVE  Good(x, b, t, h, 0, <<>>, 0)
<1>1. IsSeq(<<>>)
  BY DEF IsSeq
<1>2. Types(x, b, t, h, 0, <<>>, 0)
  BY <1>1 DEF Good, Types
<1>3. Pending(<<>>, 0, 0, t, Len(x) * BLOCK)
  BY DEF Pending
<1>. QED
  BY <1>2, <1>3 DEF Good


-----------------------------------------------------------------------------
(* Final.  Something, zeros, and the length.                               *)
Filled(a, z, e) == (a \o Zeros(z)) \o e
FilledByte(a, z, e, k) ==
  IF k <= Len(a) THEN a[k] ELSE IF k <= Len(a) + z THEN Num(0) ELSE e[k - (Len(a) + z)]

LEMMA FilledBytes ==
  ASSUME NEW a, IsSeq(a), NEW z \in Nat, NEW e, IsSeq(e)
  PROVE  /\ IsSeq(Filled(a, z, e)) /\ Len(Filled(a, z, e)) = Len(a) + z + Len(e)
         /\ \A k \in 1 .. Len(a) + z + Len(e) : Filled(a, z, e)[k] = FilledByte(a, z, e, k)
<1> DEFINE o == Zeros(z)
           u == a \o o
           v == u \o e
<1>1. IsSeq(o) /\ Len(o) = z /\ \A k \in 1..z : o[k] = Num(0)
  <2>1. o = [k \in 1..z |-> o[k]] /\ \A k \in 1..z : o[k] = Num(0)
    BY DEF Zeros
  <2>. HIDE DEF o
  <2>. QED
    BY <2>1, Listed
<1>. HIDE DEF o
<1>2. /\ IsSeq(u) /\ Len(u) = Len(a) + Len(o)
      /\ \A k \in 1..Len(a) : u[k] = a[k]
      /\ \A k \in 1..Len(o) : u[Len(a) + k] = o[k]
  <2>1. IsSeq(o)
    BY <1>1
  <2>. QED
    BY <2>1, Joined
<1>. HIDE DEF u
<1>3. /\ IsSeq(v) /\ Len(v) = Len(u) + Len(e)
      /\ \A k \in 1..Len(u) : v[k] = u[k]
      /\ \A k \in 1..Len(e) : v[Len(u) + k] = e[k]
  <2>1. IsSeq(u)
    BY <1>2
  <2>. QED
    BY <2>1, Joined
<1>. HIDE DEF v
<1>4. Len(a) \in Nat /\ Len(e) \in Nat /\ Len(u) = Len(a) + z /\ Len(v) = Len(a) + z + Len(e)
  BY <1>1, <1>2, <1>3 DEF IsSeq
<1>5. ASSUME NEW k \in 1 .. Len(a) + z + Len(e)
      PROVE  v[k] = FilledByte(a, z, e, k)
  <2>1. CASE k <= Len(a)
    <3>1. k \in 1..Len(a) /\ k \in 1..Len(u)
      BY <1>4, <2>1
    <3>. QED
      BY <1>2, <1>3, <2>1, <3>1 DEF FilledByte
  <2>2. CASE ~(k <= Len(a)) /\ k <= Len(a) + z
    <3>1. k - Len(a) \in 1..z /\ Len(a) + (k - Len(a)) = k /\ k \in 1..Len(u)
      BY <1>4, <2>2
    <3>2. v[k] = u[k] /\ u[k] = o[k - Len(a)] /\ o[k - Len(a)] = Num(0)
      BY <1>1, <1>2, <1>3, <3>1
    <3>. QED
      BY <2>2, <3>2 DEF FilledByte
  <2>3. CASE ~(k <= Len(a)) /\ ~(k <= Len(a) + z)
    <3>1. k - (Len(a) + z) \in 1..Len(e) /\ Len(u) + (k - (Len(a) + z)) = k
      BY <1>4, <2>3
    <3>2. v[k] = e[k - (Len(a) + z)]
      BY <1>3, <3>1
    <3>. QED
      BY <2>3, <3>2 DEF FilledByte
  <2>. QED
    BY <2>1, <2>2, <2>3
<1>6. Filled(a, z, e) = v
  BY DEF Filled, v, u, o
<1>. QED
  BY <1>3, <1>4, <1>5, <1>6

Length(t) == BigEndian(t, LenBytes, ByteBase)

LEMMA LengthType ==
  ASSUME LenBytes \in Nat, NEW t
  PROVE  IsSeq(Length(t)) /\ Len(Length(t)) = LenBytes
<1>1. Length(t) = [i \in 1..LenBytes |-> Length(t)[i]]
  BY DEF Length, BigEndian
<1>. QED
  BY <1>1, Listed

(* A padded message of e bytes with l at its end.                          *)
PadByte(t, e, l, k) ==
  IF k <= t \div 8 THEN Msg(k)
  ELSE IF k = (t \div 8) + 1 THEN End(k, t % 8)
  ELSE IF k <= e - Len(l) THEN Num(0)
  ELSE l[k - (e - Len(l))]

PadBlock(t, e, l, j) == [m \in 1..BLOCK |-> PadByte(t, e, l, (j - 1) * BLOCK + m)]

Padded(t, e, l) == Filled(Terminated(t), e - Len(l) - Len(Terminated(t)), l)

LEMMA TerminatedBytes ==
  ASSUME NEW t \in Nat
  PROVE  /\ IsSeq(Terminated(t)) /\ Len(Terminated(t)) = (t \div 8) + 1
         /\ \A k \in 1 .. t \div 8 : Terminated(t)[k] = Msg(k)
         /\ Terminated(t)[(t \div 8) + 1] = End((t \div 8) + 1, t % 8)
<1> DEFINE n == t \div 8
           a == [i \in 1..n |-> Msg(i)]
           e == End(n + 1, t % 8)
           b == <<e>>
<1>1. n \in Nat
  BY SMT
<1>2. Terminated(t) = a \o b
  BY DEF Terminated
<1>. HIDE DEF n, e
<1>3. IsSeq(a) /\ Len(a) = n /\ \A i \in 1..n : a[i] = Msg(i)
  <2>1. a = [i \in 1..n |-> a[i]] /\ \A i \in 1..n : a[i] = Msg(i)
    OBVIOUS
  <2>. HIDE DEF a
  <2>. QED
    BY <1>1, <2>1, Listed
<1>4. IsSeq(b) /\ Len(b) = 1 /\ b[1] = e
  BY DEF IsSeq
<1>. HIDE DEF a, b
<1>5. /\ IsSeq(a \o b) /\ Len(a \o b) = Len(a) + Len(b)
      /\ \A i \in 1..Len(a) : (a \o b)[i] = a[i]
      /\ \A i \in 1..Len(b) : (a \o b)[Len(a) + i] = b[i]
  <2>1. IsSeq(a) /\ IsSeq(b)
    BY <1>3, <1>4
  <2>. QED
    BY <2>1, Joined
<1>6. /\ IsSeq(a \o b) /\ Len(a \o b) = n + 1 /\ (a \o b)[n + 1] = e
      /\ \A i \in 1..n : (a \o b)[i] = Msg(i)
  <2>1. 1 \in 1..Len(b)
    BY <1>4
  <2>. QED
    BY <1>3, <1>4, <1>5, <2>1
<1>. QED
  BY <1>2, <1>6 DEF n, e

LEMMA PaddedBytes ==
  ASSUME NEW t \in Nat, NEW e \in Nat, NEW l, IsSeq(l), (t \div 8) + 1 + Len(l) <= e
  PROVE  /\ IsSeq(Padded(t, e, l)) /\ Len(Padded(t, e, l)) = e
         /\ \A k \in 1..e : Padded(t, e, l)[k] = PadByte(t, e, l, k)
<1> DEFINE n == t \div 8
           a == Terminated(t)
           z == e - Len(l) - (n + 1)
<1>1. n \in Nat
  BY SMT
<1>2. /\ IsSeq(a) /\ Len(a) = n + 1
      /\ \A k \in 1..n : a[k] = Msg(k)
      /\ a[n + 1] = End(n + 1, t % 8)
  BY TerminatedBytes
<1>3. IsSeq(l) /\ Len(l) \in Nat
  BY DEF IsSeq
<1>4. z \in Nat /\ (n + 1) + z + Len(l) = e /\ (n + 1) + z = e - Len(l)
  <2>. HIDE DEF n
  <2>. QED
    BY <1>1, <1>3 DEF n
<1>. HIDE DEF n, a
<1>5. Padded(t, e, l) = Filled(a, z, l)
  BY <1>2 DEF Padded, a
<1>. HIDE DEF z
<1>6. /\ IsSeq(Filled(a, z, l)) /\ Len(Filled(a, z, l)) = e
      /\ \A k \in 1..e : Filled(a, z, l)[k] = FilledByte(a, z, l, k)
  <2>1. /\ IsSeq(Filled(a, z, l)) /\ Len(Filled(a, z, l)) = Len(a) + z + Len(l)
        /\ \A k \in 1 .. Len(a) + z + Len(l) : Filled(a, z, l)[k] = FilledByte(a, z, l, k)
    BY <1>2, <1>3, <1>4, FilledBytes
  <2>2. Len(a) + z + Len(l) = e
    BY <1>2, <1>3, <1>4
  <2>. QED
    BY <2>1, <2>2
<1>7. ASSUME NEW k \in 1..e
      PROVE  FilledByte(a, z, l, k) = PadByte(t, e, l, k)
  <2>1. CASE k <= n
    <3>1. k \in 1..n /\ k <= Len(a)
      BY <1>1, <1>2, <2>1
    <3>. QED
      BY <1>2, <2>1, <3>1 DEF FilledByte, PadByte, n
  <2>2. CASE k = n + 1
    <3>1. ~(k <= n) /\ k <= Len(a)
      BY <1>1, <1>2, <2>2
    <3>. QED
      BY <1>2, <2>2, <3>1 DEF FilledByte, PadByte, n
  <2>3. CASE ~(k <= n) /\ k # n + 1
    <3>1. ~(k <= Len(a)) /\ Len(a) + z = e - Len(l)
      BY <1>1, <1>2, <1>4, <2>3
    <3>. QED
      BY <2>3, <3>1 DEF FilledByte, PadByte, n
  <2>. QED
    BY <2>1, <2>2, <2>3
<1>. QED
  BY <1>5, <1>6, <1>7


(* Whole blocks and a rest.                                                *)
LEMMA WholeAndRest ==
  ASSUME NEW a \in Nat, NEW b \in Nat \ {0}, NEW r \in 0 .. b - 1
  PROVE  (a * b + r) \div b = a /\ (a * b + r) % b = r
BY SMT

(* t bits are N blocks and h bits; the padding makes n blocks of them.     *)
Split(N, h, t) == N \in Nat /\ h \in Nat /\ h < 8 * BLOCK /\ t = 8 * (N * BLOCK) + h
Total(N, h, n) == (h = 0 => n = N + 1) /\ (h # 0 => n = N + 2)
AllPadded(y, n, t, l) ==
  IsSeq(y) /\ Len(y) = n /\ \A j \in 1..n : y[j] = PadBlock(t, n * BLOCK, l, j)
MessageBlocks(t) == RoundUp(RoundUp(t, 8) \div 8, BLOCK) \div BLOCK

LEMMA PaddedCount ==
  ASSUME BLOCK \in Nat \ {0}, NEW N, NEW h, NEW t, Split(N, h, t)
  PROVE  /\ MessageBlocks(t) = IF h = 0 THEN N ELSE N + 1
         /\ t % (8 * BLOCK) = h
<1> DEFINE q == N * BLOCK
           u == (h + 7) \div 8
           v == IF h = 0 THEN N ELSE N + 1
<1>. USE DEF Split
<1>1. q \in Nat /\ (N + 1) * BLOCK = q + BLOCK
  BY Product
<1>2. u \in Nat /\ u <= BLOCK /\ (h = 0 <=> u = 0)
  BY SMT
<1>3. RoundUp(t, 8) \div 8 = q + u
  <2>. HIDE DEF q
  <2>1. t = 8 * q + h
    BY DEF q
  <2>2. (t + 8 - 1) \div 8 = q + u
    BY <1>1, <2>1
  <2>3. RoundUp(t, 8) = (q + u) * 8
    BY <2>2 DEF RoundUp
  <2>. HIDE DEF u
  <2>. QED
    BY <1>1, <1>2, <2>3
<1>. HIDE DEF u
<1>4. v \in Nat /\ (q + u + BLOCK - 1) \div BLOCK = v
  <2>1. CASE h = 0
    <3>1. q + u + BLOCK - 1 = N * BLOCK + (BLOCK - 1) /\ BLOCK - 1 \in 0 .. BLOCK - 1
      <4>. HIDE DEF q
      <4>1. q + u + BLOCK - 1 = q + (BLOCK - 1) /\ BLOCK - 1 \in 0 .. BLOCK - 1
        BY <1>1, <1>2, <2>1
      <4>. QED
        BY <4>1 DEF q
    <3>2. (N * BLOCK + (BLOCK - 1)) \div BLOCK = N
      BY <3>1, WholeAndRest
    <3>. QED
      BY <2>1, <3>1, <3>2
  <2>2. CASE h # 0
    <3>1. q + u + BLOCK - 1 = (N + 1) * BLOCK + (u - 1) /\ u - 1 \in 0 .. BLOCK - 1
      <4>. HIDE DEF q
      <4>1. q + u + BLOCK - 1 = (q + BLOCK) + (u - 1) /\ u - 1 \in 0 .. BLOCK - 1
        BY <1>1, <1>2, <2>2
      <4>. QED
        BY <1>1, <4>1
    <3>2. ((N + 1) * BLOCK + (u - 1)) \div BLOCK = N + 1
      <4>1. N + 1 \in Nat
        OBVIOUS
      <4>. QED
        BY <3>1, <4>1, WholeAndRest
    <3>. QED
      BY <2>2, <3>1, <3>2
  <2>. QED
    BY <2>1, <2>2
<1>5. RoundUp(q + u, BLOCK) = v * BLOCK
  BY <1>4 DEF RoundUp
<1>6. (v * BLOCK) \div BLOCK = v
  <2>. HIDE DEF v
  <2>1. v * BLOCK \in Nat
    BY <1>4, Product
  <2>2. (v * BLOCK + 0) \div BLOCK = v
    BY <1>4, WholeAndRest
  <2>. QED
    BY <2>1, <2>2
<1>7. t % (8 * BLOCK) = h
  <2> DEFINE b == 8 * BLOCK
  <2>1. b \in Nat \ {0} /\ h \in 0 .. b - 1
    OBVIOUS
  <2>2. t = N * b + h
    BY SMT
  <2>. HIDE DEF b
  <2>3. (N * b + h) % b = h
    BY <2>1, WholeAndRest
  <2>4. t % b = h
    BY <2>2, <2>3
  <2>. QED
    BY <2>4 DEF b
<1>. QED
  BY <1>3, <1>5, <1>6, <1>7 DEF MessageBlocks

(* The blocks of a sequence of n * BLOCK bytes.                            *)
BlockAt(s, j) == [m \in 1..BLOCK |-> s[(j - 1) * BLOCK + m]]

LEMMA BlocksOf ==
  ASSUME BLOCK \in Nat \ {0}, NEW n \in Nat, NEW s, IsSeq(s), Len(s) = n * BLOCK
  PROVE  /\ IsSeq(Blocks(s, BLOCK)) /\ Len(Blocks(s, BLOCK)) = n
         /\ \A j \in 1..n : Blocks(s, BLOCK)[j] = BlockAt(s, j)
<1> DEFINE B == Blocks(s, BLOCK)
<1>1. Len(s) \div BLOCK = n
  <2>1. n * BLOCK \in Nat /\ (n * BLOCK + 0) \div BLOCK = n
    BY Product, WholeAndRest
  <2>. QED
    BY <2>1
<1>2. B = [j \in 1..n |-> SubSeq(s, (j - 1) * BLOCK + 1, j * BLOCK)]
  BY <1>1 DEF Blocks
<1>. HIDE DEF B
<1>3. IsSeq(B) /\ Len(B) = n
  <2>1. B = [j \in 1..n |-> B[j]]
    BY <1>2
  <2>. QED
    BY <2>1, Listed
<1>4. ASSUME NEW j \in 1..n
      PROVE  B[j] = BlockAt(s, j)
  <2> DEFINE lo == (j - 1) * BLOCK
  <2>1. lo \in Nat /\ j * BLOCK = lo + BLOCK
    <3>1. j - 1 \in Nat /\ (j - 1) + 1 = j
      OBVIOUS
    <3>2. (j - 1) * BLOCK \in Nat /\ ((j - 1) + 1) * BLOCK = (j - 1) * BLOCK + BLOCK
      BY <3>1, Product
    <3>. QED
      BY <3>1, <3>2
  <2>2. j * BLOCK <= n * BLOCK
    BY SMT
  <2>3. B[j] = SubSeq(s, lo + 1, lo + BLOCK)
    BY <1>2, <2>1
  <2>4. lo + BLOCK <= Len(s)
    BY <2>1, <2>2
  <2>. HIDE DEF lo
  <2>5. B[j] = [m \in 1..BLOCK |-> s[lo + m]]
    BY <2>1, <2>3, <2>4, CutOut
  <2>. QED
    BY <2>5 DEF lo, BlockAt
<1>. QED
  BY <1>3, <1>4 DEF B

(* A padded message in blocks, in terms of positions.                      *)
LEMMA PaddedInBlocks ==
  ASSUME BLOCK \in Nat \ {0}, NEW t \in Nat, NEW n \in Nat, NEW l, IsSeq(l),
         (t \div 8) + 1 + Len(l) <= n * BLOCK
  PROVE  AllPadded(Blocks(Padded(t, n * BLOCK, l), BLOCK), n, t, l)
<1> DEFINE e == n * BLOCK
           P == Padded(t, e, l)
<1>1. e \in Nat
  BY Product
<1>2. /\ IsSeq(P) /\ Len(P) = e /\ \A k \in 1..e : P[k] = PadByte(t, e, l, k)
  <2>1. (t \div 8) + 1 + Len(l) <= e
    OBVIOUS
  <2>. HIDE DEF e
  <2>. QED
    BY <1>1, <2>1, PaddedBytes
<1>. HIDE DEF P
<1>3. /\ IsSeq(Blocks(P, BLOCK)) /\ Len(Blocks(P, BLOCK)) = n
      /\ \A j \in 1..n : Blocks(P, BLOCK)[j] = BlockAt(P, j)
  <2>1. Len(P) = n * BLOCK
    BY <1>2
  <2>. QED
    BY <1>2, <2>1, BlocksOf
<1>4. ASSUME NEW j \in 1..n
      PROVE  BlockAt(P, j) = PadBlock(t, e, l, j)
  <2> SUFFICES ASSUME NEW m \in 1..BLOCK
               PROVE  P[(j - 1) * BLOCK + m] = PadByte(t, e, l, (j - 1) * BLOCK + m)
    BY DEF BlockAt, PadBlock
  <2>1. (j - 1) * BLOCK + m \in 1..e
    <3> DEFINE lo == (j - 1) * BLOCK
    <3>1. j - 1 \in Nat /\ (j - 1) + 1 = j
      OBVIOUS
    <3>2. lo \in Nat /\ j * BLOCK = lo + BLOCK
      BY <3>1, Product
    <3>3. j * BLOCK <= e
      BY SMT
    <3>. HIDE DEF lo, e
    <3>4. lo + m \in 1..e
      BY <1>1, <3>2, <3>3
    <3>. QED
      BY <3>4 DEF lo
  <2>. QED
    BY <1>2, <2>1
<1>. QED
  BY <1>3, <1>4 DEF e, P, AllPadded

LEMMA SameBlocks ==
  ASSUME NEW n, NEW t, NEW l, NEW y, AllPadded(y, n, t, l), NEW z, AllPadded(z, n, t, l)
  PROVE  y = z
<1>1. \A j \in 1..Len(y) : y[j] = z[j]
  BY DEF AllPadded
<1>2. IsSeq(y) /\ IsSeq(z) /\ Len(y) = Len(z)
  BY DEF AllPadded
<1>. QED
  BY <1>1, <1>2, SameSeq

LEMMA WholeIsPadded ==
  ASSUME BLOCK \in Nat, NEW N \in Nat, NEW t \in Nat, t >= 8 * (N * BLOCK), NEW e, NEW l,
         NEW j \in 1..N
  PROVE  WholeBlock(j) = PadBlock(t, e, l, j)
<1> SUFFICES ASSUME NEW m \in 1..BLOCK
             PROVE  Msg((j - 1) * BLOCK + m) = PadByte(t, e, l, (j - 1) * BLOCK + m)
  BY DEF WholeBlock, PadBlock
<1> DEFINE lo == (j - 1) * BLOCK
           q == N * BLOCK
<1>1. lo \in Nat /\ j * BLOCK = lo + BLOCK
  <2>1. j - 1 \in Nat /\ (j - 1) + 1 = j
    OBVIOUS
  <2>. QED
    BY <2>1, Product
<1>2. j * BLOCK <= q /\ q \in Nat
  BY Product, SMT
<1>3. t >= 8 * q
  OBVIOUS
<1>. HIDE DEF lo, q
<1>4. lo + m <= t \div 8
  BY <1>1, <1>2, <1>3
<1>. QED
  BY <1>4 DEF PadByte, lo

(* The whole blocks of the message and a last one.                         *)
LEMMA OneMore ==
  ASSUME BLOCK \in Nat, NEW x, IsSeq(x), Compressed(x), NEW t \in Nat, NEW l,
         t >= 8 * (Len(x) * BLOCK), NEW c, IsSeq(c), Len(c) = BLOCK,
         \A k \in 1..BLOCK : c[k] = PadByte(t, (Len(x) + 1) * BLOCK, l, Len(x) * BLOCK + k)
  PROVE  AllPadded(Append(x, c), Len(x) + 1, t, l)
<1> DEFINE N == Len(x)
           q == N * BLOCK
           e == (N + 1) * BLOCK
           y == Append(x, c)
<1>0. N \in Nat
  BY DEF IsSeq
<1>1. c = PadBlock(t, e, l, N + 1)
  <2>1. (N + 1) - 1 = N
    BY <1>0
  <2>2. c = [k \in 1..BLOCK |-> c[k]]
    BY DEF IsSeq
  <2>. QED
    BY <2>1, <2>2 DEF PadBlock
<1>2. /\ IsSeq(y) /\ Len(y) = N + 1
      /\ \A i \in 1..N : y[i] = x[i]
      /\ y[N + 1] = c
  BY Appended
<1>3. t >= 8 * (N * BLOCK)
  OBVIOUS
<1>4. \A j \in 1..N : x[j] = WholeBlock(j)
  BY DEF Compressed
<1>. HIDE DEF N, e, y
<1>5. ASSUME NEW j \in 1 .. N + 1
      PROVE  y[j] = PadBlock(t, e, l, j)
  <2>1. CASE j \in 1..N
    <3>1. WholeBlock(j) = PadBlock(t, e, l, j)
      BY <1>0, <1>3, <2>1, WholeIsPadded
    <3>. QED
      BY <1>2, <1>4, <2>1, <3>1
  <2>2. CASE j = N + 1
    BY <1>1, <1>2, <2>2
  <2>. QED
    BY <1>0, <2>1, <2>2
<1>. QED
  BY <1>2, <1>5 DEF e, N, y, AllPadded

(* The whole blocks and two more.                                          *)
LEMMA TwoMore ==
  ASSUME BLOCK \in Nat, NEW x, IsSeq(x), Compressed(x), NEW t \in Nat, NEW l,
         t >= 8 * (Len(x) * BLOCK), NEW c, IsSeq(c), Len(c) = BLOCK,
         NEW f, IsSeq(f), Len(f) = BLOCK,
         \A k \in 1..BLOCK : c[k] = PadByte(t, (Len(x) + 2) * BLOCK, l, Len(x) * BLOCK + k),
         \A k \in 1..BLOCK :
            f[k] = PadByte(t, (Len(x) + 2) * BLOCK, l, (Len(x) + 1) * BLOCK + k)
  PROVE  AllPadded(Append(Append(x, c), f), Len(x) + 2, t, l)
<1> DEFINE N == Len(x)
           e == (N + 2) * BLOCK
           w == Append(x, c)
           y == Append(w, f)
<1>0. N \in Nat
  BY DEF IsSeq
<1>1. c = PadBlock(t, e, l, N + 1)
  <2>1. (N + 1) - 1 = N
    BY <1>0
  <2>2. c = [k \in 1..BLOCK |-> c[k]]
    BY DEF IsSeq
  <2>. QED
    BY <2>1, <2>2 DEF PadBlock
<1>2. f = PadBlock(t, e, l, N + 2)
  <2>1. (N + 2) - 1 = N + 1
    BY <1>0
  <2>2. f = [k \in 1..BLOCK |-> f[k]]
    BY DEF IsSeq
  <2>. QED
    BY <2>1, <2>2 DEF PadBlock
<1>3. /\ IsSeq(w) /\ Len(w) = N + 1
      /\ \A i \in 1..N : w[i] = x[i]
      /\ w[N + 1] = c
  BY Appended
<1>. HIDE DEF w
<1>4. /\ IsSeq(y) /\ Len(y) = N + 2
      /\ \A i \in 1 .. N + 1 : y[i] = w[i]
      /\ y[N + 2] = f
  <2>1. /\ IsSeq(y) /\ Len(y) = Len(w) + 1
        /\ \A i \in 1..Len(w) : y[i] = w[i]
        /\ y[Len(w) + 1] = f
    BY <1>3, Appended
  <2>2. Len(w) = N + 1 /\ Len(w) + 1 = N + 2
    BY <1>0, <1>3
  <2>. QED
    BY <2>1, <2>2
<1>5. t >= 8 * (N * BLOCK)
  OBVIOUS
<1>6. \A j \in 1..N : x[j] = WholeBlock(j)
  BY DEF Compressed
<1>. HIDE DEF N, e, y
<1>7. ASSUME NEW j \in 1 .. N + 2
      PROVE  y[j] = PadBlock(t, e, l, j)
  <2>1. CASE j \in 1..N
    <3>1. WholeBlock(j) = PadBlock(t, e, l, j)
      BY <1>0, <1>5, <2>1, WholeIsPadded
    <3>2. j \in 1 .. N + 1
      BY <1>0, <2>1
    <3>. QED
      BY <1>3, <1>4, <1>6, <2>1, <3>1, <3>2
  <2>2. CASE j = N + 1
    <3>1. j \in 1 .. N + 1
      BY <1>0, <2>2
    <3>. QED
      BY <1>1, <1>3, <1>4, <2>2, <3>1
  <2>3. CASE j = N + 2
    BY <1>2, <1>4, <2>3
  <2>. QED
    BY <1>0, <2>1, <2>2, <2>3
<1>. QED
  BY <1>4, <1>7 DEF e, N, y, w, AllPadded

(* The reference of JH.                                                    *)
LEMMA ReferenceBlocks ==
  ASSUME BLOCK \in Nat, LenBytes \in Nat, BLOCK > LenBytes,
         NEW N, NEW h, NEW t, Split(N, h, t), NEW n, Total(N, h, n)
  PROVE  AllPadded(PaddedBlocks(t), n, t, Length(t))
<1> DEFINE q == N * BLOCK
           e == n * BLOCK
           l == Length(t)
           P == Padded(t, e, l)
<1>0. N \in Nat /\ h \in Nat /\ h < 8 * BLOCK /\ t = 8 * q + h
  BY DEF Split
<1>1. q \in Nat /\ n \in Nat /\ BLOCK \in Nat \ {0} /\ (h = 0 => n = N + 1) /\ (h # 0 => n = N + 2)
  BY <1>0, Product DEF Total
<1>2. e \in Nat /\ (h = 0 => e = q + BLOCK) /\ (h # 0 => e = q + BLOCK + BLOCK)
  <2>1. (N + 1) * BLOCK = q + BLOCK /\ N + 1 \in Nat
    BY <1>0, Product
  <2>2. ((N + 1) + 1) * BLOCK = q + BLOCK + BLOCK
    BY <2>1, Product
  <2>3. (N + 1) + 1 = N + 2
    BY <1>0
  <2>4. e \in Nat
    BY <1>1, Product
  <2>. QED
    BY <1>1, <2>1, <2>2, <2>3, <2>4
<1>3. MessageBlocks(t) + 1 = n
  <2>1. MessageBlocks(t) = IF h = 0 THEN N ELSE N + 1
    BY <1>1, PaddedCount
  <2>. QED
    BY <1>0, <1>1, <2>1
<1>4. IsSeq(l) /\ Len(l) = LenBytes
  BY LengthType
<1>5. PaddedBlocks(t) = Blocks(P, BLOCK)
  <2>1. P = Filled(Terminated(t), e - LenBytes - Len(Terminated(t)), l)
    BY <1>4 DEF Padded
  <2>. QED
    BY <1>3, <2>1 DEF PaddedBlocks, Filled, Length, MessageBlocks
<1>. HIDE DEF q, l
<1>6. t \in Nat /\ (t \div 8) + 1 + LenBytes <= e
  <2>. HIDE DEF e
  <2>2. CASE h = 0
    BY <1>0, <1>1, <1>2, <2>2
  <2>3. CASE h # 0
    BY <1>0, <1>1, <1>2, <2>3
  <2>. QED
    BY <2>2, <2>3
<1>7. AllPadded(Blocks(P, BLOCK), n, t, l)
  <2>1. (t \div 8) + 1 + Len(l) <= n * BLOCK
    BY <1>4, <1>6
  <2>. QED
    BY <1>1, <1>4, <1>6, <2>1, PaddedInBlocks
<1>. QED
  BY <1>5, <1>7 DEF l

(* The block with the length.                                              *)
LEMMA LengthRec ==
  ASSUME NEW x, NEW b, NEW t, NEW h, NEW first
  PROVE  LengthBlock(Rec(x, b, t, h), first)
           = Rec(x, Filled(first, BLOCK - LenBytes - Len(first), Length(t)), t, h)
<1> DEFINE c == Filled(first, BLOCK - LenBytes - Len(first), Length(t))
<1>1. LengthBlock(Rec(x, b, t, h), first) = [Rec(x, b, t, h) EXCEPT !.buffer = c]
  <2>1. Rec(x, b, t, h).databitlen = t
    BY RecFields
  <2>. QED
    BY <2>1, Zenon DEF LengthBlock, Filled, Length
<1>. HIDE DEF c
<1>2. [Rec(x, b, t, h) EXCEPT !.buffer = c] = Rec(x, c, t, h)
  BY DEF Rec
<1>. QED
  BY <1>1, <1>2 DEF c

(* The message ends with a block: one more block.                          *)
LEMMA FinalWhole ==
  ASSUME BLOCK \in Nat, LenBytes \in Nat, BLOCK > LenBytes,
         NEW x, NEW b, NEW t, NEW data, NEW index, Good(x, b, t, 0, 0, data, index)
  PROVE  Append(x, Filled(<<End(0, 0)>>, BLOCK - LenBytes - 1, Length(t))) = PaddedBlocks(t)
<1> DEFINE N == Len(x)
           q == N * BLOCK
           z == BLOCK - LenBytes - 1
           a == <<End(0, 0)>>
           l == Length(t)
           c == Filled(a, z, l)
           y == Append(x, c)
           e == (N + 1) * BLOCK
<1>0. N \in Nat /\ q \in Nat /\ t \in Nat /\ t = 8 * q + 0 + 0
  BY Numbers
<1>1. e = q + BLOCK
  BY <1>0, Product
<1>2. IsSeq(x) /\ Compressed(x)
  BY DEF Good, Types
<1>3. IsSeq(a) /\ Len(a) = 1 /\ a[1] = End(0, 0)
  BY DEF IsSeq
<1>4. IsSeq(l) /\ Len(l) = LenBytes
  BY LengthType
<1>5. z \in Nat
  OBVIOUS
<1>. HIDE DEF N, q, z, a, l, e
<1>6. /\ IsSeq(c) /\ Len(c) = Len(a) + z + Len(l)
      /\ \A k \in 1 .. Len(a) + z + Len(l) : c[k] = FilledByte(a, z, l, k)
  <2>1. IsSeq(a) /\ IsSeq(l) /\ z \in Nat
    BY <1>3, <1>4, <1>5
  <2>. QED
    BY <2>1, FilledBytes
<1>7. Len(a) + z + Len(l) = BLOCK /\ Len(a) + z = BLOCK - LenBytes
  BY <1>3, <1>4 DEF z
<1>8. IsSeq(c) /\ Len(c) = BLOCK /\ \A k \in 1..BLOCK : c[k] = FilledByte(a, z, l, k)
  BY <1>6, <1>7
<1>. HIDE DEF c
<1>9. ASSUME NEW k \in 1..BLOCK
      PROVE  c[k] = PadByte(t, e, l, q + k)
  <2>1. t \div 8 = q /\ t % 8 = 0 /\ q + k > t \div 8
    BY <1>0
  <2>2. CASE k = 1
    <3>1. q + k = (t \div 8) + 1 /\ ~(q + k <= t \div 8) /\ k <= Len(a)
      BY <1>0, <1>3, <2>1, <2>2
    <3>2. End(q + k, t % 8) = End(0, 0)
      BY <2>1 DEF End
    <3>. QED
      BY <1>3, <1>8, <2>2, <3>1, <3>2 DEF FilledByte, PadByte
  <2>3. CASE k # 1
    <3>1. /\ ~(q + k <= t \div 8) /\ q + k # (t \div 8) + 1 /\ ~(k <= Len(a))
          /\ (q + k <= e - LenBytes <=> k <= Len(a) + z)
          /\ (q + k) - (e - LenBytes) = k - (Len(a) + z)
      BY <1>0, <1>1, <1>3, <1>7, <2>1, <2>3
    <3>. QED
      BY <1>4, <1>8, <3>1 DEF FilledByte, PadByte
  <2>. QED
    BY <2>2, <2>3
<1>10. AllPadded(y, N + 1, t, l)
  <2>1. t >= 8 * (Len(x) * BLOCK)
    BY <1>0 DEF q, N
  <2>2. \A k \in 1..BLOCK : c[k] = PadByte(t, (Len(x) + 1) * BLOCK, l, Len(x) * BLOCK + k)
    BY <1>9 DEF e, q, N
  <2>. QED
    BY <1>0, <1>2, <1>8, <2>1, <2>2, OneMore DEF N
<1>. HIDE DEF y
<1>11. y = PaddedBlocks(t)
  <2>1. Split(N, 0, t)
    BY <1>0 DEF q, Split
  <2>2. Total(N, 0, N + 1)
    BY DEF Total
  <2>3. AllPadded(PaddedBlocks(t), N + 1, t, l)
    BY <2>1, <2>2, ReferenceBlocks DEF l
  <2>. QED
    BY <1>10, <2>3, SameBlocks
<1>. QED
  BY <1>11 DEF y, c, a, z, l

(* The one bit goes where the message ends, and zeros behind it.           *)
LEMMA BitSet ==
  ASSUME NEW k, NEW r
  PROVE  /\ SetBit(Num(0), 0) = End(k, 0)
         /\ SetBit(Cut(k, r), r) = End(k, r)
<1>1. SetBit(Num(0), 0) = End(0, 0) /\ End(0, 0) = End(k, 0)
  BY DEF SetBit, End, Num
<1>2. SetBit(Cut(k, r), r) = End(k, r)
  <2> DEFINE c == Cut(k, r)
  <2>1. c # Num(0) /\ c[1] = "cut" /\ c[2] = k /\ c[3] = r
    BY DEF Cut, Num
  <2>. HIDE DEF c
  <2>2. SetBit(c, r) = End(k, r)
    BY <2>1 DEF SetBit
  <2>. QED
    BY <2>2 DEF c
<1>. QED
  BY <1>1, <1>2

ZeroFrom(b, from) == Overlay(b, from, Zeros(BLOCK - from))
Marked(b, at, r) == [b EXCEPT ![at + 1] = SetBit(@, r)]
PadOf(b, t, h) ==
  LET at == (t % (8 * BLOCK)) \div 8
  IN  Marked(ZeroFrom(b, IF h % 8 = 0 THEN at ELSE at + 1), at, t % 8)

LEMMA PadRec ==
  ASSUME NEW x, NEW b, NEW t, NEW h
  PROVE  PadBuffer(Rec(x, b, t, h)) = Rec(x, PadOf(b, t, h), t, h)
<1> DEFINE c == PadOf(b, t, h)
<1>1. PadBuffer(Rec(x, b, t, h)) = [Rec(x, b, t, h) EXCEPT !.buffer = c]
  <2>1. /\ Rec(x, b, t, h).databitlen = t /\ Rec(x, b, t, h).datasize_in_buffer = h
        /\ Rec(x, b, t, h).buffer = b
    BY RecFields
  <2>. QED
    BY <2>1, Zenon DEF PadBuffer, PadOf, BlockBits, ZeroFrom, Marked
<1>. HIDE DEF c
<1>2. [Rec(x, b, t, h) EXCEPT !.buffer = c] = Rec(x, c, t, h)
  BY DEF Rec
<1>. QED
  BY <1>1, <1>2 DEF c

LEMMA ZeroedBytes ==
  ASSUME BLOCK \in Nat, NEW b, Len(b) = BLOCK, NEW from \in 0..BLOCK
  PROVE  /\ ZeroFrom(b, from) = [i \in 1..BLOCK |-> ZeroFrom(b, from)[i]]
         /\ \A i \in 1..from : ZeroFrom(b, from)[i] = b[i]
         /\ \A i \in from + 1 .. BLOCK : ZeroFrom(b, from)[i] = Num(0)
<1> DEFINE d == Zeros(BLOCK - from)
           c == ZeroFrom(b, from)
<1>1. Len(d) = BLOCK - from /\ \A k \in 1 .. BLOCK - from : d[k] = Num(0)
  <2>1. /\ BLOCK - from \in Nat /\ d = [k \in 1 .. BLOCK - from |-> d[k]]
        /\ \A k \in 1 .. BLOCK - from : d[k] = Num(0)
    BY DEF Zeros
  <2>. HIDE DEF d
  <2>. QED
    BY <2>1, Listed
<1>2. c = [i \in 1..BLOCK |-> IF i > from /\ i <= from + Len(d) THEN d[i - from] ELSE b[i]]
  BY DEF ZeroFrom, Overlay
<1>. HIDE DEF c, d
<1>3. ASSUME NEW i \in 1..from
      PROVE  c[i] = b[i]
  <2>1. i \in 1..BLOCK /\ ~(i > from)
    OBVIOUS
  <2>. QED
    BY <1>2, <2>1
<1>4. ASSUME NEW i \in from + 1 .. BLOCK
      PROVE  c[i] = Num(0)
  <2>1. i \in 1..BLOCK /\ i > from /\ i <= from + Len(d) /\ i - from \in 1 .. BLOCK - from
    BY <1>1
  <2>. QED
    BY <1>1, <1>2, <2>1
<1>5. c = [i \in 1..BLOCK |-> c[i]]
  BY <1>2
<1>. QED
  BY <1>3, <1>4, <1>5 DEF c

LEMMA MarkedBytes ==
  ASSUME BLOCK \in Nat, NEW z, z = [i \in 1..BLOCK |-> z[i]], NEW at \in 0 .. BLOCK - 1, NEW r,
         NEW c, c = Marked(z, at, r)
  PROVE  /\ IsSeq(c) /\ Len(c) = BLOCK
         /\ c[at + 1] = SetBit(z[at + 1], r)
         /\ \A i \in 1..BLOCK : i # at + 1 => c[i] = z[i]
<1>1. /\ c = [i \in 1..BLOCK |-> c[i]]
      /\ c[at + 1] = SetBit(z[at + 1], r)
      /\ \A i \in 1..BLOCK : i # at + 1 => c[i] = z[i]
  <2> DEFINE v == SetBit(z[at + 1], r)
  <2>1. c = [z EXCEPT ![at + 1] = v] /\ at + 1 \in 1..BLOCK
    BY DEF Marked
  <2>. HIDE DEF v
  <2>2. /\ c = [i \in 1..BLOCK |-> c[i]] /\ c[at + 1] = v
        /\ \A i \in 1..BLOCK : i # at + 1 => c[i] = z[i]
    BY <2>1
  <2>. QED
    BY <2>2 DEF v
<1>2. IsSeq(c) /\ Len(c) = BLOCK
  BY <1>1, Listed
<1>. QED
  BY <1>1, <1>2

LEMMA PadOfBytes ==
  ASSUME BLOCK \in Nat, NEW x, NEW b, NEW t, NEW h, NEW data, NEW index,
         Good(x, b, t, h, 0, data, index)
  PROVE  LET c == PadOf(b, t, h)
             q == Len(x) * BLOCK
             at == h \div 8
         IN  /\ IsSeq(c) /\ Len(c) = BLOCK
             /\ \A k \in 1..at : c[k] = Msg(q + k)
             /\ c[at + 1] = End(q + at + 1, t % 8)
             /\ \A k \in at + 2 .. BLOCK : c[k] = Num(0)
<1> DEFINE N == Len(x)
           q == N * BLOCK
           at == h \div 8
           r == t % 8
           from == IF h % 8 = 0 THEN at ELSE at + 1
           z == ZeroFrom(b, from)
           c == Marked(z, at, r)
<1>0. N \in Nat /\ q \in Nat /\ t \in Nat /\ h \in Nat /\ t = 8 * q + h + 0 /\ h < 8 * BLOCK
  BY Numbers
<1>1. Len(b) = BLOCK /\ Held(b, t, h, q)
  BY DEF Good, Types
<1>2. PadOf(b, t, h) = c
  <2>1. BLOCK \in Nat \ {0} /\ Split(N, h, t)
    <3>. HIDE DEF N
    <3>1. t = 8 * (N * BLOCK) + h
      BY <1>0
    <3>. QED
      BY <1>0, <3>1 DEF Split
  <2>2. t % (8 * BLOCK) = h
    BY <2>1, PaddedCount
  <2>. QED
    BY <2>2 DEF PadOf
<1>. HIDE DEF N, q
<1>3. at \in 0 .. BLOCK - 1 /\ r \in 0..7 /\ t = 8 * (q + at) + r /\ h = 8 * at + r
      /\ (h % 8 = 0 <=> r = 0)
  BY <1>0
<1>. HIDE DEF at, r
<1>4. from \in 0..BLOCK /\ (r = 0 => from = at) /\ (r # 0 => from = at + 1)
  BY <1>3
<1>. HIDE DEF from
<1>5. /\ z = [i \in 1..BLOCK |-> z[i]]
      /\ \A i \in 1..from : z[i] = b[i]
      /\ \A i \in from + 1 .. BLOCK : z[i] = Num(0)
  BY <1>1, <1>4, ZeroedBytes
<1>. HIDE DEF z
<1>6. /\ IsSeq(c) /\ Len(c) = BLOCK
      /\ c[at + 1] = SetBit(z[at + 1], r)
      /\ \A i \in 1..BLOCK : i # at + 1 => c[i] = z[i]
  BY <1>3, <1>5, MarkedBytes
<1>. HIDE DEF c
<1>7. ASSUME NEW k \in 1..at
      PROVE  c[k] = Msg(q + k)
  <2>1. k \in 1..BLOCK /\ k # at + 1 /\ k \in 1..from /\ 8 * (k - 1) < h /\ 8 * (q + k) <= t
    BY <1>0, <1>3, <1>4
  <2>2. c[k] = b[k]
    BY <1>5, <1>6, <2>1
  <2>3. b[k] = MsgByte(q + k, t)
    BY <1>1, <2>1 DEF Held
  <2>. QED
    BY <2>1, <2>2, <2>3 DEF MsgByte
<1>8. c[at + 1] = End(q + at + 1, r)
  <2>1. CASE r = 0
    <3>1. at + 1 \in from + 1 .. BLOCK
      BY <1>3, <1>4, <2>1
    <3>2. z[at + 1] = Num(0)
      BY <1>5, <3>1
    <3>. QED
      BY <1>6, <2>1, <3>2, BitSet
  <2>2. CASE r # 0
    <3>1. /\ at + 1 \in 1..from /\ at + 1 \in 1..BLOCK /\ 8 * ((at + 1) - 1) < h
          /\ q + (at + 1) = q + at + 1 /\ ~(8 * (q + (at + 1)) <= t)
      BY <1>0, <1>3, <1>4, <2>2
    <3>2. z[at + 1] = MsgByte(q + (at + 1), t)
      BY <1>1, <1>5, <3>1 DEF Held
    <3>3. z[at + 1] = Cut(q + at + 1, r)
      BY <3>1, <3>2 DEF MsgByte, r
    <3>. QED
      BY <1>6, <3>3, BitSet
  <2>. QED
    BY <2>1, <2>2
<1>9. ASSUME NEW k \in at + 2 .. BLOCK
      PROVE  c[k] = Num(0)
  <2>1. k \in 1..BLOCK /\ k # at + 1 /\ k \in from + 1 .. BLOCK
    BY <1>3, <1>4
  <2>. QED
    BY <1>5, <1>6, <2>1
<1>. QED
  BY <1>2, <1>6, <1>7, <1>8, <1>9 DEF N, q, at, r

(* The message ends inside a block: the padded one and one with the length. *)
LEMMA FinalPartial ==
  ASSUME BLOCK \in Nat, LenBytes \in Nat, BLOCK > LenBytes,
         NEW x, NEW b, NEW t, NEW h, NEW data, NEW index,
         Good(x, b, t, h, 0, data, index), h # 0
  PROVE  Append(Append(x, PadOf(b, t, h)), Filled(<<>>, BLOCK - LenBytes - 0, Length(t)))
           = PaddedBlocks(t)
<1> DEFINE N == Len(x)
           q == N * BLOCK
           at == h \div 8
           c == PadOf(b, t, h)
           z == BLOCK - LenBytes - 0
           a == <<>>
           l == Length(t)
           f == Filled(a, z, l)
           w == Append(x, c)
           y == Append(w, f)
           e == (N + 2) * BLOCK
<1>0. N \in Nat /\ q \in Nat /\ t \in Nat /\ h \in Nat /\ t = 8 * q + h + 0 /\ h < 8 * BLOCK
  BY Numbers
<1>1. (N + 1) * BLOCK = q + BLOCK /\ e = q + BLOCK + BLOCK
  <2>1. (N + 1) * BLOCK = q + BLOCK /\ N + 1 \in Nat /\ N + 2 = (N + 1) + 1
    BY <1>0, Product
  <2>2. ((N + 1) + 1) * BLOCK = (N + 1) * BLOCK + BLOCK
    BY <2>1, Product
  <2>. QED
    BY <2>1, <2>2
<1>2. IsSeq(x) /\ Compressed(x)
  BY DEF Good, Types
<1>3. /\ IsSeq(c) /\ Len(c) = BLOCK
      /\ \A k \in 1..at : c[k] = Msg(q + k)
      /\ c[at + 1] = End(q + at + 1, t % 8)
      /\ \A k \in at + 2 .. BLOCK : c[k] = Num(0)
  BY PadOfBytes
<1>4. IsSeq(a) /\ Len(a) = 0
  BY DEF IsSeq
<1>5. IsSeq(l) /\ Len(l) = LenBytes
  BY LengthType
<1>6. z \in Nat /\ z + LenBytes = BLOCK
  OBVIOUS
<1>. HIDE DEF N, q, c, z, a, l, e
<1>7. at \in 0 .. BLOCK - 1 /\ t \div 8 = q + at
  BY <1>0
<1>. HIDE DEF at
<1>8. IsSeq(f) /\ Len(f) = BLOCK /\ \A k \in 1..BLOCK : f[k] = FilledByte(a, z, l, k)
  <2>1. IsSeq(a) /\ IsSeq(l) /\ z \in Nat
    BY <1>4, <1>5, <1>6
  <2>2. /\ IsSeq(f) /\ Len(f) = Len(a) + z + Len(l)
        /\ \A k \in 1 .. Len(a) + z + Len(l) : f[k] = FilledByte(a, z, l, k)
    BY <2>1, FilledBytes
  <2>3. Len(a) + z + Len(l) = BLOCK
    BY <1>4, <1>5, <1>6
  <2>. QED
    BY <2>2, <2>3
<1>. HIDE DEF f
<1>9. ASSUME NEW k \in 1..BLOCK
      PROVE  c[k] = PadByte(t, e, l, q + k)
  <2>1. CASE k <= at
    <3>1. k \in 1..at /\ q + k <= t \div 8
      BY <1>0, <1>7, <2>1
    <3>. QED
      BY <1>3, <3>1 DEF PadByte
  <2>2. CASE k = at + 1
    <3>1. ~(q + k <= t \div 8) /\ q + k = (t \div 8) + 1 /\ q + k = q + at + 1
      BY <1>0, <1>7, <2>2
    <3>. QED
      BY <1>3, <2>2, <3>1 DEF PadByte
  <2>3. CASE k > at + 1
    <3>1. /\ ~(q + k <= t \div 8) /\ q + k # (t \div 8) + 1 /\ q + k <= e - Len(l)
          /\ k \in at + 2 .. BLOCK
      BY <1>0, <1>1, <1>5, <1>7, <2>3
    <3>. QED
      BY <1>3, <3>1 DEF PadByte
  <2>. QED
    BY <1>7, <2>1, <2>2, <2>3
<1>10. ASSUME NEW k \in 1..BLOCK
       PROVE  f[k] = PadByte(t, e, l, (q + BLOCK) + k)
  <2> DEFINE u == (q + BLOCK) + k
  <2>1. /\ ~(u <= t \div 8) /\ u # (t \div 8) + 1
        /\ (u <= e - Len(l) <=> k <= Len(a) + z)
        /\ u - (e - Len(l)) = k - (Len(a) + z) /\ ~(k <= Len(a))
    BY <1>0, <1>1, <1>4, <1>5, <1>6, <1>7
  <2>. HIDE DEF u
  <2>2. f[k] = PadByte(t, e, l, u)
    BY <1>8, <2>1 DEF FilledByte, PadByte
  <2>. QED
    BY <2>2 DEF u
<1>11. AllPadded(y, N + 2, t, l)
  <2>1. t >= 8 * (Len(x) * BLOCK)
    BY <1>0 DEF q, N
  <2>2. \A k \in 1..BLOCK : c[k] = PadByte(t, (Len(x) + 2) * BLOCK, l, Len(x) * BLOCK + k)
    BY <1>9 DEF e, q, N
  <2>3. \A k \in 1..BLOCK :
           f[k] = PadByte(t, (Len(x) + 2) * BLOCK, l, (Len(x) + 1) * BLOCK + k)
    BY <1>1, <1>10 DEF e, N
  <2>. QED
    BY <1>0, <1>2, <1>3, <1>8, <2>1, <2>2, <2>3, TwoMore DEF N
<1>. HIDE DEF y
<1>12. y = PaddedBlocks(t)
  <2>1. Split(N, h, t)
    BY <1>0 DEF q, Split
  <2>2. Total(N, h, N + 2)
    BY DEF Total
  <2>3. AllPadded(PaddedBlocks(t), N + 2, t, l)
    BY <2>1, <2>2, ReferenceBlocks DEF l
  <2>. QED
    BY <1>11, <2>3, SameBlocks
<1>. QED
  BY <1>12 DEF y, w, f, c, a, z, l

-----------------------------------------------------------------------------
(* The actions.                                                            *)
LEMMA InitInv ==
  ASSUME JhAssumption, Init
  PROVE  IInv
<1> DEFINE b == [i \in 1..BLOCK |-> Junk]
<1>1. state = Rec(<<>>, b, 0, 0) /\ call = Args(<<>>, 0, 0) /\ phase = "open"
  BY DEF Init, Rec, Args
<1>2. IsSeq(b) /\ Len(b) = BLOCK
  <2>1. BLOCK \in Nat /\ b = [i \in 1..BLOCK |-> b[i]]
    BY DEF JhAssumption
  <2>. HIDE DEF b
  <2>. QED
    BY <2>1, Listed
<1>. HIDE DEF b
<1>3. IsSeq(<<>>) /\ Len(<<>>) = 0
  BY DEF IsSeq
<1>4. Good(<<>>, b, 0, 0, 0, <<>>, 0)
  <2>1. Types(<<>>, b, 0, 0, 0, <<>>, 0)
    BY <1>2, <1>3 DEF Types
  <2>2. 0 * BLOCK = 0 /\ 0 < 8 * BLOCK
    BY DEF JhAssumption
  <2>3. Counted(Len(<<>>), 0, 0, 0)
    BY <1>3, <2>2 DEF Counted
  <2>4. Compressed(<<>>) /\ Held(b, 0, 0, 0) /\ Pending(<<>>, 0, 0, 0, 0)
    BY <1>3 DEF Compressed, Held, Pending
  <2>. QED
    BY <1>3, <2>1, <2>2, <2>3, <2>4 DEF Good
<1>. QED
  BY <1>1, <1>4, RecFields, ArgsFields DEF IInv, HashesPaddedMessage

(* How a step that keeps the facts about the records keeps the invariant.  *)
LEMMA InvFrom ==
  ASSUME NEW x, NEW b, NEW t, NEW h, NEW d, NEW i, NEW p,
         state' = Rec(x, b, t, h), call' = Args(d, i, p), phase' \in {"open", "update"},
         phase' = "open" => p = 0, Good(x, b, t, h, p, d, i)
  PROVE  IInv'
<1>1. /\ state'.x = x /\ state'.buffer = b
      /\ state'.databitlen = t /\ state'.datasize_in_buffer = h
  BY RecFields
<1>2. call'.data = d /\ call'.index = i /\ call'.databitlen = p
  BY ArgsFields
<1>. QED
  BY <1>1, <1>2 DEF IInv, HashesPaddedMessage

LEMMA UpdateInv ==
  ASSUME JhAssumption, IInv, NEW bits \in Nat, Update(bits)
  PROVE  IInv'
<1> DEFINE x == state.x
           b == state.buffer
           t == state.databitlen
           h == state.datasize_in_buffer
           at == h \div 8
           d == Data(t \div 8, bits)
<1>1. /\ phase = "open" /\ state = Rec(x, b, t, h) /\ t % 8 = 0 /\ phase' = "update"
      /\ Good(x, b, t, h, 0, call.data, call.index) /\ BLOCK \in Nat
  BY DEF IInv, Update, JhAssumption
<1>2. h \in Nat /\ t \in Nat /\ h < 8 * BLOCK /\ at \in 0 .. BLOCK - 1
  BY <1>1, HeldBytes
<1> DEFINE s == [state EXCEPT !.databitlen = @ + bits]
<1>3. s = Rec(x, b, t + bits, h)
  <2>1. s = [state EXCEPT !.databitlen = t + bits]
    BY Zenon
  <2>. HIDE DEF x, b, t, h, s
  <2>. QED
    BY <1>1, <2>1 DEF Rec
<1>4. \/ /\ h > 0 /\ h + bits < 8 * BLOCK
         /\ state' = Gather(s, d, bits) /\ call' = Args(d, 0, 0)
      \/ /\ h > 0 /\ h + bits >= 8 * BLOCK
         /\ state' = Complete(s, d) /\ call' = Args(d, BLOCK - at, bits - (8 * BLOCK - h))
      \/ /\ h = 0 /\ state' = s /\ call' = Args(d, 0, bits)
  BY Zenon DEF Update, BlockBits, Args
<1>. HIDE DEF x, b, t, h, d, s, at
<1>5. CASE /\ h > 0 /\ h + bits < 8 * BLOCK
           /\ state' = Gather(s, d, bits) /\ call' = Args(d, 0, 0)
  <2> DEFINE n == IF bits % 8 = 0 THEN BLOCK - at ELSE BLOCK - at + 1
             c == Into(b, at, d, 0, n)
  <2>1. n \in Nat /\ n >= BLOCK - at
    BY <1>1, <1>2
  <2>2. state' = Rec(x, c, t + bits, h + bits)
    <3> DEFINE g == Copy(s, at, d, 0, n)
    <3>1. s.datasize_in_buffer \div 8 = at
      BY <1>3, RecFields DEF at
    <3>2. state' = [g EXCEPT !.datasize_in_buffer = @ + bits]
      BY <1>5, <3>1, Zenon DEF Gather
    <3>. HIDE DEF n
    <3>3. g = Rec(x, c, t + bits, h)
      BY <1>3, CopyRec
    <3>. HIDE DEF g, c
    <3>4. state' = [g EXCEPT !.datasize_in_buffer = h + bits]
      <4>1. g.datasize_in_buffer = h
        BY <3>3, RecFields
      <4>. QED
        BY <3>2, <4>1, Zenon
    <3>. QED
      BY <3>3, <3>4 DEF Rec
  <2>. HIDE DEF n
  <2>3. Good(x, c, t + bits, h + bits, 0, d, 0)
    <3>1. n \in Nat /\ 8 * n >= bits
      BY <1>1, <1>2, <1>5, <2>1 DEF at
    <3>. QED
      BY <1>1, <1>5, <3>1, Gathered DEF d, at
  <2>. HIDE DEF c
  <2>. QED
    BY <1>1, <1>5, <2>2, <2>3, InvFrom
<1>6. CASE /\ h > 0 /\ h + bits >= 8 * BLOCK
           /\ state' = Complete(s, d) /\ call' = Args(d, BLOCK - at, bits - (8 * BLOCK - h))
  <2> DEFINE c == Into(b, at, d, 0, BLOCK - at)
  <2>1. state' = Rec(Append(x, c), c, t + bits, 0)
    <3> DEFINE g == Copy(s, at, d, 0, BLOCK - at)
    <3>1. s.datasize_in_buffer \div 8 = at
      BY <1>3, RecFields DEF at
    <3>2. state' = [F8(g) EXCEPT !.datasize_in_buffer = 0]
      BY <1>6, <3>1, Zenon DEF Complete
    <3>3. g = Rec(x, c, t + bits, h)
      BY <1>3, CopyRec
    <3>. HIDE DEF g, c
    <3>4. F8(g) = Rec(Append(x, c), c, t + bits, h)
      BY <3>3, F8Rec
    <3> DEFINE y == Append(x, c)
               v == t + bits
    <3>5. [Rec(y, c, v, h) EXCEPT !.datasize_in_buffer = 0] = Rec(y, c, v, 0)
      <4>. HIDE DEF y, v
      <4>. QED
        BY DEF Rec
    <3>. QED
      BY <3>2, <3>4, <3>5, Zenon
  <2>2. Good(Append(x, c), c, t + bits, 0, bits - (8 * BLOCK - h), d, BLOCK - at)
    BY <1>1, <1>6, Completed DEF d, at
  <2>. HIDE DEF c
  <2>. QED
    BY <1>1, <1>6, <2>1, <2>2, InvFrom
<1>7. CASE h = 0 /\ state' = s /\ call' = Args(d, 0, bits)
  <2>1. state' = Rec(x, b, t + bits, 0)
    BY <1>3, <1>7
  <2>2. Good(x, b, t + bits, 0, bits, d, 0)
    BY <1>1, <1>7, Start DEF d
  <2>. QED
    BY <1>1, <1>7, <2>1, <2>2, InvFrom
<1>. QED
  BY <1>4, <1>5, <1>6, <1>7

LEMMA UpdateBlockInv ==
  ASSUME JhAssumption, IInv, UpdateBlock
  PROVE  IInv'
<1> DEFINE x == state.x
           b == state.buffer
           t == state.databitlen
           h == state.datasize_in_buffer
           d == call.data
           i == call.index
           p == call.databitlen
           c == Into(b, 0, d, i, BLOCK)
<1>1. /\ phase = "update" /\ phase' = "update" /\ BLOCK \in Nat
      /\ state = Rec(x, b, t, h) /\ call = Args(d, i, p)
      /\ Good(x, b, t, h, p, d, i) /\ p >= 8 * BLOCK
  BY DEF IInv, UpdateBlock, JhAssumption, BlockBits
<1>2. call' = Args(d, i + BLOCK, p - 8 * BLOCK)
  <2>1. call' = [call EXCEPT !.index = i + BLOCK, !.databitlen = p - 8 * BLOCK]
    BY Zenon DEF UpdateBlock, BlockBits
  <2>. HIDE DEF d, i, p
  <2>. QED
    BY <1>1, <2>1 DEF Args
<1>3. state' = F8(Copy(state, 0, d, i, BLOCK))
  BY DEF UpdateBlock
<1>. HIDE DEF x, b, t, h, d, i, p
<1>4. state' = Rec(Append(x, c), c, t, h)
  <2>1. Copy(state, 0, d, i, BLOCK) = Rec(x, c, t, h)
    BY <1>1, CopyRec
  <2>. HIDE DEF c
  <2>. QED
    BY <1>3, <2>1, F8Rec
<1>5. Good(Append(x, c), c, t, h, p - 8 * BLOCK, d, i + BLOCK)
  BY <1>1, BlockRead
<1>. HIDE DEF c
<1>. QED
  BY <1>1, <1>2, <1>4, <1>5, InvFrom

LEMMA UpdateRestInv ==
  ASSUME JhAssumption, IInv, UpdateRest
  PROVE  IInv'
<1> DEFINE x == state.x
           b == state.buffer
           t == state.databitlen
           h == state.datasize_in_buffer
           d == call.data
           i == call.index
           p == call.databitlen
           n == (p \div 8) + IF p % 8 = 0 THEN 0 ELSE 1
           c == Into(b, 0, d, i, n)
<1>1. /\ phase = "update" /\ phase' = "open" /\ BLOCK \in Nat
      /\ state = Rec(x, b, t, h) /\ call' = Args(<<>>, 0, 0)
      /\ Good(x, b, t, h, p, d, i) /\ p < 8 * BLOCK
  BY DEF IInv, UpdateRest, JhAssumption, BlockBits, Args
<1>2. /\ p = 0 => state' = state
      /\ p # 0 => state' = [Copy(state, 0, d, i, n) EXCEPT !.datasize_in_buffer = p]
  BY Zenon DEF UpdateRest
<1>. HIDE DEF x, b, t, h, d, i, p
<1>3. CASE p = 0
  <2>1. Good(x, b, t, h, 0, <<>>, 0)
    BY <1>1, <1>3, NothingLeft
  <2>. QED
    BY <1>1, <1>2, <1>3, <2>1, InvFrom
<1>4. CASE p # 0
  <2>1. Good(x, c, t, p, 0, <<>>, 0)
    BY <1>1, <1>4, RestKept
  <2>. HIDE DEF n
  <2>2. Copy(state, 0, d, i, n) = Rec(x, c, t, h)
    BY <1>1, CopyRec
  <2>. HIDE DEF c
  <2>3. [Rec(x, c, t, h) EXCEPT !.datasize_in_buffer = p] = Rec(x, c, t, p)
    BY DEF Rec
  <2>4. state' = Rec(x, c, t, p)
    BY <1>2, <1>4, <2>2, <2>3, Zenon
  <2>. QED
    BY <1>1, <2>1, <2>4, InvFrom
<1>. QED
  BY <1>3, <1>4

LEMMA FinalInv ==
  ASSUME JhAssumption, IInv, Final
  PROVE  IInv'
<1> DEFINE x == state.x
           b == state.buffer
           t == state.databitlen
           h == state.datasize_in_buffer
<1>1. /\ phase = "open" /\ phase' = "done" /\ call' = call
      /\ BLOCK \in Nat /\ LenBytes \in Nat /\ BLOCK > LenBytes
      /\ state = Rec(x, b, t, h) /\ call = Args(call.data, call.index, call.databitlen)
      /\ Good(x, b, t, h, 0, call.data, call.index)
  BY DEF IInv, Final, JhAssumption
<1>2. /\ t % (8 * BLOCK) = 0 => state' = F8(LengthBlock(state, <<End(0, 0)>>))
      /\ t % (8 * BLOCK) # 0 => state' = F8(LengthBlock(F8(PadBuffer(state)), <<>>))
  BY Zenon DEF Final, BlockBits
<1>. HIDE DEF x, b, t, h
<1>3. t % (8 * BLOCK) = h
  <2>1. /\ Len(x) \in Nat /\ h \in Nat /\ t = 8 * (Len(x) * BLOCK) + h + 0 /\ h < 8 * BLOCK
        /\ Len(x) * BLOCK \in Nat
    BY <1>1, Numbers
  <2>2. BLOCK \in Nat \ {0}
    BY <1>1
  <2>3. Split(Len(x), h, t)
    <3> DEFINE q == Len(x) * BLOCK
    <3>1. 8 * q + h + 0 = 8 * q + h
      <4>1. q \in Nat /\ h \in Nat
        BY <2>1
      <4>. HIDE DEF q
      <4>. QED
        BY <4>1
    <3>. QED
      BY <2>1, <3>1 DEF Split
  <2>. QED
    BY <2>2, <2>3, PaddedCount
<1>4. \E c : state' = Rec(PaddedBlocks(t), c, t, h)
  <2>1. CASE h = 0
    <3> DEFINE a == <<End(0, 0)>>
               c == Filled(a, BLOCK - LenBytes - Len(a), Length(t))
    <3>1. state' = F8(LengthBlock(Rec(x, b, t, h), a))
      BY <1>1, <1>2, <1>3, <2>1
    <3>2. c = Filled(<<End(0, 0)>>, BLOCK - LenBytes - 1, Length(t))
      <4>1. Len(a) = 1
        OBVIOUS
      <4>. QED
        BY <4>1
    <3>3. Append(x, c) = PaddedBlocks(t)
      <4>1. Good(x, b, t, 0, 0, call.data, call.index)
        BY <1>1, <2>1
      <4>. QED
        BY <1>1, <3>2, <4>1, FinalWhole
    <3>. HIDE DEF a
    <3>4. LengthBlock(Rec(x, b, t, h), a) = Rec(x, c, t, h)
      BY LengthRec
    <3>. HIDE DEF c
    <3>5. state' = Rec(Append(x, c), c, t, h)
      BY <3>1, <3>4, F8Rec
    <3>. QED
      BY <3>3, <3>5
  <2>2. CASE h # 0
    <3> DEFINE a == <<>>
               v == PadOf(b, t, h)
               w == Append(x, v)
               c == Filled(a, BLOCK - LenBytes - Len(a), Length(t))
    <3>1. state' = F8(LengthBlock(F8(PadBuffer(Rec(x, b, t, h))), a))
      BY <1>1, <1>2, <1>3, <2>2
    <3>2. c = Filled(<<>>, BLOCK - LenBytes - 0, Length(t))
      <4>1. Len(a) = 0
        OBVIOUS
      <4>. QED
        BY <4>1
    <3>3. Append(w, c) = PaddedBlocks(t)
      BY <1>1, <2>2, <3>2, FinalPartial
    <3>4. PadBuffer(Rec(x, b, t, h)) = Rec(x, v, t, h)
      BY PadRec
    <3>. HIDE DEF v
    <3>5. F8(Rec(x, v, t, h)) = Rec(w, v, t, h)
      BY F8Rec
    <3>. HIDE DEF w
    <3>6. LengthBlock(Rec(w, v, t, h), a) = Rec(w, c, t, h)
      BY LengthRec
    <3>. HIDE DEF a, c
    <3>7. state' = Rec(Append(w, c), c, t, h)
      BY <3>1, <3>4, <3>5, <3>6, F8Rec
    <3>. QED
      BY <3>3, <3>7
  <2>. QED
    BY <2>1, <2>2
<1>5. PICK c : state' = Rec(PaddedBlocks(t), c, t, h)
  BY <1>4
<1>6. /\ state'.x = PaddedBlocks(t) /\ state'.buffer = c
      /\ state'.databitlen = t /\ state'.datasize_in_buffer = h
  BY <1>5, RecFields
<1>. QED
  BY <1>1, <1>5, <1>6 DEF IInv, HashesPaddedMessage, PaddedBlocks

-----------------------------------------------------------------------------
LEMMA NextInv ==
  ASSUME JhAssumption, IInv, [Next]_vars
  PROVE  IInv'
<1>1. ASSUME NEW n \in 0..(MaxBits \div 8), NEW r \in Rems, Update(8 * n + r)
      PROVE  IInv'
  <2>1. 8 * n + r \in Nat
    <3>1. r \in 0..7
      BY DEF JhAssumption
    <3>2. n \in Nat
      OBVIOUS
    <3>. QED
      BY <3>1, <3>2
  <2>. QED
    BY <1>1, <2>1, UpdateInv
<1>2. CASE UpdateBlock
  BY <1>2, UpdateBlockInv
<1>3. CASE UpdateRest
  BY <1>3, UpdateRestInv
<1>4. CASE Final
  BY <1>4, FinalInv
<1>5. CASE UNCHANGED vars
  BY <1>5 DEF vars, IInv, HashesPaddedMessage
<1>. QED
  BY <1>1, <1>2, <1>3, <1>4, <1>5 DEF Next

(* JH compresses exactly the blocks of the padded message, for every       *)
(* message length in bits, every cut of the message into calls of Update   *)
(* whose lengths but the last are whole bytes, and every size of a block   *)
(* that has room for the length (jh.c, Update and Final).                  *)
THEOREM JhHashesPaddedMessage ==
  ASSUME JhAssumption
  PROVE  Spec => []HashesPaddedMessage
<1>1. Init => IInv
  BY InitInv
<1>2. IInv /\ [Next]_vars => IInv'
  BY NextInv
<1>3. IInv => HashesPaddedMessage
  BY DEF IInv
<1>. QED
  BY <1>1, <1>2, <1>3, PTL DEF Spec

-----------------------------------------------------------------------------
(***************************************************************************)
(* Groestl.  Its blocks have BLOCK bytes here, so that the lemmas above    *)
(* speak about them; its other constants and its variables are its own.    *)
(***************************************************************************)
CONSTANT LENGTHFIELDLEN
VARIABLES ctx, stage, total, output, args

GR == INSTANCE Groestl WITH SIZE512 <- BLOCK, phase <- stage, call <- args

(* A context that has counted n blocks, and the arguments of Update.       *)
Raw(x, i, j, b, p, r) ==
  [chaining |-> x, block_counter1 |-> i, block_counter2 |-> j,
   buffer |-> b, buf_ptr |-> p, bits_in_last_byte |-> r]
Ctx(x, n, b, p, r) ==
  Raw(x, n % GR!CounterMod, (n \div GR!CounterMod) % GR!CounterMod, b, p, r)
Input(d, i, n, r) == [input |-> d, index |-> i, msglen |-> n, rem |-> r]

(* Where h bits end in the buffer.                                         *)
Ptr(h) == IF h % 8 = 0 THEN h \div 8 ELSE (h \div 8) + 1

(* The inductive invariant: what Good says of the message, with the number *)
(* of compressed blocks in the counters.                                   *)
Between(x, b, h, p, d, i) ==
  /\ ctx = Ctx(x, Len(x), b, Ptr(h), h % 8)
  /\ Good(x, b, total, h, p, d, i)
  /\ stage = "open" => p = 0
  /\ stage = "update" => h = 0 /\ args = Input(d, i, i + (p \div 8), p % 8)

GInv ==
  /\ stage \in {"open", "update", "done"}
  /\ stage # "done" => \E x, b, h, p, d, i : Between(x, b, h, p, d, i)
  /\ GR!HashesPaddedMessage

-----------------------------------------------------------------------------
(* Arithmetic of the counters and of their bytes.                          *)
LEMMA Euclid ==
  ASSUME NEW n \in Nat, NEW b \in Nat, b > 0
  PROVE  n \div b \in Nat /\ n % b \in 0 .. b - 1 /\ n = (n \div b) * b + (n % b)
<1>1. n % b \in 0 .. b - 1
  BY SMT
<1>2. n \div b \in Int
  BY SMT
<1>3. n = b * (n \div b) + (n % b)
  BY SMT
<1>4. n \div b \in Nat
  BY <1>1, <1>2, <1>3, SMT
<1>. QED
  BY <1>1, <1>3, <1>4, SMT

LEMMA CountUp ==
  ASSUME NEW v \in Nat, NEW m \in Nat \ {0}
  PROVE  /\ ((v % m) + 1) % m = (v + 1) % m
         /\ (v + 1) % m = 0 => (((v \div m) % m) + 1) % m = ((v + 1) \div m) % m
         /\ (v + 1) % m # 0 => (v \div m) = ((v + 1) \div m)
<1>1. ASSUME NEW w \in Nat
      PROVE  /\ (w % m) + 1 < m => ((w % m) + 1) % m = (w % m) + 1 /\ (w + 1) % m = (w % m) + 1
                                   /\ (w + 1) \div m = w \div m
             /\ ~((w % m) + 1 < m) => ((w % m) + 1) % m = 0 /\ (w + 1) % m = 0
                                      /\ (w + 1) \div m = (w \div m) + 1
  <2> DEFINE a == w \div m
             r == w % m
  <2>1. a \in Nat /\ r \in 0 .. m - 1 /\ w = a * m + r
    BY Euclid
  <2>. HIDE DEF a, r
  <2>2. CASE r + 1 < m
    <3>1. r + 1 \in 0 .. m - 1 /\ a * m \in Nat
      BY <2>1, <2>2, Product
    <3>2. w + 1 = a * m + (r + 1)
      <4> DEFINE am == a * m
      <4>1. am \in Nat /\ w = am + r
        BY <2>1, <3>1
      <4>. HIDE DEF am
      <4>2. w + 1 = am + (r + 1)
        BY <2>1, <4>1
      <4>. QED
        BY <4>2 DEF am
    <3>3. (a * m + (r + 1)) \div m = a /\ (a * m + (r + 1)) % m = r + 1
      BY <2>1, <3>1, WholeAndRest
    <3>4. (0 * m + (r + 1)) % m = r + 1 /\ 0 * m + (r + 1) = r + 1
      BY <2>1, <3>1, WholeAndRest
    <3>. QED
      BY <2>2, <3>2, <3>3, <3>4 DEF a, r
  <2>3. CASE ~(r + 1 < m)
    <3>1. r + 1 = m /\ a + 1 \in Nat /\ 0 \in 0 .. m - 1
      BY <2>1, <2>3
    <3>2. a * m \in Nat /\ (a + 1) * m = a * m + m
      BY <2>1, Product
    <3>3. w + 1 = (a + 1) * m + 0
      <4> DEFINE am == a * m
      <4>1. am \in Nat /\ w = am + r /\ (a + 1) * m = am + m
        BY <2>1, <3>2
      <4>. HIDE DEF am
      <4>. QED
        BY <2>1, <3>1, <4>1
    <3>4. ((a + 1) * m + 0) \div m = a + 1 /\ ((a + 1) * m + 0) % m = 0
      BY <3>1, WholeAndRest
    <3>5. (1 * m + 0) % m = 0 /\ 1 * m + 0 = m
      BY <3>1, WholeAndRest
    <3>. QED
      BY <2>3, <3>1, <3>3, <3>4, <3>5 DEF a, r
  <2>. QED
    BY <2>2, <2>3 DEF r
<1>2. v \div m \in Nat /\ v % m \in 0 .. m - 1
  BY Euclid
<1>3. ((v % m) + 1) % m = (v + 1) % m
  BY <1>1
<1>4. (v + 1) % m = 0 => (v + 1) \div m = (v \div m) + 1
  <2>1. (v % m) + 1 # 0
    BY <1>2
  <2>. QED
    BY <1>1, <2>1
<1>5. (v + 1) % m # 0 => (v + 1) \div m = v \div m
  BY <1>1
<1> DEFINE w == v \div m
<1>6. ((w % m) + 1) % m = (w + 1) % m
  <2>. HIDE DEF w
  <2>1. w \in Nat
    BY <1>2 DEF w
  <2>. QED
    BY <1>1, <2>1
<1>. QED
  BY <1>3, <1>4, <1>5, <1>6

(* A digit of w % m is one of w.                                           *)
Digit(w, q, b) == (w \div q) % b
IsProduct(m, b, r, q) == m = (b * r) * q

LEMMA DigitOfRest ==
  ASSUME NEW w \in Nat, NEW b \in Nat \ {0}, NEW q \in Nat \ {0}, NEW r \in Nat \ {0},
         NEW m, IsProduct(m, b, r, q)
  PROVE  Digit(w % m, q, b) = Digit(w, q, b)
<1>0. m = (b * r) * q
  BY DEF IsProduct
<1> DEFINE z == w \div q
           s == w % q
           y == z \div b
           d == z % b
           g == y \div r
           f == y % r
           k == f * b + d
<1>1. z \in Nat /\ s \in 0 .. q - 1 /\ w = z * q + s
  BY Euclid
<1>. HIDE DEF z, s
<1>2. y \in Nat /\ d \in 0 .. b - 1 /\ z = y * b + d
  BY <1>1, Euclid
<1>. HIDE DEF y, d
<1>3. g \in Nat /\ f \in 0 .. r - 1 /\ y = g * r + f
  BY <1>2, Euclid
<1>. HIDE DEF g, f
<1>4. k \in Nat /\ k < b * r
  <2>1. f \in Nat /\ r - 1 - f \in Nat /\ d \in Nat /\ b - 1 - d \in Nat
    BY <1>2, <1>3
  <2>2. f * b \in Nat /\ (r - 1 - f) * b \in Nat
    BY <2>1, Product
  <2>3. b * r = f * b + (r - 1 - f) * b + b
    BY <2>1, SMT
  <2> DEFINE fb == f * b
             rb == (r - 1 - f) * b
             br == b * r
  <2>4. fb \in Nat /\ rb \in Nat /\ br = fb + rb + b
    BY <2>2, <2>3
  <2>. HIDE DEF fb, rb, br
  <2>5. fb + d \in Nat /\ fb + d < br
    BY <1>2, <2>4
  <2>. QED
    BY <2>5 DEF fb, br
<1>5. z = g * (b * r) + k
  BY <1>1, <1>2, <1>3, SMT
<1>. HIDE DEF k
<1>6. b * r \in Nat \ {0} /\ m \in Nat \ {0}
  BY <1>0, SMT
<1>7. k * q + s \in 0 .. m - 1
  <2> DEFINE t == b * r
  <2>1. t \in Nat /\ t - 1 - k \in Nat
    BY <1>4, <1>6
  <2>2. k * q \in Nat /\ (t - 1 - k) * q \in Nat
    BY <1>4, <2>1, Product
  <2>3. t * q = k * q + (t - 1 - k) * q + q
    <3>. HIDE DEF t
    <3>. QED
      BY <1>4, <2>1, SMT
  <2> DEFINE kq == k * q
             tq == (t - 1 - k) * q
  <2>4. kq \in Nat /\ tq \in Nat /\ m = kq + tq + q
    BY <1>0, <2>2, <2>3
  <2>. HIDE DEF kq, tq
  <2>5. kq + s \in 0 .. m - 1
    BY <1>1, <1>6, <2>4
  <2>. QED
    BY <2>5 DEF kq
<1>8. w = g * m + (k * q + s)
  <2>1. w = (g * (b * r) + k) * q + s
    BY <1>1, <1>5
  <2> DEFINE t == b * r
  <2>2. (g * t + k) * q = g * (t * q) + k * q
    <3>. HIDE DEF t
    <3>1. t \in Nat
      BY <1>6 DEF t
    <3>. QED
      BY <1>3, <1>4, <3>1, SMT
  <2>3. g * m \in Nat /\ k * q \in Nat
    BY <1>3, <1>4, <1>6, Product
  <2> DEFINE gm == g * m
             kq == k * q
  <2>4. w = (gm + kq) + s
    BY <1>0, <2>1, <2>2
  <2>5. gm \in Nat /\ kq \in Nat
    BY <2>3
  <2>. HIDE DEF gm, kq
  <2>6. w = gm + (kq + s)
    BY <1>1, <2>4, <2>5
  <2>. QED
    BY <2>6 DEF gm, kq
<1>9. w % m = k * q + s
  <2>1. (g * m + (k * q + s)) % m = k * q + s
    BY <1>3, <1>6, <1>7, WholeAndRest
  <2>. QED
    BY <1>8, <2>1
<1>10. (k * q + s) \div q = k
  BY <1>1, <1>4, WholeAndRest
<1>11. k % b = d
  <2>1. (f * b + d) % b = d
    <3>1. f \in Nat
      BY <1>3
    <3>. QED
      BY <1>2, <3>1, WholeAndRest
  <2>. QED
    BY <2>1 DEF k
<1>12. Digit(w % m, q, b) = d
  BY <1>9, <1>10, <1>11 DEF Digit
<1>. QED
  BY <1>12 DEF d, z, Digit

LEMMA DivideTwice ==
  ASSUME NEW v \in Nat, NEW m \in Nat \ {0}, NEW q \in Nat \ {0}
  PROVE  v \div (m * q) = (v \div m) \div q
<1> DEFINE w == v \div m
           r == v % m
           z == w \div q
           s == w % q
<1>1. w \in Nat /\ r \in 0 .. m - 1 /\ v = w * m + r
  BY Euclid
<1>. HIDE DEF w, r
<1>2. z \in Nat /\ s \in 0 .. q - 1 /\ w = z * q + s
  BY <1>1, Euclid
<1>. HIDE DEF z, s
<1>3. m * q \in Nat \ {0}
  BY SMT
<1>4. s * m + r \in 0 .. (m * q) - 1
  <2>1. q - 1 - s \in Nat /\ s \in Nat
    BY <1>2
  <2>2. s * m \in Nat /\ (q - 1 - s) * m \in Nat
    BY <2>1, Product
  <2>3. m * q = s * m + (q - 1 - s) * m + m
    BY <2>1, SMT
  <2> DEFINE sm == s * m
             qm == (q - 1 - s) * m
             mq == m * q
  <2>4. sm \in Nat /\ qm \in Nat /\ mq = sm + qm + m
    BY <2>2, <2>3
  <2>. HIDE DEF sm, qm, mq
  <2>5. sm + r \in 0 .. mq - 1
    BY <1>1, <2>4
  <2>. QED
    BY <2>5 DEF sm, mq
<1>5. v = z * (m * q) + (s * m + r)
  <2>1. v = (z * q + s) * m + r
    BY <1>1, <1>2
  <2>2. (z * q + s) * m = z * (m * q) + s * m
    BY <1>2, SMT
  <2>3. z * (m * q) \in Nat /\ s * m \in Nat
    <3>1. s \in Nat
      BY <1>2
    <3>. QED
      BY <1>2, <1>3, <3>1, Product
  <2> DEFINE zm == z * (m * q)
             sm == s * m
  <2>4. v = (zm + sm) + r /\ zm \in Nat /\ sm \in Nat
    BY <2>1, <2>2, <2>3
  <2>. HIDE DEF zm, sm
  <2>5. v = zm + (sm + r)
    BY <1>1, <2>4
  <2>. QED
    BY <2>5 DEF zm, sm
<1>6. v \div (m * q) = z
  <2> DEFINE mq == m * q
             k == s * m + r
  <2>1. mq \in Nat \ {0} /\ k \in 0 .. mq - 1 /\ v = z * mq + k
    BY <1>3, <1>4, <1>5
  <2>. HIDE DEF mq, k
  <2>2. (z * mq + k) \div mq = z
    BY <1>2, <2>1, WholeAndRest
  <2>3. v \div mq = z
    BY <2>1, <2>2
  <2>. QED
    BY <2>3 DEF mq
<1>. QED
  BY <1>6 DEF z, w

-----------------------------------------------------------------------------
(* What the constants give: a counter has CounterMod values.               *)
LEMMA CounterSizes ==
  ASSUME GR!GroestlAssumption
  PROVE  /\ LENGTHFIELDLEN \in Nat /\ BLOCK \in Nat \ {0} /\ LENGTHFIELDLEN < BLOCK
         /\ GR!CounterLen \in Nat /\ LENGTHFIELDLEN = GR!CounterLen + GR!CounterLen
         /\ GR!CounterMod \in Nat \ {0}
<1>1. LENGTHFIELDLEN \in Nat /\ LENGTHFIELDLEN % 2 = 0 /\ BLOCK \in Nat /\ BLOCK > LENGTHFIELDLEN
  BY DEF GR!GroestlAssumption
<1>2. GR!CounterLen \in 0..LENGTHFIELDLEN /\ LENGTHFIELDLEN = GR!CounterLen + GR!CounterLen
  BY <1>1 DEF GR!CounterLen
<1>3. \A i \in 0..LENGTHFIELDLEN : ByteBase^i \in Nat \ {0}
  BY <1>1 DEF GR!GroestlAssumption
<1>4. GR!CounterMod \in Nat \ {0}
  BY <1>2, <1>3 DEF GR!CounterMod
<1>. QED
  BY <1>1, <1>2, <1>4

LEMMA Powers ==
  ASSUME GR!GroestlAssumption, NEW i \in 1..GR!CounterLen
  PROVE  LET q == ByteBase^(GR!CounterLen - i)
             r == ByteBase^(i - 1)
         IN  /\ ByteBase \in Nat \ {0} /\ q \in Nat \ {0} /\ r \in Nat \ {0}
             /\ GR!CounterMod = (ByteBase * r) * q
             /\ ByteBase^(LENGTHFIELDLEN - i) = GR!CounterMod * q
<1> DEFINE C == GR!CounterLen
           L == LENGTHFIELDLEN
<1>1. C \in Nat /\ L \in Nat /\ L = C + C
  BY CounterSizes
<1>2. /\ ByteBase \in Nat /\ ByteBase > 1 /\ ByteBase^1 = ByteBase
      /\ \A k, j \in 0..L :
           ByteBase^k \in Nat \ {0} /\ ByteBase^(k + j) = ByteBase^k * ByteBase^j
  BY DEF GR!GroestlAssumption
<1>. HIDE DEF C, L
<1>0. i \in 1..C
  BY DEF C
<1>3. /\ C - i \in 0..L /\ i - 1 \in 0..L /\ 1 \in 0..L /\ i \in 0..L /\ C \in 0..L
      /\ 1 + (i - 1) = i /\ i + (C - i) = C /\ C + (C - i) = L - i
  BY <1>0, <1>1
<1>4. ByteBase^(C - i) \in Nat \ {0} /\ ByteBase^(i - 1) \in Nat \ {0}
  BY <1>2, <1>3
<1>5. ByteBase^i = ByteBase * ByteBase^(i - 1)
  <2>1. ByteBase^(1 + (i - 1)) = ByteBase^1 * ByteBase^(i - 1)
    BY <1>2, <1>3
  <2>. QED
    BY <1>2, <1>3, <2>1
<1>6. ByteBase^C = ByteBase^i * ByteBase^(C - i)
  <2>1. ByteBase^(i + (C - i)) = ByteBase^i * ByteBase^(C - i)
    BY <1>2, <1>3
  <2>. QED
    BY <1>3, <2>1
<1>7. ByteBase^(L - i) = ByteBase^C * ByteBase^(C - i)
  <2>1. ByteBase^(C + (C - i)) = ByteBase^C * ByteBase^(C - i)
    BY <1>2, <1>3
  <2>. QED
    BY <1>3, <2>1
<1>. QED
  BY <1>2, <1>4, <1>5, <1>6, <1>7 DEF GR!CounterMod, C, L

LEMMA BigEndianBytes ==
  ASSUME NEW v, NEW len \in Nat, NEW base
  PROVE  /\ IsSeq(BigEndian(v, len, base)) /\ Len(BigEndian(v, len, base)) = len
         /\ \A i \in 1..len : BigEndian(v, len, base)[i] = Num((v \div base^(len - i)) % base)
<1> DEFINE s == BigEndian(v, len, base)
<1>1. /\ s = [i \in 1..len |-> s[i]]
      /\ \A i \in 1..len : s[i] = Num((v \div base^(len - i)) % base)
  BY DEF BigEndian
<1>. HIDE DEF s
<1>2. IsSeq(s) /\ Len(s) = len
  BY <1>1, Listed
<1>. QED
  BY <1>1, <1>2 DEF s

(* The bytes of the two counters are those of the number of blocks.        *)
Field(n) == BigEndian(n, LENGTHFIELDLEN, ByteBase)

LEMMA CountersInBytes ==
  ASSUME GR!GroestlAssumption, NEW n \in Nat
  PROVE  BigEndian((n \div GR!CounterMod) % GR!CounterMod, GR!CounterLen, ByteBase)
           \o BigEndian(n % GR!CounterMod, GR!CounterLen, ByteBase) = Field(n)
<1> DEFINE C == GR!CounterLen
           M == GR!CounterMod
           L == LENGTHFIELDLEN
           w == n \div M
           s == BigEndian(w % M, C, ByteBase)
           u == BigEndian(n % M, C, ByteBase)
           f == Field(n)
<1>1. C \in Nat /\ L \in Nat /\ L = C + C /\ M \in Nat \ {0}
  BY CounterSizes
<1>2. w \in Nat
  BY <1>1, Euclid
<1>3. /\ IsSeq(s) /\ Len(s) = C
      /\ \A i \in 1..C : s[i] = Num(((w % M) \div ByteBase^(C - i)) % ByteBase)
  BY <1>1, BigEndianBytes
<1>4. /\ IsSeq(u) /\ Len(u) = C
      /\ \A i \in 1..C : u[i] = Num(((n % M) \div ByteBase^(C - i)) % ByteBase)
  BY <1>1, BigEndianBytes
<1>5. /\ IsSeq(f) /\ Len(f) = L
      /\ \A i \in 1..L : f[i] = Num((n \div ByteBase^(L - i)) % ByteBase)
  BY <1>1, BigEndianBytes DEF Field
<1>6. /\ IsSeq(s \o u) /\ Len(s \o u) = Len(s) + Len(u)
      /\ \A i \in 1..Len(s) : (s \o u)[i] = s[i]
      /\ \A i \in 1..Len(u) : (s \o u)[Len(s) + i] = u[i]
  BY <1>3, <1>4, Joined
<1>. HIDE DEF s, u, f
<1>7. ASSUME NEW i \in 1..C
      PROVE  s[i] = f[i] /\ u[i] = f[C + i]
  <2> DEFINE q == ByteBase^(C - i)
             r == ByteBase^(i - 1)
  <2>1. /\ ByteBase \in Nat \ {0} /\ q \in Nat \ {0} /\ r \in Nat \ {0}
        /\ M = (ByteBase * r) * q /\ ByteBase^(L - i) = M * q
    BY Powers
  <2>2. i \in 1..L /\ C + i \in 1..L /\ L - (C + i) = C - i
    BY <1>1
  <2>. HIDE DEF r
  <2>3. f[C + i] = Num((n \div q) % ByteBase)
    BY <1>5, <2>2
  <2>4. f[i] = Num((n \div (M * q)) % ByteBase)
    BY <1>5, <2>1, <2>2
  <2>5. s[i] = Num(((w % M) \div q) % ByteBase) /\ u[i] = Num(((n % M) \div q) % ByteBase)
    BY <1>3, <1>4
  <2>. HIDE DEF q, M, w
  <2>6. IsProduct(M, ByteBase, r, q)
    BY <2>1 DEF IsProduct
  <2>7. /\ ((w % M) \div q) % ByteBase = (w \div q) % ByteBase
        /\ ((n % M) \div q) % ByteBase = (n \div q) % ByteBase
    <3>1. ByteBase \in Nat \ {0} /\ q \in Nat \ {0} /\ r \in Nat \ {0}
      BY <2>1
    <3>2. Digit(w % M, q, ByteBase) = Digit(w, q, ByteBase)
      BY <1>2, <2>6, <3>1, DigitOfRest
    <3>3. Digit(n % M, q, ByteBase) = Digit(n, q, ByteBase)
      BY <2>6, <3>1, DigitOfRest
    <3>. QED
      BY <3>2, <3>3 DEF Digit
  <2>8. n \div (M * q) = w \div q
    BY ZenonT(60), <1>1, <2>1, DivideTwice DEF w
  <2>. QED
    BY <2>3, <2>4, <2>5, <2>7, <2>8
<1>. HIDE DEF C, L, M, w
<1>8. ASSUME NEW i \in 1 .. C + C
      PROVE  (s \o u)[i] = f[i]
  <2>1. CASE i <= C
    <3>1. i \in 1..C /\ i \in 1..Len(s)
      BY <1>1, <1>3, <2>1
    <3>. QED
      BY <1>6, <1>7, <3>1
  <2>2. CASE ~(i <= C)
    <3>1. i - C \in 1..C /\ C + (i - C) = i
      BY <1>1, <2>2
    <3>2. u[i - C] = f[i] /\ (s \o u)[i] = u[i - C]
      BY <1>3, <1>4, <1>6, <1>7, <3>1
    <3>. QED
      BY <3>2
  <2>. QED
    BY <2>1, <2>2
<1>9. s \o u = f
  <2>1. Len(s \o u) = C + C /\ Len(f) = C + C
    BY <1>1, <1>3, <1>4, <1>5, <1>6
  <2>. QED
    BY <1>5, <1>6, <1>8, <2>1, SameSeq
<1>. QED
  BY <1>9 DEF s, u, f, w, C, M

-----------------------------------------------------------------------------
(* Module Groestl has its own copy of the operators on bytes.              *)
LEMMA SameOperators ==
  /\ \A s, at, d : GR!Overlay(s, at, d) = Overlay(s, at, d)
  /\ \A n : GR!Zeros(n) = Zeros(n)
  /\ \A from, bits : GR!Data(from, bits) = Data(from, bits)
  /\ \A bits : GR!Terminated(bits) = Terminated(bits)
  /\ \A s, n : GR!Blocks(s, n) = Blocks(s, n)
  /\ \A k, n : GR!RoundUp(k, n) = RoundUp(k, n)
  /\ \A v, len, base : GR!BigEndian(v, len, base) = BigEndian(v, len, base)
  /\ \A k, r : GR!End(k, r) = End(k, r)
  /\ GR!Junk = Junk
BY Zenon DEF GR!Overlay, Overlay, GR!Zeros, Zeros, GR!Data, Data, GR!Terminated, Terminated,
  GR!Blocks, Blocks, GR!RoundUp, RoundUp, GR!BigEndian, BigEndian, GR!End, End, GR!Junk, Junk,
  GR!Msg, Msg, GR!Cut, Cut, GR!Num, Num

(* Contexts.                                                               *)
LEMMA RawFields ==
  ASSUME NEW x, NEW i, NEW j, NEW b, NEW p, NEW r
  PROVE  LET c == Raw(x, i, j, b, p, r)
         IN  /\ c.chaining = x /\ c.block_counter1 = i /\ c.block_counter2 = j
             /\ c.buffer = b /\ c.buf_ptr = p /\ c.bits_in_last_byte = r
BY DEF Raw

LEMMA RawSet ==
  ASSUME NEW x, NEW i, NEW j, NEW b, NEW p, NEW r, NEW v
  PROVE  LET c == Raw(x, i, j, b, p, r)
         IN  /\ [c EXCEPT !.chaining = v] = Raw(v, i, j, b, p, r)
             /\ [c EXCEPT !.block_counter1 = v] = Raw(x, v, j, b, p, r)
             /\ [c EXCEPT !.block_counter2 = v] = Raw(x, i, v, b, p, r)
             /\ [c EXCEPT !.buffer = v] = Raw(x, i, j, v, p, r)
             /\ [c EXCEPT !.buf_ptr = v] = Raw(x, i, j, b, v, r)
             /\ [c EXCEPT !.bits_in_last_byte = v] = Raw(x, i, j, b, p, v)
BY DEF Raw

LEMMA CtxFields ==
  ASSUME NEW x, NEW n, NEW b, NEW p, NEW r
  PROVE  /\ Ctx(x, n, b, p, r).chaining = x /\ Ctx(x, n, b, p, r).buffer = b
         /\ Ctx(x, n, b, p, r).buf_ptr = p /\ Ctx(x, n, b, p, r).bits_in_last_byte = r
         /\ Ctx(x, n, b, p, r).block_counter1 = n % GR!CounterMod
         /\ Ctx(x, n, b, p, r).block_counter2 = (n \div GR!CounterMod) % GR!CounterMod
<1> DEFINE i == n % GR!CounterMod
           j == (n \div GR!CounterMod) % GR!CounterMod
           c == Raw(x, i, j, b, p, r)
<1>1. Ctx(x, n, b, p, r) = c
  BY DEF Ctx
<1>2. /\ c.chaining = x /\ c.block_counter1 = i /\ c.block_counter2 = j
      /\ c.buffer = b /\ c.buf_ptr = p /\ c.bits_in_last_byte = r
  <2>. HIDE DEF i, j
  <2>. QED
    BY RawFields
<1>. QED
  BY <1>1, <1>2

LEMMA CtxSet ==
  ASSUME NEW x, NEW n, NEW b, NEW p, NEW r, NEW v
  PROVE  /\ [Ctx(x, n, b, p, r) EXCEPT !.chaining = v] = Ctx(v, n, b, p, r)
         /\ [Ctx(x, n, b, p, r) EXCEPT !.buffer = v] = Ctx(x, n, v, p, r)
         /\ [Ctx(x, n, b, p, r) EXCEPT !.buf_ptr = v] = Ctx(x, n, b, v, r)
         /\ [Ctx(x, n, b, p, r) EXCEPT !.bits_in_last_byte = v] = Ctx(x, n, b, p, v)
<1> DEFINE i == n % GR!CounterMod
           j == (n \div GR!CounterMod) % GR!CounterMod
<1>1. \A y, a, q, s : Ctx(y, n, a, q, s) = Raw(y, i, j, a, q, s)
  BY DEF Ctx
<1>. HIDE DEF i, j
<1>2. /\ [Raw(x, i, j, b, p, r) EXCEPT !.chaining = v] = Raw(v, i, j, b, p, r)
      /\ [Raw(x, i, j, b, p, r) EXCEPT !.buffer = v] = Raw(x, i, j, v, p, r)
      /\ [Raw(x, i, j, b, p, r) EXCEPT !.buf_ptr = v] = Raw(x, i, j, b, v, r)
      /\ [Raw(x, i, j, b, p, r) EXCEPT !.bits_in_last_byte = v] = Raw(x, i, j, b, p, v)
  BY RawSet
<1>. QED
  BY <1>1, <1>2

LEMMA InputFields ==
  ASSUME NEW d, NEW i, NEW n, NEW r, NEW v
  PROVE  /\ Input(d, i, n, r).input = d /\ Input(d, i, n, r).index = i
         /\ Input(d, i, n, r).msglen = n /\ Input(d, i, n, r).rem = r
         /\ [Input(d, i, n, r) EXCEPT !.index = v] = Input(d, v, n, r)
BY DEF Input

LEMMA CountCtx ==
  ASSUME GR!GroestlAssumption, NEW x, NEW n \in Nat, NEW b, NEW p, NEW r
  PROVE  GR!CountBlock(Ctx(x, n, b, p, r)) = Ctx(x, n + 1, b, p, r)
<1> DEFINE M == GR!CounterMod
           c == Ctx(x, n, b, p, r)
           i == ((n % M) + 1) % M
           j == IF i = 0 THEN (((n \div M) % M) + 1) % M ELSE (n \div M) % M
<1>1. M \in Nat \ {0}
  BY CounterSizes
<1>2. i = (n + 1) % M /\ j = ((n + 1) \div M) % M
  <2>. HIDE DEF M
  <2>. QED
    BY <1>1, CountUp
<1>3. GR!CountBlock(c) = [c EXCEPT !.block_counter1 = i, !.block_counter2 = j]
  <2>1. c.block_counter1 = n % M /\ c.block_counter2 = (n \div M) % M
    BY CtxFields
  <2>. HIDE DEF c
  <2>. QED
    BY <2>1, Zenon DEF GR!CountBlock
<1>4. c = Raw(x, n % M, (n \div M) % M, b, p, r)
  BY DEF Ctx
<1>. HIDE DEF i, j, M, c
<1>5. [c EXCEPT !.block_counter1 = i] = Raw(x, i, (n \div M) % M, b, p, r)
  BY <1>4 DEF Raw
<1>6. [Raw(x, i, (n \div M) % M, b, p, r) EXCEPT !.block_counter2 = j] = Raw(x, i, j, b, p, r)
  BY DEF Raw
<1>7. GR!CountBlock(c) = Raw(x, i, j, b, p, r)
  BY <1>3, <1>5, <1>6, Zenon
<1>. QED
  BY <1>2, <1>7, Zenon DEF Ctx, M, c

LEMMA TransformCtx ==
  ASSUME GR!GroestlAssumption, NEW x, NEW n \in Nat, NEW b, NEW p, NEW r, NEW block
  PROVE  GR!Transform(Ctx(x, n, b, p, r), block) = Ctx(Append(x, block), n + 1, b, p, r)
<1> DEFINE c == Ctx(x, n, b, p, r)
           y == Append(x, block)
<1>1. GR!Transform(c, block) = GR!CountBlock([c EXCEPT !.chaining = y])
  <2>1. c.chaining = x
    BY CtxFields
  <2>. HIDE DEF c
  <2>. QED
    BY <2>1, Zenon DEF GR!Transform
<1>. HIDE DEF y
<1>2. [c EXCEPT !.chaining = y] = Ctx(y, n, b, p, r)
  BY CtxSet
<1>3. GR!CountBlock(Ctx(y, n, b, p, r)) = Ctx(y, n + 1, b, p, r)
  BY CountCtx
<1>. QED
  BY <1>1, <1>2, <1>3, Zenon DEF y

LEMMA StoreCtx ==
  ASSUME NEW x, NEW n, NEW b, NEW p, NEW r, NEW bytes
  PROVE  GR!Store(Ctx(x, n, b, p, r), bytes) = Ctx(x, n, Overlay(b, p, bytes), p + Len(bytes), r)
<1> DEFINE c == Ctx(x, n, b, p, r)
           v == Overlay(b, p, bytes)
           w == p + Len(bytes)
<1>1. GR!Store(c, bytes) = [c EXCEPT !.buffer = v, !.buf_ptr = w]
  <2>1. c.buffer = b /\ c.buf_ptr = p /\ GR!Overlay(b, p, bytes) = v
    BY CtxFields, SameOperators
  <2>. HIDE DEF c, v
  <2>. QED
    BY <2>1, Zenon DEF GR!Store
<1>. HIDE DEF v, w
<1>2. [c EXCEPT !.buffer = v] = Ctx(x, n, v, p, r)
  BY DEF Ctx, Raw
<1>3. [Ctx(x, n, v, p, r) EXCEPT !.buf_ptr = w] = Ctx(x, n, v, w, r)
  BY DEF Ctx, Raw
<1>. HIDE DEF c
<1>4. GR!Store(c, bytes) = Ctx(x, n, v, w, r)
  BY <1>1, <1>2, <1>3, Zenon
<1>. QED
  BY <1>4 DEF v, w, c

LEMMA StoreRemCtx ==
  ASSUME NEW x, NEW n, NEW b, NEW p, NEW r, NEW d, NEW i, NEW rem
  PROVE  /\ rem = 0 => GR!StoreRem(Ctx(x, n, b, p, r), d, i, rem) = Ctx(x, n, b, p, r)
         /\ rem # 0 => GR!StoreRem(Ctx(x, n, b, p, r), d, i, rem)
                         = Ctx(x, n, Overlay(b, p, <<d[i + 1]>>), p + 1, rem)
<1> DEFINE c == Ctx(x, n, b, p, r)
           a == <<d[i + 1]>>
           v == Overlay(b, p, a)
           s == GR!Store(c, a)
<1>1. rem = 0 => GR!StoreRem(c, d, i, rem) = c
  BY DEF GR!StoreRem
<1>2. rem # 0 => GR!StoreRem(c, d, i, rem) = [s EXCEPT !.bits_in_last_byte = rem]
  BY Zenon DEF GR!StoreRem
<1>3. Len(a) = 1
  OBVIOUS
<1>. HIDE DEF a
<1>4. s = Ctx(x, n, v, p + Len(a), r)
  BY StoreCtx
<1>. HIDE DEF s, v, c
<1>5. s = Ctx(x, n, v, p + 1, r)
  BY <1>3, <1>4
<1>6. [s EXCEPT !.bits_in_last_byte = rem] = Ctx(x, n, v, p + 1, rem)
  BY <1>5 DEF Ctx, Raw
<1>7. rem # 0 => GR!StoreRem(c, d, i, rem) = Ctx(x, n, v, p + 1, rem)
  BY <1>2, <1>6, Zenon
<1>. QED
  BY <1>1, <1>7 DEF v, a, c

-----------------------------------------------------------------------------
(* Store copies what lies in the caller's data.                            *)
LEMMA Stored ==
  ASSUME NEW b, NEW at, NEW d, IsSeq(d), NEW i \in Nat, NEW n \in Nat, n = 0 \/ i + n <= Len(d)
  PROVE  /\ Overlay(b, at, SubSeq(d, i + 1, i + n)) = Into(b, at, d, i, n)
         /\ Len(SubSeq(d, i + 1, i + n)) = n
<1> DEFINE s == SubSeq(d, i + 1, i + n)
           f == [k \in 1..n |-> IF i + k <= Len(d) THEN d[i + k] ELSE Junk]
<1>1. s = [k \in 1..n |-> d[i + k]]
  BY CutOut
<1>2. Len(d) \in Nat
  BY DEF IsSeq
<1>. HIDE DEF s
<1>3. s = f
  <2>1. \A k \in 1..n : i + k <= Len(d)
    BY <1>2
  <2>. QED
    BY <1>1, <2>1
<1>4. s = [k \in 1..n |-> s[k]]
  BY <1>1
<1>5. Len(s) = n
  BY <1>4, Listed
<1>. QED
  BY <1>3, <1>5 DEF s, Into

LEMMA StoredLast ==
  ASSUME BLOCK \in Nat, NEW b, Len(b) = BLOCK, NEW at \in Nat, NEW d, NEW i \in Nat,
         NEW n \in Nat, i + n + 1 <= Len(d)
  PROVE  Overlay(Into(b, at, d, i, n), at + n, <<d[(i + n) + 1]>>) = Into(b, at, d, i, n + 1)
<1> DEFINE c == Into(b, at, d, i, n)
           f == Into(b, at, d, i, n + 1)
           e == d[(i + n) + 1]
           a == <<e>>
           g == Overlay(c, at + n, a)
<1>1. /\ IsSeq(c) /\ Len(c) = BLOCK
      /\ \A k \in 1..BLOCK : c[k] = ByteOf(b, at, d, i, n, k)
  BY IntoBytes
<1>2. /\ IsSeq(f) /\ Len(f) = BLOCK
      /\ \A k \in 1..BLOCK : f[k] = ByteOf(b, at, d, i, n + 1, k)
  BY IntoBytes
<1>3. Len(a) = 1 /\ a[1] = e
  OBVIOUS
<1>4. g = [k \in 1..Len(c) |-> IF k > at + n /\ k <= (at + n) + Len(a) THEN a[k - (at + n)]
                               ELSE c[k]]
  BY DEF Overlay
<1>. HIDE DEF c, f, a, g
<1>5. ASSUME NEW k \in 1..BLOCK
      PROVE  g[k] = f[k]
  <2>1. g[k] = IF k > at + n /\ k <= (at + n) + 1 THEN a[k - (at + n)] ELSE c[k]
    BY <1>1, <1>3, <1>4
  <2>2. CASE k = at + n + 1
    <3>1. /\ k - (at + n) = 1 /\ k > at + n /\ k <= (at + n) + 1 /\ i + (k - at) = (i + n) + 1
          /\ i + (k - at) <= Len(d) /\ k > at /\ k <= at + (n + 1)
      BY <2>2
    <3>2. g[k] = e
      BY <1>3, <2>1, <3>1
    <3>3. ByteOf(b, at, d, i, n + 1, k) = e
      BY <3>1 DEF ByteOf
    <3>. QED
      BY <1>2, <3>2, <3>3
  <2>3. CASE k # at + n + 1
    <3>1. ~(k > at + n /\ k <= (at + n) + 1) /\ (k <= at + n <=> k <= at + (n + 1))
      BY <2>3
    <3>. QED
      BY <1>1, <1>2, <2>1, <3>1 DEF ByteOf
  <2>. QED
    BY <2>2, <2>3
<1>6. g = [k \in 1..BLOCK |-> f[k]]
  BY <1>1, <1>4, <1>5
<1>7. g = f
  BY <1>2, <1>6 DEF IsSeq
<1>. QED
  BY <1>7 DEF g, f, c, a

(* The whole bytes of p bits and the partial one.                          *)
LEMMA Pointer ==
  ASSUME NEW p \in Nat
  PROVE  /\ Ptr(p) \in Nat /\ p \div 8 \in Nat /\ p % 8 \in 0..7 /\ p = 8 * (p \div 8) + (p % 8)
         /\ p % 8 = 0 => Ptr(p) = p \div 8
         /\ p % 8 # 0 => Ptr(p) = (p \div 8) + 1
         /\ 8 * Ptr(p) >= p /\ (Ptr(p) > 0 => 8 * (Ptr(p) - 1) < p)
         /\ Ptr(p) = 0 <=> p = 0
<1>1. p \div 8 \in Nat /\ p % 8 \in 0..7 /\ p = 8 * (p \div 8) + (p % 8)
  BY SMT
<1>. QED
  BY <1>1 DEF Ptr

LEMMA StoreBits ==
  ASSUME BLOCK \in Nat, NEW x, NEW m, NEW b, Len(b) = BLOCK, NEW at \in Nat, NEW d, IsSeq(d),
         NEW i \in Nat, NEW p \in Nat, p = 0 \/ i + Ptr(p) <= Len(d)
  PROVE  LET n == p \div 8
             c == GR!Store(Ctx(x, m, b, at, 0), SubSeq(d, i + 1, i + n))
         IN  GR!StoreRem(c, d, i + n, p % 8) = Ctx(x, m, Into(b, at, d, i, Ptr(p)), at + Ptr(p), p % 8)
<1> DEFINE n == p \div 8
           s == SubSeq(d, i + 1, i + n)
           c == GR!Store(Ctx(x, m, b, at, 0), s)
           v == Into(b, at, d, i, n)
           e == <<d[(i + n) + 1]>>
<1>1. /\ n \in Nat /\ (n = 0 \/ i + n <= Len(d)) /\ p % 8 \in 0..7
      /\ p % 8 = 0 => Ptr(p) = n
      /\ p % 8 # 0 => Ptr(p) = n + 1 /\ i + n + 1 <= Len(d)
  <2>1. Len(d) \in Nat
    BY DEF IsSeq
  <2>2. /\ Ptr(p) \in Nat /\ n \in Nat /\ p % 8 \in 0..7 /\ p = 8 * n + (p % 8)
        /\ p % 8 = 0 => Ptr(p) = n
        /\ p % 8 # 0 => Ptr(p) = n + 1
    BY Pointer
  <2>. HIDE DEF n
  <2>. QED
    BY <2>1, <2>2
<1>. HIDE DEF n
<1>2. Overlay(b, at, s) = v /\ Len(s) = n
  BY <1>1, Stored
<1>. HIDE DEF s
<1>3. c = Ctx(x, m, v, at + n, 0)
  BY <1>2, StoreCtx
<1>. HIDE DEF c
<1>4. /\ p % 8 = 0 => GR!StoreRem(c, d, i + n, p % 8) = Ctx(x, m, v, at + n, 0)
      /\ p % 8 # 0 => GR!StoreRem(c, d, i + n, p % 8)
                        = Ctx(x, m, Overlay(v, at + n, e), (at + n) + 1, p % 8)
  BY <1>3, StoreRemCtx
<1>5. CASE p % 8 = 0
  BY <1>1, <1>4, <1>5 DEF c, s, n
<1>6. CASE p % 8 # 0
  <2>1. Overlay(v, at + n, e) = Into(b, at, d, i, n + 1)
    BY <1>1, <1>6, StoredLast
  <2>2. (at + n) + 1 = at + (n + 1)
    BY <1>1
  <2>. HIDE DEF e, v
  <2>3. GR!StoreRem(c, d, i + n, p % 8) = Ctx(x, m, Into(b, at, d, i, n + 1), at + (n + 1), p % 8)
    BY <1>4, <1>6, <2>1, <2>2
  <2>. QED
    BY <1>1, <1>6, <2>3 DEF c, s, n
<1>. QED
  BY <1>5, <1>6 DEF c, s, n

LEMMA PendingLength ==
  ASSUME NEW d, NEW i \in Nat, NEW p \in Nat, NEW t, NEW from, Pending(d, i, p, t, from)
  PROVE  p = 0 \/ i + Ptr(p) <= Len(d)
<1>1. Ptr(p) \in Nat /\ (Ptr(p) > 0 => 8 * (Ptr(p) - 1) < p) /\ (Ptr(p) = 0 <=> p = 0)
  BY Pointer
<1>2. CASE p # 0
  <2>1. Ptr(p) \in Nat \ {0} /\ 8 * (Ptr(p) - 1) < p
    BY <1>1, <1>2
  <2>. QED
    BY <2>1 DEF Pending
<1>. QED
  BY <1>2

LEMMA AnyBuffer ==
  ASSUME NEW x, NEW b, NEW c, NEW t, NEW p, NEW d, NEW i, Good(x, c, t, 0, p, d, i),
         IsSeq(b), Len(b) = BLOCK
  PROVE  Good(x, b, t, 0, p, d, i)
<1>1. Types(x, b, t, 0, p, d, i)
  BY DEF Good, Types
<1>2. Held(b, t, 0, Len(x) * BLOCK)
  <2>1. \A k \in 1..BLOCK : ~(8 * (k - 1) < 0)
    BY SMT
  <2>. QED
    BY <2>1 DEF Held
<1>. QED
  BY <1>1, <1>2 DEF Good

LEMMA GInvFrom ==
  ASSUME NEW x, NEW b, NEW h, NEW p, NEW d, NEW i,
         ctx' = Ctx(x, Len(x), b, Ptr(h), h % 8), Good(x, b, total', h, p, d, i),
         stage' \in {"open", "update"}, stage' = "open" => p = 0,
         stage' = "update" => h = 0 /\ args' = Input(d, i, i + (p \div 8), p % 8)
  PROVE  GInv'
<1>1. Between(x, b, h, p, d, i)'
  BY DEF Between
<1>2. GR!HashesPaddedMessage'
  BY DEF GR!HashesPaddedMessage
<1>. QED
  BY <1>1, <1>2 DEF GInv

(* What Update does with a buffer of `at` whole bytes.                     *)
LEMMA UpdateCases ==
  ASSUME NEW x, NEW m, NEW b, NEW at, ctx = Ctx(x, m, b, at, 0), NEW bits, GR!Update(bits),
         NEW d, d = Data(total \div 8, bits), NEW n,
         n = IF bits \div 8 < BLOCK - at THEN bits \div 8 ELSE BLOCK - at,
         NEW c, c = GR!Store(ctx, SubSeq(d, 1, n))
  PROVE  /\ stage = "open" /\ total % 8 = 0 /\ total' = total + bits
         /\ \/ /\ at = 0 /\ ctx' = ctx
               /\ stage' = "update" /\ args' = Input(d, 0, bits \div 8, bits % 8)
            \/ /\ at # 0 /\ c.buf_ptr < BLOCK
               /\ stage' = "open" /\ ctx' = GR!StoreRem(c, d, n, bits % 8)
            \/ /\ at # 0 /\ c.buf_ptr = BLOCK
               /\ ctx' = GR!Transform([c EXCEPT !.buf_ptr = 0], c.buffer)
               /\ stage' = "update" /\ args' = Input(d, n, bits \div 8, bits % 8)
<1>1. ctx.buf_ptr = at
  BY CtxFields
<1>2. d = GR!Data(total \div 8, bits)
  BY SameOperators
<1> DEFINE k == bits \div 8
           r == bits % 8
<1>3. n = IF k < BLOCK - ctx.buf_ptr THEN k ELSE BLOCK - ctx.buf_ptr
  BY <1>1
<1>4. /\ stage = "open" /\ total % 8 = 0 /\ total' = total + bits
      /\ \/ /\ ctx.buf_ptr = 0 /\ ctx' = ctx
            /\ stage' = "update" /\ args' = Input(d, 0, k, r)
         \/ /\ ctx.buf_ptr # 0 /\ c.buf_ptr < BLOCK
            /\ ctx' = GR!StoreRem(c, d, n, r) /\ stage' = stage
         \/ /\ ctx.buf_ptr # 0 /\ c.buf_ptr = BLOCK
            /\ ctx' = GR!Transform([c EXCEPT !.buf_ptr = 0], c.buffer)
            /\ stage' = "update" /\ args' = Input(d, n, k, r)
  BY <1>2, <1>3, Zenon DEF GR!Update, Input
<1>. QED
  BY <1>1, <1>4

LEMMA GroestlUpdate ==
  ASSUME GR!GroestlAssumption, GInv, NEW bits \in Nat, GR!Update(bits)
  PROVE  GInv'
<1>1. stage = "open" /\ total % 8 = 0
  BY DEF GR!Update
<1>2. PICK x, b, h, p, e, j : Between(x, b, h, p, e, j)
  BY <1>1 DEF GInv
<1> DEFINE t == total
           N == Len(x)
           at == h \div 8
           d == Data(t \div 8, bits)
           k == bits \div 8
           r == bits % 8
           n == IF k < BLOCK - at THEN k ELSE BLOCK - at
           c == GR!Store(ctx, SubSeq(d, 1, n))
<1>3. BLOCK \in Nat /\ Good(x, b, t, h, 0, e, j)
  BY <1>1, <1>2, CounterSizes DEF Between
<1>4. /\ N * BLOCK \in Nat /\ t = 8 * (N * BLOCK) + h /\ h < 8 * BLOCK
      /\ at \in 0 .. BLOCK - 1 /\ h = 8 * at /\ t \in Nat /\ h \in Nat /\ t \div 8 \in Nat
  <2>1. /\ N * BLOCK \in Nat /\ t = 8 * (N * BLOCK) + h /\ h < 8 * BLOCK
        /\ at \in 0 .. BLOCK - 1 /\ h = 8 * at /\ t \in Nat /\ h \in Nat
    BY <1>1, <1>3, HeldBytes
  <2>. QED
    BY <2>1, Pointer
<1>5. IsSeq(b) /\ Len(b) = BLOCK /\ N \in Nat
  BY <1>3 DEF Good, Types, IsSeq
<1>6. h % 8 = 0 /\ Ptr(h) = at
  BY <1>4 DEF Ptr
<1>7. ctx = Ctx(x, N, b, at, 0)
  BY <1>2, <1>6 DEF Between
<1>8. IsSeq(d) /\ (bits = 0 \/ 0 + Ptr(bits) <= Len(d))
  BY <1>4, DataBytes, PendingLength
<1>9. /\ Ptr(bits) \in Nat /\ k \in Nat /\ r \in 0..7 /\ bits = 8 * k + r
      /\ r = 0 => Ptr(bits) = k
      /\ r # 0 => Ptr(bits) = k + 1
      /\ 8 * Ptr(bits) >= bits
  BY Pointer
<1>10. /\ total' = t + bits
       /\ \/ /\ at = 0 /\ ctx' = ctx
             /\ stage' = "update" /\ args' = Input(d, 0, k, r)
          \/ /\ at # 0 /\ c.buf_ptr < BLOCK
             /\ stage' = "open" /\ ctx' = GR!StoreRem(c, d, n, r)
          \/ /\ at # 0 /\ c.buf_ptr = BLOCK
             /\ ctx' = GR!Transform([c EXCEPT !.buf_ptr = 0], c.buffer)
             /\ stage' = "update" /\ args' = Input(d, n, k, r)
  <2>1. ASSUME NEW g, g = n, NEW v, v = c
        PROVE  /\ total' = t + bits
               /\ \/ /\ at = 0 /\ ctx' = ctx
                     /\ stage' = "update" /\ args' = Input(d, 0, k, r)
                  \/ /\ at # 0 /\ v.buf_ptr < BLOCK
                     /\ stage' = "open" /\ ctx' = GR!StoreRem(v, d, g, r)
                  \/ /\ at # 0 /\ v.buf_ptr = BLOCK
                     /\ ctx' = GR!Transform([v EXCEPT !.buf_ptr = 0], v.buffer)
                     /\ stage' = "update" /\ args' = Input(d, g, k, r)
    <3>. HIDE DEF at, d
    <3>. QED
      BY <1>7, <2>1, UpdateCases DEF d
  <2>. QED
    BY <2>1
<1>11. Len(d) \in Nat
  BY <1>8 DEF IsSeq
<1>. HIDE DEF t, N, at, d, k, r
<1>12. n \in Nat /\ (n = 0 \/ 0 + n <= Len(d)) /\ 0 + n = n /\ 0 + 1 = 1
  BY SMTT(60), <1>3, <1>4, <1>8, <1>9, <1>11
<1>. HIDE DEF n
<1>13. c = Ctx(x, N, Into(b, at, d, 0, n), at + n, 0)
  <2> DEFINE s == SubSeq(d, 0 + 1, 0 + n)
  <2>1. Overlay(b, at, s) = Into(b, at, d, 0, n) /\ Len(s) = n
    BY <1>8, <1>12, Stored
  <2>2. s = SubSeq(d, 1, n)
    BY <1>12
  <2>. HIDE DEF s
  <2>3. GR!Store(Ctx(x, N, b, at, 0), s) = Ctx(x, N, Overlay(b, at, s), at + Len(s), 0)
    BY StoreCtx
  <2>. QED
    BY <1>7, <2>1, <2>2, <2>3
<1>14. c.buf_ptr = at + n /\ c.buffer = Into(b, at, d, 0, n)
  BY <1>13, CtxFields
<1>. HIDE DEF c
<1>15. CASE /\ at = 0 /\ ctx' = ctx
            /\ stage' = "update" /\ args' = Input(d, 0, k, r)
  <2>1. h = 0 /\ 0 + (bits \div 8) = k /\ 0 % 8 = 0 /\ Ptr(0) = 0
    BY <1>4, <1>9, <1>15 DEF k, Ptr
  <2>2. Good(x, b, t + bits, 0, bits, d, 0)
    BY <1>1, <1>3, <2>1, Start DEF d, t
  <2>3. ctx' = Ctx(x, N, b, Ptr(0), 0 % 8)
    BY <1>7, <1>15, <2>1
  <2>4. args' = Input(d, 0, 0 + (bits \div 8), bits % 8)
    BY <1>15, <2>1 DEF r
  <2>. QED
    BY <1>10, <1>15, <2>2, <2>3, <2>4, GInvFrom DEF N
<1>16. CASE /\ at # 0 /\ c.buf_ptr < BLOCK
            /\ stage' = "open" /\ ctx' = GR!StoreRem(c, d, n, r)
  <2>1. n = k /\ h + bits < 8 * BLOCK
    BY <1>3, <1>4, <1>9, <1>14, <1>16 DEF n
  <2> DEFINE v == Into(b, at, d, 0, Ptr(bits))
  <2>2. Good(x, v, t + bits, h + bits, 0, d, 0)
    BY <1>1, <1>3, <1>9, <2>1, Gathered DEF d, t, at
  <2>3. ctx' = Ctx(x, N, v, at + Ptr(bits), r)
    <3> DEFINE g == GR!Store(Ctx(x, N, b, at, 0), SubSeq(d, 0 + 1, 0 + k))
    <3>1. c = g
      BY <1>7, <1>12, <2>1 DEF c
    <3>2. at \in Nat
      BY <1>4
    <3>3. GR!StoreRem(g, d, 0 + k, r) = Ctx(x, N, v, at + Ptr(bits), r)
      BY <1>3, <1>5, <1>8, <3>2, StoreBits DEF k, r
    <3>. HIDE DEF g, v
    <3>. QED
      BY <1>12, <1>16, <2>1, <3>1, <3>3
  <2>4. Ptr(h + bits) = at + Ptr(bits) /\ (h + bits) % 8 = r
    <3>1. h + bits = 8 * (at + k) + r
      BY <1>4, <1>9
    <3>2. (h + bits) % 8 = r /\ (h + bits) \div 8 = at + k
      BY <1>4, <1>9, <3>1
    <3>. QED
      BY <1>4, <1>9, <3>2 DEF Ptr
  <2>. HIDE DEF v
  <2>. QED
    BY <1>10, <1>16, <2>2, <2>3, <2>4, GInvFrom DEF N
<1>17. CASE /\ at # 0 /\ c.buf_ptr = BLOCK
            /\ ctx' = GR!Transform([c EXCEPT !.buf_ptr = 0], c.buffer)
            /\ stage' = "update" /\ args' = Input(d, n, k, r)
  <2>1. n = BLOCK - at /\ h + bits >= 8 * BLOCK
    BY <1>3, <1>4, <1>9, <1>14, <1>17 DEF n
  <2> DEFINE v == Into(b, at, d, 0, n)
             p2 == bits - (8 * BLOCK - h)
             y == Append(x, v)
  <2>2. Good(y, v, t + bits, 0, p2, d, n)
    BY <1>1, <1>3, <2>1, Completed DEF d, t, at
  <2>3. [c EXCEPT !.buf_ptr = 0] = Ctx(x, N, v, 0, 0)
    <3>. HIDE DEF v
    <3>. QED
      BY <1>13 DEF Ctx, Raw, v
  <2>4. ctx' = Ctx(y, N + 1, v, 0, 0)
    BY <1>5, <1>14, <1>17, <2>3, TransformCtx
  <2>5. Len(y) = N + 1
    <3>1. IsSeq(x)
      BY <1>3 DEF Good, Types
    <3>. HIDE DEF v
    <3>. QED
      BY <3>1, Appended DEF N
  <2>6. /\ n + (p2 \div 8) = k /\ p2 % 8 = r
        /\ 0 % 8 = 0 /\ Ptr(0) = 0
    <3>1. p2 = 8 * (k - (BLOCK - at)) + r /\ k - (BLOCK - at) \in Nat
      BY <1>3, <1>4, <1>9, <2>1
    <3>. HIDE DEF p2
    <3>2. p2 \div 8 = k - (BLOCK - at) /\ p2 % 8 = r
      BY <1>3, <1>4, <1>9, <3>1
    <3>. QED
      BY <1>3, <1>4, <1>9, <2>1, <3>2 DEF Ptr
  <2>. HIDE DEF v, p2, y
  <2>7. ctx' = Ctx(y, Len(y), v, Ptr(0), 0 % 8)
    BY <2>4, <2>5, <2>6
  <2>8. args' = Input(d, n, n + (p2 \div 8), p2 % 8)
    BY <1>17, <2>6
  <2>. QED
    BY <1>10, <1>17, <2>2, <2>7, <2>8, GInvFrom
<1>. QED
  BY <1>10, <1>15, <1>16, <1>17

LEMMA GroestlUpdateBlock ==
  ASSUME GR!GroestlAssumption, GInv, GR!UpdateBlock
  PROVE  GInv'
<1>1. stage = "update" /\ stage' = stage /\ total' = total /\ args.msglen - args.index >= BLOCK
  BY DEF GR!UpdateBlock
<1>2. PICK x, b, h, p, d, i : Between(x, b, h, p, d, i)
  BY <1>1 DEF GInv
<1> DEFINE t == total
           N == Len(x)
           n == p \div 8
           v == Into(b, 0, d, i, BLOCK)
           y == Append(x, v)
<1>3. /\ BLOCK \in Nat /\ h = 0 /\ Good(x, b, t, 0, p, d, i)
      /\ args = Input(d, i, i + n, p % 8) /\ ctx = Ctx(x, N, b, Ptr(0), 0 % 8)
  BY <1>1, <1>2, CounterSizes DEF Between
<1>4. IsSeq(b) /\ Len(b) = BLOCK /\ N \in Nat /\ IsSeq(d) /\ i \in Nat /\ p \in Nat /\ IsSeq(x)
  BY <1>3 DEF Good, Types, IsSeq
<1>5. /\ Ptr(p) \in Nat /\ n \in Nat /\ p % 8 \in 0..7 /\ p = 8 * n + (p % 8)
      /\ (p % 8 = 0 => Ptr(p) = n) /\ (p % 8 # 0 => Ptr(p) = n + 1)
      /\ (p = 0 \/ i + Ptr(p) <= Len(d))
  <2>1. Pending(d, i, p, t, N * BLOCK)
    BY <1>3 DEF Good
  <2>. QED
    BY <1>4, <2>1, Pointer, PendingLength
<1>6. args.msglen = i + n /\ args.index = i /\ args.input = d
  BY <1>3, InputFields
<1>. HIDE DEF t, N, n
<1>7. n >= BLOCK /\ (BLOCK = 0 \/ i + BLOCK <= Len(d)) /\ p >= 8 * BLOCK
  <2>1. Len(d) \in Nat
    BY <1>4 DEF IsSeq
  <2>. QED
    BY <1>1, <1>3, <1>4, <1>5, <1>6, <2>1
<1>8. /\ ctx' = GR!Transform(ctx, SubSeq(d, i + 1, i + BLOCK))
      /\ args' = [args EXCEPT !.index = i + BLOCK]
  BY <1>6, Zenon DEF GR!UpdateBlock
<1>9. SubSeq(d, i + 1, i + BLOCK) = v
  <2> DEFINE s == SubSeq(d, i + 1, i + BLOCK)
  <2>1. Overlay(b, 0, s) = v /\ Len(s) = BLOCK
    BY <1>3, <1>4, <1>7, Stored
  <2>2. s = [k \in 1..BLOCK |-> d[i + k]]
    BY <1>3, <1>4, <1>7, CutOut
  <2>3. Overlay(b, 0, s) = [k \in 1..Len(b) |-> IF k > 0 /\ k <= 0 + Len(s) THEN s[k - 0] ELSE b[k]]
    BY DEF Overlay
  <2>. HIDE DEF s, v
  <2>4. \A k \in 1..BLOCK : k > 0 /\ k <= 0 + Len(s) /\ s[k - 0] = s[k]
    BY <1>3, <2>1
  <2>5. Overlay(b, 0, s) = [k \in 1..BLOCK |-> s[k]]
    BY <1>4, <2>3, <2>4
  <2>6. s = [k \in 1..BLOCK |-> s[k]]
    BY <2>2
  <2>. QED
    BY <2>1, <2>5, <2>6 DEF s
<1>10. Good(y, b, t, 0, p - 8 * BLOCK, d, i + BLOCK)
  <2>1. Good(y, v, t, 0, p - 8 * BLOCK, d, i + BLOCK)
    BY <1>3, <1>7, BlockRead
  <2>. HIDE DEF y, v
  <2>. QED
    BY <1>4, <2>1, AnyBuffer
<1>11. ctx' = Ctx(y, N + 1, b, Ptr(0), 0 % 8)
  <2>1. ctx' = GR!Transform(Ctx(x, N, b, Ptr(0), 0 % 8), v)
    BY <1>3, <1>8, <1>9
  <2>. HIDE DEF v
  <2> DEFINE o == Ptr(0)
             z == 0 % 8
  <2>. HIDE DEF o, z
  <2>2. GR!Transform(Ctx(x, N, b, o, z), v) = Ctx(Append(x, v), N + 1, b, o, z)
    BY <1>4, TransformCtx
  <2>. QED
    BY <2>1, <2>2 DEF o, z
<1>12. Len(y) = N + 1
  <2>. HIDE DEF v
  <2>. QED
    BY <1>4, Appended DEF N
<1>13. args' = Input(d, i + BLOCK, i + n, p % 8)
  BY <1>3, <1>8 DEF Input
<1>14. (i + BLOCK) + ((p - 8 * BLOCK) \div 8) = i + n /\ (p - 8 * BLOCK) % 8 = p % 8
  <2> DEFINE g == p - 8 * BLOCK
             r == p % 8
  <2>1. g = 8 * (n - BLOCK) + r /\ n - BLOCK \in Nat /\ r \in 0..7
    BY <1>3, <1>5, <1>7
  <2>. HIDE DEF g, r
  <2>2. g \div 8 = n - BLOCK /\ g % 8 = r
    BY <2>1
  <2>. QED
    BY <1>3, <1>4, <1>5, <2>2 DEF g, r
<1>. HIDE DEF y
<1>. QED
  BY <1>1, <1>10, <1>11, <1>12, <1>13, <1>14, GInvFrom DEF t

LEMMA GroestlUpdateRest ==
  ASSUME GR!GroestlAssumption, GInv, GR!UpdateRest
  PROVE  GInv'
<1>1. stage = "update" /\ stage' = "open" /\ total' = total /\ args.msglen - args.index < BLOCK
  BY DEF GR!UpdateRest
<1>2. PICK x, b, h, p, d, i : Between(x, b, h, p, d, i)
  BY <1>1 DEF GInv
<1> DEFINE t == total
           N == Len(x)
           n == p \div 8
           v == Into(b, 0, d, i, Ptr(p))
           s == SubSeq(d, i + 1, i + n)
<1>3. /\ BLOCK \in Nat /\ h = 0 /\ Good(x, b, t, 0, p, d, i)
      /\ args = Input(d, i, i + n, p % 8) /\ ctx = Ctx(x, N, b, Ptr(0), 0 % 8)
  BY <1>1, <1>2, CounterSizes DEF Between
<1>4. IsSeq(b) /\ Len(b) = BLOCK /\ N \in Nat /\ IsSeq(d) /\ i \in Nat /\ p \in Nat
  BY <1>3 DEF Good, Types, IsSeq
<1>5. /\ Ptr(p) \in Nat /\ n \in Nat /\ p % 8 \in 0..7 /\ p = 8 * n + (p % 8)
      /\ (p = 0 \/ i + Ptr(p) <= Len(d))
  <2>1. Pending(d, i, p, t, N * BLOCK)
    BY <1>3 DEF Good
  <2>. QED
    BY <1>4, <2>1, Pointer, PendingLength
<1>6. /\ args.msglen = i + n /\ args.index = i /\ args.input = d /\ args.rem = p % 8
  BY <1>3, InputFields
<1>. HIDE DEF t, N, n
<1>7. p < 8 * BLOCK
  BY <1>1, <1>3, <1>4, <1>5, <1>6
<1>8. Ptr(0) = 0 /\ 0 % 8 = 0
  BY DEF Ptr
<1>9. ctx' = Ctx(x, N, v, 0 + Ptr(p), p % 8)
  <2>1. ctx' = GR!StoreRem(GR!Store(ctx, s), d, i + n, p % 8)
    BY <1>6, Zenon DEF GR!UpdateRest
  <2>2. GR!StoreRem(GR!Store(Ctx(x, N, b, 0, 0), s), d, i + n, p % 8)
          = Ctx(x, N, v, 0 + Ptr(p), p % 8)
    BY <1>3, <1>4, <1>5, StoreBits DEF n
  <2>. HIDE DEF v, s
  <2>. QED
    BY <1>3, <1>8, <2>1, <2>2
<1>10. Good(x, v, t, p, 0, <<>>, 0)
  <2>1. Ptr(p) = (p \div 8) + IF p % 8 = 0 THEN 0 ELSE 1
    BY <1>5 DEF Ptr, n
  <2>. QED
    BY <1>3, <1>7, <2>1, RestKept
<1>11. 0 + Ptr(p) = Ptr(p)
  BY <1>5
<1>. HIDE DEF v
<1>. QED
  BY <1>1, <1>9, <1>10, <1>11, GInvFrom DEF t, N

-----------------------------------------------------------------------------
(* Final.  The reference has one or two blocks more than the whole blocks  *)
(* of the message, u bytes of the first one come from the message.         *)
LEMMA FieldBytes ==
  ASSUME GR!GroestlAssumption, NEW n
  PROVE  IsSeq(Field(n)) /\ Len(Field(n)) = LENGTHFIELDLEN
BY CounterSizes, BigEndianBytes DEF Field

LEMMA BlocksNeeded ==
  ASSUME GR!GroestlAssumption, NEW N \in Nat, NEW u \in 1..BLOCK, NEW n,
         n = IF u <= BLOCK - LENGTHFIELDLEN THEN N + 1 ELSE N + 2
  PROVE  LET k == (N * BLOCK + u) + LENGTHFIELDLEN
         IN  /\ n \in Nat /\ RoundUp(k, BLOCK) \div BLOCK = n
             /\ n * BLOCK \in Nat /\ k <= n * BLOCK
             /\ n * BLOCK = N * BLOCK + (IF u <= BLOCK - LENGTHFIELDLEN THEN BLOCK ELSE BLOCK + BLOCK)
<1> DEFINE B == BLOCK
           L == LENGTHFIELDLEN
           q == N * B
           k == (q + u) + L
           z == (k + B - 1) \div B
<1>1. L \in Nat /\ B \in Nat \ {0} /\ L < B /\ u \in 1..B
  BY CounterSizes
<1>2. q \in Nat /\ (N + 1) * B = q + B /\ (N + 2) * B = (q + B) + B
  <2>1. q \in Nat /\ (N + 1) * B = q + B /\ N + 1 \in Nat /\ N + 2 = (N + 1) + 1
    BY <1>1, Product
  <2>2. ((N + 1) + 1) * B = (N + 1) * B + B
    BY <1>1, <2>1, Product
  <2>. QED
    BY <2>1, <2>2
<1>3. RoundUp(k, B) = z * B
  BY DEF RoundUp
<1>. HIDE DEF B, L, q
<1>4. z = n /\ n \in Nat /\ k <= n * B
      /\ n * B = q + (IF u <= B - L THEN B ELSE B + B)
  <2>1. CASE u <= B - L
    <3>1. n = N + 1 /\ n \in Nat
      BY <2>1 DEF B, L
    <3>2. u + L - 1 \in 0 .. B - 1 /\ k + B - 1 = (q + B) + (u + L - 1)
      BY <1>1, <1>2, <2>1
    <3>3. (n * B + (u + L - 1)) \div B = n
      BY <1>1, <3>1, <3>2, WholeAndRest
    <3>4. z = n
      BY <1>2, <3>1, <3>2, <3>3
    <3>. QED
      BY <1>1, <1>2, <2>1, <3>1, <3>4
  <2>2. CASE ~(u <= B - L)
    <3>1. n = N + 2 /\ n \in Nat
      BY <2>2 DEF B, L
    <3>2. (u + L - 1) - B \in 0 .. B - 1 /\ k + B - 1 = ((q + B) + B) + ((u + L - 1) - B)
      BY <1>1, <1>2, <2>2
    <3>3. (n * B + ((u + L - 1) - B)) \div B = n
      BY <1>1, <3>1, <3>2, WholeAndRest
    <3>4. z = n
      BY <1>2, <3>1, <3>2, <3>3
    <3>. QED
      BY <1>1, <1>2, <2>2, <3>1, <3>4
  <2>. QED
    BY <2>1, <2>2
<1>. HIDE DEF z, k
<1>5. n * B + 0 = n * B /\ (n * B + 0) \div B = n /\ n * B \in Nat
  <2>1. n * B \in Nat
    BY <1>1, <1>4, Product
  <2>2. 0 \in 0 .. B - 1
    BY <1>1
  <2>3. (n * B + 0) \div B = n
    <3>1. n \in Nat /\ B \in Nat \ {0}
      BY <1>1, <1>4
    <3>. QED
      BY <2>2, <3>1, WholeAndRest
  <2>4. n * B + 0 = n * B
    <3> DEFINE w == n * B
    <3>1. w \in Nat
      BY <2>1
    <3>. HIDE DEF w
    <3>2. w + 0 = w
      BY <3>1
    <3>. QED
      BY <3>2 DEF w
  <2>. QED
    BY <2>1, <2>3, <2>4
<1>6. RoundUp(k, B) \div B = n
  BY <1>3, <1>4, <1>5
<1>. QED
  BY <1>4, <1>5, <1>6 DEF k, q, B, L

LEMMA GroestlReference ==
  ASSUME GR!GroestlAssumption, NEW t \in Nat, NEW N \in Nat, NEW u \in 1..BLOCK,
         (t \div 8) + 1 = N * BLOCK + u, NEW n,
         n = IF u <= BLOCK - LENGTHFIELDLEN THEN N + 1 ELSE N + 2
  PROVE  AllPadded(GR!PaddedBlocks(t), n, t, Field(n))
<1> DEFINE L == LENGTHFIELDLEN
           m == Terminated(t)
           k == (N * BLOCK + u) + L
           l == Field(n)
<1>1. /\ n \in Nat /\ RoundUp(k, BLOCK) \div BLOCK = n
      /\ n * BLOCK \in Nat /\ k <= n * BLOCK
  BY BlocksNeeded
<1>2. IsSeq(l) /\ Len(l) = L
  BY FieldBytes
<1>3. Len(m) = N * BLOCK + u
  BY TerminatedBytes
<1>4. L \in Nat /\ BLOCK \in Nat \ {0}
  BY CounterSizes
<1>5. (t \div 8) + 1 + Len(l) = k
  BY <1>2
<1>6. GR!PaddedBlocks(t) = Blocks((m \o Zeros(n * BLOCK - L - Len(m))) \o l, BLOCK)
  <2> DEFINE g == GR!RoundUp(Len(m) + L, BLOCK) \div BLOCK
  <2>1. g = n
    BY <1>1, <1>3, SameOperators
  <2>2. GR!PaddedBlocks(t) = GR!Blocks((m \o GR!Zeros(g * BLOCK - L - Len(m)))
                                         \o GR!BigEndian(g, L, ByteBase), BLOCK)
    BY SameOperators, Zenon DEF GR!PaddedBlocks
  <2>. HIDE DEF g, m
  <2>. QED
    BY <2>1, <2>2, SameOperators DEF Field
<1>7. GR!PaddedBlocks(t) = Blocks(Padded(t, n * BLOCK, l), BLOCK)
  BY <1>2, <1>6 DEF Padded, Filled
<1>. HIDE DEF l, k
<1>8. AllPadded(Blocks(Padded(t, n * BLOCK, l), BLOCK), n, t, l)
  BY <1>1, <1>2, <1>4, <1>5, PaddedInBlocks
<1>. QED
  BY <1>7, <1>8 DEF l

LEMMA OverlayBytes ==
  ASSUME BLOCK \in Nat, NEW b, Len(b) = BLOCK, NEW at, NEW f
  PROVE  LET c == Overlay(b, at, f)
         IN  /\ IsSeq(c) /\ Len(c) = BLOCK
             /\ \A k \in 1..BLOCK :
                  c[k] = IF k > at /\ k <= at + Len(f) THEN f[k - at] ELSE b[k]
<1> DEFINE c == Overlay(b, at, f)
<1>1. c = [k \in 1..BLOCK |-> IF k > at /\ k <= at + Len(f) THEN f[k - at] ELSE b[k]]
  BY DEF Overlay
<1>. HIDE DEF c
<1>2. c = [k \in 1..BLOCK |-> c[k]]
  BY <1>1
<1>3. IsSeq(c) /\ Len(c) = BLOCK
  BY <1>2, Listed
<1>. QED
  BY <1>1, <1>3 DEF c

LEMMA ZerosBytes ==
  ASSUME NEW n \in Nat
  PROVE  Len(Zeros(n)) = n /\ \A k \in 1..n : Zeros(n)[k] = Num(0)
<1> DEFINE d == Zeros(n)
<1>1. d = [k \in 1..n |-> d[k]] /\ \A k \in 1..n : d[k] = Num(0)
  BY DEF Zeros
<1>. HIDE DEF d
<1>. QED
  BY <1>1, Listed DEF d

(* The buffer with u bytes of the message, zeros and the length.           *)
LastBlock(b, u, f) ==
  Overlay(Overlay(b, u, Zeros(BLOCK - LENGTHFIELDLEN - u)), BLOCK - LENGTHFIELDLEN, f)

LEMMA LastBytes ==
  ASSUME GR!GroestlAssumption, NEW b, Len(b) = BLOCK, NEW u \in 0 .. BLOCK - LENGTHFIELDLEN,
         NEW f, Len(f) = LENGTHFIELDLEN
  PROVE  LET w == BLOCK - LENGTHFIELDLEN
         IN  /\ IsSeq(LastBlock(b, u, f)) /\ Len(LastBlock(b, u, f)) = BLOCK
             /\ \A k \in 1..u : LastBlock(b, u, f)[k] = b[k]
             /\ \A k \in u + 1 .. w : LastBlock(b, u, f)[k] = Num(0)
             /\ \A k \in w + 1 .. BLOCK : LastBlock(b, u, f)[k] = f[k - w]
<1> DEFINE L == LENGTHFIELDLEN
           w == BLOCK - L
           z == Zeros(w - u)
           c == Overlay(b, u, z)
           g == Overlay(c, w, f)
<1>1. L \in Nat /\ BLOCK \in Nat /\ L < BLOCK
  BY CounterSizes
<1>2. w \in Nat /\ w + L = BLOCK /\ w - u \in Nat /\ u \in Nat /\ u <= w
  BY <1>1
<1>3. LastBlock(b, u, f) = g
  BY DEF LastBlock
<1>. HIDE DEF L, w
<1>4. Len(z) = w - u /\ \A k \in 1 .. w - u : z[k] = Num(0)
  BY <1>2, ZerosBytes
<1>. HIDE DEF z
<1>5. /\ IsSeq(c) /\ Len(c) = BLOCK
      /\ \A k \in 1..BLOCK : c[k] = IF k > u /\ k <= u + Len(z) THEN z[k - u] ELSE b[k]
  BY <1>1, OverlayBytes
<1>. HIDE DEF c
<1>6. /\ IsSeq(g) /\ Len(g) = BLOCK
      /\ \A k \in 1..BLOCK : g[k] = IF k > w /\ k <= w + Len(f) THEN f[k - w] ELSE c[k]
  BY <1>1, <1>5, OverlayBytes
<1>. HIDE DEF g
<1>7. ASSUME NEW k \in 1..u
      PROVE  g[k] = b[k]
  <2>1. k \in 1..BLOCK /\ ~(k > w) /\ ~(k > u)
    BY <1>1, <1>2
  <2>. QED
    BY <1>5, <1>6, <2>1
<1>8. ASSUME NEW k \in u + 1 .. w
      PROVE  g[k] = Num(0)
  <2>1. k \in 1..BLOCK /\ ~(k > w) /\ k > u /\ k <= u + Len(z) /\ k - u \in 1 .. w - u
    BY <1>1, <1>2, <1>4
  <2>. QED
    BY <1>4, <1>5, <1>6, <2>1
<1>9. ASSUME NEW k \in w + 1 .. BLOCK
      PROVE  g[k] = f[k - w]
  <2>1. k \in 1..BLOCK /\ k > w /\ k <= w + Len(f)
    BY <1>1, <1>2 DEF L
  <2>. QED
    BY <1>6, <2>1
<1>. QED
  BY <1>3, <1>6, <1>7, <1>8, <1>9 DEF w, L

(* The message of t bits, up to the one bit behind it, in the buffer.      *)
Ended(b, t, q, u) ==
  /\ IsSeq(b) /\ Len(b) = BLOCK
  /\ \A k \in 1 .. u - 1 : b[k] = Msg(q + k)
  /\ b[u] = End(q + u, t % 8)

LEMMA TerminateCtx ==
  ASSUME BLOCK \in Nat, NEW x, NEW m, NEW b, NEW t, NEW h, NEW d, NEW i,
         Good(x, b, t, h, 0, d, i)
  PROVE  \E c : /\ GR!Terminate(Ctx(x, m, b, Ptr(h), h % 8)) = Ctx(x, m, c, (h \div 8) + 1, 0)
                /\ Ended(c, t, Len(x) * BLOCK, (h \div 8) + 1)
<1> DEFINE q == Len(x) * BLOCK
           at == h \div 8
           r == h % 8
           a == Ctx(x, m, b, Ptr(h), r)
           u == at + 1
<1>1. /\ Len(x) \in Nat /\ q \in Nat /\ t \in Nat /\ h \in Nat
      /\ t = 8 * q + h + 0 /\ h < 8 * BLOCK
  BY Numbers
<1>2. /\ IsSeq(b) /\ Len(b) = BLOCK
      /\ \A k \in 1..BLOCK : 8 * (k - 1) < h => b[k] = MsgByte(q + k, t)
  BY DEF Good, Types, Held
<1>3. /\ at \in Nat /\ r \in 0..7 /\ h = 8 * at + r
      /\ (r = 0 => Ptr(h) = at) /\ (r # 0 => Ptr(h) = at + 1)
  BY <1>1, Pointer
<1>4. a.bits_in_last_byte = r /\ a.buf_ptr = Ptr(h) /\ a.buffer = b
  BY CtxFields
<1>. HIDE DEF q, at, r
<1>5. t % 8 = r /\ at \in 0 .. BLOCK - 1 /\ u \in 1..BLOCK
  BY <1>1, <1>3
<1>6. ASSUME NEW k \in 1..at
      PROVE  b[k] = Msg(q + k)
  <2>1. k \in 1..BLOCK /\ 8 * (k - 1) < h /\ 8 * (q + k) <= t
    BY <1>1, <1>3, <1>5
  <2>. QED
    BY <1>2, <2>1 DEF MsgByte
<1>7. at = u - 1
  BY <1>3
<1>8. CASE r # 0
  <2>1. b[u] = Cut(q + u, r)
    <3>1. u \in 1..BLOCK /\ 8 * (u - 1) < h /\ ~(8 * (q + u) <= t)
      BY <1>1, <1>3, <1>5, <1>8
    <3>. QED
      BY <1>2, <1>5, <3>1 DEF MsgByte
  <2>2. b[u][2] = q + u
    BY <2>1 DEF Cut
  <2> DEFINE e == End(q + u, r)
             c == [b EXCEPT ![u] = e]
  <2>3. GR!Terminate(a) = [a EXCEPT !.buffer = c, !.bits_in_last_byte = 0]
    <3>. HIDE DEF a, u
    <3>1. /\ a.bits_in_last_byte # 0 /\ a.buf_ptr = u /\ b[u] = a.buffer[u]
          /\ GR!End(a.buffer[u][2], r) = e
      BY <1>3, <1>4, <1>8, <2>2, SameOperators DEF u
    <3>2. GR!Terminate(a) = [a EXCEPT !.buffer[u] = GR!End(@[2], r), !.bits_in_last_byte = 0]
      BY <1>4, <3>1, Zenon DEF GR!Terminate
    <3>3. [a EXCEPT !.buffer[u] = GR!End(@[2], r), !.bits_in_last_byte = 0]
            = [a EXCEPT !.buffer = [a.buffer EXCEPT ![u] = GR!End(a.buffer[u][2], r)],
                        !.bits_in_last_byte = 0]
      OBVIOUS
    <3>. HIDE DEF e
    <3>. QED
      BY <1>4, <3>1, <3>2, <3>3, Zenon
  <2>4. [a EXCEPT !.buffer = c, !.bits_in_last_byte = 0] = Ctx(x, m, c, u, 0)
    <3>1. a = Ctx(x, m, b, u, r)
      BY <1>3, <1>8
    <3>. HIDE DEF a, c, u
    <3>2. [a EXCEPT !.buffer = c] = Ctx(x, m, c, u, r)
      BY <3>1 DEF Ctx, Raw
    <3>3. [Ctx(x, m, c, u, r) EXCEPT !.bits_in_last_byte = 0] = Ctx(x, m, c, u, 0)
      BY DEF Ctx, Raw
    <3>. QED
      BY <3>2, <3>3, Zenon
  <2>5. Ended(c, t, q, u)
    <3>1. b = [k \in 1..BLOCK |-> b[k]]
      BY <1>2 DEF IsSeq
    <3>. HIDE DEF e
    <3>2. c = [k \in 1..BLOCK |-> c[k]] /\ c[u] = e /\ \A k \in 1..BLOCK : k # u => c[k] = b[k]
      BY <1>5, <3>1
    <3>. HIDE DEF c
    <3>3. IsSeq(c) /\ Len(c) = BLOCK
      BY <3>2, Listed
    <3>4. \A k \in 1 .. u - 1 : c[k] = Msg(q + k)
      BY <1>5, <1>6, <3>2
    <3>. QED
      BY <1>5, <3>2, <3>3, <3>4 DEF Ended, e
  <2>. QED
    BY <2>3, <2>4, <2>5 DEF q, at, r
<1>9. CASE r = 0
  <2> DEFINE e == <<End(0, 0)>>
             c == Overlay(b, at, e)
  <2>1. Len(e) = 1 /\ e[1] = End(0, 0)
    OBVIOUS
  <2>2. GR!Terminate(a) = GR!Store(a, e)
    <3>. HIDE DEF a
    <3>1. a.bits_in_last_byte = 0 /\ <<GR!End(0, 0)>> = e
      BY <1>4, <1>9, SameOperators
    <3>. QED
      BY <3>1, Zenon DEF GR!Terminate
  <2>3. a = Ctx(x, m, b, at, 0)
    BY <1>3, <1>9
  <2>. HIDE DEF e, a
  <2>4. GR!Store(a, e) = Ctx(x, m, c, u, 0)
    <3>1. GR!Store(Ctx(x, m, b, at, 0), e) = Ctx(x, m, c, at + Len(e), 0)
      BY StoreCtx
    <3>. QED
      BY <2>1, <2>3, <3>1
  <2>5. /\ IsSeq(c) /\ Len(c) = BLOCK
        /\ \A k \in 1..BLOCK : c[k] = IF k > at /\ k <= at + Len(e) THEN e[k - at] ELSE b[k]
    BY <1>2, OverlayBytes
  <2>. HIDE DEF c
  <2>6. c[u] = End(q + u, r)
    <3>1. u > at /\ u <= at + Len(e) /\ u - at = 1
      BY <1>3, <2>1
    <3>2. c[u] = End(0, 0)
      BY <1>5, <2>1, <2>5, <3>1
    <3>. QED
      BY <1>9, <3>2 DEF End
  <2>7. \A k \in 1 .. u - 1 : c[k] = Msg(q + k)
    <3> TAKE k \in 1 .. u - 1
    <3>1. k \in 1..at /\ k \in 1..BLOCK /\ ~(k > at)
      BY <1>5, <1>7
    <3>. QED
      BY <1>6, <2>5, <3>1
  <2>8. Ended(c, t, q, u)
    BY <1>5, <2>5, <2>6, <2>7 DEF Ended
  <2>. QED
    BY <2>2, <2>4, <2>8 DEF a, q, at, r
<1>. QED
  BY <1>8, <1>9

LEMMA WriteLengthCtx ==
  ASSUME GR!GroestlAssumption, NEW x, NEW n \in Nat, NEW b, NEW p
  PROVE  LET w == BLOCK - LENGTHFIELDLEN
         IN  GR!WriteLength(Ctx(x, n, b, p, 0)) = Ctx(x, 0, Overlay(b, w, Field(n + 1)), w, 0)
<1> DEFINE w == BLOCK - LENGTHFIELDLEN
           M == GR!CounterMod
           C == GR!CounterLen
           m == n + 1
           e == GR!CountBlock(Ctx(x, n, b, p, 0))
           f == BigEndian((m \div M) % M, C, ByteBase) \o BigEndian(m % M, C, ByteBase)
           v == Overlay(b, w, Field(m))
<1>1. e = Ctx(x, m, b, p, 0)
  BY CountCtx
<1>2. /\ e.block_counter1 = m % M /\ e.block_counter2 = (m \div M) % M /\ e.buffer = b
  <2>. HIDE DEF e, m
  <2>. QED
    BY <1>1, CtxFields
<1>3. f = Field(m)
  <2>1. m \in Nat
    OBVIOUS
  <2>. HIDE DEF m
  <2>. QED
    BY <2>1, CountersInBytes
<1> DEFINE g == GR!BigEndian(e.block_counter2, C, ByteBase) \o GR!BigEndian(e.block_counter1, C, ByteBase)
<1>4. g = Field(m)
  BY <1>2, <1>3, SameOperators
<1>5. GR!Overlay(e.buffer, w, g) = v
  BY <1>2, <1>4, SameOperators
<1>6. GR!WriteLength(Ctx(x, n, b, p, 0))
        = [e EXCEPT !.buffer = GR!Overlay(@, w, g), !.buf_ptr = w,
                    !.block_counter1 = 0, !.block_counter2 = 0]
  BY Zenon DEF GR!WriteLength
<1>. HIDE DEF e, v, w, g, m
<1>7. [e EXCEPT !.buffer = GR!Overlay(@, w, g), !.buf_ptr = w,
                !.block_counter1 = 0, !.block_counter2 = 0]
        = [[[[e EXCEPT !.buffer = v] EXCEPT !.buf_ptr = w] EXCEPT !.block_counter1 = 0]
              EXCEPT !.block_counter2 = 0]
  BY <1>5, Zenon
<1> DEFINE i == m % M
           j == (m \div M) % M
<1>8. e = Raw(x, i, j, b, p, 0)
  BY <1>1 DEF Ctx
<1>. HIDE DEF i, j
<1>9. [e EXCEPT !.buffer = v] = Raw(x, i, j, v, p, 0)
  BY <1>8 DEF Raw
<1>10. [Raw(x, i, j, v, p, 0) EXCEPT !.buf_ptr = w] = Raw(x, i, j, v, w, 0)
  BY DEF Raw
<1>11. [Raw(x, i, j, v, w, 0) EXCEPT !.block_counter1 = 0] = Raw(x, 0, j, v, w, 0)
  BY DEF Raw
<1>12. [Raw(x, 0, j, v, w, 0) EXCEPT !.block_counter2 = 0] = Raw(x, 0, 0, v, w, 0)
  BY DEF Raw
<1>13. GR!WriteLength(Ctx(x, n, b, p, 0)) = Raw(x, 0, 0, v, w, 0)
  BY <1>6, <1>7, <1>9, <1>10, <1>11, <1>12, Zenon
<1>14. 0 % M = 0 /\ (0 \div M) % M = 0
  <2>1. M \in Nat \ {0}
    BY CounterSizes
  <2>. HIDE DEF M
  <2>2. 0 * M + 0 = 0 /\ 0 \in 0 .. M - 1
    BY <2>1
  <2>3. (0 * M + 0) \div M = 0 /\ (0 * M + 0) % M = 0
    BY <2>1, <2>2, WholeAndRest
  <2>. QED
    BY <2>2, <2>3
<1>15. Ctx(x, 0, v, w, 0) = Raw(x, 0, 0, v, w, 0)
  BY <1>14 DEF Ctx
<1>. QED
  BY <1>13, <1>15 DEF v, w, m

LEMMA PadToLengthCtx ==
  ASSUME GR!GroestlAssumption, NEW x, NEW n \in Nat, NEW b, NEW u \in 1..BLOCK
  PROVE  LET w == BLOCK - LENGTHFIELDLEN
             c == ZeroFrom(b, u)
             z == GR!PadToLength(Ctx(x, n, b, u, 0))
         IN  /\ u <= w => z = Ctx(x, n, Overlay(b, u, Zeros(w - u)), w, 0)
             /\ ~(u <= w) => z = Ctx(Append(x, c), n + 1, Overlay(c, 0, Zeros(w - 0)), w, 0)
<1> DEFINE w == BLOCK - LENGTHFIELDLEN
           a == Ctx(x, n, b, u, 0)
           c == ZeroFrom(b, u)
           z == GR!PadToLength(a)
           full == GR!Store(a, Zeros(BLOCK - u))
           next == [GR!Transform(full, full.buffer) EXCEPT !.buf_ptr = 0]
           y == Append(x, c)
<1>1. w \in Nat /\ BLOCK \in Nat /\ u \in Nat /\ BLOCK - u \in Nat /\ u <= BLOCK
  BY CounterSizes
<1>2. a.buf_ptr = u
  BY CtxFields
<1>3. full = Ctx(x, n, c, BLOCK, 0)
  <2>1. full = Ctx(x, n, c, u + Len(Zeros(BLOCK - u)), 0)
    BY StoreCtx DEF ZeroFrom
  <2>2. u + Len(Zeros(BLOCK - u)) = BLOCK
    BY <1>1, ZerosBytes
  <2>. QED
    BY <2>1, <2>2
<1>4. full.buffer = c
  BY <1>3, CtxFields
<1>5. next = Ctx(y, n + 1, c, 0, 0)
  <2>. HIDE DEF c, full
  <2>1. GR!Transform(full, c) = Ctx(y, n + 1, c, BLOCK, 0)
    BY <1>3, TransformCtx
  <2>. HIDE DEF y
  <2>2. [Ctx(y, n + 1, c, BLOCK, 0) EXCEPT !.buf_ptr = 0] = Ctx(y, n + 1, c, 0, 0)
    BY DEF Ctx, Raw
  <2>. QED
    BY <1>4, <2>1, <2>2, Zenon
<1>6. next.buf_ptr = 0
  BY <1>5, CtxFields
<1>7. /\ u > w => z = GR!Store(next, Zeros(w - next.buf_ptr))
      /\ ~(u > w) => z = GR!Store(a, Zeros(w - a.buf_ptr))
  <2>1. /\ \A k : GR!Zeros(k) = Zeros(k)
        /\ full = GR!Store(a, GR!Zeros(BLOCK - a.buf_ptr))
    BY <1>2, SameOperators
  <2>. HIDE DEF a, full
  <2>2. /\ a.buf_ptr > w => z = GR!Store(next, GR!Zeros(w - next.buf_ptr))
        /\ ~(a.buf_ptr > w) => z = GR!Store(a, GR!Zeros(w - a.buf_ptr))
    BY <2>1, Zenon DEF GR!PadToLength
  <2>. HIDE DEF next, z, w
  <2>. QED
    BY <1>2, <2>1, <2>2
<1>. HIDE DEF next, full
<1>8. ASSUME u <= w
      PROVE  z = Ctx(x, n, Overlay(b, u, Zeros(w - u)), w, 0)
  <2>1. ~(u > w) /\ w - u \in Nat /\ u + (w - u) = w
    BY <1>1, <1>8
  <2>2. GR!Store(a, Zeros(w - u)) = Ctx(x, n, Overlay(b, u, Zeros(w - u)), u + Len(Zeros(w - u)), 0)
    BY StoreCtx
  <2>. HIDE DEF w, a, z
  <2>3. Len(Zeros(w - u)) = w - u
    BY <2>1, ZerosBytes
  <2>. QED
    BY <1>2, <1>7, <2>1, <2>2, <2>3
<1>9. ASSUME ~(u <= w)
      PROVE  z = Ctx(y, n + 1, Overlay(c, 0, Zeros(w - 0)), w, 0)
  <2>1. u > w /\ w - 0 \in Nat /\ 0 + (w - 0) = w
    BY <1>1, <1>9
  <2>. HIDE DEF y, c
  <2>2. GR!Store(Ctx(y, n + 1, c, 0, 0), Zeros(w - 0))
          = Ctx(y, n + 1, Overlay(c, 0, Zeros(w - 0)), 0 + Len(Zeros(w - 0)), 0)
    BY StoreCtx
  <2>. HIDE DEF w, a, z
  <2>3. Len(Zeros(w - 0)) = w - 0
    BY <2>1, ZerosBytes
  <2>. QED
    BY <1>5, <1>6, <1>7, <2>1, <2>2, <2>3
<1>. QED
  BY <1>8, <1>9

LEMMA FinalOne ==
  ASSUME GR!GroestlAssumption, NEW x, IsSeq(x), Compressed(x), NEW t \in Nat,
         NEW u \in 1..BLOCK, (t \div 8) + 1 = Len(x) * BLOCK + u, NEW c,
         Ended(c, t, Len(x) * BLOCK, u), u <= BLOCK - LENGTHFIELDLEN
  PROVE  Append(x, LastBlock(c, u, Field(Len(x) + 1))) = GR!PaddedBlocks(t)
<1> DEFINE N == Len(x)
           q == N * BLOCK
           w == BLOCK - LENGTHFIELDLEN
           l == Field(N + 1)
           g == LastBlock(c, u, l)
           e == (N + 1) * BLOCK
<1>1. /\ N \in Nat /\ BLOCK \in Nat /\ LENGTHFIELDLEN \in Nat /\ LENGTHFIELDLEN < BLOCK
  BY CounterSizes DEF IsSeq
<1>2. q \in Nat /\ e = q + BLOCK
  BY <1>1, Product
<1>3. IsSeq(l) /\ Len(l) = LENGTHFIELDLEN
  BY FieldBytes
<1>4. /\ IsSeq(c) /\ Len(c) = BLOCK
      /\ \A k \in 1 .. u - 1 : c[k] = Msg(q + k)
      /\ c[u] = End(q + u, t % 8)
  BY DEF Ended
<1>5. (t \div 8) + 1 = q + u /\ u \in 0..w
  BY <1>1
<1>. HIDE DEF N, q, l
<1>6. /\ IsSeq(g) /\ Len(g) = BLOCK
      /\ \A k \in 1..u : g[k] = c[k]
      /\ \A k \in u + 1 .. w : g[k] = Num(0)
      /\ \A k \in w + 1 .. BLOCK : g[k] = l[k - w]
  <2>1. Len(c) = BLOCK /\ Len(l) = LENGTHFIELDLEN /\ u \in 0 .. BLOCK - LENGTHFIELDLEN
    BY <1>3, <1>4, <1>5
  <2>. QED
    BY SMTT(60), <2>1, LastBytes
<1>. HIDE DEF g, e
<1>7. t \div 8 \in Nat /\ t \div 8 = q + u - 1
  BY <1>2, <1>5
<1>8. ASSUME NEW k \in 1..BLOCK
      PROVE  g[k] = PadByte(t, e, l, q + k)
  <2>1. CASE k < u
    <3>1. k \in 1 .. u - 1 /\ k \in 1..u /\ q + k <= t \div 8
      BY <1>2, <1>7, <2>1
    <3>. QED
      BY <1>4, <1>6, <3>1 DEF PadByte
  <2>2. CASE k = u
    <3>1. ~(q + k <= t \div 8) /\ q + k = (t \div 8) + 1 /\ u \in 1..u
      BY <1>2, <1>5, <1>7, <2>2
    <3>. QED
      BY <1>4, <1>6, <2>2, <3>1 DEF PadByte
  <2>3. CASE k > u
    <3>1. /\ ~(q + k <= t \div 8) /\ q + k # (t \div 8) + 1
          /\ (q + k <= e - Len(l) <=> k <= w) /\ (q + k) - (e - Len(l)) = k - w
          /\ (k <= w => k \in u + 1 .. w) /\ (~(k <= w) => k \in w + 1 .. BLOCK)
      BY <1>1, <1>2, <1>3, <1>5, <1>7, <2>3
    <3>. QED
      BY <1>6, <3>1 DEF PadByte
  <2>. QED
    BY <2>1, <2>2, <2>3
<1>9. t >= 8 * q
  <2>1. t >= 8 * (t \div 8) /\ t \div 8 >= q
    BY <1>2, <1>7
  <2>. QED
    BY <1>2, <1>7, <2>1
<1>10. AllPadded(Append(x, g), N + 1, t, l)
  <2>1. t >= 8 * (Len(x) * BLOCK)
    BY <1>9 DEF q, N
  <2>2. \A k \in 1..BLOCK : g[k] = PadByte(t, (Len(x) + 1) * BLOCK, l, Len(x) * BLOCK + k)
    BY <1>8 DEF e, q, N
  <2>. QED
    BY <1>1, <1>6, <2>1, <2>2, OneMore DEF N
<1>11. AllPadded(GR!PaddedBlocks(t), N + 1, t, l)
  <2>1. N + 1 = IF u <= BLOCK - LENGTHFIELDLEN THEN N + 1 ELSE N + 2
    OBVIOUS
  <2>. QED
    BY <1>1, <1>5, <2>1, GroestlReference DEF q, l
<1>12. Append(x, g) = GR!PaddedBlocks(t)
  BY <1>10, <1>11, SameBlocks
<1>. QED
  BY <1>12 DEF g, l, N

LEMMA FinalTwo ==
  ASSUME GR!GroestlAssumption, NEW x, IsSeq(x), Compressed(x), NEW t \in Nat,
         NEW u \in 1..BLOCK, (t \div 8) + 1 = Len(x) * BLOCK + u, NEW b,
         Ended(b, t, Len(x) * BLOCK, u), ~(u <= BLOCK - LENGTHFIELDLEN)
  PROVE  LET c == ZeroFrom(b, u)
         IN  Append(Append(x, c), LastBlock(c, 0, Field(Len(x) + 2))) = GR!PaddedBlocks(t)
<1> DEFINE N == Len(x)
           q == N * BLOCK
           w == BLOCK - LENGTHFIELDLEN
           l == Field(N + 2)
           c == ZeroFrom(b, u)
           g == LastBlock(c, 0, l)
           e == (N + 2) * BLOCK
           y == Append(Append(x, c), g)
<1>1. /\ N \in Nat /\ BLOCK \in Nat /\ LENGTHFIELDLEN \in Nat /\ LENGTHFIELDLEN < BLOCK
  BY CounterSizes DEF IsSeq
<1>2. q \in Nat /\ (N + 1) * BLOCK = q + BLOCK /\ e = (q + BLOCK) + BLOCK
  <2>1. q \in Nat /\ (N + 1) * BLOCK = q + BLOCK /\ N + 1 \in Nat /\ N + 2 = (N + 1) + 1
    BY <1>1, Product
  <2>2. ((N + 1) + 1) * BLOCK = (N + 1) * BLOCK + BLOCK
    BY <1>1, <2>1, Product
  <2>. QED
    BY <2>1, <2>2
<1>3. IsSeq(l) /\ Len(l) = LENGTHFIELDLEN
  BY FieldBytes
<1>4. /\ IsSeq(b) /\ Len(b) = BLOCK
      /\ \A k \in 1 .. u - 1 : b[k] = Msg(q + k)
      /\ b[u] = End(q + u, t % 8)
  BY DEF Ended
<1>5. (t \div 8) + 1 = q + u /\ u \in 0..BLOCK /\ w \in Nat /\ 0 \in 0..w
  BY <1>1
<1>6. /\ IsSeq(c) /\ Len(c) = BLOCK
      /\ \A k \in 1..u : c[k] = b[k]
      /\ \A k \in u + 1 .. BLOCK : c[k] = Num(0)
  <2>1. /\ c = [k \in 1..BLOCK |-> c[k]]
        /\ \A k \in 1..u : c[k] = b[k]
        /\ \A k \in u + 1 .. BLOCK : c[k] = Num(0)
    BY SMTT(60), <1>1, <1>4, <1>5, ZeroedBytes
  <2>. HIDE DEF c
  <2>. QED
    BY <1>1, <2>1, Listed
<1>. HIDE DEF N, q, l, c
<1>7. /\ IsSeq(g) /\ Len(g) = BLOCK
      /\ \A k \in 0 + 1 .. w : g[k] = Num(0)
      /\ \A k \in w + 1 .. BLOCK : g[k] = l[k - w]
  <2> DEFINE o == 0
             f == LastBlock(c, o, l)
  <2>1. o \in 0 .. BLOCK - LENGTHFIELDLEN
    BY <1>5
  <2>2. g = f
    OBVIOUS
  <2>. HIDE DEF o
  <2>3. /\ IsSeq(f) /\ Len(f) = BLOCK
        /\ \A k \in o + 1 .. w : f[k] = Num(0)
        /\ \A k \in w + 1 .. BLOCK : f[k] = l[k - w]
    <3>1. Len(c) = BLOCK /\ Len(l) = LENGTHFIELDLEN
      BY <1>3, <1>6
    <3>. QED
      BY SMTT(60), <2>1, <3>1, LastBytes
  <2>. HIDE DEF f, g
  <2>. QED
    BY <2>2, <2>3 DEF o
<1>. HIDE DEF g, e
<1>8. t \div 8 \in Nat /\ t \div 8 = q + u - 1
  BY <1>2, <1>5
<1>9. ASSUME NEW k \in 1..BLOCK
      PROVE  c[k] = PadByte(t, e, l, q + k)
  <2>1. CASE k < u
    <3>1. k \in 1 .. u - 1 /\ k \in 1..u /\ q + k <= t \div 8
      BY <1>2, <1>8, <2>1
    <3>. QED
      BY <1>4, <1>6, <3>1 DEF PadByte
  <2>2. CASE k = u
    <3>1. ~(q + k <= t \div 8) /\ q + k = (t \div 8) + 1 /\ u \in 1..u
      BY <1>2, <1>5, <1>8, <2>2
    <3>. QED
      BY <1>4, <1>6, <2>2, <3>1 DEF PadByte
  <2>3. CASE k > u
    <3>1. /\ ~(q + k <= t \div 8) /\ q + k # (t \div 8) + 1
          /\ q + k <= e - Len(l) /\ k \in u + 1 .. BLOCK
      BY <1>1, <1>2, <1>3, <1>5, <1>8, <2>3
    <3>. QED
      BY <1>6, <3>1 DEF PadByte
  <2>. QED
    BY <2>1, <2>2, <2>3
<1>10. ASSUME NEW k \in 1..BLOCK
       PROVE  g[k] = PadByte(t, e, l, (q + BLOCK) + k)
  <2> DEFINE v == (q + BLOCK) + k
  <2>1. /\ ~(v <= t \div 8) /\ v # (t \div 8) + 1
        /\ (v <= e - Len(l) <=> k <= w) /\ v - (e - Len(l)) = k - w
        /\ (k <= w => k \in 0 + 1 .. w) /\ (~(k <= w) => k \in w + 1 .. BLOCK)
    BY <1>1, <1>2, <1>3, <1>5, <1>8
  <2>. HIDE DEF v
  <2>2. g[k] = PadByte(t, e, l, v)
    BY <1>7, <2>1 DEF PadByte
  <2>. QED
    BY <2>2 DEF v
<1>11. t >= 8 * q
  <2>1. t >= 8 * (t \div 8) /\ t \div 8 >= q
    BY <1>2, <1>8
  <2>. QED
    BY <1>2, <1>8, <2>1
<1>12. AllPadded(y, N + 2, t, l)
  <2>1. t >= 8 * (Len(x) * BLOCK)
    BY <1>11 DEF q, N
  <2>2. \A k \in 1..BLOCK : c[k] = PadByte(t, (Len(x) + 2) * BLOCK, l, Len(x) * BLOCK + k)
    BY <1>9 DEF e, q, N
  <2>3. \A k \in 1..BLOCK :
           g[k] = PadByte(t, (Len(x) + 2) * BLOCK, l, (Len(x) + 1) * BLOCK + k)
    BY <1>2, <1>10 DEF e, N
  <2>. QED
    BY <1>1, <1>6, <1>7, <2>1, <2>2, <2>3, TwoMore DEF N
<1>. HIDE DEF y
<1>13. AllPadded(GR!PaddedBlocks(t), N + 2, t, l)
  <2>1. N + 2 = IF u <= BLOCK - LENGTHFIELDLEN THEN N + 1 ELSE N + 2
    OBVIOUS
  <2>. QED
    BY <1>1, <1>5, <2>1, GroestlReference DEF q, l
<1>14. y = GR!PaddedBlocks(t)
  BY <1>12, <1>13, SameBlocks
<1>. QED
  BY <1>14 DEF y, g, c, l, N

LEMMA GroestlFinal ==
  ASSUME GR!GroestlAssumption, GInv, GR!Final
  PROVE  GInv'
<1>1. stage = "open" /\ stage' = "done" /\ total' = total
  BY DEF GR!Final
<1>2. PICK x, b, h, p, d, i : Between(x, b, h, p, d, i)
  BY <1>1 DEF GInv
<1> DEFINE t == total
           N == Len(x)
           u == (h \div 8) + 1
           w == BLOCK - LENGTHFIELDLEN
           padded == GR!WriteLength(GR!PadToLength(GR!Terminate(ctx)))
<1>3. BLOCK \in Nat /\ Good(x, b, t, h, 0, d, i) /\ ctx = Ctx(x, N, b, Ptr(h), h % 8)
  BY <1>1, <1>2, CounterSizes DEF Between
<1>4. /\ N \in Nat /\ N * BLOCK \in Nat /\ t \in Nat /\ h \in Nat
      /\ t = 8 * (N * BLOCK) + h + 0 /\ h < 8 * BLOCK
  BY <1>3, Numbers
<1>5. IsSeq(x) /\ Compressed(x)
  BY <1>3 DEF Good, Types
<1>6. u \in 1..BLOCK /\ (t \div 8) + 1 = N * BLOCK + u
  <2> DEFINE q == N * BLOCK
  <2>1. q \in Nat /\ t = 8 * q + h + 0
    BY <1>4
  <2>. HIDE DEF q, t
  <2>2. u \in 1..BLOCK /\ (t \div 8) + 1 = q + u
    BY <1>3, <1>4, <2>1
  <2>. QED
    BY <2>2 DEF q, t
<1>7. PICK c : GR!Terminate(ctx) = Ctx(x, N, c, u, 0) /\ Ended(c, t, N * BLOCK, u)
  BY <1>3, TerminateCtx
<1>8. output' = GR!Transform(padded, padded.buffer).chaining
  BY Zenon DEF GR!Final
<1>. HIDE DEF t, N, u
<1>9. \E y, g : padded = Ctx(y, 0, g, w, 0) /\ Append(y, g) = GR!PaddedBlocks(t)
  <2>1. CASE u <= w
    <3> DEFINE o == Overlay(c, u, Zeros(w - u))
               g == Overlay(o, w, Field(N + 1))
    <3>1. GR!PadToLength(Ctx(x, N, c, u, 0)) = Ctx(x, N, o, w, 0)
      BY <1>4, <1>6, <2>1, PadToLengthCtx
    <3>. HIDE DEF o
    <3>2. GR!WriteLength(Ctx(x, N, o, w, 0)) = Ctx(x, 0, g, w, 0)
      BY <1>4, WriteLengthCtx
    <3>3. g = LastBlock(c, u, Field(N + 1))
      BY DEF o, LastBlock
    <3>. HIDE DEF g
    <3>4. Append(x, g) = GR!PaddedBlocks(t)
      BY <1>4, <1>5, <1>6, <1>7, <2>1, <3>3, FinalOne DEF N
    <3>5. padded = Ctx(x, 0, g, w, 0)
      BY <1>7, <3>1, <3>2
    <3>. QED
      BY <3>4, <3>5
  <2>2. CASE ~(u <= w)
    <3> DEFINE f == ZeroFrom(c, u)
               o == Overlay(f, 0, Zeros(w - 0))
               y == Append(x, f)
               g == Overlay(o, w, Field(N + 1 + 1))
    <3>1. GR!PadToLength(Ctx(x, N, c, u, 0)) = Ctx(y, N + 1, o, w, 0)
      BY <1>4, <1>6, <2>2, PadToLengthCtx
    <3>. HIDE DEF o, y
    <3>2. GR!WriteLength(Ctx(y, N + 1, o, w, 0)) = Ctx(y, 0, g, w, 0)
      <4>1. N + 1 \in Nat
        BY <1>4
      <4>. QED
        BY <4>1, WriteLengthCtx
    <3>3. g = LastBlock(f, 0, Field(N + 2))
      <4>1. N + 1 + 1 = N + 2
        BY <1>4
      <4>. QED
        BY <4>1 DEF o, LastBlock
    <3>. HIDE DEF g
    <3>4. Append(y, g) = GR!PaddedBlocks(t)
      BY ZenonT(60), <1>4, <1>5, <1>6, <1>7, <2>2, <3>3, FinalTwo DEF N, y
    <3>5. padded = Ctx(y, 0, g, w, 0)
      BY <1>7, <3>1, <3>2
    <3>. QED
      BY <3>4, <3>5
  <2>. QED
    BY <2>1, <2>2
<1>10. PICK y, g : padded = Ctx(y, 0, g, w, 0) /\ Append(y, g) = GR!PaddedBlocks(t)
  BY <1>9
<1>. HIDE DEF padded, w
<1>11. output' = GR!PaddedBlocks(t)
  <2>1. padded.buffer = g
    BY <1>10, CtxFields
  <2>2. 0 \in Nat
    OBVIOUS
  <2>3. GR!Transform(Ctx(y, 0, g, w, 0), g) = Ctx(Append(y, g), 0 + 1, g, w, 0)
    BY <2>2, TransformCtx
  <2>4. Ctx(Append(y, g), 0 + 1, g, w, 0).chaining = Append(y, g)
    <3> DEFINE z == Append(y, g)
               m == 0 + 1
    <3>. HIDE DEF z, m
    <3>1. Ctx(z, m, g, w, 0).chaining = z
      BY CtxFields
    <3>. QED
      BY <3>1 DEF z, m
  <2>. QED
    BY <1>8, <1>10, <2>1, <2>3, <2>4
<1>12. GR!PaddedBlocks(total)' = GR!PaddedBlocks(t)
  BY <1>1 DEF t, GR!PaddedBlocks
<1>. QED
  BY <1>1, <1>11, <1>12 DEF GInv, GR!HashesPaddedMessage

-----------------------------------------------------------------------------
(* Between two calls.                                                      *)
LEMMA DataIs ==
  ASSUME NEW from \in Nat, NEW bits \in Nat
  PROVE  LET d == Data(from, bits)
         IN  /\ IsSeq(d) /\ Len(d) = Ptr(bits)
             /\ \A i \in 1..Ptr(bits) : d[i] = MsgByte(from + i, 8 * from + bits)
<1> DEFINE n == bits \div 8
           r == bits % 8
           A == [i \in 1..n |-> Msg(from + i)]
           c == Cut(from + n + 1, r)
           B == IF r = 0 THEN <<>> ELSE <<c>>
           d == Data(from, bits)
<1>1. IsSeq(d) /\ Pending(d, 0, bits, 8 * from + bits, from)
  BY DataBytes
<1>2. /\ Ptr(bits) \in Nat /\ n \in Nat /\ r \in 0..7 /\ bits = 8 * n + r
      /\ (r = 0 => Ptr(bits) = n) /\ (r # 0 => Ptr(bits) = n + 1)
      /\ (Ptr(bits) > 0 => 8 * (Ptr(bits) - 1) < bits)
  BY Pointer
<1>3. d = A \o B
  BY DEF Data
<1>. HIDE DEF d, n, r, c
<1>4. IsSeq(A) /\ Len(A) = n
  <2>1. A = [i \in 1..n |-> A[i]]
    OBVIOUS
  <2>. HIDE DEF A
  <2>. QED
    BY <1>2, <2>1, Listed
<1>5. IsSeq(B) /\ (r = 0 => Len(B) = 0) /\ (r # 0 => Len(B) = 1)
  <2>1. CASE r = 0
    BY <2>1 DEF IsSeq
  <2>2. CASE r # 0
    BY <2>2 DEF IsSeq
  <2>. QED
    BY <2>1, <2>2
<1>. HIDE DEF A, B
<1>6. Len(A \o B) = Len(A) + Len(B)
  BY <1>4, <1>5, Joined
<1>7. Len(d) = Ptr(bits)
  <2>1. Len(d) = n + Len(B)
    BY <1>3, <1>4, <1>6, Zenon
  <2>2. CASE r = 0
    BY <1>2, <1>5, <2>1, <2>2
  <2>3. CASE r # 0
    BY <1>2, <1>5, <2>1, <2>3
  <2>. QED
    BY <2>2, <2>3
<1>8. ASSUME NEW i \in 1..Ptr(bits)
      PROVE  d[i] = MsgByte(from + i, 8 * from + bits)
  <2>1. i \in Nat \ {0} /\ 8 * (i - 1) < bits /\ 0 + i = i
    BY <1>2
  <2>2. d[0 + i] = MsgByte(from + i, 8 * from + bits)
    BY <1>1, <2>1 DEF Pending
  <2>. QED
    BY <2>1, <2>2
<1>. QED
  BY <1>1, <1>7, <1>8 DEF d

LEMMA WholeBlocks ==
  ASSUME BLOCK \in Nat \ {0}, NEW x, IsSeq(x), Compressed(x)
  PROVE  x = Blocks(Data(0, 8 * (Len(x) * BLOCK)), BLOCK)
<1> DEFINE N == Len(x)
           q == N * BLOCK
           t == 8 * q
           d == Data(0, t)
           y == Blocks(d, BLOCK)
<1>1. N \in Nat
  BY DEF IsSeq
<1>2. q \in Nat
  BY <1>1, Product
<1>. HIDE DEF N, q
<1>3. t \in Nat /\ 0 \in Nat /\ 8 * 0 + t = t /\ t \div 8 = q /\ t % 8 = 0
  BY <1>2
<1>4. Ptr(t) = q
  BY <1>3 DEF Ptr
<1>. HIDE DEF t
<1>5. IsSeq(d) /\ Len(d) = q /\ \A i \in 1..q : d[i] = MsgByte(0 + i, t)
  BY <1>3, <1>4, DataIs
<1>6. \A i \in 1..q : d[i] = Msg(i)
  <2> TAKE i \in 1..q
  <2>1. 8 * (0 + i) <= t /\ 0 + i = i
    BY <1>2 DEF t
  <2>. QED
    BY <1>5, <2>1 DEF MsgByte
<1>. HIDE DEF d
<1>7. IsSeq(y) /\ Len(y) = N /\ \A j \in 1..N : y[j] = BlockAt(d, j)
  BY <1>1, <1>5, BlocksOf DEF q
<1>8. ASSUME NEW j \in 1..N
      PROVE  x[j] = y[j]
  <2>1. x[j] = WholeBlock(j)
    BY DEF Compressed, N
  <2> DEFINE v == (j - 1) * BLOCK
  <2>2. v \in Nat /\ v + BLOCK <= q
    <3>1. j - 1 \in Nat /\ N - j \in Nat /\ (j - 1) + 1 = j
      BY <1>1
    <3>2. v \in Nat /\ j * BLOCK = v + BLOCK
      BY <3>1, Product
    <3>3. (N - j) * BLOCK \in Nat
      BY <3>1, Product
    <3>4. N * BLOCK = j * BLOCK + (N - j) * BLOCK
      BY <1>1, <3>1, SMT
    <3> DEFINE nb == N * BLOCK
               jb == j * BLOCK
               rb == (N - j) * BLOCK
    <3>5. jb = v + BLOCK /\ rb \in Nat /\ nb = jb + rb /\ nb = q
      BY <3>2, <3>3, <3>4 DEF q
    <3>. HIDE DEF v, nb, jb, rb
    <3>. QED
      BY <3>2, <3>5
  <2>. HIDE DEF v
  <2>3. \A m \in 1..BLOCK : d[v + m] = Msg(v + m)
    <3> TAKE m \in 1..BLOCK
    <3>1. v + m \in 1..q
      BY <1>2, <2>2
    <3>. QED
      BY <1>6, <3>1
  <2>4. BlockAt(d, j) = [m \in 1..BLOCK |-> d[v + m]] /\ WholeBlock(j) = [m \in 1..BLOCK |-> Msg(v + m)]
    BY DEF BlockAt, WholeBlock, v
  <2>5. BlockAt(d, j) = WholeBlock(j)
    BY <2>3, <2>4
  <2>. QED
    BY <1>7, <2>1, <2>5
<1>. HIDE DEF y
<1>9. x = y
  BY <1>7, <1>8, SameSeq DEF N
<1>. QED
  BY <1>9 DEF y, d, t, q, N

LEMMA TailInBuffer ==
  ASSUME GR!GroestlAssumption, GInv
  PROVE  GR!BufferIsTail
<1> SUFFICES ASSUME stage = "open" PROVE GR!BufferIsTail
  BY DEF GR!BufferIsTail
<1>1. PICK x, b, h, p, d, i : Between(x, b, h, p, d, i)
  BY DEF GInv
<1> DEFINE t == total
           N == Len(x)
           q == N * BLOCK
           n == total \div (8 * BLOCK)
<1>2. BLOCK \in Nat \ {0} /\ Good(x, b, t, h, 0, d, i) /\ ctx = Ctx(x, N, b, Ptr(h), h % 8)
  BY <1>1, CounterSizes DEF Between
<1>3. N \in Nat /\ q \in Nat /\ t \in Nat /\ h \in Nat /\ t = 8 * q + h + 0 /\ h < 8 * BLOCK
  BY <1>2, Numbers
<1>4. /\ IsSeq(x) /\ Compressed(x) /\ IsSeq(b) /\ Len(b) = BLOCK
      /\ \A k \in 1..BLOCK : 8 * (k - 1) < h => b[k] = MsgByte(q + k, t)
  BY <1>2 DEF Good, Types, Held
<1>5. /\ ctx.chaining = x /\ ctx.buffer = b
      /\ ctx.buf_ptr = Ptr(h) /\ ctx.bits_in_last_byte = h % 8
      /\ ctx.block_counter1 = N % GR!CounterMod
      /\ ctx.block_counter2 = (N \div GR!CounterMod) % GR!CounterMod
  BY <1>2, CtxFields
<1>6. 8 * q = N * (8 * BLOCK) /\ (8 * N) * BLOCK = 8 * q
  BY <1>2, <1>3, SMT
<1>. HIDE DEF q, N
<1>7. t = N * (8 * BLOCK) + h /\ t % 8 = h % 8 /\ t - 8 * q = h
  <2> DEFINE g == N * (8 * BLOCK)
  <2>1. g = 8 * q
    BY <1>6
  <2>. HIDE DEF g, t
  <2>2. t = g + h /\ t % 8 = h % 8 /\ t - 8 * q = h
    BY <1>3, <2>1
  <2>. QED
    BY <2>2 DEF g
<1>8. n = N
  <2> DEFINE B == 8 * BLOCK
  <2>1. B \in Nat \ {0} /\ h \in 0 .. B - 1
    BY <1>2, <1>3
  <2>. HIDE DEF B
  <2>2. (N * B + h) \div B = N
    BY <1>3, <2>1, WholeAndRest
  <2>. QED
    BY <1>7, <2>2 DEF B
<1>9. x = Blocks(Data(0, 8 * q), BLOCK)
  BY <1>2, <1>4, WholeBlocks DEF q, N
<1>10. SubSeq(b, 1, Ptr(h)) = Data(q, h)
  <2> DEFINE f == Data(q, h)
             s == SubSeq(b, 0 + 1, 0 + Ptr(h))
  <2>1. /\ IsSeq(f) /\ Len(f) = Ptr(h)
        /\ \A k \in 1..Ptr(h) : f[k] = MsgByte(q + k, 8 * q + h)
    BY <1>3, DataIs
  <2>2. /\ Ptr(h) \in Nat /\ (Ptr(h) > 0 => 8 * (Ptr(h) - 1) < h) /\ (Ptr(h) = 0 <=> h = 0)
    BY <1>3, Pointer
  <2>3. Ptr(h) <= BLOCK /\ 0 + 1 = 1 /\ 0 + Ptr(h) = Ptr(h) /\ 8 * q + h = t
    BY <1>2, <1>3, <2>2
  <2>4. s = [k \in 1..Ptr(h) |-> b[0 + k]]
    BY <1>4, <2>2, <2>3, CutOut
  <2>. HIDE DEF s, f
  <2>5. ASSUME NEW k \in 1..Ptr(h)
        PROVE  b[0 + k] = f[k]
    <3>1. k \in 1..BLOCK /\ 8 * (k - 1) < h /\ 0 + k = k
      BY <1>2, <1>3, <2>2, <2>3
    <3>. QED
      BY <1>4, <2>1, <2>3, <3>1
  <2>6. s = [k \in 1..Ptr(h) |-> f[k]]
    BY <2>4, <2>5
  <2>7. s = f
    BY <2>1, <2>6 DEF IsSeq
  <2>. QED
    BY <2>3, <2>7 DEF s, f
<1>11. /\ ctx.chaining = Blocks(Data(0, (8 * n) * BLOCK), BLOCK)
       /\ SubSeq(ctx.buffer, 1, ctx.buf_ptr) = Data(n * BLOCK, t - (8 * n) * BLOCK)
       /\ ctx.block_counter1 = n % GR!CounterMod
       /\ ctx.block_counter2 = (n \div GR!CounterMod) % GR!CounterMod
       /\ ctx.bits_in_last_byte = t % 8
  BY <1>5, <1>6, <1>7, <1>8, <1>9, <1>10 DEF q
<1>. QED
  BY <1>11, SameOperators DEF GR!BufferIsTail

LEMMA GroestlInit ==
  ASSUME GR!GroestlAssumption, GR!Init
  PROVE  GInv
<1> DEFINE b == [k \in 1..BLOCK |-> GR!Junk]
<1>1. /\ ctx = Raw(<<>>, 0, 0, b, 0, 0) /\ stage = "open" /\ total = 0
  BY DEF GR!Init, Raw
<1>2. BLOCK \in Nat /\ BLOCK > 0
  BY CounterSizes
<1>3. IsSeq(b) /\ Len(b) = BLOCK
  <2>1. b = [k \in 1..BLOCK |-> b[k]]
    OBVIOUS
  <2>. HIDE DEF b
  <2>. QED
    BY <1>2, <2>1, Listed
<1>. HIDE DEF b
<1>4. IsSeq(<<>>) /\ Len(<<>>) = 0
  BY DEF IsSeq
<1>5. Good(<<>>, b, 0, 0, 0, <<>>, 0)
  <2>1. Types(<<>>, b, 0, 0, 0, <<>>, 0)
    BY <1>3, <1>4 DEF Types
  <2>2. Counted(0, 0, 0, 0)
    BY <1>2 DEF Counted
  <2>3. Compressed(<<>>)
    BY <1>4 DEF Compressed
  <2>4. Held(b, 0, 0, 0 * BLOCK) /\ Pending(<<>>, 0, 0, 0, 0 * BLOCK)
    BY SMT DEF Held, Pending
  <2>. QED
    BY <1>4, <2>1, <2>2, <2>3, <2>4 DEF Good
<1>6. ctx = Ctx(<<>>, Len(<<>>), b, Ptr(0), 0 % 8)
  <2> DEFINE M == GR!CounterMod
  <2>1. M \in Nat \ {0}
    BY CounterSizes
  <2>. HIDE DEF M
  <2>2. 0 * M + 0 = 0 /\ 0 \in 0 .. M - 1
    BY <2>1
  <2>3. (0 * M + 0) \div M = 0 /\ (0 * M + 0) % M = 0
    BY <2>1, <2>2, WholeAndRest
  <2>4. 0 % M = 0 /\ (0 \div M) % M = 0 /\ Ptr(0) = 0 /\ 0 % 8 = 0
    BY <2>2, <2>3 DEF Ptr
  <2>5. Ctx(<<>>, 0, b, 0, 0) = Raw(<<>>, 0, 0, b, 0, 0)
    BY <2>4 DEF Ctx, M
  <2>. QED
    BY <1>1, <1>4, <2>4, <2>5
<1>7. Between(<<>>, b, 0, 0, <<>>, 0)
  BY <1>1, <1>5, <1>6 DEF Between
<1>. QED
  BY <1>1, <1>7 DEF GInv, GR!HashesPaddedMessage

LEMMA GroestlNext ==
  ASSUME GR!GroestlAssumption, GInv, [GR!Next]_GR!vars
  PROVE  GInv'
<1>1. ASSUME NEW n \in 0..(MaxBits \div 8), NEW r \in Rems, GR!Update(8 * n + r)
      PROVE  GInv'
  <2>1. 8 * n + r \in Nat
    <3>1. r \in 0..7
      BY DEF GR!GroestlAssumption
    <3>2. n \in Nat
      OBVIOUS
    <3>. QED
      BY <3>1, <3>2
  <2>. QED
    BY <1>1, <2>1, GroestlUpdate
<1>2. CASE GR!UpdateBlock
  BY <1>2, GroestlUpdateBlock
<1>3. CASE GR!UpdateRest
  BY <1>3, GroestlUpdateRest
<1>4. CASE GR!Final
  BY <1>4, GroestlFinal
<1>5. CASE UNCHANGED GR!vars
  BY <1>5 DEF GR!vars, GInv, Between, GR!HashesPaddedMessage
<1>. QED
  BY <1>1, <1>2, <1>3, <1>4, <1>5 DEF GR!Next

(* Groestl compresses exactly the blocks of the padded message, the number *)
(* of blocks at the end although two words count them, for every message   *)
(* length in bits, every cut of the message into calls of Update whose     *)
(* lengths but the last are whole bytes and every size of a block that has *)
(* room for the length (groestl.c, Update and Final).                      *)
THEOREM GroestlHashesPaddedMessage ==
  ASSUME GR!GroestlAssumption
  PROVE  GR!Spec => []GR!HashesPaddedMessage
<1>1. GR!Init => GInv
  BY GroestlInit
<1>2. GInv /\ [GR!Next]_GR!vars => GInv'
  BY GroestlNext
<1>3. GInv => GR!HashesPaddedMessage
  BY DEF GInv
<1>. QED
  BY <1>1, <1>2, <1>3, PTL DEF GR!Spec

(* Between two calls of Update the compressed blocks and the bytes in the  *)
(* buffer are the message so far, the two counters hold the number of      *)
(* blocks modulo their width, and the buffer is full only when its last    *)
(* byte is a partial one (groestl.c, Update).                              *)
THEOREM GroestlBufferIsTail ==
  ASSUME GR!GroestlAssumption
  PROVE  GR!Spec => []GR!BufferIsTail
<1>1. GR!Init => GInv
  BY GroestlInit
<1>2. GInv /\ [GR!Next]_GR!vars => GInv'
  BY GroestlNext
<1>3. GInv => GR!BufferIsTail
  BY TailInBuffer
<1>. QED
  BY <1>1, <1>2, <1>3, PTL DEF GR!Spec
=============================================================================
