-------------------------- MODULE CryptoNightLemmas --------------------------
(* Facts about words and blocks that the proofs of both implementations of *)
(* CryptoNight use.                                                        *)
EXTENDS CryptoNight, TLAPS

(* Exclusive or keeps blocks.                                              *)
LEMMA XorBlockType ==
  ASSUME NEW x \in Block, NEW y \in Block
  PROVE  XorBlock(x, y) \in Block
BY WordOperators DEF XorBlock, Block

(* A round of AES keeps blocks.                                            *)
LEMMA AesencType ==
  ASSUME NEW x \in Block, NEW y \in Block
  PROVE  Aesenc(x, y) \in Block
<1>1. AesRound(x) \in Block
  BY BlockOperators
<1> QED
  BY <1>1, XorBlockType DEF Aesenc

(* A byte of a word is a number.                                           *)
LEMMA ByteType ==
  ASSUME NEW w \in Nat
  PROVE  ByteOf(w) \in Nat
<1> DEFINE q == w \div TweakUnit
<1>1. q \in Nat
  BY SizesAssumption, SMT
<1> HIDE DEF q
<1>2. q % 256 \in Nat
  BY <1>1, SMT
<1> QED
  BY <1>2 DEF ByteOf, q

(* Exclusive or of blocks is commutative.                                  *)
LEMMA XorBlockCommutes ==
  ASSUME NEW x \in Block, NEW y \in Block
  PROVE  XorBlock(x, y) = XorBlock(y, x)
BY WordOperators DEF XorBlock, Block

(* The next multiple.                                                      *)
LEMMA NextMultiple ==
  ASSUME NEW n \in Nat, NEW m \in Nat \ {0}, n % m = 0
  PROVE  /\ (n \div m) * m = n
         /\ (n + m) % m = 0
         /\ (n + m) \div m = (n \div m) + 1
<1> DEFINE q == n \div m
<1>1. q \in Nat /\ n = q * m
  BY SMT
<1>2. n + m = (q + 1) * m
  BY <1>1, SMT
<1>3. \A k \in Nat : (k * m) % m = 0
  BY SMT
<1>4. (n + m) \div m = q + 1
  BY SMT
<1> HIDE DEF q
<1>5. (n + m) % m = 0
  BY <1>1, <1>2, <1>3, SMT
<1> QED
  BY <1>1, <1>4, <1>5 DEF q

(* Masking an address and dropping its lowest bits yields the same block   *)
(* as shifting it and masking the number of the block.                     *)
LEMMA MaskOrShift ==
  ASSUME NEW w \in Nat, NEW m \in Nat \ {0}
  PROVE  (w \div 16) % m = (w % (m * 16)) \div 16
<1> DEFINE z == m * 16
           q == w \div z
           r == w % z
           t == r \div 16
           p == q * m
<1>1. z \in Nat /\ z > 0
  BY SMT
<1> HIDE DEF z
<1>2. q \in Nat /\ r \in Nat /\ r < z /\ w = q * z + r
  BY <1>1, SMT
<1> HIDE DEF q, r
<1>3. p \in Nat /\ q * z = p * 16
  BY <1>2, SMT DEF z
<1>4. t \in Nat /\ t < m
  BY <1>2, SMT DEF z
<1>5. w \div 16 = p + t
  <2>1. w = p * 16 + r
    BY <1>2, <1>3, SMT
  <2> HIDE DEF p
  <2> QED
    BY <2>1, <1>2, <1>3, SMT
<1>6. (q * m + t) % m = t
  <2> HIDE DEF t
  <2> QED
    BY <1>2, <1>4, SMT
<1> QED
  BY <1>5, <1>6 DEF r, z
=============================================================================
