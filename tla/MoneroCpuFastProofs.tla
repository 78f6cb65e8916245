------------------------- MODULE MoneroCpuFastProofs -------------------------
(***************************************************************************)
(* monero_cpu_fast implements cn_slow_hash for every header it accepts,    *)
(* whatever the sizes and the instructions: the two key schedules, the two *)
(* orders of the AES rounds, the two ways to compute an address and the    *)
(* two forms of the tweak are the same.                                    *)
(***************************************************************************)
EXTENDS MoneroCpuFast, CryptoNightLemmas, TLAPS

FilledSoFar ==
  pc = "explode" => \A n \in Pad : n < i => memory[n] \in Block

IInv == TypeOK /\ FilledSoFar

-----------------------------------------------------------------------------
(* The pieces of both implementations agree.                               *)

(* What the standard takes from the common module is the same there.       *)
LEMMA SameBasics ==
  /\ Standard!Text = Text
  /\ Standard!Pad = Pad
  /\ \A x, y : Standard!XorBlock(x, y) = XorBlock(x, y)
  /\ \A x, y : Standard!Aesenc(x, y) = Aesenc(x, y)
  /\ \A w : Standard!ByteOf(w) = ByteOf(w)
BY DEF Standard!Text, Text, Standard!Pad, Pad, Standard!XorBlock, XorBlock,
       Standard!Aesenc, Aesenc, Standard!ByteOf, ByteOf

(* Two keys per call of aes_genkey_sub, or one per assist: the schedules   *)
(* are the same.                                                           *)
LEMMA SameKeys ==
  ASSUME NEW k0, NEW k1
  PROVE  Standard!aes_expand_key(k0, k1) = aes_expand_key(k0, k1)
<1>1. \A t : Standard!SlXor(t) = sl_xor(t)
  BY SameBasics DEF Standard!SlXor, sl_xor
<1>2. \A r, x, y :
        aes_genkey_sub(r, x, y) =
          <<Standard!aes_256_assist1(x, KeyGenAssist(y, r)),
            Standard!aes_256_assist2(
              Standard!aes_256_assist1(x, KeyGenAssist(y, r)), y)>>
  BY <1>1, SameBasics DEF aes_genkey_sub, Standard!aes_256_assist1,
                          Standard!aes_256_assist2
<1>3. \A r, x, y :
        /\ aes_genkey_sub(r, x, y)[1] =
             Standard!aes_256_assist1(x, KeyGenAssist(y, r))
        /\ aes_genkey_sub(r, x, y)[2] =
             Standard!aes_256_assist2(aes_genkey_sub(r, x, y)[1], y)
  BY <1>2
<1> QED
  BY <1>3 DEF Standard!aes_expand_key, aes_expand_key

(* Block after block or key after key: the loops may be exchanged.         *)
LEMMA SameRounds ==
  ASSUME NEW x, NEW k
  PROVE  AllRounds(x, k) = [n \in Text |-> Standard!TenRounds(x[n], k)]
<1>1. \A y, key : \A n \in Text : aes_round(key, y)[n] = Aesenc(y[n], key)
  BY DEF aes_round
<1>2. \A y, key : aes_round(key, y) = [n \in Text |-> Aesenc(y[n], key)]
  BY DEF aes_round
<1> DEFINE x5 == aes_round(k[5], aes_round(k[4], aes_round(k[3],
                   aes_round(k[2], aes_round(k[1], x)))))
           x9 == aes_round(k[9], aes_round(k[8],
                   aes_round(k[7], aes_round(k[6], x5))))
<1>3. \A n \in Text :
        x5[n] = Aesenc(Aesenc(Aesenc(Aesenc(Aesenc(x[n],
                  k[1]), k[2]), k[3]), k[4]), k[5])
  BY <1>1
<1> HIDE DEF x5
<1>4. \A n \in Text :
        x9[n] = Aesenc(Aesenc(Aesenc(Aesenc(x5[n],
                  k[6]), k[7]), k[8]), k[9])
  BY <1>1
<1> HIDE DEF x9
<1>5. \A n \in Text : Aesenc(x9[n], k[10]) = Standard!TenRounds(x[n], k)
  BY <1>3, <1>4, SameBasics DEF Standard!TenRounds
<1>6. AllRounds(x, k) = aes_round(k[10], x9)
  BY DEF AllRounds, x9, x5
<1>7. aes_round(k[10], x9) = [n \in Text |-> Aesenc(x9[n], k[10])]
  BY <1>2
<1> QED
  BY <1>5, <1>6, <1>7

(* The mask of the fast code and the shift of the standard.                *)
LEMMA SameIndex ==
  ASSUME NEW x \in Block
  PROVE  Standard!state_index(x) = BlockAt(x[1])
<1>1. x[1] \in Nat
  BY WordsAssumption DEF Block
<1> QED
  BY <1>1, MaskOrShift, SizesAssumption DEF Standard!state_index, BlockAt

(* A computed address is a block of the pad.                               *)
LEMMA BlockAtInPad ==
  ASSUME NEW x \in Block
  PROVE  BlockAt(x[1]) \in Pad
<1>1. x[1] \in Nat
  BY WordsAssumption DEF Block
<1> DEFINE q == x[1] \div 16
<1>2. q \in Nat
  BY <1>1, SMT
<1>3. BlockAt(x[1]) = q % TotalBlocks
  BY <1>1, MaskOrShift, SizesAssumption DEF BlockAt
<1> HIDE DEF q
<1>4. q % TotalBlocks \in Pad
  BY <1>2, SizesAssumption, SMT DEF Pad
<1> QED
  BY <1>3, <1>4

(* Both tables hold the same bits.                                         *)
LEMMA SameTable ==
  ASSUME NEW k \in {0, 2, 4, 6, 8, 10, 12, 14}
  PROVE  Standard!TableBits(k) = TableBits(k) /\ TableBits(k) \in TweakBits
<1> USE DEF Standard!TableBits, TableBits, TweakBits
<1>0. CASE k = 0
  BY <1>0, SMT
<1>1. CASE k = 2
  BY <1>1, SMT
<1>2. CASE k = 4
  BY <1>2, SMT
<1>3. CASE k = 6
  BY <1>3, SMT
<1>4. CASE k = 8
  BY <1>4, SMT
<1>5. CASE k = 10
  BY <1>5, SMT
<1>6. CASE k = 12
  BY <1>6, SMT
<1>7. CASE k = 14
  BY <1>7, SMT
<1> QED
  BY <1>0, <1>1, <1>2, <1>3, <1>4, <1>5, <1>6, <1>7, SMT

(* The tweak of a byte in memory and of a word in a register.              *)
LEMMA SameTweak ==
  ASSUME NEW x \in Block, Accepted
  PROVE  /\ Standard!VARIANT1_1(x) = <<x[1], TweakHigh(x[2])>>
         /\ TweakHigh(x[2]) \in Word
<1> DEFINE w     == x[2]
           tmp   == ByteOf(w)
           index == (((tmp \div 16) % 4) * 2 + (tmp % 2)) * 2
           v     == TableBits(index)
<1>1. x[1] \in Word /\ w \in Word /\ w \in Nat
  BY WordsAssumption DEF Block
<1>2. tmp \in Nat
  BY <1>1, ByteType
<1> HIDE DEF tmp
<1>3. index \in {0, 2, 4, 6, 8, 10, 12, 14}
  BY <1>2, SMT
<1>4. Standard!TweakIndex(tmp) = index
  BY DEF Standard!TweakIndex
<1> HIDE DEF index
<1>5. Standard!TableBits(index) = v /\ v \in TweakBits
  BY <1>3, SameTable
<1> HIDE DEF v, w
<1>6. (w - tmp * TweakUnit) + Xor(tmp, v) * TweakUnit = Xor(w, v * TweakUnit)
  BY <1>1, <1>5, XorIsBytewise DEF tmp
<1>7. Xor(w, v * TweakUnit) \in Word
  BY <1>1, <1>5, WordsAssumption, WordOperators
<1>8. TweakHigh(w) = Xor(w, v * TweakUnit)
  BY DEF TweakHigh, v, index, tmp
<1>9. Standard!variant > 0
  BY DEF Accepted, Standard!variant, Standard!cn_variant
<1>10. Standard!VARIANT1_1(x) =
         <<x[1], (w - tmp * TweakUnit) + Xor(tmp, v) * TweakUnit>>
  BY <1>4, <1>5, <1>9, SameBasics DEF Standard!VARIANT1_1, w, tmp
<1> QED
  BY <1>6, <1>7, <1>8, <1>10 DEF w

-----------------------------------------------------------------------------
(* Types of the pieces.                                                    *)

(* The key schedule yields ten keys.                                       *)
LEMMA KeysType ==
  ASSUME NEW k0 \in Block, NEW k1 \in Block
  PROVE  aes_expand_key(k0, k1) \in [1..10 -> Block]
<1>1. \A x \in Block : sl_xor(x) \in Block
  <2> TAKE x \in Block
  <2>1. \A y \in Block : ShiftLane(y) \in Block
    BY BlockOperators
  <2> QED
    BY <2>1, XorBlockType DEF sl_xor
<1>2. ASSUME NEW r \in {1, 2, 4, 8}, NEW x \in Block, NEW y \in Block
      PROVE  /\ aes_genkey_sub(r, x, y)[1] \in Block
             /\ aes_genkey_sub(r, x, y)[2] \in Block
  <2> DEFINE new0 == XorBlock(sl_xor(x), Shuffle(KeyGenAssist(y, r), 255))
             new2 == XorBlock(sl_xor(y), Shuffle(KeyGenAssist(new0, 0), 170))
  <2>1. \A z \in Block, q \in {0, 1, 2, 4, 8}, lane \in {255, 170} :
          Shuffle(KeyGenAssist(z, q), lane) \in Block
    <3> TAKE z \in Block, q \in {0, 1, 2, 4, 8}, lane \in {255, 170}
    <3>1. KeyGenAssist(z, q) \in Block
      BY BlockOperators DEF Rcon
    <3> QED
      BY <3>1, BlockOperators
  <2>2. new0 \in Block
    BY <1>1, <2>1, XorBlockType
  <2> HIDE DEF new0
  <2>3. new2 \in Block
    BY <1>1, <2>1, <2>2, XorBlockType
  <2> HIDE DEF new2
  <2>4. aes_genkey_sub(r, x, y) = <<new0, new2>>
    BY DEF aes_genkey_sub, new0, new2
  <2> QED
    BY <2>2, <2>3, <2>4
<1> DEFINE s1 == aes_genkey_sub(1, k0, k1)
           s2 == aes_genkey_sub(2, s1[1], s1[2])
           s3 == aes_genkey_sub(4, s2[1], s2[2])
           s4 == aes_genkey_sub(8, s3[1], s3[2])
<1>3. s1[1] \in Block /\ s1[2] \in Block
  BY <1>2
<1> HIDE DEF s1
<1>4. s2[1] \in Block /\ s2[2] \in Block
  BY <1>2, <1>3
<1> HIDE DEF s2
<1>5. s3[1] \in Block /\ s3[2] \in Block
  BY <1>2, <1>4
<1> HIDE DEF s3
<1>6. s4[1] \in Block /\ s4[2] \in Block
  BY <1>2, <1>5
<1> HIDE DEF s4
<1>7. <<k0, k1, s1[1], s1[2], s2[1], s2[2], s3[1], s3[2], s4[1], s4[2]>>
        \in [1..10 -> Block]
  BY <1>3, <1>4, <1>5, <1>6
<1> QED
  BY <1>7 DEF aes_expand_key, s1, s2, s3, s4

(* Ten rounds keep a text.                                                 *)
LEMMA RoundsType ==
  ASSUME NEW x \in [Text -> Block], NEW k \in [1..10 -> Block]
  PROVE  AllRounds(x, k) \in [Text -> Block]
<1>1. \A y \in [Text -> Block], key \in Block :
        aes_round(key, y) \in [Text -> Block]
  BY AesencType DEF aes_round
<1>2. /\ k[1] \in Block /\ k[2] \in Block /\ k[3] \in Block /\ k[4] \in Block
      /\ k[5] \in Block /\ k[6] \in Block /\ k[7] \in Block /\ k[8] \in Block
      /\ k[9] \in Block /\ k[10] \in Block
  OBVIOUS
<1> DEFINE x5 == aes_round(k[5], aes_round(k[4], aes_round(k[3],
                   aes_round(k[2], aes_round(k[1], x)))))
<1>3. x5 \in [Text -> Block]
  BY <1>1, <1>2
<1> HIDE DEF x5
<1>4. aes_round(k[10], aes_round(k[9], aes_round(k[8],
        aes_round(k[7], aes_round(k[6], x5))))) \in [Text -> Block]
  BY <1>1, <1>2, <1>3
<1> QED
  BY <1>4 DEF AllRounds, x5

(* The text and the keys in a state.                                       *)
LEMMA StateParts ==
  ASSUME NEW s \in StateType
  PROVE  /\ LoadText(s) \in [Text -> Block]
         /\ s.blocks[0] \in Block /\ s.blocks[1] \in Block
         /\ s.blocks[2] \in Block /\ s.blocks[3] \in Block
         /\ s.w24 \in Word
<1>1. s.blocks \in [0 .. 3 + InitBlocks -> Block] /\ s.w24 \in Word
  BY DEF StateType
<1>2. \A n \in Text : 4 + n \in 0 .. 3 + InitBlocks
  BY SizesAssumption DEF Text
<1>3. {0, 1, 2, 3} \subseteq 0 .. 3 + InitBlocks
  BY SizesAssumption
<1> QED
  BY <1>1, <1>2, <1>3 DEF LoadText

(* What an input carries.                                                  *)
LEMMA InputParts ==
  ASSUME NEW in \in Inputs
  PROVE  /\ in.keccak1600 \in StateType
         /\ in.nonce \in Word
         /\ in.length \in Nat
         /\ in.major \in Nat
<1>1. in \in InputType
  BY WordsAssumption
<1> QED
  BY <1>1 DEF InputType

(* Counting in groups of blocks stays within the pad.                      *)
LEMMA GroupInPad ==
  ASSUME NEW n \in Nat, n < TotalBlocks, n % InitBlocks = 0
  PROVE  /\ n + InitBlocks <= TotalBlocks
         /\ (n + InitBlocks) % InitBlocks = 0
         /\ (n \div InitBlocks) * InitBlocks = n
         /\ (n + InitBlocks) \div InitBlocks = (n \div InitBlocks) + 1
         /\ n \div InitBlocks < TotalBlocks \div InitBlocks
<1> DEFINE m == InitBlocks
           q == n \div m
           t == TotalBlocks \div m
<1>1. m \in Nat \ {0} /\ TotalBlocks \in Nat
  BY SizesAssumption
<1>2. /\ q * m = n
      /\ (n + m) % m = 0
      /\ (n + m) \div m = q + 1
  BY <1>1, NextMultiple
<1>3. t * m = TotalBlocks
  BY <1>1, NextMultiple, SizesAssumption
<1>4. q \in Nat /\ t \in Nat
  BY <1>1, SMT
<1> HIDE DEF q, t, m
<1>5. q < t
  <2>1. q * m < t * m
    BY <1>2, <1>3
  <2> QED
    BY <1>1, <1>4, <2>1, SMT
<1>6. (q + 1) * m <= t * m
  BY <1>1, <1>4, <1>5, SMT
<1>7. n + m <= TotalBlocks
  BY <1>1, <1>2, <1>3, <1>4, <1>6, SMT
<1> QED
  BY <1>2, <1>5, <1>7 DEF q, t, m

-----------------------------------------------------------------------------
(* Every action keeps the invariant and is a step of the standard.         *)

(* The initial states correspond.                                          *)
LEMMA InitStep ==
  ASSUME Init
  PROVE  IInv /\ Standard!Init
<1>1. TypeOK
  BY DEF Init, TypeOK
<1>2. FilledSoFar
  BY DEF Init, FilledSoFar
<1>3. Standard!Init
  BY SameBasics DEF Init, Standard!Init, Nothing, Standard!Nothing
<1> QED
  BY <1>1, <1>2, <1>3 DEF IInv

(* A header that is refused: the standard does not even begin.             *)
LEMMA AssertStep ==
  ASSUME IInv, AssertFails
  PROVE  IInv' /\ UNCHANGED Standard!vars
<1>1. TypeOK'
  BY DEF AssertFails, IInv, TypeOK
<1>2. FilledSoFar'
  BY DEF AssertFails, FilledSoFar
<1>3. UNCHANGED Standard!vars
  BY DEF AssertFails, Standard!vars
<1> QED
  BY <1>1, <1>2, <1>3 DEF IInv

(* Keccak, text and tweak.                                                 *)
LEMMA PrepareStep ==
  ASSUME IInv, Prepare
  PROVE  IInv' /\ Standard!Prepare
<1>1. input \in Inputs /\ input' = input
  BY DEF IInv, TypeOK, Prepare
<1>2. /\ input.keccak1600 \in StateType /\ input.nonce \in Word
      /\ input.length \in Nat /\ input.major \in Nat
  BY <1>1, InputParts
<1>3. /\ LoadText(input.keccak1600) \in [Text -> Block]
      /\ Xor(input.keccak1600.w24, input.nonce) \in Word
  BY <1>2, StateParts, WordOperators
<1>4. 0 <= TotalBlocks /\ 0 % InitBlocks = 0 /\ 0 \div InitBlocks = 0
  BY SizesAssumption, SMT
<1>5. Accepted'
  BY <1>1 DEF Prepare, Accepted
<1>6. TypeOK'
  BY <1>1, <1>2, <1>3, <1>4, <1>5 DEF IInv, TypeOK, Prepare
<1>7. FilledSoFar'
  BY SizesAssumption DEF Prepare, FilledSoFar, Pad
<1>8. Standard!variant > 0 /\ input.length >= 43 /\ input.major <= 127
  BY <1>2 DEF Prepare, Accepted, Standard!variant, Standard!cn_variant
<1>9. Standard!LoadText(input.keccak1600) = LoadText(input.keccak1600)
  BY SameBasics DEF Standard!LoadText, LoadText
<1>10. Standard!Prepare
  BY <1>2, <1>4, <1>8, <1>9 DEF Prepare, Standard!Prepare
<1> QED
  BY <1>6, <1>7, <1>10 DEF IInv

(* A group of blocks is filled.                                            *)
LEMMA ExplodeStep ==
  ASSUME IInv, Explode
  PROVE  IInv' /\ Standard!Explode
<1> DEFINE keys == aes_expand_key(keccak_state.blocks[0],
                                  keccak_state.blocks[1])
           q    == i \div InitBlocks
<1>1. /\ pc = "explode" /\ i \in Nat /\ i < TotalBlocks
      /\ i % InitBlocks = 0 /\ i' = i + InitBlocks
      /\ keccak_state \in StateType /\ xin \in [Text -> Block]
      /\ memory \in [Pad -> Block \cup {Stale}]
      /\ UNCHANGED <<pc, input, keccak_state, tweak1_2_0, al0, ah0, bx0,
                     idx0, result>>
  BY DEF IInv, TypeOK, Explode
<1>2. keys \in [1..10 -> Block]
  BY <1>1, StateParts, KeysType
<1>3. xin' = AllRounds(xin, keys)
  BY DEF Explode
<1>4. xin' \in [Text -> Block]
  BY <1>1, <1>2, <1>3, RoundsType
<1>5. memory' = [n \in Pad |-> IF i <= n /\ n < i + InitBlocks
                               THEN xin'[n - i] ELSE memory[n]]
  BY DEF Explode
<1>6. \A n \in Pad : i <= n /\ n < i + InitBlocks => xin'[n - i] \in Block
  <2>1. \A n \in Pad : i <= n /\ n < i + InitBlocks => n - i \in Text
    BY <1>1, SizesAssumption DEF Pad, Text
  <2> QED
    BY <1>4, <2>1
<1>7. /\ i + InitBlocks <= TotalBlocks
      /\ (i + InitBlocks) % InitBlocks = 0
      /\ q * InitBlocks = i
      /\ (i + InitBlocks) \div InitBlocks = q + 1
      /\ q < TotalBlocks \div InitBlocks
  BY <1>1, GroupInPad
<1>8. memory' \in [Pad -> Block \cup {Stale}]
  BY <1>1, <1>5, <1>6
<1>9. Accepted'
  BY <1>1 DEF IInv, TypeOK, Accepted
<1>10. TypeOK'
  BY <1>1, <1>4, <1>7, <1>8, <1>9, SizesAssumption DEF IInv, TypeOK
<1>11. FilledSoFar'
  <2> SUFFICES ASSUME NEW n \in Pad, n < i + InitBlocks
               PROVE  memory'[n] \in Block
    BY <1>1 DEF FilledSoFar
  <2>1. CASE i <= n
    BY <2>1, <1>5, <1>6
  <2>2. CASE ~(i <= n)
    <3>1. n < i
      BY <2>2, <1>1, SizesAssumption DEF Pad
    <3>2. memory[n] \in Block
      BY <1>1, <3>1 DEF IInv, FilledSoFar
    <3> QED
      BY <2>2, <3>2, <1>5
  <2> QED
    BY <2>1, <2>2
<1>12. xin' = Standard!aes_pseudo_round(xin,
                Standard!aes_expand_key(keccak_state.blocks[0],
                                        keccak_state.blocks[1]))
  BY <1>3, SameKeys, SameRounds, SameBasics DEF Standard!aes_pseudo_round
<1> DEFINE Slice == {n \in Pad : q * InitBlocks <= n
                                 /\ n < q * InitBlocks + InitBlocks}
<1>13. memory' = [n \in Pad |-> IF n \in Slice
                                THEN xin'[n - q * InitBlocks] ELSE memory[n]]
  BY <1>5, <1>7
<1> HIDE DEF keys, q
<1>14. Standard!Slice = Slice
  BY <1>1, SameBasics DEF Standard!Slice, q
<1> HIDE DEF Slice
<1>15. Standard!Explode
  BY <1>1, <1>7, <1>12, <1>13, <1>14, SameBasics
     DEF Standard!Explode, Standard!Passes, q
<1> QED
  BY <1>10, <1>11, <1>15 DEF IInv

(* The registers of the main loop are loaded.                              *)
LEMMA StartMixStep ==
  ASSUME IInv, StartMix
  PROVE  IInv' /\ Standard!StartMix
<1>1. /\ pc = "explode" /\ i \in Nat /\ i = TotalBlocks
      /\ keccak_state \in StateType /\ xin \in [Text -> Block]
      /\ memory \in [Pad -> Block \cup {Stale}]
      /\ pc' = "mix" /\ i' = 0
      /\ UNCHANGED <<input, keccak_state, tweak1_2_0, xin, memory, result>>
  BY SizesAssumption DEF IInv, TypeOK, StartMix
<1>2. /\ keccak_state.blocks[0] \in Block /\ keccak_state.blocks[1] \in Block
      /\ keccak_state.blocks[2] \in Block /\ keccak_state.blocks[3] \in Block
  BY <1>1, StateParts
<1>3. /\ <<al0', ah0'>> = XorBlock(keccak_state.blocks[0],
                                   keccak_state.blocks[2])
      /\ bx0' = XorBlock(keccak_state.blocks[1], keccak_state.blocks[3])
      /\ idx0' = al0'
  BY DEF StartMix, XorBlock
<1>4. <<al0', ah0'>> \in Block /\ bx0' \in Block
  BY <1>2, <1>3, XorBlockType
<1>5. al0' \in Word /\ ah0' \in Word
  BY <1>4 DEF Block
<1>6. memory \in [Pad -> Block]
  <2>1. \A n \in Pad : memory[n] \in Block
    BY <1>1, SizesAssumption DEF IInv, FilledSoFar, Pad
  <2> QED
    BY <1>1, <2>1
<1>7. Accepted'
  BY <1>1 DEF IInv, TypeOK, Accepted
<1>8. TypeOK'
  BY <1>1, <1>3, <1>4, <1>5, <1>6, <1>7, SizesAssumption DEF IInv, TypeOK
<1>9. Standard!StartMix
  BY <1>1, <1>3, SameBasics DEF Standard!StartMix, Standard!Passes
<1> QED
  BY <1>1, <1>8, <1>9 DEF IInv, FilledSoFar

(* An iteration of the main loop.                                          *)
LEMMA MixStep ==
  ASSUME IInv, Mix
  PROVE  IInv' /\ Standard!Mix
<1> DEFINE a0    == <<al0, ah0>>
           m     == BlockAt(al0)
           cx    == Aesenc(memory[m], a0)
           tmp   == XorBlock(bx0, cx)
           first == [memory EXCEPT ![m] = <<tmp[1], TweakHigh(tmp[2])>>]
           k     == BlockAt(cx[1])
           p     == first[k]
           al    == Add(al0, MulHi(cx[1], p[1]))
           ah    == Add(ah0, MulLo(cx[1], p[1]))
           last  == <<al, Xor(ah, tweak1_2_0)>>
<1>1. /\ pc = "mix" /\ i \in Nat /\ i < Iterations /\ i' = i + 1
      /\ Accepted /\ keccak_state \in StateType /\ tweak1_2_0 \in Word
      /\ xin \in [Text -> Block] /\ memory \in [Pad -> Block]
      /\ al0 \in Word /\ ah0 \in Word /\ bx0 \in Block /\ idx0 = al0
      /\ UNCHANGED <<pc, input, keccak_state, tweak1_2_0, xin, result>>
  BY SMTT(60) DEF IInv, TypeOK, Mix
<1>2. /\ memory' = [first EXCEPT ![k] = last]
      /\ bx0' = cx
      /\ al0' = Xor(al, p[1]) /\ ah0' = Xor(ah, p[2]) /\ idx0' = al0'
  BY <1>1 DEF Mix
<1>3. a0 \in Block /\ a0[1] = al0
  BY <1>1 DEF Block
<1>4. m \in Pad /\ Standard!state_index(a0) = m
  BY <1>3, BlockAtInPad, SameIndex
<1> HIDE DEF m
<1>5. cx \in Block
  BY <1>1, <1>3, <1>4, AesencType
<1> HIDE DEF cx
<1>6. tmp \in Block
  BY <1>1, <1>5, XorBlockType
<1> HIDE DEF tmp
<1>7. /\ Standard!VARIANT1_1(tmp) = <<tmp[1], TweakHigh(tmp[2])>>
      /\ <<tmp[1], TweakHigh(tmp[2])>> \in Block
  BY <1>1, <1>6, SameTweak DEF Block
<1>8. first = [memory EXCEPT ![m] = Standard!VARIANT1_1(tmp)]
  BY <1>7
<1>9. first \in [Pad -> Block]
  BY <1>1, <1>4, <1>7
<1> HIDE DEF first
<1>10. k \in Pad /\ Standard!state_index(cx) = k
  BY <1>5, BlockAtInPad, SameIndex
<1> HIDE DEF k
<1>11. p \in Block
  BY <1>9, <1>10
<1> HIDE DEF p
<1>12. p[1] \in Word /\ p[2] \in Word /\ cx[1] \in Word
  BY <1>5, <1>11 DEF Block
<1>13. al \in Word /\ ah \in Word
  BY <1>1, <1>12, WordOperators
<1> DEFINE sum == <<al, ah>>
<1>14. sum = <<Add(a0[1], MulHi(cx[1], p[1])), Add(a0[2], MulLo(cx[1], p[1]))>>
  OBVIOUS
<1> HIDE DEF al, ah
<1>15. last \in Block
  BY <1>1, <1>13, WordOperators DEF Block
<1>16. Standard!VARIANT1_2(sum[2]) = Xor(ah, tweak1_2_0)
  <2>1. Standard!variant > 0
    BY <1>1 DEF Accepted, Standard!variant, Standard!cn_variant
  <2> QED
    BY <2>1 DEF Standard!VARIANT1_2
<1>17. last = <<sum[1], Standard!VARIANT1_2(sum[2])>>
  BY <1>16
<1>18. <<al0', ah0'>> = XorBlock(sum, p)
  BY <1>2 DEF XorBlock
<1> HIDE DEF last, sum
<1>19. memory' \in [Pad -> Block]
  BY <1>2, <1>9, <1>10, <1>15
<1>20. al0' \in Word /\ ah0' \in Word /\ bx0' \in Block /\ idx0' = al0'
  BY <1>2, <1>5, <1>12, <1>13, WordOperators
<1>21. Accepted'
  BY <1>1 DEF Accepted
<1>22. TypeOK'
  BY <1>1, <1>19, <1>20, <1>21, SizesAssumption DEF IInv, TypeOK
<1>23. Standard!Mix
  <2>1. cx = Standard!Aesenc(memory[Standard!state_index(a0)], a0)
    BY <1>4, SameBasics DEF cx
  <2>2. first = [memory EXCEPT ![Standard!state_index(a0)] =
                   Standard!VARIANT1_1(Standard!XorBlock(bx0, cx))]
    BY <1>4, <1>8, SameBasics DEF tmp
  <2>3. p = first[Standard!state_index(cx)]
    BY <1>10 DEF p
  <2>4. memory' = [first EXCEPT ![Standard!state_index(cx)] =
                     <<sum[1], Standard!VARIANT1_2(sum[2])>>]
    BY <1>2, <1>10, <1>17
  <2>5. <<al0', ah0'>> = Standard!XorBlock(sum, p)
    BY <1>18, SameBasics
  <2>6. bx0' = cx
    BY <1>2
  <2> QED
    BY <1>1, <1>14, <2>1, <2>2, <2>3, <2>4, <2>5, <2>6 DEF Standard!Mix
<1> QED
  BY SMTT(60), <1>1, <1>22, <1>23 DEF IInv, FilledSoFar

(* The text is loaded again.                                               *)
LEMMA StartImplodeStep ==
  ASSUME IInv, StartImplode
  PROVE  IInv' /\ Standard!StartImplode
<1>1. /\ pc = "mix" /\ i = Iterations /\ keccak_state \in StateType
      /\ pc' = "implode" /\ i' = 0 /\ xin' = LoadText(keccak_state)
      /\ UNCHANGED <<input, keccak_state, tweak1_2_0, memory, al0, ah0, bx0,
                     idx0, result>>
  BY SizesAssumption DEF IInv, TypeOK, StartImplode
<1>2. xin' \in [Text -> Block]
  BY <1>1, StateParts
<1>3. 0 <= TotalBlocks /\ 0 % InitBlocks = 0 /\ 0 \div InitBlocks = 0
  BY SizesAssumption, SMT
<1>4. Accepted'
  BY <1>1 DEF IInv, TypeOK, Accepted
<1>5. TypeOK'
  BY <1>1, <1>2, <1>3, <1>4 DEF IInv, TypeOK
<1>6. xin' = Standard!LoadText(keccak_state)
  BY <1>1, SameBasics DEF Standard!LoadText, LoadText
<1>7. Standard!StartImplode
  BY <1>1, <1>3, <1>6 DEF Standard!StartImplode
<1> QED
  BY <1>1, <1>5, <1>7 DEF IInv, FilledSoFar

(* A group of blocks is drained.                                           *)
LEMMA ImplodeStep ==
  ASSUME IInv, Implode
  PROVE  IInv' /\ Standard!Implode
<1> DEFINE keys == aes_expand_key(keccak_state.blocks[2],
                                  keccak_state.blocks[3])
           q    == i \div InitBlocks
           mixed == [n \in Text |-> XorBlock(memory[i + n], xin[n])]
<1>1. /\ pc = "implode" /\ i \in Nat /\ i < TotalBlocks
      /\ i % InitBlocks = 0 /\ i' = i + InitBlocks
      /\ keccak_state \in StateType /\ xin \in [Text -> Block]
      /\ memory \in [Pad -> Block]
      /\ UNCHANGED <<pc, input, keccak_state, tweak1_2_0, memory, al0, ah0,
                     bx0, idx0, result>>
  BY DEF IInv, TypeOK, Implode
<1>2. keys \in [1..10 -> Block]
  BY <1>1, StateParts, KeysType
<1>3. /\ i + InitBlocks <= TotalBlocks
      /\ (i + InitBlocks) % InitBlocks = 0
      /\ q * InitBlocks = i
      /\ (i + InitBlocks) \div InitBlocks = q + 1
      /\ q < TotalBlocks \div InitBlocks
  BY <1>1, GroupInPad
<1> HIDE DEF q
<1>4. \A n \in Text : memory[i + n] \in Block
  <2>1. \A n \in Text : i + n \in Pad
    BY <1>1, <1>3, SizesAssumption DEF Text, Pad
  <2> QED
    BY <1>1, <2>1
<1>5. mixed \in [Text -> Block]
  BY <1>1, <1>4, XorBlockType
<1>6. \A n \in Text : mixed[n] = XorBlock(xin[n], memory[i + n])
  BY <1>1, <1>4, XorBlockCommutes
<1>7. xin' = AllRounds(mixed, keys)
  BY DEF Implode
<1> HIDE DEF mixed
<1>8. xin' \in [Text -> Block]
  BY <1>2, <1>5, <1>7, RoundsType
<1>9. Accepted'
  BY <1>1 DEF IInv, TypeOK, Accepted
<1>10. TypeOK'
  BY <1>1, <1>3, <1>8, <1>9, SizesAssumption DEF IInv, TypeOK
<1>11. xin' = [n \in Text |->
                 Standard!TenRounds(XorBlock(xin[n], memory[i + n]), keys)]
  BY <1>6, <1>7, SameRounds
<1>12. keys = Standard!aes_expand_key(keccak_state.blocks[2],
                                      keccak_state.blocks[3])
  BY SameKeys
<1> HIDE DEF keys
<1>13. xin' = Standard!aes_pseudo_round_xor(xin, keys,
                [n \in Text |-> memory[q * InitBlocks + n]])
  BY <1>3, <1>11, SameBasics DEF Standard!aes_pseudo_round_xor
<1>14. Standard!Implode
  BY <1>1, <1>3, <1>12, <1>13, SameBasics
     DEF Standard!Implode, Standard!Passes, q
<1> QED
  BY <1>1, <1>10, <1>14 DEF IInv, FilledSoFar

(* The permutation and the selected hash.                                  *)
LEMMA FinishStep ==
  ASSUME IInv, Finish
  PROVE  IInv' /\ Standard!Finish
<1> DEFINE new == [n \in 0 .. 3 + InitBlocks |->
                     IF n < 4 THEN keccak_state.blocks[n] ELSE xin[n - 4]]
<1>1. /\ pc = "implode" /\ i = TotalBlocks /\ pc' = "done"
      /\ keccak_state \in StateType /\ xin \in [Text -> Block]
      /\ keccak_state' = [keccak_state EXCEPT !.blocks = new]
      /\ result' = extra_hashes(LowBits(keccakf(keccak_state')),
                                keccakf(keccak_state'))
      /\ UNCHANGED <<input, tweak1_2_0, xin, i, memory, al0, ah0, bx0, idx0>>
  BY SizesAssumption DEF IInv, TypeOK, Finish
<1>2. keccak_state.blocks \in [0 .. 3 + InitBlocks -> Block]
  BY <1>1 DEF StateType
<1>3. new \in [0 .. 3 + InitBlocks -> Block]
  BY <1>1, <1>2, SizesAssumption DEF Text
<1>4. Standard!StoreText(keccak_state, xin) = [keccak_state EXCEPT !.blocks = new]
  BY DEF Standard!StoreText
<1> HIDE DEF new
<1>5. keccak_state' \in StateType
  BY <1>1, <1>3 DEF StateType
<1>6. Accepted'
  BY <1>1 DEF IInv, TypeOK, Accepted
<1>7. TypeOK'
  BY <1>1, <1>5, <1>6 DEF IInv, TypeOK
<1>8. Standard!Finish
  BY <1>1, <1>4 DEF Standard!Finish, Standard!Passes
<1> QED
  BY <1>1, <1>7, <1>8 DEF IInv, FilledSoFar

(* All actions together.                                                   *)
LEMMA NextStep ==
  ASSUME IInv, [Next]_vars
  PROVE  IInv' /\ [Standard!Next]_(Standard!vars)
<1>1. CASE UNCHANGED vars
  <2>1. IInv'
    BY <1>1 DEF vars, IInv, TypeOK, FilledSoFar, Accepted
  <2>2. UNCHANGED Standard!vars
    BY <1>1 DEF vars, Standard!vars
  <2> QED
    BY <2>1, <2>2
<1>2. CASE Next
  BY <1>2, AssertStep, PrepareStep, ExplodeStep, StartMixStep, MixStep,
     StartImplodeStep, ImplodeStep, FinishStep DEF Next, Standard!Next
<1> QED
  BY <1>1, <1>2

(* monero_cpu_fast keeps its types, and so its random addresses stay in    *)
(* its scratchpad and its main loop finds no uninitialised block there.    *)
THEOREM FastTypeCorrect == Spec => []TypeOK
<1>1. IInv => TypeOK
  BY DEF IInv
<1> QED
  BY <1>1, InitStep, NextStep, PTL DEF Spec

(* monero_cpu_fast computes what monero_standard computes, for all headers *)
(* it accepts.                                                             *)
THEOREM FastImplementsStandard == Spec => ImplementsStandard
BY InitStep, NextStep, PTL DEF Spec, ImplementsStandard, Standard!Spec
=============================================================================
