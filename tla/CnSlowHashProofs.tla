-------------------------- MODULE CnSlowHashProofs --------------------------
(***************************************************************************)
(* The reference implementation keeps its types and never mixes stale      *)
(* memory, for every size of the pad, every number of iterations and all   *)
(* instructions.                                                           *)
(***************************************************************************)
EXTENDS CnSlowHash, CryptoNightLemmas, TLAPS

(* Both assists of the key schedule yield blocks.                          *)
LEMMA AssistType ==
  ASSUME NEW t \in Block, NEW u \in Block
  PROVE  /\ aes_256_assist1(t, u) \in Block
         /\ aes_256_assist2(t, u) \in Block
<1>1. \A x \in Block : SlXor(x) \in Block
  <2> TAKE x \in Block
  <2> DEFINE s1 == ShiftLane(x)
             s2 == ShiftLane(s1)
             s3 == ShiftLane(s2)
  <2>1. s1 \in Block
    BY BlockOperators
  <2> HIDE DEF s1
  <2>2. s2 \in Block
    BY <2>1, BlockOperators
  <2> HIDE DEF s2
  <2>3. s3 \in Block
    BY <2>2, BlockOperators
  <2> HIDE DEF s3
  <2>4. XorBlock(XorBlock(XorBlock(x, s1), s2), s3) \in Block
    BY <2>1, <2>2, <2>3, XorBlockType
  <2> QED
    BY <2>4 DEF SlXor, s1, s2, s3
<1>2. Shuffle(u, 255) \in Block
  BY BlockOperators
<1>3. Shuffle(KeyGenAssist(t, 0), 170) \in Block
  <2>1. KeyGenAssist(t, 0) \in Block
    BY BlockOperators DEF Rcon
  <2> QED
    BY <2>1, BlockOperators
<1> QED
  BY <1>1, <1>2, <1>3, XorBlockType DEF aes_256_assist1, aes_256_assist2

(* The key schedule yields ten keys.                                       *)
LEMMA KeysType ==
  ASSUME NEW k0 \in Block, NEW k1 \in Block
  PROVE  aes_expand_key(k0, k1) \in [1..10 -> Block]
<1>1. \A x \in Block, r \in {1, 2, 4, 8} : KeyGenAssist(x, r) \in Block
  BY BlockOperators DEF Rcon
<1> DEFINE k2 == aes_256_assist1(k0, KeyGenAssist(k1, 1))
           k3 == aes_256_assist2(k2, k1)
           k4 == aes_256_assist1(k2, KeyGenAssist(k3, 2))
           k5 == aes_256_assist2(k4, k3)
           k6 == aes_256_assist1(k4, KeyGenAssist(k5, 4))
           k7 == aes_256_assist2(k6, k5)
           k8 == aes_256_assist1(k6, KeyGenAssist(k7, 8))
           k9 == aes_256_assist2(k8, k7)
<1>2. k2 \in Block
  BY <1>1, AssistType
<1> HIDE DEF k2
<1>3. k3 \in Block
  BY <1>2, AssistType
<1> HIDE DEF k3
<1>4. k4 \in Block
  BY <1>1, <1>2, <1>3, AssistType
<1> HIDE DEF k4
<1>5. k5 \in Block
  BY <1>3, <1>4, AssistType
<1> HIDE DEF k5
<1>6. k6 \in Block
  BY <1>1, <1>4, <1>5, AssistType
<1> HIDE DEF k6
<1>7. k7 \in Block
  BY <1>5, <1>6, AssistType
<1> HIDE DEF k7
<1>8. k8 \in Block
  BY <1>1, <1>6, <1>7, AssistType
<1> HIDE DEF k8
<1>9. k9 \in Block
  BY <1>7, <1>8, AssistType
<1> HIDE DEF k9
<1>10. <<k0, k1, k2, k3, k4, k5, k6, k7, k8, k9>> \in [1..10 -> Block]
  BY <1>2, <1>3, <1>4, <1>5, <1>6, <1>7, <1>8, <1>9
<1> QED
  BY <1>10 DEF aes_expand_key, k2, k3, k4, k5, k6, k7, k8, k9

(* Ten rounds keep blocks.                                                 *)
LEMMA TenRoundsType ==
  ASSUME NEW d \in Block, NEW k \in [1..10 -> Block]
  PROVE  TenRounds(d, k) \in Block
<1>1. \A n \in 1..10 : k[n] \in Block
  OBVIOUS
<1>2. /\ k[1] \in Block /\ k[2] \in Block /\ k[3] \in Block /\ k[4] \in Block
      /\ k[5] \in Block /\ k[6] \in Block /\ k[7] \in Block /\ k[8] \in Block
      /\ k[9] \in Block /\ k[10] \in Block
  BY <1>1
<1> DEFINE d5 == Aesenc(Aesenc(Aesenc(Aesenc(Aesenc(d,
                   k[1]), k[2]), k[3]), k[4]), k[5])
<1>3. d5 \in Block
  BY <1>2, AesencType
<1> HIDE DEF d5
<1>4. Aesenc(Aesenc(Aesenc(Aesenc(Aesenc(d5,
        k[6]), k[7]), k[8]), k[9]), k[10]) \in Block
  BY <1>2, <1>3, AesencType
<1> QED
  BY <1>4 DEF TenRounds, d5

(* The index into the table is even and within it.                         *)
LEMMA TweakIndexRange ==
  ASSUME NEW tmp \in Nat
  PROVE  TweakIndex(tmp) \in {0, 2, 4, 6, 8, 10, 12, 14}
BY SMT DEF TweakIndex

(* Two bits of the table, in the positions 4 and 5.                        *)
LEMMA TableBitsType ==
  ASSUME NEW k \in {0, 2, 4, 6, 8, 10, 12, 14}
  PROVE  TableBits(k) \in TweakBits
<1>0. CASE k = 0
  BY <1>0, SMT DEF TableBits, TweakBits
<1>1. CASE k = 2
  BY <1>1, SMT DEF TableBits, TweakBits
<1>2. CASE k = 4
  BY <1>2, SMT DEF TableBits, TweakBits
<1>3. CASE k = 6
  BY <1>3, SMT DEF TableBits, TweakBits
<1>4. CASE k = 8
  BY <1>4, SMT DEF TableBits, TweakBits
<1>5. CASE k = 10
  BY <1>5, SMT DEF TableBits, TweakBits
<1>6. CASE k = 12
  BY <1>6, SMT DEF TableBits, TweakBits
<1>7. CASE k = 14
  BY <1>7, SMT DEF TableBits, TweakBits
<1> QED
  BY <1>0, <1>1, <1>2, <1>3, <1>4, <1>5, <1>6, <1>7, SMT

(* The tweak of byte 11 keeps blocks.                                      *)
LEMMA TweakType ==
  ASSUME NEW x \in Block
  PROVE  VARIANT1_1(x) \in Block
<1> DEFINE w   == x[2]
           tmp == ByteOf(w)
           v   == TableBits(TweakIndex(tmp))
<1>1. x[1] \in Word /\ w \in Word /\ x = <<x[1], w>>
  BY DEF Block
<1>2. tmp \in Nat
  <2>1. w \in Nat
    BY <1>1, WordsAssumption
  <2> QED
    BY <2>1, ByteType
<1>3. v \in TweakBits
  BY <1>2, TweakIndexRange, TableBitsType
<1> HIDE DEF v, w
<1>4. (w - tmp * TweakUnit) + Xor(tmp, v) * TweakUnit = Xor(w, v * TweakUnit)
  BY <1>1, <1>3, XorIsBytewise
<1>5. Xor(w, v * TweakUnit) \in Word
  BY <1>1, <1>3, WordsAssumption, WordOperators
<1>6. <<x[1], (w - tmp * TweakUnit) + Xor(tmp, v) * TweakUnit>> \in Block
  BY <1>1, <1>4, <1>5 DEF Block
<1> QED
  BY <1>6 DEF VARIANT1_1, v, w

(* The pad is a whole number of groups of blocks.                          *)
LEMMA PassesCoverPad ==
  Passes \in Nat /\ Passes * InitBlocks = TotalBlocks
BY SizesAssumption, SMT DEF Passes

-----------------------------------------------------------------------------
(* The inductive invariant: the loops stay within their bounds, and the    *)
(* passes made so far have written the blocks up to where they have come.  *)
FilledSoFar ==
  pc = "explode" => \A n \in Pad : n < i * InitBlocks => hp_state[n] \in Block

LoopBounds ==
  pc \in {"explode", "implode"} => i <= Passes

IInv == TypeOK /\ NoStaleBlock /\ FilledSoFar /\ LoopBounds

(* Reading the text out of a state.                                        *)
LEMMA LoadTextType ==
  ASSUME NEW s \in StateType
  PROVE  LoadText(s) \in [Text -> Block]
<1>1. \A n \in Text : 4 + n \in 0 .. 3 + InitBlocks
  BY SizesAssumption DEF Text
<1>2. s.blocks \in [0 .. 3 + InitBlocks -> Block]
  BY DEF StateType
<1>3. \A n \in Text : s.blocks[4 + n] \in Block
  BY <1>1, <1>2
<1> QED
  BY <1>3 DEF LoadText

(* The keys at the start of a state are blocks.                            *)
LEMMA StateKeysType ==
  ASSUME NEW s \in StateType
  PROVE  /\ s.blocks[0] \in Block /\ s.blocks[1] \in Block
         /\ s.blocks[2] \in Block /\ s.blocks[3] \in Block
<1>1. s.blocks \in [0 .. 3 + InitBlocks -> Block]
  BY DEF StateType
<1>2. {0, 1, 2, 3} \subseteq 0 .. 3 + InitBlocks
  BY SizesAssumption
<1> QED
  BY <1>1, <1>2

(* An address computed from a word is a block of the pad.                  *)
LEMMA IndexInPad ==
  ASSUME NEW x \in Block
  PROVE  state_index(x) \in Pad
<1>1. x[1] \in Nat
  BY WordsAssumption DEF Block
<1> DEFINE q == x[1] \div 16
<1>2. q \in Nat
  BY <1>1, SMT
<1> HIDE DEF q
<1>3. q % TotalBlocks \in Pad
  BY <1>2, SizesAssumption, SMT DEF Pad
<1> QED
  BY <1>3 DEF state_index, q

(* The initial states satisfy the invariant.                               *)
LEMMA InitInv ==
  ASSUME Init
  PROVE  IInv
<1>1. TypeOK
  BY DEF Init, TypeOK, MaybeStale, Ended
<1> QED
  BY <1>1 DEF Init, IInv, NoStaleBlock, FilledSoFar, LoopBounds

(* The first piece of code loads state, text and tweak.                    *)
LEMMA PrepareInv ==
  ASSUME IInv, Prepare
  PROVE  IInv'
<1> USE DEF IInv
<1>1. input \in InputType
  BY WordsAssumption DEF TypeOK
<1>2. /\ input.keccak1600 \in StateType
      /\ input.keccak1600.w24 \in Word
      /\ input.nonce \in Word
  BY <1>1 DEF InputType, StateType
<1>3. text' \in [Text -> Block]
  BY <1>2, LoadTextType DEF Prepare
<1>4. tweak1_2' \in Word \cup {0}
  BY <1>2, WordOperators DEF Prepare
<1>5. TypeOK'
  BY <1>2, <1>3, <1>4 DEF Prepare, TypeOK, Ended
<1>6. FilledSoFar'
  BY SizesAssumption DEF Prepare, FilledSoFar, Pad
<1>7. LoopBounds'
  BY PassesCoverPad DEF Prepare, LoopBounds
<1> QED
  BY <1>5, <1>6, <1>7 DEF Prepare, NoStaleBlock

(* A pass that fills the pad.                                              *)
LEMMA ExplodeInv ==
  ASSUME IInv, Explode
  PROVE  IInv'
<1> DEFINE keys == aes_expand_key(state.blocks[0], state.blocks[1])
           base == i * InitBlocks
<1>1. state \in StateType /\ text \in [Text -> Block] /\ i \in Nat
  BY DEF IInv, TypeOK, Explode
<1>2. keys \in [1..10 -> Block]
  BY <1>1, StateKeysType, KeysType
<1> HIDE DEF keys
<1>3. text' \in [Text -> Block]
  <2>1. \A n \in Text : TenRounds(text[n], keys) \in Block
    BY <1>1, <1>2, TenRoundsType
  <2> QED
    BY <2>1 DEF Explode, aes_pseudo_round, keys
<1>4. base \in Nat /\ (i + 1) * InitBlocks = base + InitBlocks
  BY <1>1, SizesAssumption, SMT
<1>5. \A n \in Slice : text'[n - base] \in Block
  <2>1. \A n \in Slice : n - base \in Text
    BY <1>4, SizesAssumption DEF Slice, Pad, Text
  <2> QED
    BY <1>3, <2>1
<1>6. hp_state' = [n \in Pad |-> IF n \in Slice THEN text'[n - base]
                                                ELSE hp_state[n]]
  BY DEF Explode
<1>7. hp_state \in [Pad -> MaybeStale(Block)]
  BY DEF IInv, TypeOK
<1>8. hp_state' \in [Pad -> MaybeStale(Block)]
  BY <1>5, <1>6, <1>7 DEF MaybeStale
<1>9. TypeOK'
  BY <1>1, <1>3, <1>8 DEF IInv, TypeOK, Explode, Ended
<1>10. FilledSoFar'
  <2> SUFFICES ASSUME NEW n \in Pad, n < (i + 1) * InitBlocks
               PROVE  hp_state'[n] \in Block
    BY DEF FilledSoFar, Explode
  <2>1. CASE n \in Slice
    BY <2>1, <1>5, <1>6
  <2>2. CASE n \notin Slice
    <3>1. n < base
      BY <2>2, <1>4, SizesAssumption DEF Slice, Pad
    <3>2. hp_state[n] \in Block
      BY <3>1 DEF IInv, FilledSoFar, Explode
    <3> QED
      BY <2>2, <3>2, <1>6
  <2> QED
    BY <2>1, <2>2
<1>11. LoopBounds'
  BY <1>1, PassesCoverPad DEF IInv, LoopBounds, Explode
<1> QED
  BY <1>9, <1>10, <1>11 DEF IInv, NoStaleBlock, Explode

(* The end of the filling passes: no stale block is left.                  *)
LEMMA StartMixInv ==
  ASSUME IInv, StartMix
  PROVE  IInv'
<1>1. state \in StateType /\ text \in [Text -> Block]
  BY DEF IInv, TypeOK, StartMix
<1>2. a' \in Block /\ b' \in Block
  BY <1>1, StateKeysType, XorBlockType DEF StartMix
<1>3. TypeOK'
  BY <1>1, <1>2 DEF IInv, TypeOK, StartMix, Ended
<1>4. \A n \in Pad : n < i * InitBlocks
  BY PassesCoverPad, SizesAssumption DEF StartMix, Pad
<1>5. NoStaleBlock'
  BY <1>4 DEF IInv, FilledSoFar, NoStaleBlock, StartMix
<1> QED
  BY <1>3, <1>5 DEF IInv, FilledSoFar, LoopBounds, StartMix

(* An iteration of the mixing loop keeps the pad full of blocks.           *)
LEMMA MixInv ==
  ASSUME IInv, Mix
  PROVE  IInv'
<1> DEFINE j     == state_index(a)
           c     == Aesenc(hp_state[j], a)
           first == [hp_state EXCEPT ![j] = VARIANT1_1(XorBlock(b, c))]
           k     == state_index(c)
           p     == first[k]
           sum   == <<Add(a[1], MulHi(c[1], p[1])),
                      Add(a[2], MulLo(c[1], p[1]))>>
           last  == <<sum[1], VARIANT1_2(sum[2])>>
<1>1. /\ pc = "mix" /\ i \in Nat /\ a \in Block /\ b \in Block
      /\ state \in StateType /\ text \in [Text -> Block]
      /\ tweak1_2 \in Word \cup {0}
  BY DEF IInv, TypeOK, Mix
<1>2. hp_state \in [Pad -> Block]
  BY <1>1 DEF IInv, TypeOK, NoStaleBlock
<1>3. /\ hp_state' = [first EXCEPT ![k] = last]
      /\ a' = XorBlock(sum, p) /\ b' = c /\ i' = i + 1
      /\ UNCHANGED <<pc, input, state, text, tweak1_2, hash>>
  BY DEF Mix
<1>4. j \in Pad
  BY <1>1, IndexInPad
<1> HIDE DEF j
<1>5. c \in Block
  BY <1>1, <1>2, <1>4, AesencType
<1> HIDE DEF c
<1>6. first \in [Pad -> Block]
  BY <1>1, <1>2, <1>4, <1>5, XorBlockType, TweakType
<1> HIDE DEF first
<1>7. k \in Pad
  BY <1>5, IndexInPad
<1> HIDE DEF k
<1>8. p \in Block
  BY <1>6, <1>7
<1> HIDE DEF p
<1>9. sum \in Block
  BY <1>1, <1>5, <1>8, WordOperators DEF Block
<1> HIDE DEF sum
<1>10. last \in Block
  <2>1. sum[1] \in Word /\ sum[2] \in Word
    BY <1>9 DEF Block
  <2>2. tweak1_2 \in Word
    <3>1. 0 * TweakUnit \in Word /\ 0 * TweakUnit = 0
      BY WordsAssumption, SizesAssumption, SMT DEF TweakBits
    <3> QED
      BY <1>1, <3>1
  <2>3. VARIANT1_2(sum[2]) \in Word
    BY <2>1, <2>2, WordOperators DEF VARIANT1_2
  <2> QED
    BY <2>1, <2>3 DEF Block
<1> HIDE DEF last
<1>11. hp_state' \in [Pad -> Block]
  BY <1>3, <1>6, <1>7, <1>10
<1>12. a' \in Block /\ b' \in Block
  BY <1>3, <1>5, <1>8, <1>9, XorBlockType
<1>13. TypeOK'
  BY <1>1, <1>3, <1>11, <1>12 DEF IInv, TypeOK, MaybeStale, Ended
<1>14. NoStaleBlock'
  BY <1>11 DEF NoStaleBlock
<1> QED
  BY <1>1, <1>3, <1>13, <1>14 DEF IInv, FilledSoFar, LoopBounds

(* A pass that drains the pad.                                             *)
LEMMA ImplodeInv ==
  ASSUME IInv, Implode
  PROVE  IInv'
<1> DEFINE keys == aes_expand_key(state.blocks[2], state.blocks[3])
           base == i * InitBlocks
<1>1. /\ state \in StateType /\ text \in [Text -> Block] /\ i \in Nat
      /\ pc = "implode" /\ i < Passes
  BY DEF IInv, TypeOK, Implode
<1>2. keys \in [1..10 -> Block]
  BY <1>1, StateKeysType, KeysType
<1>3. \A n \in Text : hp_state[base + n] \in Block
  <2>1. base \in Nat /\ base + InitBlocks <= TotalBlocks
    <3>1. /\ i \in Nat /\ Passes \in Nat /\ InitBlocks \in Nat
          /\ i + 1 <= Passes /\ Passes * InitBlocks = TotalBlocks
      BY <1>1, PassesCoverPad, SizesAssumption
    <3>2. (i + 1) * InitBlocks <= Passes * InitBlocks
      BY <3>1, SMT
    <3> QED
      BY <3>1, <3>2, SMT
  <2> HIDE DEF base
  <2>2. \A n \in Text : base + n \in Pad
    BY <2>1, SizesAssumption DEF Text, Pad
  <2> QED
    BY <1>1, <2>2 DEF IInv, NoStaleBlock
<1> HIDE DEF keys, base
<1>4. \A n \in Text :
        TenRounds(XorBlock(text[n], hp_state[base + n]), keys) \in Block
  BY <1>1, <1>2, <1>3, XorBlockType, TenRoundsType
<1>5. text' = [n \in Text |->
                 TenRounds(XorBlock(text[n], hp_state[base + n]), keys)]
  BY DEF Implode, aes_pseudo_round_xor, keys, base
<1>6. text' \in [Text -> Block]
  BY <1>4, <1>5
<1>7. TypeOK'
  BY <1>1, <1>6 DEF IInv, TypeOK, Implode, Ended
<1> QED
  BY <1>1, <1>7, PassesCoverPad
     DEF IInv, Implode, NoStaleBlock, FilledSoFar, LoopBounds

(* The rest of the code: the two early ends, the reload of the text and    *)
(* the final hash.                                                         *)
LEMMA OtherInv ==
  ASSUME IInv, AssertFails \/ TooShort \/ StartImplode \/ Finish
  PROVE  IInv'
<1>1. CASE AssertFails \/ TooShort
  BY <1>1 DEF AssertFails, TooShort, IInv, TypeOK, Ended, NoStaleBlock,
              FilledSoFar, LoopBounds
<1>2. CASE StartImplode
  <2>1. state \in StateType
    BY <1>2 DEF StartImplode, IInv, TypeOK
  <2>2. text' \in [Text -> Block]
    BY <1>2, <2>1, LoadTextType DEF StartImplode
  <2>3. TypeOK'
    BY <1>2, <2>2 DEF StartImplode, IInv, TypeOK, Ended
  <2> QED
    BY <1>2, <2>3, PassesCoverPad
       DEF StartImplode, IInv, NoStaleBlock, FilledSoFar, LoopBounds
<1>3. CASE Finish
  <2>1. state \in StateType /\ text \in [Text -> Block]
    BY <1>3 DEF Finish, IInv, TypeOK
  <2>2. state' \in StateType
    <3> DEFINE new == [n \in 0 .. 3 + InitBlocks |->
                         IF n < 4 THEN state.blocks[n] ELSE text[n - 4]]
    <3>1. state.blocks \in [0 .. 3 + InitBlocks -> Block] /\ state.w24 \in Word
      BY <2>1 DEF StateType
    <3>2. new \in [0 .. 3 + InitBlocks -> Block]
      BY <2>1, <3>1, SizesAssumption DEF Text
    <3> HIDE DEF new
    <3>3. [state EXCEPT !.blocks = new] \in StateType
      BY <2>1, <3>2 DEF StateType
    <3> QED
      BY <1>3, <3>3 DEF Finish, StoreText, new
  <2>3. TypeOK'
    BY <1>3, <2>1, <2>2 DEF Finish, IInv, TypeOK, Ended
  <2> QED
    BY <1>3, <2>3 DEF Finish, IInv, NoStaleBlock, FilledSoFar, LoopBounds
<1> QED
  BY <1>1, <1>2, <1>3

(* Every step keeps the invariant.                                         *)
LEMMA NextInv ==
  ASSUME IInv, [Next]_vars
  PROVE  IInv'
<1>1. CASE UNCHANGED vars
  BY <1>1 DEF vars, IInv, TypeOK, NoStaleBlock, FilledSoFar, LoopBounds
<1>2. CASE Next
  BY <1>2, PrepareInv, ExplodeInv, StartMixInv, MixInv, ImplodeInv, OtherInv
     DEF Next
<1> QED
  BY <1>1, <1>2

(* cn_slow_hash keeps its types: the addresses it computes from random     *)
(* words never leave the pad, for every size of the pad.                   *)
THEOREM SlowHashTypeCorrect == Spec => []TypeOK
<1>1. IInv => TypeOK
  BY DEF IInv
<1> QED
  BY <1>1, InitInv, NextInv, PTL DEF Spec

(* cn_slow_hash never mixes memory that an earlier hash has left behind.   *)
THEOREM SlowHashNoStaleBlock == Spec => []NoStaleBlock
<1>1. IInv => NoStaleBlock
  BY DEF IInv
<1> QED
  BY <1>1, InitInv, NextInv, PTL DEF Spec

-----------------------------------------------------------------------------
(***************************************************************************)
(* The three other copies of cn_slow_hash take the steps of the x86-64     *)
(* one, whatever the sizes and the instructions.  The proof uses the       *)
(* invariant above: a copy that has taken steps of the reference so far    *)
(* has blocks wherever it is about to exchange them.                       *)
(***************************************************************************)
VARIABLE port

Ports == INSTANCE CnSlowHashPorts

-----------------------------------------------------------------------------
(* What the copies take from the common module is the same there.          *)
LEMMA SameBasics ==
  /\ Ports!Text = Text /\ Ports!Pad = Pad
  /\ \A x, y : Ports!XorBlock(x, y) = XorBlock(x, y)
  /\ \A x, y : Ports!Aesenc(x, y) = Aesenc(x, y)
BY DEF Ports!Text, Text, Ports!Pad, Pad, Ports!XorBlock, XorBlock,
       Ports!Aesenc, Aesenc

(* And what they take from the reference.                                  *)
LEMMA SameReference ==
  /\ \A x, y : Ports!Reference!XorBlock(x, y) = XorBlock(x, y)
  /\ \A x, y : Ports!Reference!Aesenc(x, y) = Aesenc(x, y)
  /\ Ports!Reference!Passes = Passes
  /\ Ports!Reference!variant = variant
BY DEF Ports!Reference!XorBlock, XorBlock, Ports!Reference!Aesenc, Aesenc,
       Ports!Reference!Passes, Passes, Ports!Reference!variant, variant,
       Ports!Reference!cn_variant, cn_variant

(* The key schedule.                                                       *)
LEMMA SameKeys ==
  ASSUME NEW k0, NEW k1
  PROVE  Ports!Reference!aes_expand_key(k0, k1) = aes_expand_key(k0, k1)
<1>1. \A t : Ports!Reference!SlXor(t) = SlXor(t)
  BY SameReference DEF Ports!Reference!SlXor, SlXor
<1>2. \A x, y :
        /\ Ports!Reference!aes_256_assist1(x, y) = aes_256_assist1(x, y)
        /\ Ports!Reference!aes_256_assist2(x, y) = aes_256_assist2(x, y)
  BY <1>1, SameReference
     DEF Ports!Reference!aes_256_assist1, aes_256_assist1,
         Ports!Reference!aes_256_assist2, aes_256_assist2
<1> QED
  BY <1>2 DEF Ports!Reference!aes_expand_key, aes_expand_key

(* The rounds.                                                             *)
LEMMA SameTenRounds ==
  ASSUME NEW d, NEW k
  PROVE  Ports!Reference!TenRounds(d, k) = TenRounds(d, k)
BY SameReference DEF Ports!Reference!TenRounds, TenRounds

(* Both tweaks.                                                            *)
LEMMA SameTweaks ==
  /\ \A x : Ports!Reference!VARIANT1_1(x) = VARIANT1_1(x)
  /\ \A w : Ports!Reference!VARIANT1_2(w) = VARIANT1_2(w)
<1>1. /\ \A t : Ports!Reference!TweakIndex(t) = TweakIndex(t)
      /\ \A k : Ports!Reference!TableBits(k) = TableBits(k)
      /\ \A w : Ports!Reference!ByteOf(w) = ByteOf(w)
  BY DEF Ports!Reference!TweakIndex, TweakIndex, Ports!Reference!TableBits,
         TableBits, Ports!Reference!ByteOf, ByteOf
<1>2. \A x : Ports!Reference!VARIANT1_1(x) = VARIANT1_1(x)
  BY <1>1, SameReference DEF Ports!Reference!VARIANT1_1, VARIANT1_1
<1>3. \A w : Ports!Reference!VARIANT1_2(w) = VARIANT1_2(w)
  BY SameReference DEF Ports!Reference!VARIANT1_2, VARIANT1_2
<1> QED
  BY <1>2, <1>3

-----------------------------------------------------------------------------
(* Adding nothing changes nothing, and where the key of a round is added   *)
(* makes no difference.                                                    *)
LEMMA XorZero ==
  ASSUME Ports!ZeroAssumption, NEW x \in Block
  PROVE  Ports!Zero \in Block /\ XorBlock(x, Ports!Zero) = x
<1>1. x[1] \in Word /\ x[2] \in Word /\ x = <<x[1], x[2]>>
  BY DEF Block
<1>2. 0 \in Word /\ Xor(x[1], 0) = x[1] /\ Xor(x[2], 0) = x[2]
  BY <1>1 DEF Ports!ZeroAssumption
<1> QED
  BY <1>1, <1>2 DEF Block, XorBlock, Ports!Zero

(* vaeseq_u8 adds the key of the round before, which is how aesenc ended.  *)
LEMMA SameRounds ==
  ASSUME NEW d, NEW x, NEW k
  PROVE  Ports!Rounds(d, x, k) = TenRounds(XorBlock(d, x), k)
<1>1. \A y, key : Ports!Aese(y, key) = AesRound(XorBlock(y, key))
  BY SameBasics DEF Ports!Aese
<1>2. \A y, key : Aesenc(y, key) = XorBlock(AesRound(y), key)
  BY DEF Aesenc
<1> DEFINE e == XorBlock(d, x)
           n5 == Ports!Aese(Ports!Aese(Ports!Aese(Ports!Aese(Ports!Aese(d, x),
                   k[1]), k[2]), k[3]), k[4])
           t5 == Aesenc(Aesenc(Aesenc(Aesenc(Aesenc(e,
                   k[1]), k[2]), k[3]), k[4]), k[5])
<1>3. XorBlock(n5, k[5]) = t5
  BY <1>1, <1>2
<1> HIDE DEF n5, t5
<1> DEFINE n10 == Ports!Aese(Ports!Aese(Ports!Aese(Ports!Aese(Ports!Aese(n5,
                    k[5]), k[6]), k[7]), k[8]), k[9])
           t10 == Aesenc(Aesenc(Aesenc(Aesenc(Aesenc(t5,
                    k[6]), k[7]), k[8]), k[9]), k[10])
<1>4. XorBlock(n10, k[10]) = t10
  BY <1>1, <1>2, <1>3
<1> HIDE DEF n10, t10
<1>5. Ports!NeonRounds(d, x, k) = XorBlock(n10, k[10])
  BY SameBasics DEF Ports!NeonRounds, n10, n5
<1>6. TenRounds(e, k) = t10
  BY DEF TenRounds, t10, t5
<1> QED
  BY <1>4, <1>5, <1>6, SameBasics, SameTenRounds DEF Ports!Rounds

(* Both forms of an address.                                               *)
LEMMA SameIndex ==
  ASSUME NEW x \in Block
  PROVE  /\ Ports!e2i(x) = state_index(x)
         /\ Ports!state_index(x) = state_index(x)
<1>1. x[1] \in Nat
  BY WordsAssumption DEF Block
<1>2. TotalBlocks * 16 = 16 * TotalBlocks
  BY SizesAssumption, SMT
<1> QED
  BY <1>1, <1>2, MaskOrShift, SizesAssumption
     DEF Ports!e2i, Ports!state_index, state_index

-----------------------------------------------------------------------------
(* The pieces of code that every copy shares.                              *)
LEMMA SharedSteps ==
  ASSUME Ports!AssertFails \/ Ports!TooShort \/ Ports!Prepare
         \/ Ports!StartMix \/ Ports!StartImplode \/ Ports!Finish
  PROVE  Next
<1>1. \A s : Ports!Reference!LoadText(s) = LoadText(s)
  BY SameBasics DEF Ports!Reference!LoadText, LoadText, Ports!Reference!Text, Text
<1>2. \A s, t : Ports!Reference!StoreText(s, t) = StoreText(s, t)
  BY DEF Ports!Reference!StoreText, StoreText
<1>3. CASE Ports!AssertFails
  BY <1>3 DEF Ports!AssertFails, Ports!Reference!AssertFails, AssertFails, Next
<1>4. CASE Ports!TooShort
  BY <1>4, SameReference DEF Ports!TooShort, Ports!Reference!TooShort, TooShort, Next
<1>5. CASE Ports!Prepare
  BY <1>5, <1>1, SameReference
     DEF Ports!Prepare, Ports!Reference!Prepare, Prepare, Next
<1>6. CASE Ports!StartMix
  BY <1>6, SameReference
     DEF Ports!StartMix, Ports!Reference!StartMix, StartMix, Next
<1>7. CASE Ports!StartImplode
  BY <1>7, <1>1
     DEF Ports!StartImplode, Ports!Reference!StartImplode, StartImplode, Next
<1>8. CASE Ports!Finish
  BY <1>8, <1>2, SameReference DEF Ports!Finish, Ports!Reference!Finish, Finish, Next
<1> QED
  BY <1>3, <1>4, <1>5, <1>6, <1>7, <1>8

(* A pass that fills the pad.                                              *)
LEMMA ExplodeStep ==
  ASSUME Ports!ZeroAssumption, IInv, Ports!Explode
  PROVE  Explode
<1> DEFINE keys == aes_expand_key(state.blocks[0], state.blocks[1])
<1>1. pc = "explode" /\ text \in [Text -> Block]
  BY DEF IInv, TypeOK, Ports!Explode
<1>2. text' = [n \in Text |-> Ports!Rounds(text[n], Ports!Zero, keys)]
  BY SameBasics, SameKeys DEF Ports!Explode
<1> HIDE DEF keys
<1>3. \A n \in Text : Ports!Rounds(text[n], Ports!Zero, keys) = TenRounds(text[n], keys)
  BY <1>1, SameRounds, XorZero
<1>4. text' = aes_pseudo_round(text, keys)
  BY <1>2, <1>3 DEF aes_pseudo_round
<1>5. Ports!Reference!Slice = Slice
  BY DEF Ports!Reference!Slice, Slice, Ports!Reference!Pad, Pad
<1>6. hp_state' = [n \in Pad |-> IF n \in Slice THEN text'[n - i * InitBlocks]
                                                ELSE hp_state[n]]
  BY <1>5, SameBasics DEF Ports!Explode
<1> QED
  BY <1>4, <1>6, SameReference DEF Ports!Explode, Explode, keys

(* A pass that drains the pad.                                             *)
LEMMA ImplodeStep ==
  ASSUME Ports!Implode
  PROVE  Implode
<1> DEFINE keys == aes_expand_key(state.blocks[2], state.blocks[3])
           x == [n \in Text |-> hp_state[i * InitBlocks + n]]
<1>1. text' = [n \in Text |-> Ports!Rounds(text[n], x[n], keys)]
  BY SameBasics, SameKeys DEF Ports!Implode
<1> HIDE DEF keys, x
<1>2. text' = aes_pseudo_round_xor(text, keys, x)
  BY <1>1, SameRounds DEF aes_pseudo_round_xor
<1> QED
  BY <1>2, SameReference DEF Ports!Implode, Implode, keys, x

-----------------------------------------------------------------------------
(* The mixing loop.  The registers with their values.                      *)
Regs(x, y, z, pad) == [a |-> x, b |-> y, c |-> z, pad |-> pad]

(* Exchanges among registers.                                              *)
LEMMA Exchanges ==
  ASSUME NEW x, NEW y, NEW z, NEW pad
  PROVE  /\ Ports!swap_blocks_ab(Regs(x, y, z, pad)) = Regs(y, x, z, pad)
         /\ Ports!swap_blocks_bc(Regs(x, y, z, pad)) = Regs(x, z, y, pad)
<1> DEFINE R == Regs(x, y, z, pad)
<1>1. R.a = x /\ R.b = y /\ R.c = z /\ R.pad = pad
  BY DEF Regs
<1>2. Ports!swap_blocks_ab(R) = Regs(y, x, z, pad)
  <2>1. [R EXCEPT !.a = y] = Regs(y, y, z, pad)
    BY DEF Regs
  <2>2. [Regs(y, y, z, pad) EXCEPT !.b = x] = Regs(y, x, z, pad)
    BY DEF Regs
  <2> HIDE DEF R
  <2> QED
    BY <1>1, <2>1, <2>2 DEF Ports!swap_blocks_ab
<1>3. Ports!swap_blocks_bc(R) = Regs(x, z, y, pad)
  <2>1. [R EXCEPT !.b = z] = Regs(x, z, z, pad)
    BY DEF Regs
  <2>2. [Regs(x, z, z, pad) EXCEPT !.c = y] = Regs(x, z, y, pad)
    BY DEF Regs
  <2> HIDE DEF R
  <2> QED
    BY <1>1, <2>1, <2>2 DEF Ports!swap_blocks_bc
<1> QED
  BY <1>2, <1>3

(* And with a block of the pad.                                            *)
Put(pad, j, y) == [pad EXCEPT ![j] = y]

(* The register gets the block, and the block what was in the register.    *)
LEMMA ExchangesWithPad ==
  ASSUME NEW x, NEW y, NEW z, NEW pad, NEW j
  PROVE  Ports!swap_blocks_bp(Regs(x, y, z, pad), j)
           = Regs(x, pad[j], z, Put(pad, j, y))
<1> DEFINE R == Regs(x, y, z, pad)
           Q == Regs(x, pad[j], z, pad)
<1>1. R.b = y /\ R.pad = pad /\ Q.pad = pad
  BY DEF Regs
<1>2. [R EXCEPT !.b = pad[j]] = Q
  BY DEF Regs
<1>3. [Q EXCEPT !.pad = Put(pad, j, y)] = Regs(x, pad[j], z, Put(pad, j, y))
  BY SMTT(60) DEF Regs
<1> HIDE DEF R, Q
<1>4. Ports!swap_blocks_bp(R, j) = [Q EXCEPT !.pad = Put(pad, j, y)]
  BY <1>1, <1>2 DEF Ports!swap_blocks_bp, Put
<1> QED
  BY <1>3, <1>4 DEF R

(* The tweak of a block of the pad.                                        *)
LEMMA TweaksPad ==
  ASSUME NEW x, NEW y, NEW z, NEW pad, NEW j
  PROVE  Ports!VARIANT1_1(Regs(x, y, z, pad), j)
           = Regs(x, y, z, [pad EXCEPT ![j] = VARIANT1_1(pad[j])])
BY SameTweaks DEF Regs, Ports!VARIANT1_1

-----------------------------------------------------------------------------
(* What an iteration computes, as in the reference.                        *)
MixC(x, pad) == Aesenc(pad[state_index(x)], x)

MixFirst(x, y, pad) ==
  [pad EXCEPT ![state_index(x)] = VARIANT1_1(XorBlock(y, MixC(x, pad)))]

MixP(x, y, pad) == MixFirst(x, y, pad)[state_index(MixC(x, pad))]

MixSum(x, c, p) == <<Add(x[1], MulHi(c[1], p[1])), Add(x[2], MulLo(c[1], p[1]))>>

MixPad(x, c, p, first) ==
  [first EXCEPT ![state_index(c)] = Ports!Tweaked(MixSum(x, c, p))]

(* The portable code.                                                      *)
LEMMA PortableMixes ==
  ASSUME NEW x \in Block, NEW y \in Block, NEW z, NEW pad \in [Pad -> Block],
         NEW c \in Block, c = MixC(x, pad), NEW first, first = MixFirst(x, y, pad),
         NEW p, p = MixP(x, y, pad)
  PROVE  Ports!PortableMix(Regs(x, y, z, pad))
           = Regs(XorBlock(p, MixSum(x, c, p)), c,
                  Ports!Tweaked(MixSum(x, c, p)), MixPad(x, c, p, first))
<1> DEFINE r0 == Regs(x, y, z, pad)
           j  == Ports!e2i(r0.a)
           r1 == [r0 EXCEPT !.c = Ports!Aesenc(r0.pad[j], r0.a)]
           r2 == Ports!swap_blocks_bc([r1 EXCEPT !.b = Ports!XorBlock(@, r1.c)])
           r3 == Ports!VARIANT1_1(
                   Ports!swap_blocks_ab([r2 EXCEPT !.pad[j] = r2.c]), j)
           k  == Ports!e2i(r3.a)
           r4 == [r3 EXCEPT !.c = r3.pad[k]]
           r5 == Ports!swap_blocks_bc([r4 EXCEPT !.b =
                   Ports!sum_half_blocks(@, Ports!mul(r4.a, r4.c))])
           r6 == [r5 EXCEPT !.b = Ports!XorBlock(@, r5.c), !.c = Ports!Tweaked(@)]
           r7 == Ports!swap_blocks_ab([r6 EXCEPT !.pad[k] = r6.c])
<1>1. Ports!PortableMix(r0) = r7
  BY DEF Ports!PortableMix
<1>2. state_index(x) \in Pad /\ state_index(c) \in Pad
  BY IndexInPad
<1>3. r0.a = x /\ r0.b = y /\ r0.pad = pad /\ j = state_index(x)
  BY SameIndex DEF Regs
<1>4. r1 = Regs(x, y, c, pad)
  <2>1. Ports!Aesenc(r0.pad[j], r0.a) = c
    BY <1>3, SameBasics DEF MixC
  <2> HIDE DEF j, r0
  <2>2. [Regs(x, y, z, pad) EXCEPT !.c = c] = Regs(x, y, c, pad)
    BY DEF Regs
  <2> QED
    BY <2>1, <2>2 DEF r0
<1> HIDE DEF r0, r1, j
<1>5. r2 = Regs(x, c, XorBlock(y, c), pad)
  <2>1. r1.b = y /\ r1.c = c
    BY <1>4 DEF Regs
  <2>2. [r1 EXCEPT !.b = XorBlock(y, c)] = Regs(x, XorBlock(y, c), c, pad)
    BY <1>4 DEF Regs
  <2> QED
    BY <2>1, <2>2, Exchanges, SameBasics
<1> HIDE DEF r2
<1>6. r3 = Regs(c, x, XorBlock(y, c), first)
  <2> DEFINE pad1 == [pad EXCEPT ![j] = XorBlock(y, c)]
  <2>1. r2.c = XorBlock(y, c) /\ r2.pad = pad
    BY <1>5 DEF Regs
  <2>2. [r2 EXCEPT !.pad[j] = r2.c] = Regs(x, c, XorBlock(y, c), pad1)
    BY SMTT(60), <1>5, <2>1 DEF Regs
  <2>3. [pad1 EXCEPT ![j] = VARIANT1_1(pad1[j])] = first
    BY <1>2, <1>3 DEF MixFirst
  <2> HIDE DEF pad1
  <2> QED
    BY <2>2, <2>3, Exchanges, TweaksPad
<1> HIDE DEF r3
<1>7. k = state_index(c) /\ r3.pad[k] = p
  BY <1>6, SameIndex DEF MixP, Regs
<1>8. r4 = Regs(c, x, p, first)
  BY <1>6, <1>7 DEF Regs
<1> HIDE DEF r4, k
<1> DEFINE s == MixSum(x, c, p)
<1>9. r5 = Regs(c, p, s, first)
  <2>1. r4.a = c /\ r4.b = x /\ r4.c = p
    BY <1>8 DEF Regs
  <2>2. Ports!sum_half_blocks(x, Ports!mul(c, p)) = s
    BY DEF Ports!sum_half_blocks, Ports!mul, MixSum
  <2> HIDE DEF s
  <2>3. [r4 EXCEPT !.b = s] = Regs(c, s, p, first)
    BY <1>8 DEF Regs
  <2> QED
    BY <2>1, <2>2, <2>3, Exchanges
<1> HIDE DEF s, r5
<1> DEFINE t == Ports!Tweaked(s)
<1>10. r6 = Regs(c, XorBlock(p, s), t, first)
  <2> DEFINE q == XorBlock(p, s)
             v == [r5 EXCEPT !.b = q]
  <2>1. r5.b = p /\ r5.c = s
    BY <1>9 DEF Regs
  <2>2. v = Regs(c, q, s, first)
    BY <1>9 DEF Regs
  <2>3. r6 = [v EXCEPT !.c = Ports!Tweaked(v.c)]
    BY <2>1, SameBasics
  <2> HIDE DEF t, q, v
  <2>4. v.c = s
    BY <2>2 DEF Regs
  <2>5. [v EXCEPT !.c = t] = Regs(c, q, t, first)
    BY <2>2 DEF Regs
  <2> QED
    BY <2>3, <2>4, <2>5 DEF q, t
<1> HIDE DEF r6, t
<1>11. r7 = Regs(XorBlock(p, s), c, t, [first EXCEPT ![k] = t])
  <2>1. r6.c = t
    BY <1>10 DEF Regs
  <2>2. [r6 EXCEPT !.pad[k] = t]
          = Regs(c, XorBlock(p, s), t, [first EXCEPT ![k] = t])
    BY <1>10 DEF Regs
  <2> QED
    BY <2>1, <2>2, Exchanges
<1> QED
  BY SMTT(60), <1>1, <1>7, <1>11 DEF MixPad, s, t, r0

(* The code for ARM without instructions, which works in the pad.          *)
LEMMA ArmMixes ==
  ASSUME NEW x \in Block, NEW y \in Block, NEW z, NEW pad \in [Pad -> Block],
         NEW c \in Block, c = MixC(x, pad),
         NEW first \in [Pad -> Block], first = MixFirst(x, y, pad),
         NEW p, p = MixP(x, y, pad)
  PROVE  Ports!ArmMix(Regs(x, y, z, pad))
           = Regs(XorBlock(p, MixSum(x, c, p)), c, z, MixPad(x, c, p, first))
<1> DEFINE r0 == Regs(x, y, z, pad)
           j  == Ports!state_index(r0.a)
           r1 == [r0 EXCEPT !.pad[j] = Ports!Aesenc(@, r0.a)]
           r2 == Ports!swap_blocks_bp(
                   [r1 EXCEPT !.b = Ports!XorBlock(@, r1.pad[j])], j)
           r3 == Ports!VARIANT1_1(Ports!swap_blocks_ab(r2), j)
           k  == Ports!state_index(r3.a)
           r4 == Ports!swap_blocks_bp([r3 EXCEPT !.b =
                   Ports!sum_half_blocks(@, Ports!mul(r3.a, r3.pad[k]))], k)
           r5 == Ports!swap_blocks_ab([r4 EXCEPT !.b = Ports!XorBlock(@, r4.pad[k])])
           r6 == [r5 EXCEPT !.pad[k] = Ports!Tweaked(@)]
<1>1. Ports!ArmMix(r0) = r6
  BY DEF Ports!ArmMix
<1>2. state_index(x) \in Pad /\ state_index(c) \in Pad
  BY IndexInPad
<1>3. r0.a = x /\ r0.b = y /\ r0.pad = pad /\ j = state_index(x)
  BY SameIndex DEF Regs
<1> DEFINE pad1 == [pad EXCEPT ![j] = c]
<1>4. r1 = Regs(x, y, z, pad1)
  <2>1. Ports!Aesenc(r0.pad[j], r0.a) = c
    BY <1>3, SameBasics DEF MixC
  <2> HIDE DEF j
  <2>2. [r0 EXCEPT !.pad[j] = c] = Regs(x, y, z, pad1)
    BY DEF Regs
  <2> HIDE DEF r0
  <2> QED
    BY <2>1, <2>2
<1>5. pad1[j] = c
  BY <1>2, <1>3
<1> HIDE DEF r0, r1, j, pad1
<1> DEFINE pad2 == Put(pad1, j, XorBlock(y, c))
<1>6. r2 = Regs(x, c, z, pad2)
  <2>1. r1.b = y /\ r1.pad[j] = c
    BY <1>4, <1>5 DEF Regs
  <2>2. [r1 EXCEPT !.b = XorBlock(y, c)] = Regs(x, XorBlock(y, c), z, pad1)
    BY <1>4 DEF Regs
  <2>3. Ports!swap_blocks_bp(Regs(x, XorBlock(y, c), z, pad1), j)
          = Regs(x, pad1[j], z, pad2)
    BY ExchangesWithPad
  <2> QED
    BY <1>5, <2>1, <2>2, <2>3, SameBasics
<1> HIDE DEF r2
<1>7. r3 = Regs(c, x, z, first)
  <2>1. [pad2 EXCEPT ![j] = VARIANT1_1(pad2[j])] = first
    BY <1>2, <1>3 DEF MixFirst, pad1, Put
  <2> HIDE DEF pad2
  <2>2. Ports!swap_blocks_ab(r2) = Regs(c, x, z, pad2)
    BY <1>6, Exchanges
  <2>3. Ports!VARIANT1_1(Regs(c, x, z, pad2), j) = Regs(c, x, z, first)
    BY <2>1, TweaksPad
  <2> QED
    BY SMTT(60), <2>2, <2>3
<1> HIDE DEF r3
<1>8. k = state_index(c) /\ r3.pad[k] = p
  BY <1>7, SameIndex DEF MixP, Regs
<1> DEFINE s == MixSum(x, c, p)
           pad3 == Put(first, k, s)
<1>9. r4 = Regs(c, p, z, pad3)
  <2>1. r3.a = c /\ r3.b = x /\ r3.pad = first
    BY <1>7 DEF Regs
  <2>2. Ports!sum_half_blocks(x, Ports!mul(c, p)) = s
    BY DEF Ports!sum_half_blocks, Ports!mul, MixSum
  <2> HIDE DEF s, k
  <2>3. [r3 EXCEPT !.b = s] = Regs(c, s, z, first)
    BY <1>7 DEF Regs
  <2>4. first[k] = p
    BY <1>8, <2>1
  <2>5. Ports!swap_blocks_bp(Regs(c, s, z, first), k) = Regs(c, first[k], z, pad3)
    BY ExchangesWithPad
  <2> QED
    BY <1>8, <2>1, <2>2, <2>3, <2>4, <2>5
<1>10. pad3[k] = s
  BY <1>2, <1>8 DEF Put
<1> HIDE DEF s, r4, k, pad3
<1>11. r5 = Regs(XorBlock(p, s), c, z, pad3)
  <2>1. r4.b = p /\ r4.pad[k] = s
    BY <1>9, <1>10 DEF Regs
  <2>2. [r4 EXCEPT !.b = XorBlock(p, s)] = Regs(c, XorBlock(p, s), z, pad3)
    BY <1>9 DEF Regs
  <2> QED
    BY <2>1, <2>2, Exchanges, SameBasics
<1> HIDE DEF r5
<1> DEFINE t == Ports!Tweaked(s)
<1>12. r6 = Regs(XorBlock(p, s), c, z, [pad3 EXCEPT ![k] = t])
  <2>1. r5.pad[k] = s
    BY <1>10, <1>11 DEF Regs
  <2>2. [r5 EXCEPT !.pad[k] = t]
          = Regs(XorBlock(p, s), c, z, [pad3 EXCEPT ![k] = t])
    BY <1>11 DEF Regs
  <2> QED
    BY <2>1, <2>2
<1>13. [pad3 EXCEPT ![k] = t] = [first EXCEPT ![k] = t]
  <2> HIDE DEF t
  <2> QED
    BY DEF pad3, Put
<1> QED
  BY <1>1, <1>8, <1>12, <1>13 DEF MixPad, s, r0

(* The code for ARMv8: the round with a key of zeros, the key afterwards.  *)
LEMMA NeonMixes ==
  ASSUME Ports!ZeroAssumption,
         NEW x \in Block, NEW y \in Block, NEW z, NEW pad \in [Pad -> Block],
         NEW c \in Block, c = MixC(x, pad), NEW first, first = MixFirst(x, y, pad),
         NEW p, p = MixP(x, y, pad)
  PROVE  Ports!NeonMix(Regs(x, y, z, pad))
           = Regs(XorBlock(MixSum(x, c, p), p), c, z, MixPad(x, c, p, first))
<1> DEFINE r0 == Regs(x, y, z, pad)
           j  == Ports!e2i(r0.a)
           d  == Ports!XorBlock(Ports!Aese(r0.pad[j], Ports!Zero), r0.a)
           r1 == Ports!VARIANT1_1([r0 EXCEPT !.pad[j] = Ports!XorBlock(r0.b, d)], j)
           k  == Ports!e2i(d)
           q  == r1.pad[k]
           u  == Ports!sum_half_blocks(r0.a, Ports!mul(d, q))
           r2 == [r1 EXCEPT !.pad[k] = Ports!Tweaked(u),
                            !.a = Ports!XorBlock(u, q), !.b = d]
<1>1. Ports!NeonMix(r0) = r2
  BY DEF Ports!NeonMix
<1>2. state_index(x) \in Pad
  BY IndexInPad
<1>3. r0.a = x /\ r0.b = y /\ r0.pad = pad /\ j = state_index(x)
  BY SameIndex DEF Regs
<1> HIDE DEF j
<1>4. d = c
  <2>1. pad[j] \in Block
    BY <1>2, <1>3
  <2>2. Ports!Aese(pad[j], Ports!Zero) = AesRound(pad[j])
    BY <2>1, XorZero, SameBasics DEF Ports!Aese
  <2> HIDE DEF r0
  <2> QED
    BY <1>3, <2>2, SameBasics DEF MixC, Aesenc
<1> HIDE DEF d
<1>5. r1 = Regs(x, y, z, first)
  <2> DEFINE pad1 == [pad EXCEPT ![j] = XorBlock(y, c)]
  <2>1. [r0 EXCEPT !.pad[j] = XorBlock(y, c)] = Regs(x, y, z, pad1)
    BY SMTT(60) DEF Regs
  <2>2. [pad1 EXCEPT ![j] = VARIANT1_1(pad1[j])] = first
    BY <1>2, <1>3 DEF MixFirst
  <2>3. Ports!XorBlock(r0.b, d) = XorBlock(y, c)
    BY <1>3, <1>4, SameBasics
  <2> HIDE DEF r0, pad1
  <2>4. Ports!VARIANT1_1(Regs(x, y, z, pad1), j) = Regs(x, y, z, first)
    BY <2>2, TweaksPad
  <2> QED
    BY <2>1, <2>3, <2>4
<1>6. r0.a = x
  BY <1>3
<1> HIDE DEF r0, r1
<1>7. k = state_index(c) /\ q = p
  BY <1>4, <1>5, SameIndex DEF MixP, Regs
<1> HIDE DEF k, q
<1> DEFINE s == MixSum(x, c, p)
<1>8. u = s
  BY <1>4, <1>6, <1>7 DEF Ports!sum_half_blocks, Ports!mul, MixSum
<1> HIDE DEF u, s
<1> DEFINE t == Ports!Tweaked(s)
<1>9. r2 = Regs(XorBlock(s, p), c, z, [first EXCEPT ![k] = t])
  <2> HIDE DEF t
  <2> DEFINE w == XorBlock(s, p)
             pad2 == [first EXCEPT ![k] = t]
  <2>1. [r1 EXCEPT !.pad[k] = t] = Regs(x, y, z, pad2)
    BY <1>5 DEF Regs
  <2> HIDE DEF w, pad2
  <2>2. [Regs(x, y, z, pad2) EXCEPT !.a = w] = Regs(w, y, z, pad2)
    BY DEF Regs
  <2>3. [Regs(w, y, z, pad2) EXCEPT !.b = c] = Regs(w, c, z, pad2)
    BY DEF Regs
  <2>4. r2 = [[[r1 EXCEPT !.pad[k] = t] EXCEPT !.a = w] EXCEPT !.b = c]
    BY <1>4, <1>7, <1>8, SameBasics DEF w, t
  <2> HIDE DEF r2
  <2>5. r2 = Regs(w, c, z, pad2)
    BY <2>1, <2>2, <2>3, <2>4
  <2> QED
    BY <2>5 DEF w, pad2
<1> QED
  BY <1>1, <1>7, <1>9 DEF MixPad, s, t, r0

(* An iteration of the mixing loop leaves the same pad and the same        *)
(* registers a and b, whichever copy runs it.                              *)
LEMMA MixStep ==
  ASSUME Ports!ZeroAssumption, IInv, Ports!Mix,
         port \in {"neon", "arm", "portable"}
  PROVE  Mix
<1> DEFINE c     == MixC(a, hp_state)
           first == MixFirst(a, b, hp_state)
           p     == MixP(a, b, hp_state)
           s     == MixSum(a, c, p)
           last  == MixPad(a, c, p, first)
           r     == Regs(a, b, Ports!Zero, hp_state)
           new   == CASE port = "portable" -> Ports!PortableMix(r)
                      [] port = "arm" -> Ports!ArmMix(r)
                      [] port = "neon" -> Ports!NeonMix(r)
<1>1. pc = "mix" /\ a \in Block /\ b \in Block /\ hp_state \in [Pad -> Block]
  BY DEF IInv, TypeOK, NoStaleBlock, Ports!Mix
<1>2. /\ i < Iterations /\ i' = i + 1
      /\ UNCHANGED <<pc, input, state, text, tweak1_2, hash>>
  BY DEF Ports!Mix
<1>3. hp_state' = new.pad /\ a' = new.a /\ b' = new.b
  BY DEF Ports!Mix, Regs
<1>4. state_index(a) \in Pad
  BY <1>1, IndexInPad
<1>5. c \in Block
  BY <1>1, <1>4, AesencType DEF MixC
<1>6. first \in [Pad -> Block]
  BY <1>1, <1>4, <1>5, XorBlockType, TweakType DEF MixFirst
<1>7. p \in Block
  BY <1>5, <1>6, IndexInPad DEF MixP
<1>8. c = MixC(a, hp_state) /\ first = MixFirst(a, b, hp_state)
      /\ p = MixP(a, b, hp_state)
  OBVIOUS
<1> HIDE DEF c, first, p
<1>9. s \in Block
  <2>1. /\ a[1] \in Word /\ a[2] \in Word /\ c[1] \in Word /\ p[1] \in Word
    BY <1>1, <1>5, <1>7 DEF Block
  <2> QED
    BY <2>1, WordOperators DEF MixSum, Block
<1>10. XorBlock(p, s) = XorBlock(s, p)
  BY <1>7, <1>9, XorBlockCommutes
<1>11. \E z : new = Regs(XorBlock(s, p), c, z, last)
  <2> HIDE DEF new, last, s
  <2>1. CASE port = "portable"
    <3>1. new = Ports!PortableMix(r)
      BY <2>1 DEF new
    <3>2. new = Regs(XorBlock(p, s), c, Ports!Tweaked(s), last)
      BY <1>1, <1>5, <1>8, <3>1, PortableMixes DEF s, last
    <3> QED
      BY <1>10, <3>2
  <2>2. CASE port = "arm"
    <3>1. new = Ports!ArmMix(r)
      BY <2>2 DEF new
    <3>2. new = Regs(XorBlock(p, s), c, Ports!Zero, last)
      BY <1>1, <1>5, <1>6, <1>8, <3>1, ArmMixes DEF s, last
    <3> QED
      BY <1>10, <3>2
  <2>3. CASE port = "neon"
    <3>1. new = Ports!NeonMix(r)
      BY <2>3 DEF new
    <3>2. new = Regs(XorBlock(s, p), c, Ports!Zero, last)
      BY <1>1, <1>5, <1>8, <3>1, NeonMixes DEF s, last
    <3> QED
      BY <3>2
  <2> QED
    BY <2>1, <2>2, <2>3
<1> HIDE DEF new
<1>12. hp_state' = last /\ a' = XorBlock(s, p) /\ b' = c
  <2> HIDE DEF s, last
  <2>1. PICK z : new = Regs(XorBlock(s, p), c, z, last)
    BY <1>11
  <2>2. new.a = XorBlock(s, p) /\ new.b = c /\ new.pad = last
    BY <2>1 DEF Regs
  <2> QED
    BY <1>3, <2>2
<1>13. last = [first EXCEPT ![state_index(c)] = <<s[1], VARIANT1_2(s[2])>>]
  BY SameTweaks DEF MixPad, Ports!Tweaked
<1> HIDE DEF last
<1> QED
  BY <1>1, <1>2, <1>12, <1>13 DEF Mix, s, c, first, p, MixC, MixFirst, MixP, MixSum

-----------------------------------------------------------------------------
PortInv == port \in {"neon", "arm", "portable"}

(* Every step of a copy is a step of the reference.                        *)
LEMMA PortStep ==
  ASSUME Ports!ZeroAssumption, IInv, PortInv, [Ports!Next]_(Ports!vars)
  PROVE  PortInv' /\ [Next]_vars
<1>1. CASE UNCHANGED Ports!vars
  BY <1>1 DEF Ports!vars, Ports!Reference!vars, vars, PortInv
<1>2. CASE Ports!Next
  <2>1. PortInv'
    BY <1>2 DEF PortInv, Ports!Next, Ports!AssertFails, Ports!TooShort,
                Ports!Prepare, Ports!Explode, Ports!StartMix, Ports!Mix,
                Ports!StartImplode, Ports!Implode, Ports!Finish
  <2>2. Next
    BY <1>2, SharedSteps, ExplodeStep, ImplodeStep, MixStep
       DEF Ports!Next, PortInv, Next
  <2> QED
    BY <2>1, <2>2
<1> QED
  BY <1>1, <1>2

(* Every copy begins as the reference.                                     *)
LEMMA PortInit ==
  ASSUME Ports!Init
  PROVE  PortInv /\ Init
<1>1. Ports!Reference!Init => Init
  BY DEF Ports!Reference!Init, Init, Ports!Reference!Pad, Pad,
         Ports!Reference!Nothing, Nothing
<1> QED
  BY <1>1 DEF Ports!Init, PortInv

(* The three other copies of cn_slow_hash implement the x86-64 one, for    *)
(* every size of the pad, every number of iterations and all instructions: *)
(* they exchange buffers, work in place or add keys earlier, and pass      *)
(* through the same scratchpads to the same hash.                          *)
THEOREM PortsImplementSlowHash ==
  ASSUME Ports!ZeroAssumption
  PROVE  Ports!Spec => Spec
<1>1. Ports!Init => IInv /\ PortInv /\ Init
  BY PortInit, InitInv
<1>2. IInv /\ PortInv /\ [Ports!Next]_(Ports!vars)
        => IInv' /\ PortInv' /\ [Next]_vars
  BY PortStep, NextInv
<1> QED
  BY <1>1, <1>2, PTL DEF Ports!Spec, Spec

(* So what holds of the reference holds of every copy: none of them mixes  *)
(* memory that an earlier hash, or the stack, has left behind.             *)
THEOREM PortsNoStaleBlock ==
  ASSUME Ports!ZeroAssumption
  PROVE  Ports!Spec => []NoStaleBlock
BY PortsImplementSlowHash, SlowHashNoStaleBlock, PTL
=============================================================================
