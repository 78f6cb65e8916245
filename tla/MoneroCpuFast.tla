---------------------------- MODULE MoneroCpuFast ----------------------------
(***************************************************************************)
(* monero_cpu_fast of src/src/hash/monero.cpp: CryptoNight variant 1 for   *)
(* block headers of major version 7, with the scratchpad on the stack, the *)
(* blocks of the text in eight registers and the tweak computed on a whole *)
(* word.  It must compute what CnSlowHash computes.                        *)
(***************************************************************************)
EXTENDS CryptoNight

VARIABLES
  pc,            \* the loop that is next, or how the call ended
  input,         \* block_blob and length
  keccak_state,  \* keccak_state, which h0 points to
  tweak1_2_0,    \* tweak1_2_0
  xin,           \* xin0 .. xin7, and xout0 .. xout7
  i,             \* the loop counter: blocks, or iterations of the main loop
  memory,        \* the scratchpad
  al0, ah0, bx0, idx0,  \* registers of the main loop
  result

vars == <<pc, input, keccak_state, tweak1_2_0, xin, i, memory, al0, ah0, bx0,
          idx0, result>>

Nothing == [x \in {} |-> x]

-----------------------------------------------------------------------------
sl_xor(tmp1) ==
  LET a4 == ShiftLane(tmp1)
      x1 == XorBlock(tmp1, a4)
      b4 == ShiftLane(a4)
      x2 == XorBlock(x1, b4)
      c4 == ShiftLane(b4)
  IN  XorBlock(x2, c4)

(* The two new keys, as a pair.                                            *)
aes_genkey_sub(rcon, xout0, xout2) ==
  LET new0 == XorBlock(sl_xor(xout0), Shuffle(KeyGenAssist(xout2, rcon), 255))
      new2 == XorBlock(sl_xor(xout2), Shuffle(KeyGenAssist(new0, 0), 170))
  IN  <<new0, new2>>

aes_expand_key(k0, k1) ==
  LET s1 == aes_genkey_sub(1, k0, k1)
      s2 == aes_genkey_sub(2, s1[1], s1[2])
      s3 == aes_genkey_sub(4, s2[1], s2[2])
      s4 == aes_genkey_sub(8, s3[1], s3[2])
  IN  <<k0, k1, s1[1], s1[2], s2[1], s2[2], s3[1], s3[2], s4[1], s4[2]>>

aes_round(key, x) == [n \in Text |-> Aesenc(x[n], key)]

(* Key after key, each for all blocks.                                     *)
AllRounds(x, k) ==
  LET x5 == aes_round(k[5], aes_round(k[4], aes_round(k[3],
              aes_round(k[2], aes_round(k[1], x)))))
  IN  aes_round(k[10], aes_round(k[9], aes_round(k[8],
              aes_round(k[7], aes_round(k[6], x5)))))

(* idx & 0x1FFFF0, as the number of a block.                               *)
BlockAt(idx) == (idx % (TotalBlocks * 16)) \div 16

(* (0x7531 >> index) & 0x3, shifted by 4 places within the tweaked byte.   *)
TableBits(index) == ((30001 \div 2^index) % 4) * 16

(* The tweak of variant 1 on the high word of a block.                     *)
TweakHigh(vh) ==
  LET x     == ByteOf(vh)
      index == (((x \div 16) % 4) * 2 + (x % 2)) * 2
  IN  Xor(vh, TableBits(index) * TweakUnit)

-----------------------------------------------------------------------------
Init ==
  /\ pc = "start"
  /\ input \in Inputs
  /\ keccak_state = Nothing /\ tweak1_2_0 = Stale /\ xin = Nothing
  /\ i = 0
  /\ memory = [n \in Pad |-> Stale]
  /\ al0 = Stale /\ ah0 = Stale /\ bx0 = <<Stale, Stale>> /\ idx0 = Stale
  /\ result = Nothing

Accepted == input.length >= 76 /\ input.length <= 80 /\ input.major = 7

AssertFails ==
  /\ pc = "start" /\ ~Accepted
  /\ pc' = "abort"
  /\ UNCHANGED <<input, keccak_state, tweak1_2_0, xin, i, memory, al0, ah0,
                 bx0, idx0, result>>

LoadText(s) == [n \in Text |-> s.blocks[4 + n]]

(* Keccak, the tweak, and the registers cn_explode_scratchpad loads.       *)
Prepare ==
  /\ pc = "start" /\ Accepted
  /\ keccak_state' = input.keccak1600
  /\ tweak1_2_0' = Xor(input.keccak1600.w24, input.nonce)
  /\ xin' = LoadText(input.keccak1600)
  /\ pc' = "explode" /\ i' = 0
  /\ UNCHANGED <<input, memory, al0, ah0, bx0, idx0, result>>

(* Mutated form of Explode: the counter advances by one block only.        *)
Explode_by_one ==
  /\ pc = "explode" /\ i < TotalBlocks
  /\ xin' = AllRounds(xin, aes_expand_key(keccak_state.blocks[0],
                                          keccak_state.blocks[1]))
  /\ memory' = [n \in Pad |-> IF i <= n /\ n < i + InitBlocks
                              THEN xin'[n - i] ELSE memory[n]]
  /\ i' = i + 1
  /\ UNCHANGED <<pc, input, keccak_state, tweak1_2_0, al0, ah0, bx0, idx0,
                 result>>

Explode ==
  /\ pc = "explode" /\ i < TotalBlocks
  /\ xin' = AllRounds(xin, aes_expand_key(keccak_state.blocks[0],
                                          keccak_state.blocks[1]))
  /\ memory' = [n \in Pad |-> IF i <= n /\ n < i + InitBlocks
                              THEN xin'[n - i] ELSE memory[n]]
  /\ i' = i + InitBlocks
  /\ UNCHANGED <<pc, input, keccak_state, tweak1_2_0, al0, ah0, bx0, idx0,
                 result>>

StartMix ==
  LET h0 == keccak_state.blocks IN
  /\ pc = "explode" /\ ~(i < TotalBlocks)
  /\ al0' = Xor(h0[0][1], h0[2][1])
  /\ ah0' = Xor(h0[0][2], h0[2][2])
  /\ bx0' = <<Xor(h0[1][1], h0[3][1]), Xor(h0[1][2], h0[3][2])>>
  /\ idx0' = al0'
  /\ pc' = "mix" /\ i' = 0
  /\ UNCHANGED <<input, keccak_state, tweak1_2_0, xin, memory, result>>

(* Mutated form of Mix: cl and ch are loaded before the first store.       *)
Mix_early_load ==
  LET m     == BlockAt(idx0)
      cx    == Aesenc(memory[m], <<al0, ah0>>)
      tmp   == XorBlock(bx0, cx)
      first == [memory EXCEPT ![m] = <<tmp[1], TweakHigh(tmp[2])>>]
      k     == BlockAt(cx[1])
      cl    == memory[k][1]
      ch    == memory[k][2]
      al    == Add(al0, MulHi(cx[1], cl))
      ah    == Add(ah0, MulLo(cx[1], cl))
  IN
  /\ pc = "mix" /\ i < Iterations
  /\ memory' = [first EXCEPT ![k] = <<al, Xor(ah, tweak1_2_0)>>]
  /\ bx0' = cx
  /\ al0' = Xor(al, cl) /\ ah0' = Xor(ah, ch) /\ idx0' = al0'
  /\ i' = i + 1
  /\ UNCHANGED <<pc, input, keccak_state, tweak1_2_0, xin, result>>

Mix ==
  LET m     == BlockAt(idx0)
      cx    == Aesenc(memory[m], <<al0, ah0>>)
      tmp   == XorBlock(bx0, cx)
      first == [memory EXCEPT ![m] = <<tmp[1], TweakHigh(tmp[2])>>]
      k     == BlockAt(cx[1])
      cl    == first[k][1]
      ch    == first[k][2]
      al    == Add(al0, MulHi(cx[1], cl))
      ah    == Add(ah0, MulLo(cx[1], cl))
  IN
  /\ pc = "mix" /\ i < Iterations
  /\ memory' = [first EXCEPT ![k] = <<al, Xor(ah, tweak1_2_0)>>]
  /\ bx0' = cx
  /\ al0' = Xor(al, cl) /\ ah0' = Xor(ah, ch) /\ idx0' = al0'
  /\ i' = i + 1
  /\ UNCHANGED <<pc, input, keccak_state, tweak1_2_0, xin, result>>

StartImplode ==
  /\ pc = "mix" /\ ~(i < Iterations)
  /\ xin' = LoadText(keccak_state)
  /\ pc' = "implode" /\ i' = 0
  /\ UNCHANGED <<input, keccak_state, tweak1_2_0, memory, al0, ah0, bx0, idx0,
                 result>>

Implode ==
  /\ pc = "implode" /\ i < TotalBlocks
  /\ xin' = AllRounds([n \in Text |-> XorBlock(memory[i + n], xin[n])],
                      aes_expand_key(keccak_state.blocks[2],
                                     keccak_state.blocks[3]))
  /\ i' = i + InitBlocks
  /\ UNCHANGED <<pc, input, keccak_state, tweak1_2_0, memory, al0, ah0, bx0,
                 idx0, result>>

(* The registers are stored behind the keys, then the permutation and the  *)
(* selected hash.                                                          *)
Finish ==
  /\ pc = "implode" /\ ~(i < TotalBlocks)
  /\ keccak_state' =
       [keccak_state EXCEPT !.blocks =
          [n \in 0 .. 3 + InitBlocks |->
             IF n < 4 THEN keccak_state.blocks[n] ELSE xin[n - 4]]]
  /\ result' = extra_hashes(LowBits(keccakf(keccak_state')),
                            keccakf(keccak_state'))
  /\ pc' = "done"
  /\ UNCHANGED <<input, tweak1_2_0, xin, i, memory, al0, ah0, bx0, idx0>>

Next ==
  \/ AssertFails \/ Prepare \/ Explode \/ StartMix \/ Mix
  \/ StartImplode \/ Implode \/ Finish

Spec == Init /\ [][Next]_vars

-----------------------------------------------------------------------------
(* Properties.                                                             *)

(* Every variable has its type.  A loop over the pad counts in whole       *)
(* groups of blocks, and between two iterations of the main loop idx0 is   *)
(* al0, the address the next one starts from.                              *)
TypeOK ==
  /\ pc \in {"start", "explode", "mix", "implode", "done", "abort"}
  /\ input \in Inputs
  /\ pc \notin {"start", "abort"} =>
       /\ Accepted
       /\ keccak_state \in StateType
       /\ tweak1_2_0 \in Word
       /\ xin \in [Text -> Block]
  /\ i \in Nat
  /\ pc \in {"explode", "implode", "done"} =>
       i <= TotalBlocks /\ i % InitBlocks = 0
  /\ pc = "mix" => i <= Iterations
  /\ memory \in [Pad -> Block \cup {Stale}]
  /\ pc \in {"mix", "implode", "done"} =>
       /\ al0 \in Word /\ ah0 \in Word /\ bx0 \in Block
       /\ idx0 = al0
       /\ memory \in [Pad -> Block]

Standard == INSTANCE CnSlowHash WITH
  pc       <- IF pc = "abort" THEN "start" ELSE pc,
  state    <- keccak_state,
  text     <- xin,
  tweak1_2 <- tweak1_2_0,
  i        <- IF pc \in {"explode", "implode", "done"} THEN i \div InitBlocks
                                                       ELSE i,
  hp_state <- memory,
  a        <- <<al0, ah0>>,
  b        <- bx0,
  hash     <- result

(* For every header it accepts, monero_cpu_fast goes through the same      *)
(* scratchpads and ends with the same hash as the reference.               *)
ImplementsStandard == Standard!Spec
=============================================================================
