----------------------------- MODULE CnSlowHash -----------------------------
(***************************************************************************)
(* The reference implementation: monero_standard of                        *)
(* src/src/hash/monero.cpp, which calls cn_slow_hash of                    *)
(* src/src/hash/monero/slow-hash.c (the x86-64 code with AES               *)
(* instructions).  One action is one body of a loop or one straight piece  *)
(* of code between two loops; a block is 16 bytes, so an address in the    *)
(* scratchpad is the number of a block.                                    *)
(***************************************************************************)
EXTENDS CryptoNight

VARIABLES
  pc,        \* the loop or piece of code that is next, or how it ended
  input,     \* data and length
  state,     \* state
  text,      \* text
  tweak1_2,  \* tweak1_2
  i,         \* the loop counter
  hp_state,  \* the scratchpad, allocated or left by an earlier hash
  a, b,      \* the registers a and _b of the mixing loop
  hash       \* the result

vars == <<pc, input, state, text, tweak1_2, i, hp_state, a, b, hash>>

Nothing == [x \in {} |-> x]

-----------------------------------------------------------------------------
(* The key schedule and the ten rounds that fill and drain the scratchpad. *)

SlXor(t) ==
  LET s1 == ShiftLane(t)
      s2 == ShiftLane(s1)
      s3 == ShiftLane(s2)
  IN  XorBlock(XorBlock(XorBlock(t, s1), s2), s3)

aes_256_assist1(t1, t2) == XorBlock(SlXor(t1), Shuffle(t2, 255))

aes_256_assist2(t1, t3) ==
  XorBlock(SlXor(t3), Shuffle(KeyGenAssist(t1, 0), 170))

(* The code computes an eleventh key, too, which nothing uses.             *)
aes_expand_key(k0, k1) ==
  LET k2 == aes_256_assist1(k0, KeyGenAssist(k1, 1))
      k3 == aes_256_assist2(k2, k1)
      k4 == aes_256_assist1(k2, KeyGenAssist(k3, 2))
      k5 == aes_256_assist2(k4, k3)
      k6 == aes_256_assist1(k4, KeyGenAssist(k5, 4))
      k7 == aes_256_assist2(k6, k5)
      k8 == aes_256_assist1(k6, KeyGenAssist(k7, 8))
      k9 == aes_256_assist2(k8, k7)
  IN  <<k0, k1, k2, k3, k4, k5, k6, k7, k8, k9>>

TenRounds(d, k) ==
  LET d5 == Aesenc(Aesenc(Aesenc(Aesenc(Aesenc(d,
              k[1]), k[2]), k[3]), k[4]), k[5])
  IN  Aesenc(Aesenc(Aesenc(Aesenc(Aesenc(d5,
              k[6]), k[7]), k[8]), k[9]), k[10])

(* Block after block, each through all keys.                               *)
aes_pseudo_round(in, k) == [n \in Text |-> TenRounds(in[n], k)]

aes_pseudo_round_xor(in, k, x) ==
  [n \in Text |-> TenRounds(XorBlock(in[n], x[n]), k)]

-----------------------------------------------------------------------------
(* The pieces of the mixing loop.                                          *)

cn_variant(major) == IF major >= 7 THEN major - 6 ELSE 0

variant == cn_variant(input.major)

state_index(x) == (x[1] \div 16) % TotalBlocks

TweakIndex(tmp) == (((tmp \div 16) % 4) * 2 + (tmp % 2)) * 2

(* (0x75310 >> index) & 0x30                                               *)
TableBits(index) == (((480016 \div 2^index) \div 16) % 4) * 16

(* VARIANT1_1 changes byte 11 of a block, which is in its high word.       *)
VARIANT1_1(x) ==
  LET tmp == ByteOf(x[2])
      new == Xor(tmp, TableBits(TweakIndex(tmp)))
  IN  IF variant > 0
      THEN <<x[1], (x[2] - tmp * TweakUnit) + new * TweakUnit>>
      ELSE x

(* Mutated form of VARIANT1_2: the tweak is added, with the carry kept.    *)
VARIANT1_2_added(w) == IF variant > 0 THEN w + tweak1_2 ELSE w

VARIANT1_2(w) == IF variant > 0 THEN Xor(w, tweak1_2) ELSE w

-----------------------------------------------------------------------------
Init ==
  /\ pc = "start"
  /\ input \in Inputs
  /\ state = Nothing /\ text = Nothing /\ tweak1_2 = Stale
  /\ i = 0
  /\ hp_state = [n \in Pad |-> Stale]
  /\ a = <<Stale, Stale>> /\ b = <<Stale, Stale>>
  /\ hash = Nothing

AssertFails ==
  /\ pc = "start"
  /\ input.length = 0 \/ input.major > 127
  /\ pc' = "abort"
  /\ UNCHANGED <<input, state, text, tweak1_2, i, hp_state, a, b, hash>>

(* VARIANT1_CHECK ends the process.                                        *)
TooShort ==
  /\ pc = "start"
  /\ input.length # 0 /\ input.major <= 127
  /\ variant > 0 /\ input.length < 43
  /\ pc' = "exit"
  /\ UNCHANGED <<input, state, text, tweak1_2, i, hp_state, a, b, hash>>

LoadText(s) == [n \in Text |-> s.blocks[4 + n]]

Prepare ==
  /\ pc = "start"
  /\ input.length # 0 /\ input.major <= 127
  /\ ~(variant > 0 /\ input.length < 43)
  /\ state' = input.keccak1600
  /\ text' = LoadText(input.keccak1600)
  /\ tweak1_2' = IF variant > 0 THEN Xor(input.keccak1600.w24, input.nonce)
                                ELSE 0
  /\ pc' = "explode" /\ i' = 0
  /\ UNCHANGED <<input, hp_state, a, b, hash>>

(* The numbers of the blocks that pass i of a loop over the pad handles.   *)
Slice == {n \in Pad : i * InitBlocks <= n /\ n < i * InitBlocks + InitBlocks}

(* Mutated form of Passes: the last pass over the pad is missing.          *)
Passes_short == (TotalBlocks \div InitBlocks) - 1

Passes == TotalBlocks \div InitBlocks

Explode ==
  /\ pc = "explode" /\ i < Passes
  /\ text' = aes_pseudo_round(text, aes_expand_key(state.blocks[0],
                                                   state.blocks[1]))
  /\ hp_state' = [n \in Pad |-> IF n \in Slice
                                THEN text'[n - i * InitBlocks]
                                ELSE hp_state[n]]
  /\ i' = i + 1
  /\ UNCHANGED <<pc, input, state, tweak1_2, a, b, hash>>

StartMix ==
  /\ pc = "explode" /\ i = Passes
  /\ a' = XorBlock(state.blocks[0], state.blocks[2])
  /\ b' = XorBlock(state.blocks[1], state.blocks[3])
  /\ pc' = "mix" /\ i' = 0
  /\ UNCHANGED <<input, state, text, tweak1_2, hp_state, hash>>

(* pre_aes, aesenc and post_aes.  Both accesses may hit the same block:    *)
(* the second one reads what the first one stored.                         *)
Mix ==
  LET j     == state_index(a)
      c     == Aesenc(hp_state[j], a)
      first == [hp_state EXCEPT ![j] = VARIANT1_1(XorBlock(b, c))]
      k     == state_index(c)
      p     == first[k]
      sum   == <<Add(a[1], MulHi(c[1], p[1])), Add(a[2], MulLo(c[1], p[1]))>>
  IN
  /\ pc = "mix" /\ i < Iterations
  /\ hp_state' = [first EXCEPT ![k] = <<sum[1], VARIANT1_2(sum[2])>>]
  /\ a' = XorBlock(sum, p)
  /\ b' = c
  /\ i' = i + 1
  /\ UNCHANGED <<pc, input, state, text, tweak1_2, hash>>

StartImplode ==
  /\ pc = "mix" /\ i = Iterations
  /\ text' = LoadText(state)
  /\ pc' = "implode" /\ i' = 0
  /\ UNCHANGED <<input, state, tweak1_2, hp_state, a, b, hash>>

Implode ==
  /\ pc = "implode" /\ i < Passes
  /\ text' = aes_pseudo_round_xor(text,
               aes_expand_key(state.blocks[2], state.blocks[3]),
               [n \in Text |-> hp_state[i * InitBlocks + n]])
  /\ i' = i + 1
  /\ UNCHANGED <<pc, input, state, tweak1_2, hp_state, a, b, hash>>

(* The text goes back into the state, which is permuted and hashed by one  *)
(* of the four functions its lowest bits select.                           *)
StoreText(s, t) ==
  [s EXCEPT !.blocks = [n \in 0 .. 3 + InitBlocks |->
                          IF n < 4 THEN s.blocks[n] ELSE t[n - 4]]]

Finish ==
  /\ pc = "implode" /\ i = Passes
  /\ state' = StoreText(state, text)
  /\ hash' = extra_hashes(LowBits(keccakf(state')), keccakf(state'))
  /\ pc' = "done"
  /\ UNCHANGED <<input, text, tweak1_2, i, hp_state, a, b>>

Next ==
  \/ AssertFails \/ TooShort \/ Prepare \/ Explode \/ StartMix \/ Mix
  \/ StartImplode \/ Implode \/ Finish

Spec == Init /\ [][Next]_vars

-----------------------------------------------------------------------------
(* Properties.                                                             *)

Ended == {"abort", "exit", "done"}

MaybeStale(S) == S \cup {Stale}

(* Every variable has its type; what is not assigned yet is Nothing or     *)
(* Stale, and what the loops work on is complete.                          *)
TypeOK ==
  /\ pc \in {"start", "explode", "mix", "implode"} \cup Ended
  /\ input \in Inputs
  /\ pc \in {"explode", "mix", "implode", "done"} =>
       state \in StateType /\ text \in [Text -> Block]
       /\ tweak1_2 \in Word \cup {0}
  /\ i \in Nat
  /\ hp_state \in [Pad -> MaybeStale(Block)]
  /\ pc \in {"mix", "implode", "done"} => a \in Block /\ b \in Block

(* The pad is 2 MB of memory that malloc, mmap or the previous hash of the *)
(* thread left behind.  When the mixing loop begins to read it at          *)
(* unpredictable places every block has been written by this hash, and it  *)
(* stays so: nothing of the previous hash can reach the result.            *)
NoStaleBlock ==
  pc \in {"mix", "implode", "done"} => \A n \in Pad : hp_state[n] \in Block
=============================================================================
