--------------------------- MODULE CnSlowHashPorts ---------------------------
(***************************************************************************)
(* cn_slow_hash of src/src/hash/monero/slow-hash.c for other processors:   *)
(* ARMv8 with AES instructions ("neon"), ARM without ("arm"), and the      *)
(* portable code ("portable").  They keep the same variables as the x86-64 *)
(* code and differ in the rounds and in the mixing loop, where arm and     *)
(* portable exchange buffers instead of naming them anew.                  *)
(*                                                                         *)
(* The key schedule is that of the reference: module AesBlock shows that   *)
(* the three schedules compute the same keys.  The pad is an array on the  *)
(* stack, and OpenAES does not fail here (see SlowHashThreads).            *)
(***************************************************************************)
EXTENDS CryptoNight

VARIABLES port, pc, input, state, text, tweak1_2, i, hp_state, a, b, hash

Reference == INSTANCE CnSlowHash

vars == <<port, Reference!vars>>

\* What the instances have to satisfy; the module that makes them assumes it.
ZeroAssumption == 0 \in Word /\ \A x \in Word : Xor(x, 0) = x
Zero == <<0, 0>>

Init == port \in {"neon", "arm", "portable"} /\ Reference!Init

\* monero_standard, Keccak, the check of the length and the tweak are the same.
AssertFails == Reference!AssertFails /\ UNCHANGED port
TooShort == Reference!TooShort /\ UNCHANGED port
Prepare == Reference!Prepare /\ UNCHANGED port

-----------------------------------------------------------------------------
\* vaeseq_u8 and vaesmcq_u8: the key is added before the round.
Aese(x, key) == AesRound(XorBlock(x, key))

\* Ten rounds that begin with the addition of `first` and end with the last key.
NeonRounds(d, first, k) ==
  LET d5 == Aese(Aese(Aese(Aese(Aese(d, first), k[1]), k[2]), k[3]), k[4])
  IN  XorBlock(Aese(Aese(Aese(Aese(Aese(d5, k[5]), k[6]), k[7]), k[8]), k[9]), k[10])

\* aesb_pseudo_round for the others (module AesBlock).
Rounds(d, x, k) ==
  IF port = "neon" THEN NeonRounds(d, x, k) ELSE Reference!TenRounds(XorBlock(d, x), k)

Explode ==
  /\ pc = "explode" /\ i < Reference!Passes
  /\ LET k == Reference!aes_expand_key(state.blocks[0], state.blocks[1])
     IN  text' = [n \in Text |-> Rounds(text[n], Zero, k)]
  /\ hp_state' = [n \in Pad |-> IF n \in Reference!Slice THEN text'[n - i * InitBlocks]
                                                         ELSE hp_state[n]]
  /\ i' = i + 1
  /\ UNCHANGED <<port, pc, input, state, tweak1_2, a, b, hash>>

Implode ==
  /\ pc = "implode" /\ i < Reference!Passes
  /\ LET k == Reference!aes_expand_key(state.blocks[2], state.blocks[3])
     IN  text' = [n \in Text |-> Rounds(text[n], hp_state[i * InitBlocks + n], k)]
  /\ i' = i + 1
  /\ UNCHANGED <<port, pc, input, state, tweak1_2, hp_state, a, b, hash>>

-----------------------------------------------------------------------------
\* The mixing loop on registers r: a, b, c and the pad.
e2i(x) == (x[1] \div 16) % TotalBlocks
state_index(x) == (x[1] % (16 * TotalBlocks)) \div 16    \* & MASK

mul(x, y) == <<MulHi(x[1], y[1]), MulLo(x[1], y[1])>>
sum_half_blocks(x, y) == <<Add(x[1], y[1]), Add(x[2], y[2])>>
swap_blocks_ab(r) == [r EXCEPT !.a = r.b, !.b = r.a]
swap_blocks_bc(r) == [r EXCEPT !.b = r.c, !.c = r.b]
swap_blocks_bp(r, j) == [r EXCEPT !.b = r.pad[j], !.pad[j] = r.b]
VARIANT1_1(r, j) == [r EXCEPT !.pad[j] = Reference!VARIANT1_1(@)]
Tweaked(x) == <<x[1], Reference!VARIANT1_2(x[2])>>

\* Mutated form of PortableMix: VARIANT1_2 comes before xor_blocks.
PortableMix_earlyTweak(r) ==
  LET j  == e2i(r.a)
      r1 == [r EXCEPT !.c = Aesenc(r.pad[j], r.a)]
      r2 == swap_blocks_bc([r1 EXCEPT !.b = XorBlock(@, r1.c)])
      r3 == VARIANT1_1(swap_blocks_ab([r2 EXCEPT !.pad[j] = r2.c]), j)
      k  == e2i(r3.a)
      r4 == [r3 EXCEPT !.c = r3.pad[k]]
      r5 == swap_blocks_bc([r4 EXCEPT !.b = sum_half_blocks(@, mul(r4.a, r4.c))])
      r6 == [r5 EXCEPT !.b = XorBlock(@, Tweaked(r5.c)), !.c = Tweaked(@)]
  IN  swap_blocks_ab([r6 EXCEPT !.pad[k] = r6.c])

PortableMix(r) ==
  LET j  == e2i(r.a)
      r1 == [r EXCEPT !.c = Aesenc(r.pad[j], r.a)]
      r2 == swap_blocks_bc([r1 EXCEPT !.b = XorBlock(@, r1.c)])
      r3 == VARIANT1_1(swap_blocks_ab([r2 EXCEPT !.pad[j] = r2.c]), j)
      k  == e2i(r3.a)
      r4 == [r3 EXCEPT !.c = r3.pad[k]]
      r5 == swap_blocks_bc([r4 EXCEPT !.b = sum_half_blocks(@, mul(r4.a, r4.c))])
      r6 == [r5 EXCEPT !.b = XorBlock(@, r5.c), !.c = Tweaked(@)]
  IN  swap_blocks_ab([r6 EXCEPT !.pad[k] = r6.c])

\* p points into the pad, where the round and the exchanges happen in place.
ArmMix(r) ==
  LET j  == state_index(r.a)
      r1 == [r EXCEPT !.pad[j] = Aesenc(@, r.a)]
      r2 == swap_blocks_bp([r1 EXCEPT !.b = XorBlock(@, r1.pad[j])], j)
      r3 == VARIANT1_1(swap_blocks_ab(r2), j)
      k  == state_index(r3.a)
      r4 == swap_blocks_bp([r3 EXCEPT !.b = sum_half_blocks(@, mul(r3.a, r3.pad[k]))], k)
      r5 == swap_blocks_ab([r4 EXCEPT !.b = XorBlock(@, r4.pad[k])])
  IN  [r5 EXCEPT !.pad[k] = Tweaked(@)]

\* pre_aes, the round and post_aes.
NeonMix(r) ==
  LET j  == e2i(r.a)
      c  == XorBlock(Aese(r.pad[j], Zero), r.a)
      r1 == VARIANT1_1([r EXCEPT !.pad[j] = XorBlock(r.b, c)], j)
      k  == e2i(c)
      p  == r1.pad[k]
      s  == sum_half_blocks(r.a, mul(c, p))
  IN  [r1 EXCEPT !.pad[k] = Tweaked(s), !.a = XorBlock(s, p), !.b = c]

Mix ==
  LET r   == [a |-> a, b |-> b, c |-> Zero, pad |-> hp_state]
      new == CASE port = "portable" -> PortableMix(r)
               [] port = "arm" -> ArmMix(r)
               [] port = "neon" -> NeonMix(r)
  IN
  /\ pc = "mix" /\ i < Iterations
  /\ hp_state' = new.pad /\ a' = new.a /\ b' = new.b
  /\ i' = i + 1
  /\ UNCHANGED <<port, pc, input, state, text, tweak1_2, hash>>

-----------------------------------------------------------------------------
\* The pieces between the loops are the same.
StartMix == Reference!StartMix /\ UNCHANGED port
StartImplode == Reference!StartImplode /\ UNCHANGED port
Finish == Reference!Finish /\ UNCHANGED port

Next ==
  \/ AssertFails \/ TooShort \/ Prepare \/ Explode \/ StartMix \/ Mix
  \/ StartImplode \/ Implode \/ Finish

Spec == Init /\ [][Next]_vars

\* Every copy of cn_slow_hash goes through the same scratchpads and ends with the same
\* hash as the x86-64 one, whichever buffer its exchanges have left a value in.
ReferenceStart == Reference!Init
ReferenceStep == [Reference!Next]_(Reference!vars)
=============================================================================
