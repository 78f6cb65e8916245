----------------------------- MODULE CryptoNight -----------------------------
(***************************************************************************)
(* What the two implementations of CryptoNight have in common: the words,  *)
(* blocks and Keccak state they work on, and the CPU instructions and      *)
(* inner hashes they call.  The implementations are CnSlowHash             *)
(* (src/src/hash/monero/slow-hash.c) and MoneroCpuFast                     *)
(* (src/src/hash/monero.cpp).                                              *)
(*                                                                         *)
(* The instructions are parameters, so that what is proved holds for the   *)
(* real ones; a model gives small ones.                                    *)
(***************************************************************************)
EXTENDS Naturals

CONSTANTS
  Word,            \* 64-bit words, as numbers
  TotalBlocks,     \* 16-byte blocks in the scratchpad: 2^17 in the code
  InitBlocks,      \* INIT_SIZE_BLK, blocks encrypted together: 8 in the code
  Iterations,      \* rounds of the mixing loop: 2^19 in the code
  TweakUnit,       \* weight of the tweaked byte in its word: 2^24
  Stale,           \* what uninitialised or reused memory holds
  Inputs,          \* the inputs to hash
  \* instructions
  Xor(_, _),       \* exclusive or of two words
  Add(_, _),       \* addition modulo 2^64
  MulHi(_, _),     \* high word of the 128-bit product
  MulLo(_, _),     \* low word of the 128-bit product
  AesRound(_),     \* SubBytes, ShiftRows and MixColumns of a block
  KeyGenAssist(_, _),  \* aeskeygenassist
  Shuffle(_, _),   \* pshufd with the same lane everywhere
  ShiftLane(_),    \* a block shifted left by 4 bytes
  \* the outer hashes, on the 200 bytes of state
  keccakf(_), LowBits(_), extra_hashes(_, _)

(* A block is a pair of words, the low one first.                          *)
Block == Word \X Word

XorBlock(x, y) == <<Xor(x[1], y[1]), Xor(x[2], y[2])>>

(* aesenc: a round of AES whose key is added at the end.                   *)
Aesenc(x, key) == XorBlock(AesRound(x), key)

(* The Keccak state: four blocks of keys, the blocks of "init" and, after  *)
(* them, the last word.                                                    *)
StateType == [blocks : [0 .. 3 + InitBlocks -> Block], w24 : Word]

(* An input: its length, its first byte (the major version), the word at   *)
(* offset 35 (the nonce) and what keccak1600 makes of all its bytes.       *)
InputType == [length : Nat, major : 0..255, nonce : Word,
              keccak1600 : StateType]

Pad == 0 .. TotalBlocks - 1
Text == 0 .. InitBlocks - 1
Rcon == {0, 1, 2, 4, 8}
TweakBits == {0, 16, 32, 48}

ASSUME SizesAssumption ==
  /\ InitBlocks \in Nat \ {0}
  /\ TotalBlocks \in Nat \ {0}
  /\ TotalBlocks % InitBlocks = 0
  /\ Iterations \in Nat
  /\ TweakUnit \in Nat \ {0}

ASSUME WordsAssumption ==
  /\ Word \subseteq Nat
  /\ \A v \in TweakBits : v * TweakUnit \in Word
  /\ Stale \notin Word /\ Stale \notin Block
  /\ Inputs \subseteq InputType

ASSUME WordOperators ==
  \A x, y \in Word :
    /\ Xor(x, y) \in Word /\ Xor(x, y) = Xor(y, x)
    /\ Add(x, y) \in Word
    /\ MulHi(x, y) \in Word /\ MulLo(x, y) \in Word

ASSUME BlockOperators ==
  \A x \in Block :
    /\ AesRound(x) \in Block
    /\ ShiftLane(x) \in Block
    /\ \A r \in Rcon : KeyGenAssist(x, r) \in Block
    /\ \A lane \in {255, 170} : Shuffle(x, lane) \in Block

ByteOf(w) == (w \div TweakUnit) % 256

(* Exclusive or works on each byte of a word by itself; stated for the     *)
(* byte and the bits that the tweak changes.                               *)
ASSUME XorIsBytewise ==
  \A w \in Word, v \in TweakBits :
    Xor(w, v * TweakUnit) =
      (w - ByteOf(w) * TweakUnit) + Xor(ByteOf(w), v) * TweakUnit
=============================================================================
