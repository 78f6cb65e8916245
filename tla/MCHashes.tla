------------------------------ MODULE MCHashes ------------------------------
(* The inner hashes of CryptoNight on small instances.  The hashes share no *)
(* state, so a behaviour is one of a single machine, the one `which` names: *)
(* s1 .. s6 are its variables in the order of its declaration.              *)
EXTENDS Integers, Sequences

VARIABLES which, s1, s2, s3, s4, s5, s6

vars == <<which, s1, s2, s3, s4, s5, s6>>

Unused == "unused"

-----------------------------------------------------------------------------
\* Blocks of 4 and 6 bytes, chaining values with and without a precomputed iv,
\* digests of one and of two output blocks.
SK == INSTANCE Skein WITH
    ctx <- s1, phase <- s2, total <- s3, hashVal <- s4,
    Block512 <- 4, Block1024 <- 6, MaxHashBits512 <- 32, CounterBytes <- 2,
    CfgLen <- 3, Precomputed <- {32}, HashLengths <- {12, 32, 56, 96},
    Rems <- {0, 3}, MaxBits <- 107

\* All three block sizes and all rounds.
TF == INSTANCE Threefish WITH
    bits <- s1, round <- s2, inject <- s3, kw <- s4, where <- s5, op <- s6

\* Blocks of 6 bytes; a byte of the length has two values, so that the block
\* counter of two such bytes carries.
GR == INSTANCE Groestl WITH
    ctx <- s1, phase <- s2, total <- s3, output <- s4, call <- s5,
    SIZE512 <- 6, LENGTHFIELDLEN <- 4, ByteBase <- 2, Rems <- {0, 1, 7}, MaxBits <- 199

GC == INSTANCE GroestlRounds WITH
    operation <- s1, call <- s2, col <- s3, written <- s4

\* Blocks of 4 bytes and up to three pieces, the last with a partial byte.
JH == INSTANCE Jh WITH
    state <- s1, phase <- s2, updates <- s3, call <- s4,
    BLOCK <- 4, LenBytes <- 3, ByteBase <- 8, Rems <- {0, 1, 7},
    MaxUpdates <- 3, MaxBits <- 111

JB == INSTANCE JhSbox WITH in <- s1, cc <- s2, m <- s3, stage <- s4

JW == INSTANCE JhSwaps WITH round <- s1, half <- s2, layer <- s3, odd <- s4, dep <- s5

\* Both digests (key -1) and both HMACs.  Keys are shorter than a block, of a block and,
\* for BLAKE-256, longer; pieces are not empty; the count carries at 96 bits.
Use(alg, key) == [alg |-> alg, key |-> key]
BlakeUses ==
    {Use(a, k) : a \in {256, 224}, k \in {-1, 0, 3, 6}}
        \cup {Use(256, 7), Use(256, 13)}

BL == INSTANCE Blake256 WITH
    use <- s1, S <- s2, outer <- s3, phase <- s4, total <- s5, digest <- s6,
    BLOCK <- 6, WordBytes <- 1, TMod <- 96, Digest256 <- 4, Digest224 <- 3,
    Uses <- BlakeUses, MinPiece <- 1, MaxBytes <- 26

BR == INSTANCE BlakeRounds WITH round <- s1, g <- s2, added <- s3, mixed <- s4

\* The sizes of the source; digest lengths on both sides of every check.
KE == INSTANCE Keccak WITH
    mdlen <- s1, total <- s2, inlen <- s3, st <- s4, top <- s5, phase <- s6,
    STATE_T <- 200, TEMP <- 144, HASH_DATA_AREA <- 136, WORD <- 8,
    MdLens <- {0, 24, 28, 32, 33, 64, 96, 100, 101, 200}, MaxLen <- 300

KF == INSTANCE KeccakF WITH
    round <- s1, step <- s2, i <- s3, st <- s4, bc <- s5, t <- s6, ROUNDS <- 24

ASSUME SmallInstances ==
    /\ SK!SkeinAssumption
    /\ GR!GroestlAssumption
    /\ JH!JhAssumption
    /\ BL!BlakeAssumption
    /\ KE!KeccakAssumption
    /\ KF!RoundsAssumption

-----------------------------------------------------------------------------
Init ==
    \/ which = "skein" /\ SK!Init /\ s5 = Unused /\ s6 = Unused
    \/ which = "threefish" /\ TF!Init
    \/ which = "groestl" /\ GR!Init /\ s6 = Unused
    \/ which = "groestl rounds" /\ GC!Init /\ s5 = Unused /\ s6 = Unused
    \/ which = "jh" /\ JH!Init /\ s5 = Unused /\ s6 = Unused
    \/ which = "jh sbox" /\ JB!Init /\ s5 = Unused /\ s6 = Unused
    \/ which = "jh swaps" /\ JW!Init /\ s6 = Unused
    \/ which = "blake" /\ BL!Init
    \/ which = "blake rounds" /\ BR!Init /\ s5 = Unused /\ s6 = Unused
    \/ which = "keccak" /\ KE!Init
    \/ which = "keccakf" /\ KF!Init

KeccakNext == which = "keccak" /\ KE!Next /\ UNCHANGED which

Next ==
    \/ which = "skein" /\ SK!Next /\ UNCHANGED <<which, s5, s6>>
    \/ which = "threefish" /\ TF!Next /\ UNCHANGED which
    \/ which = "groestl" /\ GR!Next /\ UNCHANGED <<which, s6>>
    \/ which = "groestl rounds" /\ GC!Next /\ UNCHANGED <<which, s5, s6>>
    \/ which = "jh" /\ JH!Next /\ UNCHANGED <<which, s5, s6>>
    \/ which = "jh sbox" /\ JB!Next /\ UNCHANGED <<which, s5, s6>>
    \/ which = "jh swaps" /\ JW!Next /\ UNCHANGED <<which, s6>>
    \/ which = "blake" /\ BL!Next /\ UNCHANGED which
    \/ which = "blake rounds" /\ BR!Next /\ UNCHANGED <<which, s5, s6>>
    \/ KeccakNext
    \/ which = "keccakf" /\ KF!Next /\ UNCHANGED which

\* The thread that has called keccak runs on; nobody need call the others.
Spec == Init /\ [][Next]_vars /\ WF_vars(KeccakNext)

-----------------------------------------------------------------------------
\* Skein's Update and Final: however the message is cut into pieces, the digest is
\* the one of the whole message, with the tweaks of the reference; Skein_512_Update
\* keeps the last block back, so that Final can mark it.
SkeinHashesWholeMessage ==
    which = "skein" => SK!HashesWholeMessage /\ SK!HoldsLastBlockBack

\* Groestl's Update and Final compress the padded message with the number of its
\* blocks, whatever the pieces; between two calls blocks, buffer and counters are
\* those of the message.
GroestlHashesPaddedMessage ==
    which = "groestl" => GR!HashesPaddedMessage /\ GR!BufferIsTail

\* JH's Update and Final compress the padded message; bytes copied from behind the
\* data never reach F8.
JhHashesPaddedMessage == which = "jh" => JH!HashesPaddedMessage

\* BLAKE's digest is that of the padded message with its count of bits, and "HMAC is
\* specified by RFC 2104": for non-empty pieces, and HMAC-BLAKE-224 for keys of at
\* most a block.
BlakeHashesPaddedMessage ==
    which = "blake" => BL!HashesPaddedMessage /\ BL!HmacIsRFC2104

\* keccak never leaves temp, for every digest length and every message, and absorbs
\* the padded message, for digests of whole words.
KeccakAbsorbsPaddedMessage ==
    which = "keccak" => KE!StaysInTemp /\ KE!AbsorbsPaddedMessage

\* keccak returns or reports "Bad keccak use" (s1 is mdlen, s6 is phase), unless the
\* digest is half of the state: then the block is empty and the loop over blocks goes
\* on for ever, since the check of rsiz comes after it.
KeccakEnds == (which = "keccak" /\ s1 # 100) ~> (which = "keccak" /\ s6 \in {"done", "aborted"})

\* Threefish's rounds mix the words that are neighbours in the reference, although
\* the code renames words instead of moving them.
ThreefishMixesNeighbours == [][which = "threefish" => TF!MixStep]_vars

\* The bit-sliced SS and L of JH are its S-boxes and its MDS code; the swaps of E8
\* pair nibbles that have not met, and put all of them back.
JhRoundsSpread ==
    /\ which = "jh sbox" => JB!ComputesSboxes /\ JB!IsMDS
    /\ which = "jh swaps" => JW!EveryRoundDoubles /\ JW!ComesHome

\* Rounds that are written out by hand and work in place are those of the
\* definitions.  Threefish's injections add the subkeys although key and tweak rotate
\* through one array; RND512P and RND512Q read the words of the shifted rows, and the
\* buffers of F512 and OutputTransformation change roles without a round being lost,
\* repeated or read half-written; every round of BLAKE adds every word once, to
\* columns and then to diagonals that do not overlap; keccakf reads no lane that it
\* has overwritten.
RoundsWorkInPlace ==
    /\ which = "threefish" => TF!AddsSubkeys /\ TF!ScheduleInBounds
    /\ which = "groestl rounds" => GC!ShiftsRows /\ GC!RoundsChain
    /\ which = "blake rounds" => BR!AddsEveryWord /\ BR!ColumnsThenDiagonals
    /\ which = "keccakf" => KF!ComputesRound
=============================================================================
