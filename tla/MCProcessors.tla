---------------------------- MODULE MCProcessors ----------------------------
(* Code that exists in several forms, one per processor or library, and has *)
(* to compute the same everywhere: AES, the copies of cn_slow_hash, integer *)
(* arithmetic, multiway SHA-256, and the detection of the processor itself. *)
(* The parts share no state, so a behaviour is one of a single machine, the *)
(* one `which` names: s1 .. s11 are its variables in the order of its       *)
(* declaration.                                                             *)
EXTENDS Integers, Sequences, TLC, MCPrimitives

CONSTANTS Ctxs,    \* contexts of OpenAES
          Stale    \* uninitialised memory in the copies of cn_slow_hash

VARIABLES which, s1, s2, s3, s4, s5, s6, s7, s8, s9, s10, s11

vars == <<which, s1, s2, s3, s4, s5, s6, s7, s8, s9, s10, s11>>

\* Contexts are interchangeable.
Symmetry == Permutations(Ctxs)

Unused == "unused"

-----------------------------------------------------------------------------
\* Every allocation may fail, no messages.
OA == INSTANCE OpenAes WITH
    ctx <- s1, heap <- s2, keys <- s3, wire <- s4, rc <- s5, got <- s6, busy <- s7,
    BLOCK <- 4, KeyLens <- {4}, Texts <- {}, Fails <- {"ctx", "key", "data", "exp"},
    MaxCalls <- 3

\* Messages without blocks and with a padded one, and no failures.
PadLike(lens) == {[i \in 1..n |-> {<<"num", i, 0, 0>>}] : n \in lens}   \* they look like a pad

OM == INSTANCE OpenAes WITH
    ctx <- s1, heap <- s2, keys <- s3, wire <- s4, rc <- s5, got <- s6, busy <- s7,
    BLOCK <- 3, KeyLens <- {3}, Texts <- PadLike({0, 4}), Fails <- {}, MaxCalls <- 3

\* Every value of every byte of a block.
AR == INSTANCE AesRound WITH pos <- s1, block <- s2

\* The three lengths of a key, with three keys and texts each.
AB == INSTANCE AesBlock WITH
    key <- s1, text <- s2, exp <- s3, c <- s4, i <- s5, pc <- s6,
    KeyLens <- {16, 24, 32}, Seeds <- {0, 1, 2}

\* A pad of four blocks, in groups of two, so that both accesses of an iteration
\* often hit the same block; lengths and versions around their limits.
CP == INSTANCE CnSlowHashPorts WITH
    port <- s1, pc <- s2, input <- s3, state <- s4, text <- s5, tweak1_2 <- s6,
    i <- s7, hp_state <- s8, a <- s9, b <- s10, hash <- s11,
    Word <- W, TotalBlocks <- 4, InitBlocks <- 2, Iterations <- 6, TweakUnit <- 1,
    Inputs <- HeaderInputs({0, 42, 43}, {6, 7, 128}, 1..12, 2),
    Xor <- MCXor, Add <- MCAdd, MulHi <- MCMulHi, MulLo <- MCMulLo,
    AesRound <- MCAesRound, KeyGenAssist <- MCKeyGenAssist, Shuffle <- MCShuffle,
    ShiftLane <- MCShiftLane, keccakf <- MCkeccakf, LowBits <- MCLowBits,
    extra_hashes <- MCextra_hashes

\* Words of two dwords of 4 bits; all first operands and those second ones whose low
\* dword is at an edge.
EdgeWords == {16 * h + l : h \in 0..15, l \in {0, 15}}

IU == INSTANCE IntUtil WITH
    x <- s1, y <- s2, H <- 4, Operands <- EdgeWords

\* Two ways of two bytes of two bits, the same operands.
MI == INSTANCE MultiwayInteger WITH
    x <- s1, y <- s2, ByteBits <- 2, Way <- 2, Operands <- EdgeWords

MS == INSTANCE MultiwaySha256 WITH
    impl <- s1, count <- s2, left <- s3, t <- s4, r <- s5, saved <- s6, w <- s7, out <- s8

\* Processors of every level, whose registers are all ones or zeros but for one bit.
OddProcessors ==
    [level : {0, 1, 6, 7, 12, 13}, ext : BOOLEAN, ones : BOOLEAN,
     odd : {"0", "1", "7", "d", "ext0", "ext1"} \X {"ax", "bx", "cx", "dx"} \X (0..31),
     xcr0 : {{}, {1, 2}, {5, 6, 7}, {1, 2, 5, 6, 7}}]
OddCpuid(cpu, answer, bit) == cpu.ones # (cpu.odd = <<answer[1], answer[2], bit>>)

CF == INSTANCE CpuFeatures WITH
    cpu <- s1, pc <- s2, reg <- s3, has <- s4, features <- s5,
    Processors <- OddProcessors, Cpuid <- OddCpuid

ASSUME SmallInstances ==
    /\ OA!OpenAesAssumption /\ OM!OpenAesAssumption
    /\ CP!ZeroAssumption
    /\ IU!WidthAssumption
    /\ MI!SizeAssumption
    /\ CF!ProcessorsAssumption

-----------------------------------------------------------------------------
From3 == <<s3, s4, s5, s6, s7, s8, s9, s10, s11>>
From6 == <<s6, s7, s8, s9, s10, s11>>
From7 == <<s7, s8, s9, s10, s11>>
From8 == <<s8, s9, s10, s11>>
From9 == <<s9, s10, s11>>

Unset9 == s9 = Unused /\ s10 = Unused /\ s11 = Unused
Unset8 == s8 = Unused /\ Unset9
Unset7 == s7 = Unused /\ Unset8
Unset6 == s6 = Unused /\ Unset7
Unset3 == s3 = Unused /\ s4 = Unused /\ s5 = Unused /\ Unset6

Init ==
    \/ which = "oaes keys" /\ OA!Init /\ Unset8
    \/ which = "oaes messages" /\ OM!Init /\ Unset8
    \/ which = "aes round" /\ AR!Init /\ Unset3
    \/ which = "aes block" /\ AB!Init /\ Unset7
    \/ which = "ports" /\ CP!Init
    \/ which = "int-util" /\ IU!Init /\ Unset3
    \/ which = "multiway integer" /\ MI!Init /\ Unset3
    \/ which = "multiway sha256" /\ MS!Init /\ Unset9
    \/ which = "cpu features" /\ CF!Init /\ Unset6

Next ==
    \/ which = "oaes keys" /\ OA!Next /\ UNCHANGED <<which, From8>>
    \/ which = "oaes messages" /\ OM!Next /\ UNCHANGED <<which, From8>>
    \/ which = "aes round" /\ AR!Next /\ UNCHANGED <<which, From3>>
    \/ which = "aes block" /\ AB!Next /\ UNCHANGED <<which, From7>>
    \/ which = "ports" /\ CP!Next /\ UNCHANGED which
    \/ which = "int-util" /\ IU!Next /\ UNCHANGED <<which, From3>>
    \/ which = "multiway integer" /\ MI!Next /\ UNCHANGED <<which, From3>>
    \/ which = "multiway sha256" /\ MS!Next /\ UNCHANGED <<which, From9>>
    \/ which = "cpu features" /\ CF!Next /\ UNCHANGED <<which, From6>>

Spec == Init /\ [][Next]_vars

-----------------------------------------------------------------------------
\* Whichever calloc of OpenAES fails, all memory belongs to a context, nothing is freed
\* twice, and a context has no key or an expanded one.
OpenAesSurvivesFailures == which = "oaes keys" => OA!NoLeak /\ OA!KeyIsExpanded

\* Every message of oaes_encrypt can be opened, although iv and options of the context
\* move on; what oaes_decrypt and the import of keys accept is what was encrypted or
\* exported, and neither takes what belongs to the other.
OpenAesRoundTrips == which = "oaes messages" => OM!RoundTrips /\ OM!MessagesOpen

\* The tables of oaes_lib.c and aesb.c are field arithmetic, the round of aesb.c is
\* that of OpenAES, and the steps of decryption undo those of encryption.
AesRoundsAgree ==
    which = "aes round" => AR!TablesAreFieldArithmetic /\ AR!RoundsAgree /\ AR!StepsAreUndone

\* OpenAES computes the examples of FIPS 197 for the three lengths of a key, and
\* decrypts what it encrypts; aesb_pseudo_round and oaes_pseudo_encrypt_ecb give the
\* same block; both functions aes_expand_key, with x86 and with ARM instructions, give
\* the keys of oaes_key_expand.
AesBlocksAgree ==
    which = "aes block" =>
        /\ AB!KnownAnswers /\ AB!DecryptUndoesEncrypt
        /\ AB!PseudoRoundsAgree /\ AB!SchedulesAgree

\* Each of the three other copies of cn_slow_hash takes the steps of the x86-64 one: it
\* goes through the same scratchpads and ends with the same hash, whichever buffer its
\* exchanges have left a value in.
PortsImplementReference ==
    /\ which = "ports" => CP!ReferenceStart
    /\ [][which = "ports" => CP!ReferenceStep]_vars

\* The products of int-util.h and slow-hash.c from half-width products and the
\* quotients of div128_32 dword by dword are exact; byte swaps reverse, alone and over
\* arrays, and rotations add up.
IntUtilIsExact ==
    which = "int-util" => IU!ProductIsExact /\ IU!DivisionIsExact /\ IU!OrderIsReversed

\* Packed and slow multiway integers agree way by way, for every operation, and save
\* writes back what load has read, whatever the order of lanes and bytes.
WaysAreIndependent ==
    which = "multiway integer" => MI!WaysAreIndependent /\ MI!SaveUndoesLoad

\* process_trunk and the kernel take the steps of FIPS 180-4, in every way: renamed
\* registers and the 16 words kept in place are its variables and its schedule.  The
\* digests in memory are those of the tests and of FIPS 180-4.
Sha256ImplementsStandard ==
    /\ which = "multiway sha256" => MS!StandardStart
    /\ [][which = "multiway sha256" => MS!StandardStep /\ (MS!KnownAnswers)']_vars

\* get_cpu_features reports a feature exactly when its own leaf does and the operating
\* system saves its registers.
CpuReportsOwnLeaf == which = "cpu features" => CF!ReportsOwnLeaf
=============================================================================
