----------------------- MODULE SlowHashThreadsProofs -----------------------
(***************************************************************************)
(* Theorems about SlowHashThreads, for any finite set of threads, any      *)
(* number of hashes, all inputs, and whichever allocations fail.           *)
(***************************************************************************)
EXTENDS SlowHashThreads, FiniteSetTheorems, SequenceTheorems, TLAPS

Software == {"alloc", "import", "import2", "free"}
Decided == {"allocate", "check", "alloc", "import", "fill", "import2", "drain", "free"}
Labels == {"idle", "force", "getenv", "hw", "cpuid"} \cup Decided
Origins == {"mmap", "malloc"}
Contexts == {NULL, NoKey, "first", "second"}

TypeOK ==
    /\ NDEBUG \in BOOLEAN
    /\ env \in {"unset", "0", "no", "1"} /\ hw \in BOOLEAN
    /\ use \in {unknown, 0, 1} /\ supported \in {unknown, 0, 1}
    /\ pc \in [Threads -> Labels]
    /\ useAes \in [Threads -> BOOLEAN]
    /\ hp_state \in [Threads -> Origins \cup {NULL}]
    /\ hp_allocated \in [Threads -> BOOLEAN]
    /\ aes_ctx \in [Threads -> Contexts]
    /\ passes \in [Threads -> Seq(Contexts)]
    /\ hashes \in [Threads -> Nat]
    /\ pads \in [Origins -> Nat]
    /\ blocks \in Nat

\* What the caches hold is what the environment and the processor answer, and a
\* thread asks the processor only after the environment has said no.
AnswerInv ==
    /\ use = 1 => Forced
    /\ use = 0 => ~Forced
    /\ supported = 1 => hw
    /\ supported = 0 => ~hw
    /\ \A t \in Threads :
         /\ pc[t] \in {"hw", "cpuid"} => ~Forced
         /\ pc[t] \in Decided => (useAes[t] <=> ~Forced /\ hw)
         /\ pc[t] \in Software => ~useAes[t]

\* The flag remembers the origin of a pad.
PadInv ==
    /\ \A t \in Threads : hp_allocated[t] <=> hp_state[t] = "mmap"
    /\ \A k \in Origins : pads[k] = Cardinality({t \in Threads : hp_state[t] = k})

\* A context exists only between oaes_alloc and oaes_free of a hash without AES
\* instructions.
ContextInv ==
    /\ blocks = Cardinality(WithContext) + 3 * Cardinality(WithKey)
    /\ \A t \in Threads :
         /\ pc[t] \notin {"import", "fill", "import2", "drain", "free"} => aes_ctx[t] = NULL
         /\ pc[t] \in {"fill", "drain"} /\ useAes[t] => aes_ctx[t] = NULL

\* The keys that a hash has used so far, and the one it is about to use.
PassInv ==
    \A t \in Threads :
        /\ pc[t] \in {"force", "getenv", "hw", "cpuid", "allocate", "check", "alloc",
                      "import", "fill"} => passes[t] = <<>>
        /\ pc[t] \in {"import2", "drain"} => passes[t] = <<"first">>
        /\ pc[t] = "free" => passes[t] = <<"first", "second">>
        /\ pc[t] = "idle" /\ hashes[t] > 0 => passes[t] = <<"first", "second">>
        /\ pc[t] = "fill" => aes_ctx[t] # "second"
        /\ pc[t] = "drain" => aes_ctx[t] # "first"

IInv == TypeOK /\ AnswerInv /\ PadInv /\ ContextInv /\ PassInv /\ ReadsInput

-----------------------------------------------------------------------------
(* Counting threads.                                                       *)

Having(f, S) == {t \in Threads : f[t] \in S}
One(v, S) == IF v \in S THEN 1 ELSE 0

LEMMA HavingFinite ==
    ASSUME NEW f, NEW S
    PROVE  IsFiniteSet(Having(f, S)) /\ Cardinality(Having(f, S)) \in Nat
<1>1. Having(f, S) \subseteq Threads
  BY DEF Having
<1>. QED
  BY <1>1, ThreadsAssumption, FS_Subset, FS_CardinalityType

\* When one thread's value changes, only that thread enters or leaves the set.
LEMMA CountUpdate ==
    ASSUME NEW f, NEW g, NEW t \in Threads, NEW S,
           \A u \in Threads : u # t => g[u] = f[u]
    PROVE  Cardinality(Having(g, S)) = (Cardinality(Having(f, S)) - One(f[t], S)) + One(g[t], S)
<1> DEFINE A == Having(f, S)
           B == Having(g, S)
<1>1. /\ IsFiniteSet(A) /\ Cardinality(A) \in Nat
      /\ IsFiniteSet(B) /\ Cardinality(B) \in Nat
  BY HavingFinite
<1>2. /\ t \in A <=> f[t] \in S
      /\ t \in B <=> g[t] \in S
      /\ \A u \in Threads : u # t => (u \in A <=> u \in B)
      /\ A \subseteq Threads /\ B \subseteq Threads
  BY DEF Having
<1> HIDE DEF A, B
<1>3. CASE f[t] \in S /\ g[t] \in S
  <2>1. A = B
    BY <1>2, <1>3
  <2>. QED
    BY <1>1, <1>3, <2>1 DEF A, B, One
<1>4. CASE f[t] \notin S /\ g[t] \notin S
  <2>1. A = B
    BY <1>2, <1>4
  <2>. QED
    BY <1>1, <1>4, <2>1 DEF A, B, One
<1>5. CASE f[t] \in S /\ g[t] \notin S
  <2>1. B = A \ {t} /\ t \in A
    BY <1>2, <1>5
  <2>2. Cardinality(B) = Cardinality(A) - 1
    BY <1>1, <2>1, FS_RemoveElement
  <2>. QED
    BY <1>1, <1>5, <2>2 DEF A, B, One
<1>6. CASE f[t] \notin S /\ g[t] \in S
  <2>1. B = A \cup {t} /\ t \notin A
    BY <1>2, <1>6
  <2>2. Cardinality(B) = Cardinality(A) + 1
    BY <1>1, <2>1, FS_AddElement
  <2>. QED
    BY <1>1, <1>6, <2>2 DEF A, B, One
<1>. QED
  BY <1>3, <1>4, <1>5, <1>6

\* The sets of the invariants as sets of threads with a value.
LEMMA HavingForms ==
    ASSUME NEW f \in [Threads -> Contexts]
    PROVE  /\ {t \in Threads : f[t] # NULL} = Having(f, Contexts \ {NULL})
           /\ {t \in Threads : f[t] \notin {NULL, NoKey}} = Having(f, {"first", "second"})
BY DEF Having, Contexts, NULL, NoKey

-----------------------------------------------------------------------------
(* Every action preserves the invariant.                                   *)

LEMMA InitIInv == Init => IInv
<1> SUFFICES ASSUME Init PROVE IInv
  OBVIOUS
<1>1. TypeOK
  BY DEF Init, TypeOK, Labels, Decided, Contexts, Origins
<1>2. AnswerInv
  BY DEF Init, AnswerInv, Decided, Software, unknown
<1>3. \A t \in Threads : hp_state[t] = NULL /\ aes_ctx[t] = NULL /\ pc[t] = "idle" /\ hashes[t] = 0
  BY DEF Init
<1>4. PadInv
  <2>1. \A k \in Origins : {t \in Threads : hp_state[t] = k} = {}
    BY <1>3 DEF Origins, NULL
  <2>2. \A t \in Threads : hp_allocated[t] = FALSE
    BY DEF Init
  <2>. QED
    BY <1>3, <2>1, <2>2, FS_EmptySet DEF Init, PadInv, Origins, NULL
<1>5. ContextInv
  <2>1. WithContext = {} /\ WithKey = {}
    BY <1>3 DEF WithContext, WithKey
  <2>. QED
    BY <1>3, <2>1, FS_EmptySet DEF Init, ContextInv
<1>6. PassInv
  BY <1>3 DEF PassInv
<1>7. ReadsInput
  BY DEF Init, ReadsInput
<1>. QED
  BY <1>1, <1>2, <1>4, <1>5, <1>6, <1>7 DEF IInv

\* The end of the process changes nothing else.
LEMMA EndIInv ==
    ASSUME IInv, NEW how, End(how), how # "read behind the input",
           how = "read an empty input" => NDEBUG
    PROVE  IInv'
<1>1. /\ process' = how
      /\ UNCHANGED <<NDEBUG, env, hw, use, supported, input, useAes, hp_state, hp_allocated,
                     aes_ctx, passes, hashes, pc, pads, blocks>>
  BY DEF End, shared, local
<1>2. TypeOK' /\ PassInv'
  BY <1>1 DEF IInv, TypeOK, PassInv
<1>3. AnswerInv'
  BY <1>1 DEF IInv, AnswerInv, Forced
<1>4. PadInv'
  BY <1>1 DEF IInv, PadInv
<1>5. ContextInv'
  BY <1>1 DEF IInv, ContextInv, WithContext, WithKey
<1>6. ReadsInput'
  BY <1>1 DEF ReadsInput
<1>. QED
  BY <1>2, <1>3, <1>4, <1>5, <1>6 DEF IInv

\* A step that keeps what PadInv is about.
LEMMA PadsKept ==
    ASSUME IInv, UNCHANGED <<hp_state, hp_allocated, pads>>
    PROVE  PadInv'
BY DEF IInv, PadInv

LEMMA ReadsKept ==
    ASSUME IInv, UNCHANGED <<process, NDEBUG>>
    PROVE  ReadsInput'
BY DEF IInv, ReadsInput

LEMMA monero_standard_IInv ==
    ASSUME IInv, NEW t \in Threads, monero_standard(t)
    PROVE  IInv'
<1>1. PICK length \in Lengths, major \in Majors :
        IF ~NDEBUG /\ (length = 0 \/ major > 127) THEN End("abort")
        ELSE IF length = 0 THEN End("read an empty input")
        ELSE /\ hashes' = [hashes EXCEPT ![t] = @ + 1]
             /\ passes' = [passes EXCEPT ![t] = <<>>]
             /\ GoTo(t, "force")
             /\ UNCHANGED <<shared, useAes, hp_state, hp_allocated, aes_ctx, pads, blocks,
                            process>>
  BY DEF monero_standard
<1>2. CASE End("abort")
  BY <1>2, EndIInv
<1>3. CASE End("read an empty input") /\ NDEBUG
  BY <1>3, EndIInv
<1>4. CASE /\ hashes' = [hashes EXCEPT ![t] = @ + 1]
           /\ passes' = [passes EXCEPT ![t] = <<>>]
           /\ GoTo(t, "force")
           /\ UNCHANGED <<shared, useAes, hp_state, hp_allocated, aes_ctx, pads, blocks,
                          process>>
  <2>1. /\ hashes' = [hashes EXCEPT ![t] = @ + 1]
        /\ passes' = [passes EXCEPT ![t] = <<>>]
        /\ pc' = [pc EXCEPT ![t] = "force"]
        /\ pc[t] = "idle"
        /\ UNCHANGED <<NDEBUG, env, hw, use, supported, useAes, hp_state, hp_allocated,
                       aes_ctx, pads, blocks, process>>
    BY <1>4 DEF GoTo, shared, monero_standard
  <2>2. TypeOK'
    <3>1. <<>> \in Seq(Contexts)
      OBVIOUS
    <3>. QED
      BY <2>1, <3>1 DEF IInv, TypeOK, Labels
  <2>3. AnswerInv'
    BY <2>1 DEF IInv, TypeOK, AnswerInv, Forced, Decided, Software
  <2>4. ContextInv'
    BY <2>1 DEF IInv, TypeOK, ContextInv, WithContext, WithKey
  <2>5. PassInv'
    BY <2>1 DEF IInv, TypeOK, PassInv
  <2>. QED
    BY <2>1, <2>2, <2>3, <2>4, <2>5, PadsKept, ReadsKept DEF IInv
<1>. QED
  BY <1>1, <1>2, <1>3, <1>4 DEF IInv, TypeOK

\* An answer about AES that agrees with the environment and the processor.
LEMMA AnswerIInv ==
    ASSUME IInv, NEW t \in Threads, NEW b \in BOOLEAN,
           NEW next \in {"getenv", "hw", "cpuid", "allocate"}, Answer(t, b, next),
           pc[t] \in {"force", "getenv", "hw", "cpuid"},
           next \in {"hw", "cpuid"} => ~Forced,
           next = "allocate" => (b <=> ~Forced /\ hw),
           use' \in {use, IF Forced THEN 1 ELSE 0},
           supported' \in {supported, IF hw THEN 1 ELSE 0}
    PROVE  IInv'
<1>1. /\ useAes' = [useAes EXCEPT ![t] = b]
      /\ pc' = [pc EXCEPT ![t] = next]
      /\ UNCHANGED <<NDEBUG, env, hw, hp_state, hp_allocated, aes_ctx, passes, hashes,
                     pads, blocks, process>>
  BY DEF Answer, GoTo
<1>2. TypeOK'
  BY <1>1 DEF IInv, TypeOK, Labels, Decided
<1>3. AnswerInv'
  <2>1. Forced' = Forced
    BY <1>1 DEF Forced
  <2>2. /\ use' = 1 => Forced
        /\ use' = 0 => ~Forced
        /\ supported' = 1 => hw
        /\ supported' = 0 => ~hw
    BY DEF IInv, AnswerInv
  <2>. QED
    BY <1>1, <2>1, <2>2 DEF IInv, TypeOK, AnswerInv, Decided, Software
<1>4. ContextInv'
  BY <1>1 DEF IInv, TypeOK, ContextInv, WithContext, WithKey
<1>5. PassInv'
  BY <1>1 DEF IInv, TypeOK, PassInv
<1>. QED
  BY <1>1, <1>2, <1>3, <1>4, <1>5, PadsKept, ReadsKept DEF IInv

\* Other threads may have stored their answer meanwhile, but it is the same one.
LEMMA answers_IInv ==
    ASSUME IInv, NEW t \in Threads,
           ForceCached(t) \/ ForceStore(t) \/ CheckCached(t) \/ CheckStore(t)
    PROVE  IInv'
<1>1. /\ hw \in BOOLEAN /\ useAes[t] \in BOOLEAN
      /\ use \in {-1, 0, 1} /\ supported \in {-1, 0, 1}
      /\ use = 1 => Forced
      /\ use = 0 => ~Forced
      /\ supported = 1 => hw
      /\ supported = 0 => ~hw
      /\ pc[t] \in {"hw", "cpuid"} => ~Forced
  BY DEF IInv, TypeOK, AnswerInv, unknown
<1>2. CASE ForceCached(t)
  <2>1. CASE use = unknown
    <3>1. Answer(t, useAes[t], "getenv")
      BY <1>2, <2>1 DEF ForceCached
    <3>. QED
      BY <1>1, <1>2, <3>1, AnswerIInv DEF ForceCached
  <2>2. CASE use = 1
    <3>1. Answer(t, FALSE, "allocate")
      <4>1. use # unknown
        BY <2>2 DEF unknown
      <4>. QED
        BY <1>2, <2>2, <4>1, Zenon DEF ForceCached
    <3>. QED
      BY <1>1, <1>2, <2>2, <3>1, AnswerIInv DEF ForceCached
  <2>3. CASE use = 0
    <3>1. Answer(t, FALSE, "hw")
      <4>1. use # unknown
        BY <2>3 DEF unknown
      <4>2. use # 1
        BY <2>3
      <4>. QED
        BY <1>2, <2>3, <4>1, <4>2, Zenon DEF ForceCached
    <3>. QED
      BY <1>1, <1>2, <2>3, <3>1, AnswerIInv DEF ForceCached
  <2>. QED
    BY <1>1, <2>1, <2>2, <2>3 DEF unknown
<1>3. CASE ForceStore(t)
  <2>1. CASE Forced
    <3>1. Answer(t, FALSE, "allocate") /\ pc[t] = "getenv"
          /\ use' = (IF Forced THEN 1 ELSE 0) /\ supported' = supported
      BY <1>3, <2>1 DEF ForceStore
    <3>. QED
      BY <1>1, <2>1, <3>1, AnswerIInv
  <2>2. CASE ~Forced
    <3>1. Answer(t, FALSE, "hw") /\ pc[t] = "getenv"
          /\ use' = (IF Forced THEN 1 ELSE 0) /\ supported' = supported
      BY <1>3, <2>2 DEF ForceStore
    <3>. QED
      BY <1>1, <2>2, <3>1, AnswerIInv
  <2>. QED
    BY <2>1, <2>2
<1>4. CASE CheckCached(t)
  <2>1. CASE supported = unknown
    <3>1. Answer(t, useAes[t], "cpuid")
      BY <1>4, <2>1 DEF CheckCached
    <3>. QED
      BY <1>1, <1>4, <3>1, AnswerIInv DEF CheckCached
  <2>2. CASE supported # unknown
    <3>1. Answer(t, supported = 1, "allocate")
      BY <1>4, <2>2 DEF CheckCached
    <3>2. (supported = 1) <=> hw
      BY <1>1, <2>2 DEF unknown
    <3>. QED
      BY <1>1, <1>4, <3>1, <3>2, AnswerIInv DEF CheckCached
  <2>. QED
    BY <2>1, <2>2
<1>5. CASE CheckStore(t)
  <2>1. Answer(t, hw, "allocate") /\ pc[t] = "cpuid"
        /\ supported' = (IF hw THEN 1 ELSE 0) /\ use' = use
    BY <1>5 DEF CheckStore
  <2>. QED
    BY <1>1, <2>1, AnswerIInv
<1>. QED
  BY <1>2, <1>3, <1>4, <1>5

-----------------------------------------------------------------------------
(* The scratchpad.                                                         *)

\* A thread gets a pad, loses it, or could not get one.
LEMMA PadUpdate ==
    ASSUME NEW t \in Threads, NEW k \in Origins \cup {NULL}
    PROVE  /\ IInv
           /\ hp_state' = [hp_state EXCEPT ![t] = k]
           /\ hp_allocated' = [hp_allocated EXCEPT ![t] = (k = "mmap")]
           /\ pads' \in [Origins -> Int]
           /\ \A o \in Origins : pads'[o] = (pads[o] - One(hp_state[t], {o})) + One(k, {o})
           =>
           /\ PadInv'
           /\ pads' \in [Origins -> Nat]
           /\ hp_state' \in [Threads -> Origins \cup {NULL}]
           /\ hp_allocated' \in [Threads -> BOOLEAN]
<1>1. SUFFICES ASSUME IInv,
                      hp_state' = [hp_state EXCEPT ![t] = k],
                      hp_allocated' = [hp_allocated EXCEPT ![t] = (k = "mmap")],
                      pads' \in [Origins -> Int],
                      \A o \in Origins : pads'[o] = (pads[o] - One(hp_state[t], {o})) + One(k, {o})
               PROVE  /\ PadInv'
                      /\ pads' \in [Origins -> Nat]
                      /\ hp_state' \in [Threads -> Origins \cup {NULL}]
                      /\ hp_allocated' \in [Threads -> BOOLEAN]
  OBVIOUS
<1>2. /\ hp_state \in [Threads -> Origins \cup {NULL}]
      /\ hp_allocated \in [Threads -> BOOLEAN]
  BY <1>1 DEF IInv, TypeOK
<1>3. hp_state'[t] = k /\ \A u \in Threads : u # t => hp_state'[u] = hp_state[u]
  BY <1>1, <1>2
<1>4. ASSUME NEW o \in Origins
      PROVE  /\ pads'[o] = Cardinality({u \in Threads : hp_state'[u] = o})
             /\ pads'[o] \in Nat
  <2>1. Cardinality(Having(hp_state', {o})) =
          (Cardinality(Having(hp_state, {o})) - One(hp_state[t], {o})) + One(hp_state'[t], {o})
    BY SMTT(60), <1>3, CountUpdate
  <2>2. pads[o] = Cardinality(Having(hp_state, {o}))
    <3>1. {u \in Threads : hp_state[u] = o} = Having(hp_state, {o})
      BY DEF Having
    <3>. QED
      BY <1>1, <3>1 DEF IInv, PadInv
  <2>3. {u \in Threads : hp_state'[u] = o} = Having(hp_state', {o})
    BY DEF Having
  <2>4. Cardinality(Having(hp_state', {o})) \in Nat
    BY HavingFinite, Zenon
  <2>5. pads'[o] = (pads[o] - One(hp_state[t], {o})) + One(hp_state'[t], {o})
    BY <1>1, <1>3, Zenon
  <2>. QED
    BY <2>1, <2>2, <2>3, <2>4, <2>5, Zenon
<1>5. \A u \in Threads : hp_allocated'[u] <=> hp_state'[u] = "mmap"
  BY <1>1, <1>2 DEF IInv, PadInv
<1>6. PadInv'
  BY <1>4, <1>5 DEF PadInv
<1>7. pads' \in [Origins -> Nat]
  BY <1>1, <1>4
<1>. QED
  BY <1>1, <1>2, <1>6, <1>7

\* A pad goes back to where it came from, by the flag alone.
LEMMA slow_hash_free_state_IInv ==
    ASSUME IInv, NEW t \in Threads, slow_hash_free_state(t)
    PROVE  IInv'
<1>1. /\ hp_state[t] # NULL
      /\ pads' = [pads EXCEPT ![IF hp_allocated[t] THEN "mmap" ELSE "malloc"] = @ - 1]
      /\ hp_state' = [hp_state EXCEPT ![t] = NULL]
      /\ hp_allocated' = [hp_allocated EXCEPT ![t] = FALSE]
      /\ UNCHANGED <<NDEBUG, env, hw, use, supported, input, useAes, aes_ctx, passes, hashes,
                     pc, blocks, process>>
  BY DEF slow_hash_free_state, shared
<1>2. /\ hp_state[t] \in Origins
      /\ pads \in [Origins -> Nat]
      /\ hp_allocated[t] <=> hp_state[t] = "mmap"
  BY <1>1 DEF IInv, TypeOK, PadInv
<1>3. pads' = [pads EXCEPT ![hp_state[t]] = @ - 1]
  BY <1>1, <1>2 DEF Origins
<1>4. pads' \in [Origins -> Int]
  BY <1>2, <1>3
<1>5. hp_allocated' = [hp_allocated EXCEPT ![t] = (NULL = "mmap")]
  BY <1>1 DEF NULL
<1>6. \A o \in Origins : NULL # o
  BY DEF Origins, NULL
<1>7. \A o \in Origins : pads'[o] = (pads[o] - One(hp_state[t], {o})) + One(NULL, {o})
  BY <1>2, <1>3, <1>6 DEF One
<1>8. PadInv' /\ pads' \in [Origins -> Nat] /\ hp_state' \in [Threads -> Origins \cup {NULL}]
      /\ hp_allocated' \in [Threads -> BOOLEAN]
  BY <1>1, <1>4, <1>5, <1>7, PadUpdate
<1>9. TypeOK' /\ PassInv'
  BY <1>1, <1>8 DEF IInv, TypeOK, PassInv
<1>10. AnswerInv'
  BY <1>1 DEF IInv, AnswerInv, Forced
<1>11. ContextInv'
  BY <1>1 DEF IInv, ContextInv, WithContext, WithKey
<1>. QED
  BY <1>1, <1>8, <1>9, <1>10, <1>11, ReadsKept DEF IInv

LEMMA Prepare_IInv ==
    ASSUME IInv, NEW t \in Threads, Prepare(t)
    PROVE  IInv'
<1>1. /\ pc[t] = "allocate" /\ pc' = [pc EXCEPT ![t] = "check"]
      /\ UNCHANGED <<NDEBUG, env, hw, use, supported, input, useAes, aes_ctx, passes, hashes,
                     blocks, process>>
  BY DEF Prepare, GoTo, shared
<1>2. /\ PadInv' /\ pads' \in [Origins -> Nat]
      /\ hp_state' \in [Threads -> Origins \cup {NULL}]
      /\ hp_allocated' \in [Threads -> BOOLEAN]
  <2>1. CASE hp_state[t] = NULL
    <3>1. slow_hash_allocate_state(t)
      BY <2>1 DEF Prepare
    <3>2. PICK k \in Origins \cup {NULL} :
            /\ hp_state' = [hp_state EXCEPT ![t] = k]
            /\ hp_allocated' = [hp_allocated EXCEPT ![t] = (k = "mmap")]
            /\ pads' = IF k = NULL THEN pads ELSE [pads EXCEPT ![k] = @ + 1]
      BY <3>1 DEF slow_hash_allocate_state, Origins
    <3>3. pads \in [Origins -> Nat] /\ NULL \notin Origins
      BY DEF IInv, TypeOK, Origins, NULL
    <3>4. pads' \in [Origins -> Int]
      BY <3>2, <3>3
    <3>5. \A o \in Origins : pads'[o] = (pads[o] - One(hp_state[t], {o})) + One(k, {o})
      BY <2>1, <3>2, <3>3 DEF One
    <3>. QED
      BY <3>2, <3>4, <3>5, PadUpdate
  <2>2. CASE hp_state[t] # NULL
    <3>1. UNCHANGED <<hp_state, hp_allocated, pads>>
      BY <2>2 DEF Prepare
    <3>. QED
      BY <3>1, PadsKept DEF IInv, TypeOK
  <2>. QED
    BY <2>1, <2>2
<1>3. TypeOK'
  BY <1>1, <1>2 DEF IInv, TypeOK, Labels, Decided
<1>4. AnswerInv'
  BY <1>1 DEF IInv, TypeOK, AnswerInv, Forced, Decided, Software
<1>5. ContextInv'
  BY <1>1 DEF IInv, TypeOK, ContextInv, WithContext, WithKey
<1>6. PassInv'
  BY <1>1 DEF IInv, TypeOK, PassInv
<1>. QED
  BY <1>1, <1>2, <1>3, <1>4, <1>5, <1>6, ReadsKept DEF IInv

\* The length that is checked is the length that is read: 43 = 35 + 8.
LEMMA VARIANT1_INIT64_IInv ==
    ASSUME IInv, NEW t \in Threads, VARIANT1_INIT64(t)
    PROVE  IInv'
<1>1. CASE End("exit")
  BY <1>1, EndIInv
<1>2. CASE /\ GoTo(t, IF useAes[t] THEN "fill" ELSE "alloc")
           /\ UNCHANGED <<shared, local, pads, blocks, process>>
  <2>1. /\ pc[t] = "check"
        /\ pc' = [pc EXCEPT ![t] = IF useAes[t] THEN "fill" ELSE "alloc"]
        /\ UNCHANGED <<NDEBUG, env, hw, use, supported, input, useAes, hp_state, hp_allocated,
                       aes_ctx, passes, hashes, pads, blocks, process>>
    BY <1>2 DEF VARIANT1_INIT64, GoTo, shared, local
  <2>2. TypeOK'
    BY <2>1 DEF IInv, TypeOK, Labels, Decided
  <2>3. AnswerInv'
    BY <2>1 DEF IInv, TypeOK, AnswerInv, Forced, Decided, Software
  <2>4. ContextInv'
    BY <2>1 DEF IInv, TypeOK, ContextInv, WithContext, WithKey
  <2>5. aes_ctx[t] = NULL
    BY <2>1 DEF IInv, ContextInv
  <2>6. PassInv'
    BY <2>1, <2>5 DEF IInv, TypeOK, PassInv, NULL
  <2>. QED
    BY <2>1, <2>2, <2>3, <2>4, <2>6, PadsKept, ReadsKept DEF IInv
<1>3. 35 + 8 = 43
  OBVIOUS
<1>. QED
  BY <1>1, <1>2, <1>3, Zenon DEF VARIANT1_INIT64

-----------------------------------------------------------------------------
(* The context of OpenAES and the two passes.                              *)

LEMMA SetContextEffect ==
    ASSUME IInv, NEW t \in Threads, NEW new \in Contexts,
           NEW n, n = (IF new = NULL THEN 0 ELSE IF new = NoKey THEN 1 ELSE 4),
           SetContext(t, new, n)
    PROVE  /\ aes_ctx' = [aes_ctx EXCEPT ![t] = new]
           /\ aes_ctx' \in [Threads -> Contexts]
           /\ blocks' \in Nat
           /\ (blocks = Cardinality(WithContext) + 3 * Cardinality(WithKey))'
<1> DEFINE C == Contexts \ {NULL}
           K == {"first", "second"}
<1>1. /\ aes_ctx' = [aes_ctx EXCEPT ![t] = new]
      /\ blocks' = (blocks - Owned(t)) + n
      /\ aes_ctx \in [Threads -> Contexts]
      /\ blocks = Cardinality(WithContext) + 3 * Cardinality(WithKey)
  BY DEF SetContext, IInv, TypeOK, ContextInv
<1>2. aes_ctx' \in [Threads -> Contexts]
  BY <1>1
<1>3. /\ WithContext = Having(aes_ctx, C) /\ WithKey = Having(aes_ctx, K)
      /\ WithContext' = Having(aes_ctx', C) /\ WithKey' = Having(aes_ctx', K)
  BY <1>1, <1>2, HavingForms DEF WithContext, WithKey
<1>4. /\ Cardinality(Having(aes_ctx', C)) =
           (Cardinality(Having(aes_ctx, C)) - One(aes_ctx[t], C)) + One(new, C)
      /\ Cardinality(Having(aes_ctx', K)) =
           (Cardinality(Having(aes_ctx, K)) - One(aes_ctx[t], K)) + One(new, K)
  <2>1. \A u \in Threads : u # t => aes_ctx'[u] = aes_ctx[u]
    BY <1>1
  <2>2. aes_ctx'[t] = new
    BY <1>1
  <2>3. ASSUME NEW S
        PROVE  Cardinality(Having(aes_ctx', S)) =
                 (Cardinality(Having(aes_ctx, S)) - One(aes_ctx[t], S)) + One(new, S)
    <3>1. Cardinality(Having(aes_ctx', S)) =
            (Cardinality(Having(aes_ctx, S)) - One(aes_ctx[t], S)) + One(aes_ctx'[t], S)
      BY <2>1, CountUpdate
    <3>. QED
      BY <2>2, <3>1, Zenon
  <2> HIDE DEF C, K
  <2>. QED
    BY <2>3, Zenon
<1>5. /\ Cardinality(Having(aes_ctx, C)) \in Nat /\ Cardinality(Having(aes_ctx', C)) \in Nat
      /\ Cardinality(Having(aes_ctx, K)) \in Nat /\ Cardinality(Having(aes_ctx', K)) \in Nat
  BY HavingFinite
<1>6. /\ Owned(t) = One(aes_ctx[t], C) + 3 * One(aes_ctx[t], K)
      /\ n = One(new, C) + 3 * One(new, K)
  <2>1. \A c \in Contexts : (IF c = NULL THEN 0 ELSE IF c = NoKey THEN 1 ELSE 4) =
                              One(c, C) + 3 * One(c, K)
    <3>1. /\ NULL \notin C /\ NoKey \in C /\ "first" \in C /\ "second" \in C
          /\ NULL \notin K /\ NoKey \notin K /\ "first" \in K /\ "second" \in K
          /\ NULL # NoKey /\ "first" \notin {NULL, NoKey} /\ "second" \notin {NULL, NoKey}
      BY DEF Contexts, NULL, NoKey
    <3> HIDE DEF C, K
    <3>. QED
      BY <3>1 DEF One, Contexts
  <2>2. aes_ctx[t] \in Contexts
    BY <1>1
  <2>. QED
    BY <2>1, <2>2, Zenon DEF Owned
<1>7. blocks' = Cardinality(WithContext') + 3 * Cardinality(WithKey')
  <2> DEFINE c == Cardinality(Having(aes_ctx, C))
             d == Cardinality(Having(aes_ctx', C))
             k == Cardinality(Having(aes_ctx, K))
             m == Cardinality(Having(aes_ctx', K))
             a == One(aes_ctx[t], C)
             b == One(aes_ctx[t], K)
             x == One(new, C)
             y == One(new, K)
  <2>1. /\ blocks = c + 3 * k
        /\ d = (c - a) + x
        /\ m = (k - b) + y
        /\ blocks' = (blocks - (a + 3 * b)) + (x + 3 * y)
    BY <1>1, <1>3, <1>4, <1>6
  <2>2. /\ c \in Nat /\ d \in Nat /\ k \in Nat /\ m \in Nat
        /\ a \in Int /\ b \in Int /\ x \in Int /\ y \in Int
    BY <1>5 DEF One
  <2> HIDE DEF c, d, k, m, a, b, x, y
  <2>3. blocks' = d + 3 * m
    BY <2>1, <2>2
  <2>. QED
    BY <1>3, <2>3 DEF d, m
<1>8. blocks' \in Nat
  BY <1>3, <1>5, <1>7
<1>. QED
  BY <1>1, <1>2, <1>7, <1>8

\* A step that only gives a hash without AES instructions another context.
LEMMA ContextStep ==
    ASSUME IInv, NEW t \in Threads, NEW new \in Contexts,
           NEW n, n = (IF new = NULL THEN 0 ELSE IF new = NoKey THEN 1 ELSE 4),
           SetContext(t, new, n),
           NEW next, GoTo(t, next),
           \/ pc[t] = "alloc" /\ next = "import" /\ new # "second"
           \/ pc[t] = "import" /\ next = "fill" /\ new # "second"
           \/ pc[t] = "import2" /\ next = "drain" /\ new # "first"
           \/ pc[t] = "free" /\ next = "idle" /\ new = NULL
    PROVE  IInv'
<1>1. /\ pc' = [pc EXCEPT ![t] = next]
      /\ aes_ctx' = [aes_ctx EXCEPT ![t] = new]
      /\ aes_ctx' \in [Threads -> Contexts]
      /\ blocks' \in Nat
      /\ (blocks = Cardinality(WithContext) + 3 * Cardinality(WithKey))'
      /\ UNCHANGED <<NDEBUG, env, hw, use, supported, input, useAes, hp_state, hp_allocated,
                     passes, hashes, pads, process>>
  BY SetContextEffect DEF SetContext, GoTo, shared
<1>2. next \in {"import", "fill", "drain", "idle"} /\ pc[t] \in Software
      /\ pc \in [Threads -> Labels] /\ aes_ctx \in [Threads -> Contexts]
  BY DEF IInv, TypeOK, Software
<1>3. TypeOK'
  BY <1>1, <1>2 DEF IInv, TypeOK, Labels, Decided
<1>4. ~useAes[t]
  BY <1>2 DEF IInv, AnswerInv
<1>5. AnswerInv'
  BY <1>1, <1>2, <1>4 DEF IInv, TypeOK, AnswerInv, Forced, Decided, Software
<1>6. ContextInv'
  <2>1. \A u \in Threads :
          /\ pc'[u] \notin {"import", "fill", "import2", "drain", "free"} => aes_ctx'[u] = NULL
          /\ pc'[u] \in {"fill", "drain"} /\ useAes'[u] => aes_ctx'[u] = NULL
    BY <1>1, <1>2, <1>4 DEF IInv, ContextInv
  <2>. QED
    BY <1>1, <2>1 DEF ContextInv
<1>7. PassInv'
  <2>1. NULL # "first" /\ NULL # "second"
    BY DEF NULL
  <2>. QED
    BY <1>1, <1>2, <2>1 DEF IInv, TypeOK, PassInv
<1>. QED
  BY <1>1, <1>3, <1>5, <1>6, <1>7, PadsKept, ReadsKept DEF IInv

LEMMA SoftwareContext_IInv ==
    ASSUME IInv, NEW t \in Threads, SoftwareContext(t)
    PROVE  IInv'
<1>1. CASE SetContext(t, NoKey, 1)
  BY <1>1, ContextStep DEF SoftwareContext, Contexts, NULL, NoKey
<1>2. CASE SetContext(t, NULL, 0)
  BY <1>2, ContextStep DEF SoftwareContext, Contexts, NULL, NoKey
<1>. QED
  BY <1>1, <1>2 DEF SoftwareContext

LEMMA SoftwareKey_IInv ==
    ASSUME IInv, NEW t \in Threads,
           \/ SoftwareKey(t, "import", "fill", "first")
           \/ SoftwareKey(t, "import2", "drain", "second")
    PROVE  IInv'
<1>1. PICK half \in {"first", "second"} :
        /\ \/ half = "first" /\ pc[t] = "import" /\ GoTo(t, "fill")
           \/ half = "second" /\ pc[t] = "import2" /\ GoTo(t, "drain")
        /\ \/ SetContext(t, NULL, 0)
           \/ SetContext(t, half, 4)
           \/ SetContext(t, NoKey, 1)
  BY DEF SoftwareKey
<1>2. CASE SetContext(t, NULL, 0)
  BY <1>1, <1>2, ContextStep DEF Contexts, NULL, NoKey
<1>3. CASE SetContext(t, half, 4)
  BY <1>1, <1>3, ContextStep DEF Contexts, NULL, NoKey
<1>4. CASE SetContext(t, NoKey, 1)
  BY <1>1, <1>4, ContextStep DEF Contexts, NULL, NoKey
<1>. QED
  BY <1>1, <1>2, <1>3, <1>4

LEMMA oaes_free_IInv ==
    ASSUME IInv, NEW t \in Threads, oaes_free(t)
    PROVE  IInv'
BY ContextStep DEF oaes_free, Contexts, NULL, NoKey

LEMMA AppendOne ==
    ASSUME NEW S, NEW a \in S, NEW b \in S
    PROVE  Append(<<a>>, b) = <<a, b>>
<1>1. <<a>> \in Seq(S) /\ <<a, b>> \in Seq(S) /\ Len(<<a>>) = 1 /\ Len(<<a, b>>) = 2
  OBVIOUS
<1>2. Append(<<a>>, b) \in Seq(S) /\ Len(Append(<<a>>, b)) = 2
  BY <1>1
<1>3. Append(<<a>>, b)[1] = a /\ Append(<<a>>, b)[2] = b
  BY <1>1
<1>4. \A i \in 1..2 : Append(<<a>>, b)[i] = <<a, b>>[i]
  BY <1>3
<1>. QED
  BY <1>1, <1>2, <1>4, SeqEqual

\* A pass through the pad uses the key of its half, from whichever place.
LEMMA Pass_IInv ==
    ASSUME IInv, NEW t \in Threads, Fill(t) \/ Drain(t)
    PROVE  IInv'
<1>1. PICK half \in {"first", "second"} :
        /\ \/ /\ half = "first"
              /\ Pass(t, "fill", IF useAes[t] THEN "drain" ELSE "import2", half)
           \/ /\ half = "second"
              /\ Pass(t, "drain", IF useAes[t] THEN "idle" ELSE "free", half)
  BY DEF Fill, Drain
<1>2. CASE End("fault")
  BY <1>2, EndIInv
<1>3. CASE ~End("fault")
  <2> DEFINE next == IF half = "first" THEN (IF useAes[t] THEN "drain" ELSE "import2")
                     ELSE (IF useAes[t] THEN "idle" ELSE "free")
  <2>1. /\ pc[t] = (IF half = "first" THEN "fill" ELSE "drain")
        /\ PassKey(t, half) \notin {NULL, NoKey}
        /\ passes' = [passes EXCEPT ![t] = Append(@, PassKey(t, half))]
        /\ pc' = [pc EXCEPT ![t] = next]
        /\ UNCHANGED <<NDEBUG, env, hw, use, supported, input, useAes, hp_state, hp_allocated,
                       aes_ctx, hashes, pads, blocks, process>>
    BY <1>1, <1>3 DEF Pass, GoTo, shared
  <2>2. /\ useAes[t] \in BOOLEAN /\ aes_ctx[t] \in Contexts
        /\ passes \in [Threads -> Seq(Contexts)] /\ pc \in [Threads -> Labels]
        /\ half = "first" => aes_ctx[t] # "second" /\ passes[t] = <<>>
        /\ half = "second" => aes_ctx[t] # "first" /\ passes[t] = <<"first">>
        /\ useAes[t] => aes_ctx[t] = NULL
    BY <2>1 DEF IInv, TypeOK, PassInv, ContextInv
  <2>3. PassKey(t, half) = half
    BY <2>1, <2>2 DEF PassKey, Contexts
  <2>4. passes' = [passes EXCEPT ![t] = IF half = "first" THEN <<"first">> ELSE <<"first", "second">>]
    <3>1. CASE half = "first"
      BY <2>1, <2>2, <2>3, <3>1
    <3>2. CASE half = "second"
      <4>1. passes[t] = <<"first">> /\ half = "second"
        BY <2>2, <3>2
      <4>2. Append(<<"first">>, "second") = <<"first", "second">>
        BY AppendOne DEF Contexts
      <4>. QED
        BY <2>1, <2>3, <4>1, <4>2
    <3>. QED
      BY <3>1, <3>2
  <2>5. <<"first">> \in Seq(Contexts) /\ <<"first", "second">> \in Seq(Contexts)
    BY DEF Contexts
  <2>6. /\ half = "first" /\ useAes[t] => next = "drain"
        /\ half = "first" /\ ~useAes[t] => next = "import2"
        /\ half = "second" /\ useAes[t] => next = "idle"
        /\ half = "second" /\ ~useAes[t] => next = "free"
    OBVIOUS
  <2> HIDE DEF next
  <2>7. TypeOK'
    BY <2>1, <2>2, <2>4, <2>5, <2>6 DEF IInv, TypeOK, Labels, Decided
  <2>8. AnswerInv'
    BY <2>1, <2>2, <2>6 DEF IInv, TypeOK, AnswerInv, Forced, Decided, Software
  <2>9. ContextInv'
    BY <2>1, <2>2, <2>6 DEF IInv, TypeOK, ContextInv, WithContext, WithKey
  <2>10. PassInv'
    <3>1. NULL # "first" /\ NULL # "second"
      BY DEF NULL
    <3>. QED
      BY ZenonT(60), <2>1, <2>2, <2>4, <2>6, <3>1 DEF IInv, TypeOK, PassInv
  <2>. QED
    BY <2>1, <2>7, <2>8, <2>9, <2>10, PadsKept, ReadsKept DEF IInv
<1>. QED
  BY <1>2, <1>3

-----------------------------------------------------------------------------
LEMMA NextIInv ==
    ASSUME IInv, [Next]_vars
    PROVE  IInv'
<1>1. CASE Next
  <2>1. PICK t \in Threads :
          \/ monero_standard(t) \/ slow_hash_free_state(t)
          \/ ForceCached(t) \/ ForceStore(t) \/ CheckCached(t) \/ CheckStore(t)
          \/ Prepare(t) \/ VARIANT1_INIT64(t)
          \/ SoftwareContext(t)
          \/ SoftwareKey(t, "import", "fill", "first")
          \/ SoftwareKey(t, "import2", "drain", "second")
          \/ Fill(t) \/ Drain(t) \/ oaes_free(t)
    BY <1>1 DEF Next
  <2>. QED
    BY <2>1, monero_standard_IInv, slow_hash_free_state_IInv, answers_IInv, Prepare_IInv,
       VARIANT1_INIT64_IInv, SoftwareContext_IInv, SoftwareKey_IInv, Pass_IInv, oaes_free_IInv
<1>2. CASE UNCHANGED vars
  <2>1. UNCHANGED <<NDEBUG, env, hw, use, supported, input, useAes, hp_state, hp_allocated,
                    aes_ctx, passes, hashes, pc, pads, blocks, process>>
    BY <1>2 DEF vars, shared, local
  <2>2. TypeOK' /\ PassInv'
    BY <2>1 DEF IInv, TypeOK, PassInv
  <2>3. AnswerInv'
    BY <2>1 DEF IInv, AnswerInv, Forced
  <2>4. ContextInv'
    BY <2>1 DEF IInv, ContextInv, WithContext, WithKey
  <2>. QED
    BY <2>1, <2>2, <2>3, <2>4, PadsKept, ReadsKept DEF IInv
<1>. QED
  BY <1>1, <1>2

LEMMA Invariance == Spec => []IInv
<1>1. Init => IInv
  BY InitIInv
<1>2. IInv /\ [Next]_vars => IInv'
  BY NextIInv
<1>. QED
  BY <1>1, <1>2, PTL DEF Spec

\* Whatever the order in which any number of threads read and write the static
\* variables `use` and `supported` of force_software_aes and check_aes_hw, every hash
\* works with AES instructions exactly when the environment does not forbid it and the
\* processor has them.
THEOREM ThreadsAgreeOnAes == Spec => []SameAnswer
<1>1. IInv => SameAnswer
  BY DEF IInv, TypeOK, AnswerInv, SameAnswer, Decided
<1>. QED
  BY <1>1, Invariance, PTL

\* No pad and no block of OpenAES is leaked or freed twice, whichever allocations fail:
\* the pads in memory are those of the threads, each counted where it came from, and
\* the blocks are those of the contexts and keys of hashes that still run.
THEOREM MemoryIsAccountedFor == Spec => []MemoryBelongsToThreads
<1>1. IInv => MemoryBelongsToThreads
  BY DEF IInv, PadInv, ContextInv, MemoryBelongsToThreads, Origins
<1>. QED
  BY <1>1, Invariance, PTL

\* A hash that finishes has filled its pad with the first half of the key material and
\* drained it with the second, on both paths of cn_slow_hash, also when oaes_alloc or
\* oaes_key_import_data fail: then it does not finish.
THEOREM BothKeysAreUsed == Spec => []PassesUseBothKeys
<1>1. IInv => PassesUseBothKeys
  BY DEF IInv, PassInv, PassesUseBothKeys
<1>. QED
  BY <1>1, Invariance, PTL

\* VARIANT1_INIT64 never reads behind the input, and only a build without assertions
\* reads the version of an empty one in monero_standard.
THEOREM InputIsRead == Spec => []ReadsInput
<1>1. IInv => ReadsInput
  BY DEF IInv
<1>. QED
  BY <1>1, Invariance, PTL
=============================================================================
