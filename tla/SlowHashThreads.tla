--------------------------- MODULE SlowHashThreads ---------------------------
(***************************************************************************)
(* Threads that call monero_standard (src/src/hash/monero.cpp), and with   *)
(* it cn_slow_hash (src/src/hash/monero/slow-hash.c): the answers about    *)
(* AES that all threads cache in static variables, the scratchpad of every *)
(* thread, the OpenAES context of a hash without AES instructions, and     *)
(* what is read of the input.  What the loops compute is in CnSlowHash.    *)
(***************************************************************************)
EXTENDS Integers, Sequences, FiniteSets

CONSTANTS
    Threads,
    Lengths, Majors,   \* lengths of inputs and their first bytes
    Fails,             \* allocations that may fail: "mmap", "malloc", "ctx", "key"
    MaxHashes          \* bound: hashes per thread

ASSUME ThreadsAssumption ==
    /\ IsFiniteSet(Threads)
    /\ Lengths \subseteq Nat /\ Majors \subseteq 0..255
    /\ Fails \subseteq {"mmap", "malloc", "ctx", "key"}

VARIABLES
    NDEBUG,            \* the build has no assertions
    env, hw,           \* what getenv and cpuid answer
    use, supported,    \* the static caches
    pc, input,         \* of every thread: where it is, length and major version
    useAes,
    hp_state, hp_allocated,   \* the pad: NULL or where it comes from; the flag
    aes_ctx,           \* NULL, or whose key it holds
    passes,            \* the keys with which this hash has gone through the pad
    hashes,            \* hashes begun
    pads, blocks,      \* memory in use: pads by origin, blocks of OpenAES
    process            \* "running", or how the process ended

shared == <<NDEBUG, env, hw, use, supported>>
local == <<input, useAes, hp_state, hp_allocated, aes_ctx, passes, hashes>>
vars == <<shared, local, pc, pads, blocks, process>>

unknown == -1
NULL == "NULL"
NoKey == "no key"

GoTo(t, l) == pc' = [pc EXCEPT ![t] = l]
Forced == env \notin {"unset", "0", "no"}
variant(t) == IF input[t].major >= 7 THEN input[t].major - 6 ELSE 0

Init ==
    /\ NDEBUG \in BOOLEAN
    /\ env \in {"unset", "0", "no", "1"} /\ hw \in BOOLEAN
    /\ use = unknown /\ supported = unknown
    /\ pc = [t \in Threads |-> "idle"]
    /\ input = [t \in Threads |-> [length |-> 0, major |-> 0]]
    /\ useAes = [t \in Threads |-> FALSE]
    /\ hp_state = [t \in Threads |-> NULL] /\ hp_allocated = [t \in Threads |-> FALSE]
    /\ aes_ctx = [t \in Threads |-> NULL]
    /\ passes = [t \in Threads |-> <<>>] /\ hashes = [t \in Threads |-> 0]
    /\ pads = [k \in {"mmap", "malloc"} |-> 0] /\ blocks = 0
    /\ process = "running"

\* The process ends: exit, abort, or a fault.
End(how) == process' = how /\ UNCHANGED <<shared, local, pc, pads, blocks>>

-----------------------------------------------------------------------------
\* monero_standard reads the first byte behind its assertions.
monero_standard(t) ==
    /\ pc[t] = "idle" /\ hashes[t] < MaxHashes
    /\ \E length \in Lengths, major \in Majors :
         IF ~NDEBUG /\ (length = 0 \/ major > 127) THEN End("abort")
         ELSE IF length = 0 THEN End("read an empty input")
         ELSE /\ input' = [input EXCEPT ![t] = [length |-> length, major |-> major]]
              /\ hashes' = [hashes EXCEPT ![t] = @ + 1]
              /\ passes' = [passes EXCEPT ![t] = <<>>]
              /\ GoTo(t, "force")
              /\ UNCHANGED <<shared, useAes, hp_state, hp_allocated, aes_ctx, pads, blocks, process>>

Answer(t, b, next) ==
    /\ useAes' = [useAes EXCEPT ![t] = b]
    /\ GoTo(t, next)
    /\ UNCHANGED <<NDEBUG, env, hw, input, hp_state, hp_allocated, aes_ctx, passes, hashes,
                   pads, blocks, process>>

\* Mutated form of ForceCached: `use` gets a default before the environment is asked.
ForceCached_default(t) ==
    /\ pc[t] = "force"
    /\ use' = IF use = unknown THEN 0 ELSE use
    /\ IF use = unknown THEN Answer(t, useAes[t], "getenv")
       ELSE Answer(t, FALSE, IF use = 1 THEN "allocate" ELSE "hw")
    /\ UNCHANGED supported

\* force_software_aes: the answer is cached, or it is computed and then stored; other
\* threads may run in between.  && asks check_aes_hw only when it is no.
ForceCached(t) ==
    /\ pc[t] = "force"
    /\ IF use = unknown THEN Answer(t, useAes[t], "getenv")
       ELSE Answer(t, FALSE, IF use = 1 THEN "allocate" ELSE "hw")
    /\ UNCHANGED <<use, supported>>

ForceStore(t) ==
    /\ pc[t] = "getenv"
    /\ use' = IF Forced THEN 1 ELSE 0
    /\ Answer(t, FALSE, IF Forced THEN "allocate" ELSE "hw")
    /\ UNCHANGED supported

CheckCached(t) ==
    /\ pc[t] = "hw"
    /\ IF supported = unknown THEN Answer(t, useAes[t], "cpuid")
       ELSE Answer(t, supported = 1, "allocate")
    /\ UNCHANGED <<use, supported>>

CheckStore(t) ==
    /\ pc[t] = "cpuid"
    /\ supported' = IF hw THEN 1 ELSE 0
    /\ Answer(t, hw, "allocate")
    /\ UNCHANGED use

-----------------------------------------------------------------------------
\* Mutated form of slow_hash_allocate_state: hp_allocated stays 1 when malloc is used.
slow_hash_allocate_state_flag(t) ==
    \E k \in {"mmap"} \cup (IF "mmap" \in Fails THEN {"malloc"} ELSE {}) :
        /\ hp_state' = [hp_state EXCEPT ![t] = k]
        /\ hp_allocated' = [hp_allocated EXCEPT ![t] = TRUE]
        /\ pads' = [pads EXCEPT ![k] = @ + 1]

\* With hp_state = NULL, which its caller has checked, too.
slow_hash_allocate_state(t) ==
    \E k \in {"mmap"} \cup (IF "mmap" \in Fails THEN {"malloc"} ELSE {})
                      \cup (IF {"mmap", "malloc"} \subseteq Fails THEN {NULL} ELSE {}) :
        /\ hp_state' = [hp_state EXCEPT ![t] = k]
        /\ hp_allocated' = [hp_allocated EXCEPT ![t] = (k = "mmap")]
        /\ pads' = IF k = NULL THEN pads ELSE [pads EXCEPT ![k] = @ + 1]

slow_hash_free_state(t) ==
    /\ pc[t] = "idle" /\ hp_state[t] # NULL
    /\ pads' = [pads EXCEPT ![IF hp_allocated[t] THEN "mmap" ELSE "malloc"] = @ - 1]
    /\ hp_state' = [hp_state EXCEPT ![t] = NULL]
    /\ hp_allocated' = [hp_allocated EXCEPT ![t] = FALSE]
    /\ UNCHANGED <<shared, input, useAes, aes_ctx, passes, hashes, pc, blocks, process>>

\* The pad, Keccak, and VARIANT1_INIT64.
Prepare(t) ==
    /\ pc[t] = "allocate"
    /\ IF hp_state[t] = NULL THEN slow_hash_allocate_state(t)
       ELSE UNCHANGED <<hp_state, hp_allocated, pads>>
    /\ GoTo(t, "check")
    /\ UNCHANGED <<shared, input, useAes, aes_ctx, passes, hashes, blocks, process>>

\* Mutated form of VARIANT1_INIT64: 43 bytes are taken for too few, 42 for enough.
VARIANT1_INIT64_short(t) ==
    /\ pc[t] = "check"
    /\ IF variant(t) > 0 /\ input[t].length < 42 THEN End("exit")
       ELSE IF variant(t) > 0 /\ input[t].length < 43 THEN End("read behind the input")
       ELSE /\ GoTo(t, IF useAes[t] THEN "fill" ELSE "alloc")
            /\ UNCHANGED <<shared, local, pads, blocks, process>>

\* Bytes 35 to 42 of the input are read.
VARIANT1_INIT64(t) ==
    /\ pc[t] = "check"
    /\ IF variant(t) > 0 /\ input[t].length < 43 THEN End("exit")
       ELSE IF variant(t) > 0 /\ input[t].length < 35 + 8 THEN End("read behind the input")
       ELSE /\ GoTo(t, IF useAes[t] THEN "fill" ELSE "alloc")
            /\ UNCHANGED <<shared, local, pads, blocks, process>>

-----------------------------------------------------------------------------
\* The blocks of a context: itself, and the three of its key.
Owned(t) == IF aes_ctx[t] = NULL THEN 0 ELSE IF aes_ctx[t] = NoKey THEN 1 ELSE 4

SetContext(t, new, n) ==
    /\ aes_ctx' = [aes_ctx EXCEPT ![t] = new]
    /\ blocks' = (blocks - Owned(t)) + n
    /\ UNCHANGED <<shared, input, useAes, hp_state, hp_allocated, passes, hashes, pads, process>>

\* oaes_alloc and oaes_key_import_data (module OpenAes), whose results are not looked at.
SoftwareContext(t) ==
    /\ pc[t] = "alloc"
    /\ \/ SetContext(t, NoKey, 1)
       \/ "ctx" \in Fails /\ SetContext(t, NULL, 0)
    /\ GoTo(t, "import")

SoftwareKey(t, from, to, half) ==
    /\ pc[t] = from
    /\ IF aes_ctx[t] = NULL THEN SetContext(t, NULL, 0)
       ELSE \/ SetContext(t, half, 4)
            \/ "key" \in Fails /\ SetContext(t, NoKey, 1)
    /\ GoTo(t, to)

\* The key of a pass: expanded into a local array, or read from the context.
PassKey(t, half) == IF useAes[t] THEN half ELSE aes_ctx[t]

\* One pass through the pad: step 2, or step 4 of the algorithm.
Pass(t, from, to, half) ==
    /\ pc[t] = from
    /\ IF hp_state[t] = NULL \/ PassKey(t, half) \in {NULL, NoKey} THEN End("fault")
       ELSE /\ passes' = [passes EXCEPT ![t] = Append(@, PassKey(t, half))]
            /\ GoTo(t, to)
            /\ UNCHANGED <<shared, input, useAes, hp_state, hp_allocated, aes_ctx, hashes,
                           pads, blocks, process>>

\* Mutated form of Fill: without AES instructions the second key is not imported.
Fill_oneKey(t) == Pass(t, "fill", "drain", "first")

\* Steps 2 and 3, then the key of step 4.
Fill(t) == Pass(t, "fill", IF useAes[t] THEN "drain" ELSE "import2", "first")
Drain(t) == Pass(t, "drain", IF useAes[t] THEN "idle" ELSE "free", "second")

oaes_free(t) == pc[t] = "free" /\ SetContext(t, NULL, 0) /\ GoTo(t, "idle")

Next ==
    /\ process = "running"
    /\ \E t \in Threads :
         \/ monero_standard(t) \/ slow_hash_free_state(t)
         \/ ForceCached(t) \/ ForceStore(t) \/ CheckCached(t) \/ CheckStore(t)
         \/ Prepare(t) \/ VARIANT1_INIT64(t)
         \/ SoftwareContext(t)
         \/ SoftwareKey(t, "import", "fill", "first")
         \/ SoftwareKey(t, "import2", "drain", "second")
         \/ Fill(t) \/ Drain(t) \/ oaes_free(t)

Spec == Init /\ [][Next]_vars

-----------------------------------------------------------------------------
\* All threads decide alike between AES instructions and tables, in whatever order
\* they read and write `use` and `supported`: what the environment and the
\* processor say.
SameAnswer ==
    \A t \in Threads :
        pc[t] \in {"allocate", "check", "alloc", "import", "fill", "import2", "drain", "free"} =>
            useAes[t] = (~Forced /\ hw)

WithContext == {t \in Threads : aes_ctx[t] # NULL}
WithKey == {t \in Threads : aes_ctx[t] \notin {NULL, NoKey}}

\* Every pad in memory is that of one thread, and slow_hash_free_state returns it to
\* where it came from, although only a flag remembers whether mmap or malloc gave it.
\* The blocks that OpenAES has allocated belong to hashes that are still running: a
\* finished hash has freed its context and both of its keys.
MemoryBelongsToThreads ==
    /\ \A k \in {"mmap", "malloc"} :
           pads[k] = Cardinality({t \in Threads : hp_state[t] = k})
    /\ blocks = Cardinality(WithContext) + 3 * Cardinality(WithKey)
    /\ \A t \in Threads : pc[t] = "idle" => aes_ctx[t] = NULL

\* A finished hash has filled the pad with the first half of the key material and
\* drained it with the second, with AES instructions or without.
PassesUseBothKeys ==
    \A t \in Threads :
        process = "running" /\ pc[t] \in {"idle", "free"} /\ hashes[t] > 0 =>
            passes[t] = <<"first", "second">>

\* The hash reads nothing behind its input: never the nonce of a short one, and the
\* version of an empty one only in a build without assertions.
ReadsInput ==
    /\ process # "read behind the input"
    /\ process = "read an empty input" => NDEBUG
=============================================================================
