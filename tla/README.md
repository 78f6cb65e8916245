# A TLA+ development of fingera

fingera is a C++ library for a Monero miner: a stratum client that gets work
from a pool, two implementations of the CryptoNight hash, a SHA-256 that hashes
several messages at once, and helpers. This directory holds TLA+ models of its
parts, the TLC configurations that check them on small instances, and theorems
about them that TLAPS checks. Paths below are relative to the repository (with
the prefix `src/` in `PROJECT.json`).

## 1. Inventory

| Component | State it keeps | Operations | What makes it correct |
|---|---|---|---|
| **Stratum client** `src/stratum/client.cpp`, `include/fingera/stratum/client.hpp` | socket, timer, write queue, read buffer, `_is_reconnecting`, `_sequence`, `_rpc_id` | `login`, and the completion handlers of connect, write, read and timer; `_do_ping` for subclasses | one write at a time on a live buffer; every failure leads to exactly one delayed reconnect; a connection is logged in before it is used; it never falls asleep |
| **CryptoNight, reference** `src/hash/monero/slow-hash.c`, called by `monero_standard` in `src/hash/monero.cpp` | thread-local scratchpad `hp_state`, Keccak state, registers | fill, mix, drain, finish | addresses stay in the pad; the result depends on the input only |
| **CryptoNight, optimised** `monero_cpu_fast` in `src/hash/monero.cpp` | scratchpad on the stack, registers | the same steps, other loop order, other tweak | same result as the reference |
| **Hex** `include/fingera/impl/hex.ipp` | iterators of one call | `to_hex`, `from_hex` with three output forms | inverse functions; stays inside the string; fills the buffer |
| BLAKE-256, Groestl, JH, Skein, Keccak `src/hash/monero/*.c` | chaining value, partial block, counters | init, update, final | chunks do not matter; padding and counters at block boundaries |
| OpenAES `oaes_lib.c`, `aesb.c` | context with key and IV | alloc, key import/export/generate, encrypt, decrypt, free | round trip; nothing leaks or is used after an error |
| Scratchpad and AES detection `slow-hash.c` | `hp_state`, `hp_allocated` per thread; two static caches shared by threads | allocate, free, query | freed the way it was allocated; racing queries agree |
| Multiway integers and SHA-256 `include/fingera/multiway_integer.hpp`, `hash/multiway_sha256.hpp`, `instrinsic/*` | SIMD lanes | load, store, arithmetic, transform | every lane computes what the scalar code computes |
| CPU features `src/cpu_features.cpp` | flags read once | query | a flag implies that the processor and the system support it |
| ARM and portable `cn_slow_hash`, `common/int-util.h` | as the reference | the same hash with other instructions, 128-bit products, byte swaps | the same result as on x86-64; exact arithmetic |
| Byte order, span `endian.*`, `span.hpp` | none | conversions, views | a read undoes a write |
| OpenCL `src/ocl` | the buffers of one call | a SHA-256 kernel; printing of devices | the digest of every work-item |

Interactions: the stratum client hands jobs to `_on_job`, which a subclass
implements (there is none in the repository); `monero_standard` calls
`cn_slow_hash`, and both hashes call Keccak and one of the four final hashes
through `extra_hashes`. The client is single-threaded: its concurrency is that
of asynchronous operations and their callbacks. Hashing threads share nothing
but two static caches.

Hard behaviours, and where they are listed as hazards in `PROJECT.json`:
completions that arrive after the socket was closed, failed writes, reads that
overlap, TCP segmentation, the reconnect flag, `login()` called again; stale
memory in the scratchpad, two accesses to the same block in one iteration, two
formulations of one tweak; partial output of `from_hex`; buffers, counters and
padding of the five hashes at block boundaries and with partial bytes; memory
that runs out inside OpenAES or before the scratchpad exists; threads that fill
the static caches together; unrolled and in-place rounds in which one wrong
index gives another hash; register variables that keep an older answer.

## 2. Modules

| Module | Contents |
|---|---|
| `StratumMessage` | what `_on_message` decides about one line |
| `StratumClient` | the client, Boost.Asio as far as it is used, the network; properties; refinement mapping to `StratumSession` |
| `StratumSession` | abstract: the phases a user of the client can rely on |
| `StratumClientProofs` | theorems about `StratumClient` |
| `MCStratumClient` | the lines of a small pool |
| `CryptoNight` | words, blocks, Keccak state; CPU instructions and inner hashes as parameters, with the assumptions on them |
| `CnSlowHash` | the reference implementation |
| `MoneroCpuFast` | the optimised implementation; refinement mapping to `CnSlowHash` |
| `CryptoNightLemmas`, `CnSlowHashProofs`, `MoneroCpuFastProofs` | lemmas and theorems |
| `MCPrimitives`, `MCCnSlowHash`, `MCMoneroCpuFast` | six-bit words and small instructions |
| `Hex`, `MCHex` | the hex functions; characters at the edges of the digit ranges |
| `HashBytes` | symbolic bytes, blocks and pieces of a message, for the streaming hashes |
| `Skein`, `Threefish` | contexts, tweaks, buffering and output of Skein; the wiring of its block cipher |
| `Groestl`, `GroestlRounds` | buffer, block counter and padding; which bytes the columns of a round read |
| `Jh`, `JhSbox`, `JhSwaps` | buffer, length and padding; the bit-sliced S-boxes and the linear layer; the swaps |
| `Blake256`, `BlakeRounds` | BLAKE-256, BLAKE-224 and their HMACs; the wiring of the rounds |
| `Keccak`, `KeccakF` | absorption, padding and checks; a round in place |
| `DigestProofs` | theorems about `Blake256`, `Keccak` and `Skein`, which take a piece of the message in one step |
| `StreamingProofs` | theorems about `Jh` and `Groestl`, which take a step per block |
| `OpenAes` | contexts, keys and messages of OpenAES, with failing allocations |
| `AesTables`, `AesRound`, `AesBlock` | tables, rounds, key expansion and block cipher on real bytes, of OpenAES, `aesb.c` and the two assembly schedules |
| `SlowHashThreads`, `SlowHashThreadsProofs` | threads that hash: cached answers about AES, scratchpads, OpenAES contexts, reads of the input; theorems |
| `CnSlowHashPorts` | the ARMv8, ARM and portable `cn_slow_hash`; refinement mapping to `CnSlowHash` (proved in `CnSlowHashProofs`) |
| `IntUtil` | 128-bit products and quotients, rotations, byte swaps |
| `MultiwayInteger` | packed, array and SIMD integers |
| `Word32`, `Sha256Standard`, `MultiwaySha256` | 32-bit words; SHA-256 of FIPS 180-4; `process_trunk` and the OpenCL kernel, with the refinement mapping to the standard |
| `CpuFeatures` | `get_cpu_features` |
| `LibraryProofs` | theorems about `Hex`, `CpuFeatures`, `OpenAes` and `IntUtil`, which share no state with other parts |
| `MCHashes` | the small instances of the streaming hashes and their compressions, `Skein` to `KeccakF` |
| `MCProcessors` | the small instances of code that exists once per processor or library, `OpenAes` to `CpuFeatures` |

`MCHashes` and `MCProcessors` hold machines that share no state: a behaviour
is one of a single machine, which the variable `which` names at the start. The
instances (sizes, lengths, operands) are the substitutions of their `INSTANCE`
statements, and `SmallInstances` evaluates the assumptions of the modules on them.

`PROJECT.json` maps every definition to the lines it models. Definitions named
`X_something` with the comment "Mutated form of X" are plausible bugs, one for
each property; replacing X by one of them makes TLC report the property. A
property of `MCHashes` or `MCProcessors` joins what the modules say about one
function, or about one way of writing rounds; the parts are defined and explained
in the modules.

### The stratum client

An asynchronous operation is *pending*, then completes and waits in the FIFO
queue `ready` until `io_service.run()` calls its handler; a handler is one
action, from its first line to its last. The members of the class are variables
of the same name without the underscore.

| Code | Action or operator |
|---|---|
| `login`, `_do_ping` | `login`, `do_ping` |
| `_delay_connect`, `_do_connect`, `_do_login`, `_write` | operators `delay_connect`, `do_connect`, `do_login`, `write`, used by the handlers |
| handler of `_do_connect` | `on_connect` |
| handler of `_do_write` | `on_write` |
| timer handler (`_do_connect`, error code dropped) | `on_timer` |
| `_on_message`, `_parse_job`, `is_critical_error` | `read_failed`, `bad_message`, `good_message`, with the decisions in `StratumMessage` |
| continuation inside `async_read_until` | `read_more` |
| network, pool, clock | `ConnectDone`, `WriteDone`, `Receive`, `ReadFail`, `ConnectionLost`, `TimerExpire` |

Modelling decisions:

- *Asio is external* and modelled from its use. `close()` completes the pending
  reads, connects and writes with an error, in this order; an operation on a
  closed socket fails at once; `expires_after` completes a pending wait with an
  error; `async_connect` closes and opens the socket; a connect whose socket has
  been closed meanwhile reports an error. The resolved endpoints are one
  endpoint.
- *The text of lines* is reduced to the fields `_on_message` looks at. The read
  buffer is the number of line starts in it (0, 1, or 2 for more), which decides
  whether `read_json` finds exactly one document.
- *Overlapping reads* on one streambuf are undefined in Asio: the data may
  arrive spoiled, nondeterministically.
- `_is_reconnecting` is not initialised by the constructor: it has any value in
  `Init`.
- An exception leaves `run()` and ends the model's client (`crashed`): nothing
  in the repository catches it.

### CryptoNight

An action is one body of a loop or one straight piece of code between loops. A
block (16 bytes) is a pair of words; an address in the pad is the number of a
block; `Stale` marks memory that has not been written by this call. The
reference counts groups of blocks, the optimised code counts blocks in steps of
the group; the reference computes block after block and the optimised code key
after key; the reference tweaks a byte in memory with the table `0x75310`, the
optimised code a word in a register with the table `0x7531`. None of these is
abstracted away, since they are where the two could differ. The Keccak
permutation, the AES round without its key, `aeskeygenassist`, shuffles, shifts,
addition and multiplication are parameters. `aesenc` is the round followed by
the exclusive or with the key, which is its definition. `h0[0] & 3` and
`b[0] & 3` are the same two bits of a little-endian word, `LowBits`.
`cn_slow_hash` is modelled on the path that uses AES instructions.

### Hex

One character per action, so that the output at the moment of a failure is
visible. A `back_inserter` appends; a pointer, which the loop does not advance,
writes the first byte of the buffer. Reading behind the end of a string yields
its terminator.

### The streaming hashes

No control flow of these functions depends on the data, so a byte of the message
is its position (`HashBytes`), and a chaining value is the sequence of the
compressions that lead to it: two hashes are equal when they compress the same
blocks with the same counters and flags. Init, Update and Final are one action
each, but for the Updates of JH and Groestl, which take a step per block. `jh_hash`, `skein_hash` and `groestl` call Update once; the models pass
the message in pieces of any length as well, since the branches of Update for a
partly filled buffer are there for that. A piece may end inside a byte where the
function counts bits. Each is compared with the message padded by its
specification, as one sequence of blocks. Constants are scaled (blocks of four
to six bytes, counters that wrap after a few blocks); Keccak has its real sizes.

The compressions are modelled apart from the buffers, each by what can go wrong
in the way it is written. `Threefish` renames words instead of moving them, so
the model follows which words meet; `GroestlRounds` and `KeccakF` work on symbolic
bytes or lanes and follow which ones are fresh; `JhSbox` computes all nibbles
through the bit-sliced formulas; `JhSwaps` follows how far a nibble has spread;
`BlakeRounds` follows which word is added when. Round constants and
initial values are data and are left out.

### OpenAES and AES

`OpenAes` has one action per function, with a nondeterministic failure at each
allocation; only `oaes_encrypt` takes a step per block, its context busy
meanwhile. Memory is a ledger of named blocks (`heap`): contexts and keys hold
pointers, and each `calloc` and `free` of `oaes_key_destroy`, `oaes_key_expand`,
`oaes_key_gen`, the two imports, `oaes_alloc` and `oaes_free` is a change of the
ledger of its own, in the code's order. A `free` of a block that is not allocated
is remembered (`heap.ok`), and a block whose last pointer is overwritten stays in
`heap.live`, so that a free that is missing, doubled or of the wrong pointer shows.
A byte is a set of symbols, so that the exclusive or of CBC really cancels.
`AesRound` and `AesBlock` compute on real bytes. A round of AES is, up to
exclusive or, one term per byte of the block, so blocks that differ in one byte
(all 16 places, all 256 values) determine it; `AesBlock` adds the known answers
of FIPS 197 for the three key lengths. The words of `aesb.c` are taken in
little-endian order, as on the machines its tables are made for.
`oaes_sprintf` prints and is left out; `OAES_DEBUG` and `OAES_HAVE_ISAAC` are
not defined in this build.

### Threads and other processors

`SlowHashThreads` cuts `monero_standard` and `cn_slow_hash` at every access to a
static variable, to the pad and to OpenAES; the two caches are read and
written without synchronisation, so other threads come between the read and the
write. `getenv` and `cpuid` answer the same each time. What the loops compute is
`CnSlowHash`'s. `CnSlowHashPorts` takes the actions of the reference apart in
the same places, but keeps the buffers a, b, c and the pad as the other
processors' code exchanges them. `IntUtil` scales a dword to four bits.

### SIMD and SHA-256

`MultiwaySha256` computes on real 32-bit words (pairs of 16-bit halves), one
action per round. The register that a round calls `a` is `Argument(0)`: the
arguments of the 64 calls move on by one register in each. The kernel of
`ocl/sha256.cl` is the same sequence with shared input, an added work-item number
and no store of the last two words. `MultiwayInteger` checks the operations
themselves for all operands of a small width. `CpuFeatures` lets a register hold
the *name* of the answer it was filled with, so that a value left over from an
earlier `cpuid` is told apart from the right one.

## 3. Runs

| Run | Result | States | Shows |
|---|---|---|---|
| `stratum_base` | pass | 12,884 | as shipped (one `login()`, no keep-alive), all kinds of lines, up to two lines per segment: the callbacks form one chain (`SingleChain`), a lost connection is followed by a new attempt (`Recovers`), the client implements `StratumSession` with its progress |
| `stratum_keep_alive` | pass | 140,862 | two keep-alives at any moment: `WriteExclusive`, `OrphanedOnlyByFailure`, `NeverIdle`, `ReconnectGuard`, `NoEarlyReconnect`, `QueueDrains` |
| `stratum_relogin` | pass | 11,258 | `login()` twice, in any state: `QueueDrains` (that writes stay exclusive and the client active is proved for any number of logins, section 5) |
| `stratum_write_lost` | **violation** | | after a failed write the next connection is never logged in |
| `stratum_coalesced` | **violation** | | lines that are all valid make `run()` throw |
| `cn_slow_hash` | pass | 654 | types, and no stale block is mixed; lengths 0, 42, 43, 76 and versions 6, 7, 9, 128 |
| `monero_cpu_fast` | pass | 1,008 | the optimised hash implements the reference |
| `slow_hash_threads` | pass | 1,553,544 | two threads, two hashes each, with and without assertions, any allocation may fail: see below |
| `hash_functions` | pass | 26,189 | the five inner hashes and their compressions: see below |
| `processors` | pass | 609,599 | AES, ports, integers, SHA-256 and CPU features: see below |
| `hex` | pass | 50,764 | strings of up to four characters: bounds, accepted strings, inverse of `to_hex` |
| `hex_buffer` | **violation** | | the overloads for a buffer fill only its first byte |

`slow_hash_threads`: all threads get the same answer about AES (`SameAnswer`), a
pad is used by its thread only and released the way it was made, and contexts
are freed (`MemoryBelongsToThreads`), the two passes use the two halves of the
key (`PassesUseBothKeys`), nothing is read behind the input (`ReadsInput`).

`hash_functions`, by machine:

| Machine | Shows |
|---|---|
| `Skein` | the tweaks and blocks are those of the padded message; the last block is held back until Final |
| `Threefish` | subkeys, words and tweaks meet as specified though words are renamed and the key array is overwritten |
| `Groestl` | blocks, counters over the wrap of the first word, padding in one or two blocks |
| `GroestlRounds` | every column reads the shifted bytes of the round before |
| `Jh` | padding and length with partial bytes and up to three pieces |
| `JhSbox`, `JhSwaps` | the formulas are the S-boxes and a code of distance 3; seven rounds spread a nibble everywhere and bring the order back |
| `Blake256` | count with carry, `nullt`, padding; the HMACs are those of RFC 2104 |
| `BlakeRounds` | every word once a round, columns then diagonals |
| `Keccak` | digest lengths around every check, messages of up to 300 bytes: absorbs the padded message, stays in `temp`, ends |
| `KeccakF` | a round in place reads no lane it has overwritten |

`processors`, by machine:

| Machine | Shows |
|---|---|
| `OpenAes`, keys | with every allocation failing at will each block has exactly one pointer, no free is of anything else, and a key in use is expanded |
| `OpenAes`, messages | ECB and CBC round trips, exported keys, and what may be opened with which key |
| `AesRound` | tables, rounds of both implementations, inverses |
| `AesBlock` | FIPS 197, decryption, ten rounds of the slow hash, three key schedules |
| `CnSlowHashPorts` | the ARMv8, ARM and portable hashes implement the reference |
| `IntUtil` | exact products and quotients, swaps and rotations |
| `MultiwayInteger` | ways do not disturb each other; save undoes load |
| `MultiwaySha256` | every round is the standard's, digests are the tests' |
| `CpuFeatures` | every feature from its own leaf |

*Bounds.* Stratum: one line of each kind, two lines per segment (two is enough
for a segment that is not one document), two keep-alives (one in flight and one
queued behind it) and two logins (one that meets the operations of the other);
everything else is unbounded. The keep-alive and relogin runs restrict the
lines to three kinds and one per segment, and the two violation runs use only
valid lines. For the properties section 5 lists, the proofs remove these bounds
and those of the other parts. CryptoNight: four blocks in groups of two (a first and a last group,
and both accesses of an iteration hit the same block in a quarter of the cases),
four or six iterations, words of six bits: the three bits that the tweak looks
at and the two that it changes are among them, so all its cases occur. The
states of Keccak are chosen by seeds. The run of a hash is deterministic, so the
number of states is the number of inputs times the length of a run. Hex: nine
characters, the ends of the ranges and their neighbours; a pair of pairs is
enough to see the second byte. Streaming hashes: messages of three to four
blocks, so that there is a first, a middle and a last block and a counter
wraps; lengths run through all residues of the block. OpenAES: two contexts (a
key can move from one to the other), three calls that make a key or a
message (a key that replaces one, and another that fails) and one length of key,
which the control does not depend on. Integers: words of two dwords of four bits (two ways of two bytes of two
bits), all first operands, and second operands with a low half of all zeros or
all ones, where carries run furthest. Threads: two, since they interact through two flags only, and two
hashes each, the second of which finds the pad of the first. SHA-256: one block,
as in the tests, and two, which the tests leave out. CPU features: answers of all
ones or all zeros but for one bit separate every bit from every other. The
wiring modules and `AesBlock` have no bound but the rounds of the code.

*Fairness* (`FairSpec` of `StratumClient`): weak fairness of the handlers (`run()`
calls every queued handler), of the timer, and of connects, writes and reads on
a dead connection, which end sooner or later. No fairness for the pool (it may
be silent for ever), for the loss of connections or for the user. `MCHashes`
assumes weak fairness of `keccak`'s own steps: the thread that called it runs on.

*Deadlock* is not checked: a hash ends, a client that threw or lost its login
stops, a client that nobody started waits. That a started client does not stop
otherwise is `NeverIdle`.

## 4. Findings

1. **A failed write blocks the queue** (`client.cpp:86`). The request stays at
   the front of `_write_queue`. `_do_login` of the next connection pushes behind
   it, `_write` sees two requests and starts nothing; nothing is in flight, the
   login is never sent. `OrphanedOnlyByFailure` shows, and a theorem proves,
   that this is the only way a request is stranded.
2. **Two lines in one buffer end the client** (`client.cpp:149`). `_on_message`
   drains the whole buffer and parses it as one document. Two lines in a
   segment, or the start of a line left by the previous connection, make
   `read_json` throw out of `run()`.
3. **`from_hex` into a buffer writes one byte** (`hex.ipp:89`): the output
   iterator is never advanced.

The models also show preconditions that the code does not check. The runs above
keep to them, and nothing in the library breaks them today:

- The first keep-alive has the login's id (`client.cpp:173`), so its answer is
  read as that of a login. `_do_ping` has no caller yet.
- JH's Update writes one byte behind its buffer (`jh.c:266`) when a piece ends
  inside a byte and does not fill a block that was begun. `jh_hash` does not get
  there. In `Jh` the byte is lost, and the run shows that no byte copied from
  behind the data reaches `F8`.
- HMAC-BLAKE-224 hashes a long key with BLAKE-256 (`blake256.c:291`): the run
  gives it keys of at most a block.
- `blake256_update` with no data forgets a partly filled buffer
  (`blake256.c:182`): the pieces of the run are not empty.
- `keccak` drops the end of every block for digests whose length is not a
  multiple of four (`keccak.c:102`), and never ends for length 100
  (`keccak.c:106`): what `KeccakAbsorbsPaddedMessage` says about the blocks and
  `KeccakEnds` exclude these; that `temp` is never left includes them.
- A build without assertions reads an empty input (`monero.cpp:21`,
  `CMakeLists.txt:31`): `ReadsInput` allows this with `NDEBUG` only.
- The results of `malloc`, `oaes_alloc` and `oaes_key_import_data` are used
  unchecked (`slow-hash.c:509`, `slow-hash.c:618`): `SlowHashThreads` ends such a
  thread at the first use.

## 5. Proofs

All proofs hold for every value of the constants that satisfies the named
assumptions.

*Stratum client* (`StratumClientProofs`). `TypeCorrect`, `WritesAreExclusive`,
`OnlyFailureOrphans`, `ClientNeverIdle`, `ReconnectGuarded`, `DelayIsKept`, for
all lines, any segmentation, any number of logins and keep-alives. None is inductive alone. A
write completion pops the queue, so types need that the queue is not empty then;
that needs that no second write is in flight; and `NeverIdle` needs that the
reconnect flag is backed by a wait. The invariant is

    IInv == ClientType /\ AsioType /\ WriteInv /\ TimerInv /\ BusyInv /\ StartInv

with the types of client and Asio, at most one write whose request is the front
of the queue (or a failed write), the wait behind the flag (and, with one login,
the only one, never cancelled), something in flight, and nothing in flight before
the first `login()`. Lemmas say what `Start`, `delay_connect`, `do_connect` and
`Complete` do to the queue of completions; then one lemma per action.

`CallbacksFormOneChain` and `ClientIsASession` are about the client as its class
is meant to be used, with one login and no keep-alive (`SingleChain` says this
itself, the other theorem assumes it). That two operations are never together in
flight says nothing about which handler may come next, so the invariant names the
link of the chain the client is in:

    ChainInv == crashed and nothing in flight, or one of
                InIdle, InWaiting, InConnecting, InLoggingIn, InListening, InStuck

each with the one operation in flight, the flag, the socket and the queue. A
request is queued outside `InLoggingIn` only after a failed write, which is why
such a client reaches `InStuck` on its next connection. `SessionPhase` is one of
these links, so each lemma about an action gives the step of `StratumSession`
along with the invariant.

*CryptoNight.* Assumptions: the pad is a whole number of groups; words are
natural numbers and closed under the instructions; exclusive or commutes and
works on the tweaked byte by itself.

- `SlowHashTypeCorrect`, `SlowHashNoStaleBlock`: computed addresses never leave
  the pad, and it is full of blocks written by this call before the mixing loop
  reads it. Strengthening: the passes made so far have written all blocks below
  the current one, and the counter never passes the last group.
- `FastTypeCorrect`, `FastImplementsStandard`: every step of `monero_cpu_fast`
  is a step of `CnSlowHash` under the mapping of `MoneroCpuFast` (a refused
  header maps to a call that has not begun). Lemmas `SameKeys`, `SameRounds`,
  `SameIndex`, `SameTable`, `SameTweak` show that each pair of formulations
  agrees: the key schedules, the exchange of the loops over blocks and keys,
  `idx & 0x1FFFF0` against shift and mask, the two tables and tweaks. The theorem
  covers the real sizes (2^17 blocks, groups of 8, 2^19 iterations), which the
  test of the repository runs on a single input without comparing the results.

- `PortsImplementSlowHash`, `PortsNoStaleBlock`: every step of the three other
  copies is a step of `CnSlowHash`, with the assumption that zero is neutral for
  exclusive or. A copy has no invariant of its own: having taken steps of the
  reference so far, it satisfies the reference's, which says that there are blocks
  wherever it exchanges them. `SameRounds` shows that adding a key before the round
  (`vaeseq_u8`, with a first key of zeros) is adding it after the round before, up to
  the last exclusive or; `PortableMixes`, `ArmMixes` and `NeonMixes` follow the
  registers through the exchanges of an iteration, each to the same pad and the
  same `a` and `b`.

*Threads* (`SlowHashThreadsProofs`). `ThreadsAgreeOnAes`, `MemoryIsAccountedFor`,
`BothKeysAreUsed`, `InputIsRead`, for any finite set of threads, any number of
hashes and any allocations that fail. The invariant adds what the caches may hold
(unknown, or the right answer, whoever wrote it last), which is why the races on
them do no harm; that the flag `hp_allocated` remembers where a pad came from, so
that it is released there; at which labels a context exists; and the keys used up
to each label. The two memory counters are cardinalities of sets of threads, and
every step changes such a set by at most its own thread.

*Hex* (`LibraryProofs`). `StaysInsideString`, `AcceptsHexOnly`, `ToHexUndoesFromHex`,
for strings of any length over all characters; assumed is only that the marker for
"no digit read yet" is not a byte. The invariant says where the loop is (between
pairs, or inside one with its first digit in `high`, only if the length is even),
that all characters read are digits, and of which two digits each byte is made.
That an accepted string is decoded whole follows from the position at the end.

*CPU features* (`LibraryProofs`). `CpuReportsOwnLeaves`, for every processor and
whatever its operating system saves. The invariant `CpuInv` lists, for each part
of `get_cpu_features`, what has been reported before it; XGETBV is decided while
the registers still hold leaf 1, and behind that the two flags stand for it.

*OpenAES* (`LibraryProofs`). `OpenAesNeverLeaks`, `OpenAesKeysExpanded`,
`OpenAesMessagesOpen`, `OpenAesRoundTrip`, for any set of contexts, blocks of
two bytes or more, texts of any length, any number of calls and any allocations
that fail. The invariant is

    AesInv == KeysInv /\ WireInv /\ BusyInv /\ GotInv

`KeysInv` says of the heap that no free has been wrong, that what is allocated are
the blocks of the contexts and their keys, finitely many, and that these share
none; a context has no key or a complete one. Within a call the invariant
does not hold, so each piece of it has a lemma over `Sound(s, R)`, a heap with the
blocks of one key that may be incomplete and of others, `R`: `DestroySound` (its
frees are of the key's own blocks and leave `R`), `CallocKeySound`,
`CallocDataSound` and `CallocExpSound` (a new block is none of the others, by the
pigeonhole principle, `CallocBlock`), `ExpandSound`, and from these
`GenerateSound`, where two keys exist for a moment, and `ImportSound`, for
whichever allocation fails. Every message on the wire is the encryption of its padded
plaintext under its own key and iv, block by block (`CipherBlock`), as far as it
has been written; and the context of a running `oaes_encrypt` keeps the key, the
mode and, for CBC, the last block as iv. Opening a message then cancels block by
block. The cipher on a block stays a symbol: that the rounds are AES is for TLC.

*Integers* (`LibraryProofs`). `IntegersAreExact`: the products of `mul128`,
`cn_mul128` and the ARM code and the quotients of `div128_32`, for every size of a
dword (`Full = Half * Half`, `Half > 1`), carries between the halves included.

*JH* (`StreamingProofs`). `JhHashesPaddedMessage`, for every size of a block larger
than the length field, any number of updates and any length in bits. The
invariant (`Good`) holds in the middle of an Update too: the compressed blocks are
the first ones of the message, the buffer holds what follows them as far as
`datasize_in_buffer` says, and what is left of the data follows that. Bytes copied
from behind the data lie behind this part of the buffer, so they are overwritten
before `F8` sees them.

*Groestl* (`StreamingProofs`). `GroestlHashesPaddedMessage` and
`GroestlBufferIsTail`, with the same kind of invariant (`GInv`) and the two block
counters, which are the low and the high part of the number of blocks compressed,
also when the first one wraps. The length field of the padding is right because
bytes of the parts are bytes of the whole; the law of powers this uses is an
assumption, which TLC evaluates on the instance. The padding has one or two blocks.

*BLAKE* (`DigestProofs`). `BlakeHashesPaddedMessage` and `HmacFollowsRFC2104`, for
BLAKE-256 and BLAKE-224, every size of words and blocks whose counter counts whole
blocks, and any length of the message; the counter may wrap. What a sequence of
updates does is one relation, `Absorbed(s, alg, m)`: the state `s` holds the blocks of
`m` with the count of bits up to the end of each, and the rest of `m` in the buffer.
`blake256_update` takes it from `m` to `m` followed by the data, by induction over the
number of blocks. `blake256_final_h` moves the count back and pads through
`blake256_update` in three ways; each is shown to compress the blocks of the padded
message, with the count of the message's own bits and `nullt` for a block that has
none. Preconditions, named `Callers`, are those of section 4: updates are not empty
and a key of HMAC-BLAKE-224 is no longer than a block.

*Keccak* (`DigestProofs`). `KeccakStaysInTemp` and `KeccakAbsorbsMessage`, for
every length of the message and of the digest and all sizes, if the whole-state
block fits into `temp` (the `static_assert`) and is a number of words. What has been
absorbed is stated block by block: the blocks absorbed are the first ones of the
message and the rest is `inlen`; the last block then completes the padded message.
The checks of `keccak` give the bounds of `temp` only together with the first one,
which makes the size of a block a natural number. `KeccakAbsorbsPaddedMessage` of
`MCHashes` joins these two statements.

*Skein* (`DigestProofs`). `SkeinHashesWholeMessage` and `SkeinHoldsLastBlockBack`,
for both sizes of the state, precomputed and computed initial values, any length in
bits, any cutting into updates and any length of the hash. The relation between a
context and the message it has absorbed is `HeldBack`: `n` blocks are in the chaining
value, each with its position and the `first` flag on the first one only, and between
1 and a whole block of bytes are in the buffer (none for the empty message only).
`Skein_512_Update` keeps it because its comparisons are strict (`UpdateHolds`), the
partial last byte passed by itself adds the bit-pad flag (`PadHolds`), and Final
turns the bytes held back into the one block marked as the last
(`FinalReference`). `SkeinHashesWholeMessage` says this of the output, with every
output block started from the same chaining value.

*Induction.* The library's induction theorems cannot be instantiated by the
provers installed. Where a proof is about a loop over blocks (`CompressAll`,
`Skein_512_Process_Block`, the padded message), `LEMMA Induction` of the module takes
a set in place of the predicate and rests on the least element of a set of
natural numbers; hence the models write these loops as recursive functions.

*Model-checked only*:

- liveness and fairness, which this prover does not handle: `Recovers`,
  `QueueDrains`, `KeccakEnds` and the progress of `ImplementsSession`;
- the wiring of the compressions (`Threefish`, `GroestlRounds`, `JhSbox`, `JhSwaps`,
  `BlakeRounds`, `KeccakF`), whose instances are the code's own, so that TLC checks
  all there is;
- AES tables, rounds and known answers, the multiway integers and SHA-256, which
  compute on bits with the recursive operators of `Bitwise`;
- the rotations and byte swaps of `IntUtil`, whose widths are fixed by the code.

## 6. Not modelled

Status and reason of every component are in `PROJECT.json`. Left out are: the
host side of OpenCL, which prints; `span` and `static_initializer`, which wrap a
pointer and two calls; `oaes_sprintf`; the 256-bit copies of Skein's functions,
which `Init` never chooses; round constants and initial values of the hashes,
except AES and SHA-256, where the known answers would show a wrong one; the
32-bit branches of `cpu_features.cpp`; what a compiler makes of inline assembly.

Three hazards are covered only in part, as their notes say: reads that overlap
because of keep-alives (`SingleChain` is about a client without them), waits that
a second `login()` cancels (`NoEarlyReconnect` is about one), and `keccak` for a
digest of 100 bytes, where it never ends. In `SlowHashThreads` an OpenAES context
is a record without addresses; its blocks are the subject of `OpenAes`.

Hazards without a property: the id of the first keep-alive, since nothing calls
`_do_ping`, and the empty `blake256_update`, since nothing makes one. Outside the
list are the session id that a keep-alive would carry after a reconnect and the
missing read timeout, both about code that is a TODO, and threads that end
without `slow_hash_free_state`, which is up to the caller.

## 7. What is left

The models are complete in the sense of section 6, and every safety property of
the client, the two CryptoNight implementations and their ports, the threads, the
hex functions, OpenAES's contexts and the five streaming hashes is a theorem. What
stays with TLC is listed at the end of section 5, with the reason. Two extensions
would need more of the code than it has today: the id of the first keep-alive, when
something calls `_do_ping`, and an HMAC-BLAKE-224 with long keys, when the code
hashes them with BLAKE-224.
