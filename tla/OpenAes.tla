------------------------------ MODULE OpenAes ------------------------------
(***************************************************************************)
(* Contexts, keys and messages of OpenAES (src/hash/monero/oaes_lib.c).    *)
(* Every call is one action, but oaes_encrypt takes a step per block; the  *)
(* pieces of a call that allocate memory may fail.  A byte is a set of     *)
(* symbols and xor the symmetric difference, so that CBC really cancels;   *)
(* the cipher on a block is a symbol that only the same key removes (its   *)
(* rounds are in module AesBlock).  Memory is a ledger of named blocks:    *)
(* every calloc and every free of the code is a change of its own, through *)
(* the pointers that the code passes.                                      *)
(***************************************************************************)
EXTENDS Integers, Sequences, FiniteSets

CONSTANTS
    Ctxs,          \* the contexts of the program
    BLOCK,         \* OAES_BLOCK_SIZE
    KeyLens,       \* lengths of a key in bytes (16, 24, 32)
    Texts,         \* plaintexts
    Fails,         \* which callocs may fail: a subset of {"ctx", "key", "data", "exp"}
    MaxCalls       \* bound: calls of the library

\* What the instances have to satisfy; the module that makes them assumes it.
OpenAesAssumption ==
    /\ BLOCK \in Nat \ {0, 1}
    /\ KeyLens \subseteq Nat \ {0}
    /\ \A m \in Texts : Len(m) \in Nat /\ m = [i \in 1..Len(m) |-> m[i]]
    /\ Fails \subseteq {"ctx", "key", "data", "exp"}

VARIABLES
    ctx,      \* context -> NULL or its block, key, options and iv
    heap,     \* the blocks that are allocated, and whether every free was of one of them
    keys,     \* number of keys made so far, they are different
    wire,     \* what export and encrypt have written: kind, header, body, origin
    rc,       \* the code returned by the last call
    got,      \* what the last successful decrypt or import has produced, and from what
    busy      \* the context of an oaes_encrypt that has not returned

vars == <<ctx, heap, keys, wire, rc, got, busy>>

NULL == [null |-> TRUE]
NoKey == [null |-> TRUE, of |-> "key"]
Nothing == [of |-> 0, result |-> <<>>]
NoFail == "none"

\* A byte is a set of symbols.
Byte(tag, a, b, i) == {<<tag, a, b, i>>}
Number(v) == Byte("num", v, 0, 0)
Zero == {}
Xor(x, y) == (x \ y) \cup (y \ x)
XorBlock(x, y) == [i \in 1..BLOCK |-> Xor(x[i], y[i])]

oaes_encrypt_block(k, b) == [i \in 1..BLOCK |-> Byte("E", k, b, i)]
oaes_decrypt_block(k, b) ==
    LET a == CHOOSE s \in b[1] : TRUE
    IN  IF b[1] # Zero /\ a[1] = "E" /\ b = oaes_encrypt_block(k, a[3]) THEN a[3]
        ELSE [i \in 1..BLOCK |-> Byte("D", k, b, i)]

\* What of a key is told from outside: its length and bytes, not where they are.
Value(k) == [data_len |-> k.data_len, data |-> k.data]

-----------------------------------------------------------------------------
\* The heap.  A block has the name of what it is allocated for and a number that makes it
\* one that was not allocated; NoBlock is the null pointer.  A block that is freed may be
\* allocated again.
NoBlock == <<"null", 0>>
NewBlock(h, what) ==
    CHOOSE p \in {<<what, n>> : n \in 1..(Cardinality(h.live) + 1)} : p \notin h.live
calloc(h, what) == [live |-> h.live \cup {NewBlock(h, what)}, ok |-> h.ok]
free(h, p) == [live |-> h.live \ {p}, ok |-> h.ok /\ p \in h.live]
FreeSet(h, p) == IF p = NoBlock THEN h ELSE free(h, p)

\* A heap and the key of the context that is worked on.  A key has its own block and
\* pointers to those of its data and of its expansion.
State(h, k) == [heap |-> h, key |-> k]

oaes_key_destroy(s) ==
    IF s.key = NoKey THEN s
    ELSE LET h1 == FreeSet(s.heap, s.key.buf)
             h2 == FreeSet(h1, s.key.exp)
         IN  State(free(h2, s.key.self), NoKey)

\* calloc of a key, whose pointers are then null; of its data; of its expansion.
CallocKey(h, len, data) ==
    State(calloc(h, "key"),
          [self |-> NewBlock(h, "key"), data_len |-> len, data |-> data,
           buf |-> NoBlock, exp |-> NoBlock])

CallocData(s) == State(calloc(s.heap, "data"), [s.key EXCEPT !.buf = NewBlock(s.heap, "data")])
CallocExp(s) == State(calloc(s.heap, "exp"), [s.key EXCEPT !.exp = NewBlock(s.heap, "exp")])

-----------------------------------------------------------------------------
\* oaes_set_option: the value is an iv, or the iv is random.
Mode(x, option, iv) ==
    IF option = "ECB"
    THEN [x EXCEPT !.options = (@ \ {"CBC"}) \cup {"ECB"}, !.iv = [i \in 1..BLOCK |-> Zero]]
    ELSE [x EXCEPT !.options = (@ \ {"ECB"}) \cup {"CBC"}, !.iv = iv]

Random(n) == [i \in 1..BLOCK |-> Byte("rand", n, 0, i)]
Given == [i \in 1..BLOCK |-> Byte("iv", 0, 0, i)]

\* rand() gives something new in every call.
Fresh == Random(keys + Len(wire))

oaes_alloc(c) ==
    /\ ctx[c] = NULL
    /\ \/ /\ "ctx" \in Fails                    \* oaes_alloc returns NULL
          /\ rc' = "MEM" /\ UNCHANGED <<ctx, heap>>
       \/ /\ ctx' = [ctx EXCEPT ![c] =
                Mode([self |-> NewBlock(heap, c), key |-> NoKey, options |-> {},
                      iv |-> [i \in 1..BLOCK |-> Zero]], "CBC", Fresh)]
          /\ heap' = calloc(heap, c) /\ rc' = "SUCCESS"
    /\ UNCHANGED <<keys, wire, got, busy>>

oaes_free(c) ==
    /\ IF ctx[c] = NULL THEN UNCHANGED <<ctx, heap>>
       ELSE /\ heap' = free(oaes_key_destroy(State(heap, ctx[c].key)).heap, ctx[c].self)
            /\ ctx' = [ctx EXCEPT ![c] = NULL]
    /\ rc' = "SUCCESS"
    /\ UNCHANGED <<keys, wire, got, busy>>

oaes_set_option(c) ==
    /\ IF ctx[c] = NULL THEN rc' = "ARG1" /\ UNCHANGED ctx
       ELSE \E o \in {"ECB", "CBC"}, iv \in {Given, Fresh} :
                ctx' = [ctx EXCEPT ![c] = Mode(@, o, iv)] /\ rc' = "SUCCESS"
    /\ UNCHANGED <<heap, keys, wire, got, busy>>

-----------------------------------------------------------------------------
\* The calloc that returns NULL in a call that makes a key.
Outcomes == (Fails \cap {"key", "data", "exp"}) \cup {NoFail}

\* A call ends with its return code and what it has made of heap and key.
Return(code, s) == [rc |-> code, heap |-> s.heap, key |-> s.key]

SetKey(c, new) ==
    /\ ctx' = [ctx EXCEPT ![c].key = new.key]
    /\ heap' = new.heap
    /\ rc' = new.rc

\* Mutated form of Expand: the key whose expansion failed is kept.
Expand_keeps(s, fail) ==
    IF fail = "exp" THEN Return("UNKNOWN", s) ELSE Return("SUCCESS", CallocExp(s))

\* oaes_key_expand and what its callers do about it: its MEM becomes 1 (UNKNOWN) by
\* the || before the call.
Expand(s, fail) ==
    IF fail = "exp" THEN Return("UNKNOWN", oaes_key_destroy(s))
    ELSE Return("SUCCESS", CallocExp(s))

\* Mutated form of Generate: a key without data is not freed.
Generate_leaks(s, len, data, fail) ==
    LET new == CallocKey(s.heap, len, data)
        old == oaes_key_destroy(State(new.heap, s.key))
    IN  CASE fail = "key" -> Return("MEM", s)
          [] fail = "data" -> Return("MEM", old)
          [] OTHER -> Expand(CallocData(State(old.heap, new.key)), fail)

\* oaes_key_gen: the old key is destroyed when the new one has its block but not
\* its data, and an error then frees the new key directly.
Generate(s, len, data, fail) ==
    LET new == CallocKey(s.heap, len, data)
        old == oaes_key_destroy(State(new.heap, s.key))
    IN  CASE fail = "key" -> Return("MEM", s)
          [] fail = "data" -> Return("MEM", State(free(old.heap, new.key.self), old.key))
          [] OTHER -> Expand(CallocData(State(old.heap, new.key)), fail)

\* Both imports: the old key is destroyed first, the new one hangs on the context at
\* once and every error destroys it there.
Import(s, len, data, fail) ==
    LET old == oaes_key_destroy(s)
        new == CallocKey(old.heap, len, data)
    IN  CASE fail = "key" -> Return("MEM", old)
          [] fail = "data" -> Return("MEM", oaes_key_destroy(new))
          [] OTHER -> Expand(CallocData(new), fail)

\* oaes_key_gen_128, _192 and _256.
oaes_key_gen(c) ==
    /\ IF ctx[c] = NULL THEN rc' = "ARG1" /\ UNCHANGED <<ctx, heap>>
       ELSE \E len \in KeyLens, fail \in Outcomes :
                SetKey(c, Generate(State(heap, ctx[c].key), len, keys + 1, fail))
    /\ keys' = keys + 1
    /\ UNCHANGED <<wire, got, busy>>

oaes_key_import_data(c, len, data) ==
    /\ IF ctx[c] = NULL THEN rc' = "ARG1" /\ UNCHANGED <<ctx, heap>>
       ELSE IF len \notin KeyLens THEN rc' = "ARG3" /\ UNCHANGED <<ctx, heap>>
       ELSE \E fail \in Outcomes :
                SetKey(c, Import(State(heap, ctx[c].key), len, data, fail))
    /\ keys' = keys + 1
    /\ UNCHANGED <<wire, got, busy>>

-----------------------------------------------------------------------------
\* Data with a header: type and length byte, options, flags.  Type 0 stands
\* for a key that is exported without one.
\* The caller's buffer may be too small ("small"); with "null" it asks for the length.
Buffers == {"ok", "small", "null"}

Exported(k, type) ==
    [type |-> type, lenByte |-> k.data_len, options |-> {}, pad |-> FALSE,
     len |-> k.data_len + (IF type = 1 THEN BLOCK ELSE 0), body |-> k.data, iv |-> <<>>,
     origin |-> Value(k), plain |-> <<>>]

\* oaes_key_export (type 1) and oaes_key_export_data (type 0).
oaes_key_export(c, type, buf) ==
    /\ IF ctx[c] = NULL THEN rc' = "ARG1" /\ UNCHANGED wire
       ELSE IF ctx[c].key = NoKey THEN rc' = "NOKEY" /\ UNCHANGED wire
       ELSE IF buf = "null" THEN rc' = "SUCCESS" /\ UNCHANGED wire
       ELSE IF buf = "small" THEN rc' = "BUF" /\ UNCHANGED wire
       ELSE wire' = Append(wire, Exported(ctx[c].key, type)) /\ rc' = "SUCCESS"
    /\ UNCHANGED <<ctx, heap, keys, got, busy>>

oaes_key_import(c, n) ==
    LET w == wire[n]
        refuse(code) == rc' = code /\ UNCHANGED <<ctx, heap, got>>
    IN  /\ IF ctx[c] = NULL THEN refuse("ARG1")
           ELSE IF w.len - BLOCK \notin KeyLens THEN refuse("ARG3")
           ELSE IF w.type # 1 \/ w.lenByte \notin KeyLens THEN refuse("HEADER")
           ELSE IF w.len # w.lenByte + BLOCK THEN refuse("ARG3")
           ELSE \E fail \in Outcomes :
                  /\ SetKey(c, Import(State(heap, ctx[c].key), w.lenByte, w.body, fail))
                  /\ got' = IF rc' = "SUCCESS"
                            THEN [of |-> n, result |-> <<Value(ctx'[c].key)>>] ELSE got
        /\ UNCHANGED <<keys, wire, busy>>

-----------------------------------------------------------------------------
PadLen(m) == IF Len(m) % BLOCK = 0 THEN 0 ELSE BLOCK - (Len(m) % BLOCK)

\* oaes_encrypt up to its loop: it writes the header and the iv.
oaes_encrypt(c, m, buf) ==
    LET x == ctx[c]
        refuse(code) == rc' = code /\ UNCHANGED <<wire, busy>>
    IN  /\ IF x = NULL THEN refuse("ARG1")
           ELSE IF buf = "null" THEN refuse("SUCCESS")
           ELSE IF buf = "small" THEN refuse("BUF")
           ELSE IF x.key = NoKey THEN refuse("NOKEY")
           ELSE /\ wire' = Append(wire,
                     [type |-> 2, lenByte |-> 0, options |-> x.options, pad |-> PadLen(m) # 0,
                      len |-> 2 * BLOCK + Len(m) + PadLen(m), body |-> <<>>, iv |-> x.iv,
                      origin |-> Value(x.key), plain |-> m])
                /\ busy' = {c}
                /\ UNCHANGED rc
        /\ UNCHANGED <<ctx, heap, keys, got>>

\* The block n of a message; the pad counts up from 1.
Block(m, n) ==
    [i \in 1..BLOCK |-> LET at == (n - 1) * BLOCK + i
                        IN  IF at <= Len(m) THEN m[at] ELSE Number(at - Len(m))]

\* Every block of the message being written has been encrypted.
Encrypted == LET w == wire[Len(wire)] IN Len(w.body) * BLOCK >= w.len - 2 * BLOCK

\* Mutated form of EncryptBlock: the iv of the context stays.
EncryptBlock_keepsIv(c) ==
    LET x == ctx[c]
        w == wire[Len(wire)]
        blk == Block(w.plain, Len(w.body) + 1)
        out == oaes_encrypt_block(x.key.data,
                                  IF "CBC" \in x.options THEN XorBlock(blk, x.iv) ELSE blk)
    IN  /\ c \in busy /\ ~Encrypted
        /\ wire' = [wire EXCEPT ![Len(wire)].body = Append(@, out)]
        /\ UNCHANGED <<ctx, heap, keys, rc, got, busy>>

\* One round of the loop: xor with the iv in CBC mode, where the result is the next iv.
EncryptBlock(c) ==
    LET x == ctx[c]
        w == wire[Len(wire)]
        cbc == "CBC" \in x.options
        blk == Block(w.plain, Len(w.body) + 1)
        out == oaes_encrypt_block(x.key.data, IF cbc THEN XorBlock(blk, x.iv) ELSE blk)
    IN  /\ c \in busy /\ ~Encrypted
        /\ wire' = [wire EXCEPT ![Len(wire)].body = Append(@, out)]
        /\ ctx' = [ctx EXCEPT ![c].iv = IF cbc THEN out ELSE @]
        /\ UNCHANGED <<heap, keys, rc, got, busy>>

EncryptReturn(c) ==
    /\ c \in busy /\ Encrypted
    /\ busy' = {} /\ rc' = "SUCCESS"
    /\ UNCHANGED <<ctx, heap, keys, wire, got>>

\* The block j of a message: its iv is the one of the message or the block before it.
DecryptBlock(w, k, j) ==
    LET iv == IF j = 1 THEN w.iv ELSE w.body[j - 1]
    IN  IF "CBC" \in w.options THEN XorBlock(oaes_decrypt_block(k, w.body[j]), iv)
        ELSE oaes_decrypt_block(k, w.body[j])

Decrypted(w, k) ==
    [i \in 1..(w.len - 2 * BLOCK) |->
        DecryptBlock(w, k, ((i - 1) \div BLOCK) + 1)[((i - 1) % BLOCK) + 1]]

\* The last byte is the length of the pad, which counts up to it.
PadOf(m) ==
    {t \in 1..(BLOCK - 1) : t <= Len(m) /\ \A j \in 1..t : m[Len(m) - t + j] = Number(j)
                            /\ m[Len(m)] = Number(t)}

Refused == <<"HEADER">>

\* What oaes_decrypt makes of a message once the arguments are accepted.
Opened(w, k) ==
    LET m == Decrypted(w, k)
    IN  IF w.type # 2 \/ w.options \notin {{"ECB"}, {"CBC"}} THEN Refused
        ELSE IF ~w.pad THEN m
        ELSE IF PadOf(m) = {} THEN Refused
        ELSE SubSeq(m, 1, Len(m) - CHOOSE t \in PadOf(m) : TRUE)

oaes_decrypt(c, n, buf) ==
    LET w == wire[n]
        k == ctx[c].key
        refuse(code) == rc' = code /\ UNCHANGED got
    IN  /\ IF ctx[c] = NULL THEN refuse("ARG1")
           ELSE IF w.len % BLOCK # 0 THEN refuse("ARG3")
           ELSE IF buf = "null" THEN refuse("SUCCESS")
           ELSE IF buf = "small" \/ w.len < 2 * BLOCK THEN refuse("BUF")
           ELSE IF k = NoKey THEN refuse("NOKEY")
           ELSE IF Opened(w, k.data) = Refused THEN refuse("HEADER")
           ELSE rc' = "SUCCESS" /\ got' = [of |-> n, result |-> Opened(w, k.data)]
        /\ UNCHANGED <<ctx, heap, keys, wire, busy>>

-----------------------------------------------------------------------------
Init ==
    /\ ctx = [c \in Ctxs |-> NULL]
    /\ heap = [live |-> {}, ok |-> TRUE] /\ keys = 0 /\ wire = <<>>
    /\ rc = "SUCCESS" /\ got = Nothing /\ busy = {}

Bound == keys + Len(wire) < MaxCalls

\* A call; a call of oaes_encrypt ends before the next one.
Call(c) ==
    \/ oaes_alloc(c)
    \/ oaes_free(c)
    \/ oaes_set_option(c)
    \/ Bound /\ oaes_key_gen(c)
    \/ Bound /\ \E len \in KeyLens \cup {0} : oaes_key_import_data(c, len, keys + 1)
    \/ Bound /\ \E n \in 1..Len(wire) :
          wire[n].type = 0 /\ oaes_key_import_data(c, wire[n].len, wire[n].body)
    \/ Bound /\ \E type \in {0, 1}, buf \in Buffers : oaes_key_export(c, type, buf)
    \/ \E n \in 1..Len(wire) : oaes_key_import(c, n)
    \/ Bound /\ \E m \in Texts, buf \in Buffers : oaes_encrypt(c, m, buf)
    \/ \E n \in 1..Len(wire), buf \in Buffers :
          \* a wrong key yields noise, about which nothing is claimed
          (ctx[c] # NULL /\ ctx[c].key # NoKey => Value(ctx[c].key) = wire[n].origin)
          /\ oaes_decrypt(c, n, buf)

Next ==
    \E c \in Ctxs :
        \/ busy = {} /\ Call(c)
        \/ EncryptBlock(c)
        \/ EncryptReturn(c)

Spec == Init /\ [][Next]_vars

-----------------------------------------------------------------------------
\* The pointers of a context, and all of the program that are not null.
Pointers(x) ==
    IF x = NULL THEN <<>>
    ELSE IF x.key = NoKey THEN <<x.self>>
    ELSE <<x.self, x.key.self, x.key.buf, x.key.exp>>
Target(h) == Pointers(ctx[h[1]])[h[2]]
Held == {h \in Ctxs \X (1..4) : h[2] <= Len(Pointers(ctx[h[1]])) /\ Target(h) # NoBlock}

\* Whichever allocation of a call fails: nothing has been freed that was not allocated,
\* every block has a pointer and no pointer dangles, and no two share a block.
NoLeak ==
    /\ heap.ok
    /\ heap.live = {Target(h) : h \in Held}
    /\ \A g, h \in Held : Target(g) = Target(h) => g = h

\* A context has no key or an expanded one; a key whose expansion failed does not
\* stay behind (oaes_encrypt and the slow hash read exp_data without a check).
KeyIsExpanded ==
    \A c \in Ctxs :
        ctx[c] # NULL /\ ctx[c].key # NoKey =>
            ctx[c].key.buf # NoBlock /\ ctx[c].key.exp # NoBlock /\ ctx[c].key.data_len \in KeyLens

\* Whatever has been decrypted is what was encrypted, on any context with that
\* key, whatever its options and its iv have become since; an imported key is
\* the exported one; a message is never taken for a key, nor a key for a message.
RoundTrips ==
    got # Nothing =>
        got.result = IF wire[got.of].type = 1 THEN <<wire[got.of].origin>> ELSE wire[got.of].plain

\* oaes_decrypt accepts what oaes_encrypt has written, of any length and in any
\* mode, and returns the plaintext: every message carries the iv, the mode and the
\* flag it needs, although the context's iv and options move on.
MessagesOpen ==
    \A n \in 1..Len(wire) :
        wire[n].type = 2 /\ (n = Len(wire) => busy = {}) =>
            /\ wire[n].len % BLOCK = 0
            /\ Opened(wire[n], wire[n].origin.data) = wire[n].plain
=============================================================================
