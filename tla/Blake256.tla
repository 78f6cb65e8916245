----------------------------- MODULE Blake256 -----------------------------
(***************************************************************************)
(* BLAKE-256, BLAKE-224 and the HMACs built on them                        *)
(* (src/hash/monero/blake256.c): the buffer, the 64-bit count of message   *)
(* bits in two words, which Final moves backwards so that the padding does *)
(* not count, and the flag nullt for a block without message bits.  The    *)
(* compression function is data: h is the sequence of its calls.           *)
(***************************************************************************)
EXTENDS HashBytes

CONSTANTS
    BLOCK,            \* bytes of a block (64)
    WordBytes,        \* bytes of a word of the count (4)
    TMod,             \* 2^32, where a word of the count wraps
    Digest256, Digest224,   \* bytes of a digest (32, 28)
    Uses,             \* what callers ask for: algorithm and length of the key
    MinPiece,         \* bytes a caller passes at least in one update
    MaxBytes          \* bound: length of the message

NoKey == -1           \* the plain hash

\* What the instances have to satisfy; the module that makes them assumes it.
BlakeAssumption ==
    /\ BLOCK \in Nat /\ WordBytes \in Nat \ {0} /\ BLOCK > 2 * WordBytes + 1
    /\ TMod \in Nat /\ TMod > 0 /\ TMod % (8 * BLOCK) = 0
    /\ Digest256 \in 1..BLOCK /\ Digest224 \in 1..Digest256
    /\ Uses \subseteq [alg : {256, 224}, key : Nat \cup {NoKey}]
    /\ MinPiece \in Nat

VARIABLES
    use,      \* the element of Uses
    S,        \* the state, or the inner state of an HMAC
    outer,    \* the outer state of an HMAC
    phase,    \* "new", "open", "done"
    total,    \* bytes of the message passed so far
    digest    \* the compressions behind the digest

vars == <<use, S, outer, phase, total, digest>>

LengthBytes == 2 * WordBytes
Room == 8 * (BLOCK - LengthBytes - 1)     \* 440: bits in front of the last pad byte

\* S->t[0] += 512; if (S->t[0] == 0) S->t[1]++; and blake256_compress.
CountAndCompress(s, blk) ==
    LET t0 == (s.t0 + 8 * BLOCK) % TMod
        t1 == IF t0 = 0 THEN (s.t1 + 1) % TMod ELSE s.t1
    IN  [s EXCEPT !.t0 = t0, !.t1 = t1,
                  !.h = Append(@, [blk |-> blk,
                                   t |-> IF s.nullt THEN <<0, 0>> ELSE <<t0, t1>>])]

\* The while loop: all whole blocks of the data.
CompressAll(s, data) ==
    LET turn[i \in 0..(Len(data) \div BLOCK)] ==
            IF i = 0 THEN s
            ELSE CountAndCompress(turn[i - 1], SubSeq(data, (i - 1) * BLOCK + 1, i * BLOCK))
    IN  turn[Len(data) \div BLOCK]

New(alg) ==
    [h |-> <<[iv |-> alg]>>, t0 |-> 0, t1 |-> 0, buflen |-> 0, nullt |-> FALSE,
     buf |-> [i \in 1..BLOCK |-> Junk]]

blake256_init == New(256)
blake224_init == New(224)

\* From the loop on: the bytes behind the last whole block stay in the buffer,
\* behind the `left` bytes that are there.
CompressAndKeep(s, left, data) ==
    LET s1 == CompressAll(s, data)
        rest == From(data, (Len(data) \div BLOCK) * BLOCK)
    IN  IF rest # <<>>
        THEN [s1 EXCEPT !.buf = Overlay(@, left, rest), !.buflen = 8 * (left + Len(rest))]
        ELSE [s1 EXCEPT !.buflen = 0]

\* Mutated form of blake256_update: `>` for `>=` when the buffer is completed.
blake256_update_late(s, data) ==
    LET left == s.buflen \div 8
        fill == BLOCK - left
        buf == Overlay(s.buf, left, SubSeq(data, 1, fill))
    IN  IF left # 0 /\ Len(data) > fill
        THEN CompressAndKeep(CountAndCompress([s EXCEPT !.buf = buf], buf), 0, From(data, fill))
        ELSE CompressAndKeep(s, left, data)

blake256_update(s, data) ==
    LET left == s.buflen \div 8
        fill == BLOCK - left
        buf == Overlay(s.buf, left, SubSeq(data, 1, fill))
    IN  IF left # 0 /\ Len(data) >= fill
        THEN CompressAndKeep(CountAndCompress([s EXCEPT !.buf = buf], buf), 0, From(data, fill))
        ELSE CompressAndKeep(s, left, data)

blake224_update(s, data) == blake256_update(s, data)

Back(s, bits) == [s EXCEPT !.t0 = (@ - bits) % TMod]     \* S->t[0] -= bits

U32TO8(v) == [i \in 1..WordBytes |-> <<"byte", v, i>>]

padding == <<End(0, 0)>> \o Zeros(BLOCK - 1)

\* pa: first and last padding bit in one byte; pb: the last one alone.
pa(alg) == IF alg = 256 THEN <<"0x81", 0, 0>> ELSE End(0, 0)
pb(alg) == IF alg = 256 THEN Num(1) ELSE Num(0)

\* Padding up to the last pad byte, in the branches of blake256_final_h.
PadBlock(s, alg) ==
    LET fits == blake256_update(Back([s EXCEPT !.nullt = (s.buflen = 0)], Room - s.buflen),
                                SubSeq(padding, 1, (Room - s.buflen) \div 8))
        full == blake256_update(Back(s, 8 * BLOCK - s.buflen),
                                SubSeq(padding, 1, (8 * BLOCK - s.buflen) \div 8))
        next == blake256_update(Back(full, Room), SubSeq(padding, 2, Room \div 8 + 1))
        last(r) == Back(blake256_update(r, <<pb(alg)>>), 8)
    IN  CASE s.buflen = Room -> blake256_update(Back(s, 8), <<pa(alg)>>)
          [] s.buflen < Room -> last(fits)
          [] s.buflen > Room -> last([next EXCEPT !.nullt = TRUE])

\* The digest is h of the state that is left.
blake256_final_h(s, alg) ==
    LET lo == (s.t0 + s.buflen) % TMod
        hi == IF lo < s.buflen THEN (s.t1 + 1) % TMod ELSE s.t1
    IN  blake256_update(Back(PadBlock(s, alg), 8 * LengthBytes), U32TO8(hi) \o U32TO8(lo))

blake256_final(s) == blake256_final_h(s, 256)
blake224_final(s) == blake256_final_h(s, 224)

blake256_hash(bytes) == blake256_final(blake256_update(blake256_init, bytes)).h

-----------------------------------------------------------------------------
KeyBytes(n) == [i \in 1..n |-> <<"key", i, 0>>]
DigestBytes(h, n) == [i \in 1..n |-> <<"hash", i, h>>]
Masked(mask, key) ==
    [i \in 1..BLOCK |-> <<mask, i, IF i <= Len(key) THEN key[i] ELSE Num(0)>>]

\* hmac_blake256_init and hmac_blake224_init: a long key is replaced by its
\* hash, which is the one of BLAKE-256 in both functions.
hmac_blake256_init(key) ==
    LET k == IF Len(key) > BLOCK THEN DigestBytes(blake256_hash(key), Digest256) ELSE key
    IN  [inner |-> blake256_update(blake256_init, Masked("0x36", k)),
         outer |-> blake256_update(blake256_init, Masked("0x5c", k))]

hmac_blake224_init(key) ==
    LET k == IF Len(key) > BLOCK THEN DigestBytes(blake256_hash(key), Digest224) ELSE key
    IN  [inner |-> blake224_update(blake224_init, Masked("0x36", k)),
         outer |-> blake224_update(blake224_init, Masked("0x5c", k))]

hmac_blake256_final(inner, out) ==
    blake256_final(blake256_update(out, DigestBytes(blake256_final(inner).h, Digest256)))

hmac_blake224_final(inner, out) ==
    blake224_final(blake224_update(out, DigestBytes(blake224_final(inner).h, Digest224)))

-----------------------------------------------------------------------------
Init ==
    /\ use \in Uses
    /\ S = New(0) /\ outer = New(0)       \* memory of the caller
    /\ phase = "new" /\ total = 0 /\ digest = <<>>

Begin ==
    /\ phase = "new"
    /\ IF use.key = NoKey
       THEN /\ S' = IF use.alg = 256 THEN blake256_init ELSE blake224_init
            /\ UNCHANGED outer
       ELSE LET key == KeyBytes(use.key)
                new == IF use.alg = 256 THEN hmac_blake256_init(key)
                                        ELSE hmac_blake224_init(key)
            IN  S' = new.inner /\ outer' = new.outer
    /\ phase' = "open"
    /\ UNCHANGED <<use, total, digest>>

\* blake*_update, and hmac_blake*_update, which updates the inner state.
Update(n) ==
    /\ phase = "open"
    /\ total + n <= MaxBytes
    /\ S' = IF use.alg = 256 THEN blake256_update(S, Data(total, 8 * n))
                             ELSE blake224_update(S, Data(total, 8 * n))
    /\ total' = total + n
    /\ UNCHANGED <<use, outer, phase, digest>>

Final ==
    /\ phase = "open"
    /\ S' = IF use.alg = 256 THEN blake256_final(S) ELSE blake224_final(S)
    /\ outer' = CASE use.key = NoKey -> outer
                  [] use.key # NoKey /\ use.alg = 256 -> hmac_blake256_final(S, outer)
                  [] use.key # NoKey /\ use.alg = 224 -> hmac_blake224_final(S, outer)
    /\ digest' = IF use.key = NoKey THEN S'.h ELSE outer'.h
    /\ phase' = "done"
    /\ UNCHANGED <<use, total>>

Next ==
    \/ Begin
    \/ \E n \in MinPiece..MaxBytes : Update(n)
    \/ Final

Spec == Init /\ [][Next]_vars

-----------------------------------------------------------------------------
\* Reference: the padded message in blocks, and the number of message bits up
\* to the end of the i-th block, zero if it has none.
BlockCount(m) == RoundUp(Len(m) + 1 + LengthBytes, BLOCK) \div BLOCK

PadBytes(alg, n) ==
    IF n = 1 THEN <<pa(alg)>> ELSE <<End(0, 0)>> \o Zeros(n - 2) \o <<pb(alg)>>

LengthField(bits) == U32TO8((bits \div TMod) % TMod) \o U32TO8(bits % TMod)

Padded(alg, m) ==
    m \o PadBytes(alg, BlockCount(m) * BLOCK - LengthBytes - Len(m)) \o LengthField(8 * Len(m))

CountUpTo(m, i) ==
    IF (i - 1) * BLOCK >= Len(m) THEN 0
    ELSE IF i * BLOCK <= Len(m) THEN 8 * i * BLOCK ELSE 8 * Len(m)

Hash(alg, m) ==
    <<[iv |-> alg]>> \o
    [i \in 1..BlockCount(m) |->
        [blk |-> SubSeq(Padded(alg, m), (i - 1) * BLOCK + 1, i * BLOCK),
         t |-> <<CountUpTo(m, i) % TMod, (CountUpTo(m, i) \div TMod) % TMod>>]]

Size(alg) == IF alg = 256 THEN Digest256 ELSE Digest224

HMAC(alg, key, m) ==
    LET k == IF Len(key) > BLOCK THEN DigestBytes(Hash(alg, key), Size(alg)) ELSE key
    IN  Hash(alg, Masked("0x5c", k)
                  \o DigestBytes(Hash(alg, Masked("0x36", k) \o m), Size(alg)))

\* Whatever the pieces, the digest is the one of the padded message: the
\* padding takes one or two blocks, its bits are not counted although
\* blake256_update counts every block, a block without message bits gets the
\* count zero, and the count carries from one word to the other.
HashesPaddedMessage ==
    phase = "done" /\ use.key = NoKey => digest = Hash(use.alg, Data(0, 8 * total))

\* "The hmac_* functions implement HMAC-BLAKE-256 and HMAC-BLAKE-224.  HMAC is
\* specified by RFC 2104."
HmacIsRFC2104 ==
    phase = "done" /\ use.key # NoKey =>
        digest = HMAC(use.alg, KeyBytes(use.key), Data(0, 8 * total))
=============================================================================
