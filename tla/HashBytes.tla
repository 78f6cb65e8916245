----------------------------- MODULE HashBytes -----------------------------
(***************************************************************************)
(* Bytes and blocks for the models of the streaming hashes.  No control    *)
(* flow of these functions depends on the data that is hashed, so a byte   *)
(* of the message is its position in the message.  A chaining value is the *)
(* sequence of the compressions that lead to it: two hashes are equal when *)
(* they compress the same blocks with the same counters and flags.         *)
(***************************************************************************)
EXTENDS Integers, Sequences, SequencesExt

\* The k-th byte of the message; the code may use all of its bits.
Msg(k) == <<"msg", k, 8>>

\* A byte of which only the first r bits belong to the message.
Cut(k, r) == <<"cut", k, r>>

\* The first r bits of the k-th byte, a one bit and zeros; End(k, 0) is 0x80.
End(k, r) == <<"end", IF r = 0 THEN 0 ELSE k, r>>

\* A byte that the code computes; padding bytes are Num(0).
Num(v) == <<"num", v, 0>>

\* Memory that belongs to nobody: behind the data, or never written.
Junk == <<"junk", 0, 0>>

Zeros(n) == [i \in 1..n |-> Num(0)]

\* What a caller passes: `bits` bits of the message from byte `from` on.
Data(from, bits) ==
    [i \in 1..(bits \div 8) |-> Msg(from + i)]
    \o IF bits % 8 = 0 THEN <<>> ELSE <<Cut(from + bits \div 8 + 1, bits % 8)>>

\* The whole message and the one bit behind it.
Terminated(bits) ==
    [i \in 1..(bits \div 8) |-> Msg(i)] \o <<End(bits \div 8 + 1, bits % 8)>>

\* s with the bytes of d from position `at` (counted from 0) on, as memcpy.
Overlay(s, at, d) ==
    [i \in 1..Len(s) |-> IF i > at /\ i <= at + Len(d) THEN d[i - at] ELSE s[i]]

\* s cut into blocks of n bytes; an incomplete last block is dropped.
Blocks(s, n) == [i \in 1..(Len(s) \div n) |-> SubSeq(s, (i - 1) * n + 1, i * n)]

From(s, k) == SubSeq(s, k + 1, Len(s))

\* The smallest multiple of n that is at least k.
RoundUp(k, n) == ((k + n - 1) \div n) * n

\* v as `len` bytes, most significant first, in a byte of `base` values.
BigEndian(v, len, base) == [i \in 1..len |-> Num((v \div base^(len - i)) % base)]
=============================================================================
