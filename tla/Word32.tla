------------------------------- MODULE Word32 -------------------------------
(***************************************************************************)
(* 32-bit words as pairs <<high, low>> of 16-bit halves: the operations of *)
(* one way of a multiway integer (fingera/multiway_integer.hpp) on         *)
(* uint32_t, and the reads and writes of fingera/impl/endian.ipp.          *)
(***************************************************************************)
EXTENDS Integers, Sequences, Bitwise

Half == 65536

Plus(x, y) ==
    LET lo == x[2] + y[2] IN <<(x[1] + y[1] + lo \div Half) % Half, lo % Half>>

BitXor(x, y) == <<x[1] ^^ y[1], x[2] ^^ y[2]>>
BitOr(x, y) == <<x[1] | y[1], x[2] | y[2]>>
BitAnd(x, y) == <<x[1] & y[1], x[2] & y[2]>>

ShiftLeft(x, n) ==
    IF n >= 16 THEN <<(x[2] * 2^(n - 16)) % Half, 0>>
    ELSE <<((x[1] * 2^n) % Half) + x[2] \div 2^(16 - n), (x[2] * 2^n) % Half>>

ShiftRight(x, n) ==
    IF n >= 16 THEN <<0, x[1] \div 2^(n - 16)>>
    ELSE <<x[1] \div 2^n, (x[1] % 2^n) * 2^(16 - n) + x[2] \div 2^n>>

RotateLeft(x, n) == BitOr(ShiftLeft(x, n), ShiftRight(x, 32 - n))

\* The four bytes of memory from address a (counted from 0) as a word.
ReadBig(memory, a) ==
    <<256 * memory[a + 1] + memory[a + 2], 256 * memory[a + 3] + memory[a + 4]>>
ReadLittle(memory, a) ==
    <<256 * memory[a + 4] + memory[a + 3], 256 * memory[a + 2] + memory[a + 1]>>

BigBytes(x) == <<x[1] \div 256, x[1] % 256, x[2] \div 256, x[2] % 256>>
LittleBytes(x) == <<x[2] % 256, x[2] \div 256, x[1] % 256, x[1] \div 256>>
=============================================================================
