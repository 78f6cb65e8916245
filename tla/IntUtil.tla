------------------------------- MODULE IntUtil -------------------------------
(***************************************************************************)
(* The integer helpers of src/src/hash/monero/common/int-util.h, and the   *)
(* two 64-bit multiplications for ARM in slow-hash.c.  A dword has H bits  *)
(* instead of 32 and a word 2 * H; all operations are modulo their width.  *)
(* Where only the order of bytes matters a word is a sequence of bytes,    *)
(* the lowest first.                                                       *)
(***************************************************************************)
EXTENDS Integers, Sequences, SequencesExt

CONSTANTS
    H,         \* bits of a dword (32 in the code)
    Operands   \* values of the second operand

Half == 2^H             \* the values of a dword
Full == Half * Half     \* the values of a word, which is two dwords

\* What the instances have to satisfy; the module that makes them assumes it.
WidthAssumption ==
    /\ H \in {2, 4, 8, 16, 32} /\ Half \in Nat /\ Half > 1
    /\ Operands \subseteq 0..(Full - 1)

hi_dword(v) == v \div Half
lo_dword(v) == v % Half

\* (x << (r & 31)) | (x >> (-r & 31)): % is the & with a power of two; the two parts
\* overlap when r is a multiple of the width, where both are x.
rol(x, r, width) ==
    LET left == (x * 2^(r % width)) % 2^width
        right == x \div 2^((-r) % width)
    IN  IF r % width = 0 THEN x ELSE left + right

\* Mutated form of mul128: the carry of the sum of the middle products is lost.
mul128_noCarry(multiplier, multiplicand) ==
    LET a == hi_dword(multiplier)      b == lo_dword(multiplier)
        c == hi_dword(multiplicand)    d == lo_dword(multiplicand)
        adbc == ((a * d) + (b * c)) % Full
        product_lo == ((b * d) + (adbc * Half)) % Full
        product_lo_carry == IF product_lo < b * d THEN 1 ELSE 0
    IN  [hi |-> ((a * c) + hi_dword(adbc) + product_lo_carry) % Full, lo |-> product_lo,
         ac |-> a * c]

mul128(multiplier, multiplicand) ==
    LET a == hi_dword(multiplier)      b == lo_dword(multiplier)
        c == hi_dword(multiplicand)    d == lo_dword(multiplicand)
        adbc == ((a * d) + (b * c)) % Full
        adbc_carry == IF adbc < a * d THEN 1 ELSE 0
        product_lo == ((b * d) + (adbc * Half)) % Full
        product_lo_carry == IF product_lo < b * d THEN 1 ELSE 0
    IN  [hi |-> ((a * c) + hi_dword(adbc) + (adbc_carry * Half) + product_lo_carry) % Full,
         lo |-> product_lo, ac |-> a * c]

\* mul of slow-hash.c in C: the middle products take up the carries.
mul_arm(x, y) ==
    LET A == hi_dword(x)    a == lo_dword(x)
        B == hi_dword(y)    b == lo_dword(y)
        l0 == a * b
        l2 == A * b
        l1 == ((a * B) + hi_dword(l0) + lo_dword(l2)) % Full
        l3 == ((A * B) + hi_dword(l1) + hi_dword(l2)) % Full
    IN  [hi |-> l3, lo |-> lo_dword(l1) * Half + lo_dword(l0)]

\* umlal lo, hi, p, q: the product is added to the pair.
umlal(lo, hi, p, q) ==
    LET v == ((hi * Half) + lo + (p * q)) % Full IN [lo |-> lo_dword(v), hi |-> hi_dword(v)]

\* cn_mul128 for ARM32, in assembly.
cn_mul128(x, y) ==
    LET A == hi_dword(x)    a == lo_dword(x)
        B == hi_dword(y)    b == lo_dword(y)
        u1 == umlal(0, 0, a, b)                 \* umull: t0, t1
        u2 == umlal(u1.hi, 0, a, B)             \* t1, t0
        u3 == umlal(u2.lo, 0, A, b)             \* t1, t2
        u4 == umlal(u2.hi, 0, A, B)             \* t0, t3
        sum == u4.lo + u3.hi                    \* adds, adc
    IN  [hi |-> ((u4.hi + hi_dword(sum)) % Half) * Half + lo_dword(sum),
         lo |-> u3.lo * Half + u1.lo]

\* dividend has one dword; the remainder so far is put above it.
div_with_reminder(dividend, remainder, divisor) ==
    LET n == dividend + remainder * Half IN [q |-> n \div divisor, r |-> n % divisor]

\* Long division in base 2^32.  The quotient of a dword is put into the word with |,
\* which is + as long as it is below the base.
div128_32(dividend_hi, dividend_lo, divisor) ==
    LET d3 == div_with_reminder(hi_dword(dividend_hi), 0, divisor)
        d2 == div_with_reminder(lo_dword(dividend_hi), d3.r, divisor)
        d1 == div_with_reminder(hi_dword(dividend_lo), d2.r, divisor)
        d0 == div_with_reminder(lo_dword(dividend_lo), d1.r, divisor)
    IN  [hi |-> ((d3.q * Half) % Full) + d2.q, lo |-> ((d1.q * Half) % Full) + d0.q, r |-> d0.r]

-----------------------------------------------------------------------------
\* Words as bytes: shifts by n bytes, a mask that keeps some bytes, and |.
Shl(w, n) == [k \in 1..Len(w) |-> IF k > n THEN w[k - n] ELSE 0]
Shr(w, n) == [k \in 1..Len(w) |-> IF k + n <= Len(w) THEN w[k + n] ELSE 0]
Keep(w, S) == [k \in 1..Len(w) |-> IF k \in S THEN w[k] ELSE 0]
Or(v, w) == [k \in 1..Len(v) |-> IF v[k] = 0 THEN w[k] ELSE v[k]]
Every(n, p) == {k \in 1..8 : ((k - 1) \div n) % 2 = p}

swap32(x) ==
    LET y == Or(Shl(Keep(x, Every(1, 0)), 1), Shr(Keep(x, Every(1, 1)), 1))
    IN  Or(Shl(y, 2), Shr(y, 2))

swap64(x) ==
    LET y == Or(Shl(Keep(x, Every(1, 0)), 1), Shr(Keep(x, Every(1, 1)), 1))
        z == Or(Shl(Keep(y, Every(2, 0)), 2), Shr(Keep(y, Every(2, 1)), 2))
    IN  Or(Shl(z, 4), Shr(z, 4))

\* The macros take every byte to its place.
SWAP32(x) ==
    FoldLeft(Or, Shl(Keep(x, {1}), 3),
             <<Shl(Keep(x, {2}), 1), Shr(Keep(x, {3}), 1), Shr(Keep(x, {4}), 3)>>)
SWAP64(x) ==
    FoldLeft(Or, Shl(Keep(x, {1}), 7),
             <<Shl(Keep(x, {2}), 5), Shl(Keep(x, {3}), 3), Shl(Keep(x, {4}), 1),
               Shr(Keep(x, {5}), 1), Shr(Keep(x, {6}), 3), Shr(Keep(x, {7}), 5),
               Shr(Keep(x, {8}), 7)>>)

\* memcpy_swap64 and mem_inplace_swap64 (dst = src), element by element.
memcpy_swap64(src, n) == [e \in 1..n |-> swap64(src[e])]
memcpy_swap32(src, n) == [e \in 1..n |-> swap32(src[e])]

-----------------------------------------------------------------------------
\* All pairs of words.
VARIABLES x, y

Init == x = 0 /\ y \in Operands

Next == x' = (x + 1) % Full /\ UNCHANGED y

Spec == Init /\ [][Next]_<<x, y>>

\* The three multiplications from half-width products give both words of the
\* product, with all carries, and the assertion of mul128 holds.
ProductIsExact ==
    /\ \A p \in {mul_arm(x, y), cn_mul128(x, y)} : p.hi * Full + p.lo = x * y
    /\ mul128(x, y).hi * Full + mul128(x, y).lo = x * y
    /\ mul128(x, y).ac <= mul128(x, y).hi

\* div128_32 divides x * 2^64 + y by every divisor, and no quotient of a dword reaches
\* into the next one.
DivisionIsExact ==
    \A d \in 1..(Half - 1) :
        LET q == div128_32(x, y, d)
        IN  /\ (q.hi * Full + q.lo) * d + q.r = x * Full + y
            /\ q.r < d /\ q.hi < Full /\ q.lo < Full

\* swap32, swap64 and the macros reverse the bytes of words made of the dwords of x
\* and y, and twice is not at all; a rotation by r bits is r rotations by one.
OrderIsReversed ==
    LET w32 == <<hi_dword(x), lo_dword(x), hi_dword(y), lo_dword(y)>>
        w64 == w32 \o <<Half, Half + 1, Half + 2, Half + 3>>
    IN  /\ swap32(w32) = Reverse(w32) /\ SWAP32(w32) = Reverse(w32)
        /\ memcpy_swap64(<<w64, SWAP64(w64)>>, 2) = <<Reverse(w64), w64>>
        /\ memcpy_swap32(memcpy_swap32(<<w32>>, 1), 1) = <<w32>>
        /\ \A r \in 0..(2 * H) : rol(x, r + 1, 2 * H) = rol(rol(x, r, 2 * H), 1, 2 * H)
=============================================================================
