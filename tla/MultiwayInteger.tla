-------------------------- MODULE MultiwayInteger --------------------------
(***************************************************************************)
(* The multiway integers of src/include/fingera: multiway_integer, which   *)
(* packs the ways into one integer and reaches them through a union;       *)
(* multiway_integer_slow, an array; and the MMX, SSE2 and AVX2 classes,    *)
(* whose arithmetic is the processor's and which load and save the ways in *)
(* reverse.  A target has two bytes of ByteBits bits.                      *)
(***************************************************************************)
EXTENDS Integers, Sequences, Bitwise

CONSTANTS
    ByteBits, Way,   \* bits of a byte, ways of an integer
    Operands         \* values of the second operand

\* What the instances have to satisfy; the module that makes them assumes it.
SizeAssumption ==
    ByteBits \in Nat \ {0} /\ Way \in Nat \ {0} /\ Operands \subseteq 0..(2^(2 * ByteBits * Way) - 1)

Bits == 2 * ByteBits       \* of a target
Base == 2^Bits
Byte == 0..(2^ByteBits - 1)
Lanes == 0..(Way - 1)
Packed == 0..(2^(Bits * Way) - 1)

-----------------------------------------------------------------------------
\* multiway_integer: the union, on a little-endian machine.
stub(v, i) == (v \div 2^(Bits * i)) % Base

Value(f) ==
    LET upTo[i \in 0..Way] == IF i = 0 THEN 0 ELSE upTo[i - 1] + f[i - 1] * 2^(Bits * (i - 1))
    IN  upTo[Way]

op_broadcast(value) == Value([i \in Lanes |-> value])

\* Mutated form of op_add: the integers are added as a whole.
op_add_whole(x, y) == (x + y) % 2^(Bits * Way)

op_add(x, y) == Value([i \in Lanes |-> (stub(x, i) + stub(y, i)) % Base])
op_xor(x, y) == x ^^ y
op_or(x, y) == x | y
op_and(x, y) == x & y
op_andnot(x, y) == (2^(Bits * Way) - 1 - x) & y
op_shr(x, n) == Value([i \in Lanes |-> stub(x, i) \div 2^n])
op_shl(x, n) == Value([i \in Lanes |-> (stub(x, i) * 2^n) % Base])
op_rol(x, n) ==
    Value([i \in Lanes |-> ((stub(x, i) * 2^n) % Base) | (stub(x, i) \div 2^(Bits - n))])

-----------------------------------------------------------------------------
\* multiway_integer_slow: lane -> value, changed in place and returned.
slow_add(x, y) == [i \in Lanes |-> (x[i] + y[i]) % Base]
slow_xor(x, y) == [i \in Lanes |-> x[i] ^^ y[i]]
slow_or(x, y) == [i \in Lanes |-> x[i] | y[i]]
slow_and(x, y) == [i \in Lanes |-> x[i] & y[i]]
slow_not(x) == [i \in Lanes |-> Base - 1 - x[i]]
slow_andnot(x, y) == slow_and(slow_not(x), y)
slow_shr(x, n) == [i \in Lanes |-> x[i] \div 2^n]
slow_shl(x, n) == [i \in Lanes |-> (x[i] * 2^n) % Base]
slow_rol(x, n) ==
    LET right == slow_shr(x, Bits - n)
        left == slow_shl(x, n)
    IN  slow_or(left, right)

-----------------------------------------------------------------------------
\* Memory is a function from addresses to bytes.
read_little(m, a) == m[a] + m[a + 1] * 2^ByteBits
read_big(m, a) == m[a] * 2^ByteBits + m[a + 1]

Read(m, a, little) == IF little THEN read_little(m, a) ELSE read_big(m, a)

\* write_little and write_big: the byte that ends up at a + k.
Written(v, k, little) == IF little = (k = 0) THEN v % 2^ByteBits ELSE v \div 2^ByteBits

load(m, blk_size, offset, little) ==
    [i \in Lanes |-> Read(m, blk_size * i + offset, little)]

\* _mm_set_epi32 and its relatives take the highest lane first.
mi_load(m, blk_size, offset, little) ==
    [i \in Lanes |-> Read(m, blk_size * (Way - 1 - i) + offset, little)]

\* The stores go through the ways in order.
Store(m, f, blk_size, offset, little) ==
    [a \in DOMAIN m |->
       IF \E i \in Lanes, k \in 0..1 : a = blk_size * i + offset + k
       THEN LET i == CHOOSE j \in Lanes : a - (blk_size * j + offset) \in 0..1
            IN  Written(f[i], a - (blk_size * i + offset), little)
       ELSE m[a]]

save(m, f, blk_size, offset, little) == Store(m, f, blk_size, offset, little)

\* data[3 - i], or _mm256_extract_epi32(value, 7 - i).
mi_save(m, f, blk_size, offset, little) ==
    Store(m, [i \in Lanes |-> f[Way - 1 - i]], blk_size, offset, little)

-----------------------------------------------------------------------------
\* All pairs of packed integers.
VARIABLES x, y

Init == x = 0 /\ y \in Operands

Next == x' = (x + 1) % 2^(Bits * Way) /\ UNCHANGED y

Spec == Init /\ [][Next]_<<x, y>>

Stubs(v) == [i \in Lanes |-> stub(v, i)]

\* Packed and slow integers agree on every operation way by way: nothing is carried or
\* shifted from one way into the next, and rotations lose no bit.
WaysAreIndependent ==
    LET X == Stubs(x)
        Y == Stubs(y)
    IN  /\ Stubs(op_add(x, y)) = slow_add(X, Y)
        /\ Stubs(op_xor(x, y)) = slow_xor(X, Y)
        /\ Stubs(op_or(x, y)) = slow_or(X, Y)
        /\ Stubs(op_and(x, y)) = slow_and(X, Y)
        /\ Stubs(op_andnot(x, y)) = slow_andnot(X, Y)
        /\ Stubs(op_broadcast(stub(x, 0))) = [i \in Lanes |-> stub(x, 0)]
        /\ \A n \in 0..(Bits - 1) :
            /\ Stubs(op_shr(x, n)) = slow_shr(X, n)
            /\ Stubs(op_shl(x, n)) = slow_shl(X, n)
        /\ \A n \in 1..(Bits - 1) :
            /\ Stubs(op_rol(x, n)) = slow_rol(X, n)
            /\ op_rol(op_rol(x, n), Bits - n) = x

\* Memory in which the ways of x are stored 3 bytes apart, the bytes of y between them.
Scattered ==
    [a \in 0..(3 * Way + 1) |->
       IF a % 3 = 2 \/ a > 3 * Way THEN stub(y, 0) % 2^ByteBits
       ELSE Written(stub(x, (a \div 3) % Way), a % 3, TRUE)]

\* save writes back what load has read, way by way, whatever the order of the lanes, of
\* the bytes and the place of the blocks, and touches nothing between them; the sum
\* saved by the reversed classes is the sum saved by the others.
SaveUndoesLoad ==
    \A little \in BOOLEAN, offset \in {0, 1} :
        LET m == Scattered
            f == load(m, 3, offset, little)
            g == mi_load(m, 3, offset, little)
        IN  /\ save(m, f, 3, offset, little) = m
            /\ mi_save(m, g, 3, offset, little) = m
            /\ save(m, slow_add(f, f), 3, offset, ~little) =
                 mi_save(m, slow_add(g, g), 3, offset, ~little)
=============================================================================
