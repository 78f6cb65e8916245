------------------------------ MODULE AesRound ------------------------------
(***************************************************************************)
(* The AES round, twice: OpenAES computes it step by step                  *)
(* (src/hash/monero/oaes_lib.c), aesb.c with four tables of words.  A      *)
(* block is 16 bytes, a word of aesb.c its four bytes, lowest first (the   *)
(* order in memory on the machines the tables are made for).               *)
(***************************************************************************)
EXTENDS Integers, Sequences, SequencesExt, Bitwise, AesTables

Byte == 0..255
XorAll(s) == FoldLeft(LAMBDA a, b : a ^^ b, 0, s)
XorBlock(x, y) == [i \in 1..Len(x) |-> x[i] ^^ y[i]]

oaes_sub_byte(b) == oaes_sub_byte_value[b + 1]
oaes_inv_sub_byte(b) == oaes_inv_sub_byte_value[b + 1]
SubBytes(c) == [i \in 1..Len(c) |-> oaes_sub_byte(c[i])]
InvSubBytes(c) == [i \in 1..Len(c) |-> oaes_inv_sub_byte(c[i])]

oaes_word_rot_left(w) == <<w[2], w[3], w[4], w[1]>>

oaes_shift_rows(c) ==
    LET from == <<0, 5, 10, 15, 4, 9, 14, 3, 8, 13, 2, 7, 12, 1, 6, 11>>
    IN  [i \in 1..16 |-> c[from[i] + 1]]

oaes_inv_shift_rows(c) ==
    LET from == <<0, 13, 10, 7, 4, 1, 14, 11, 8, 5, 2, 15, 12, 9, 6, 3>>
    IN  [i \in 1..16 |-> c[from[i] + 1]]

oaes_gf_mul(left, right) ==
    CASE right = 2 -> oaes_gf_mul_2[left + 1]
      [] right = 3 -> oaes_gf_mul_3[left + 1]
      [] right = 9 -> oaes_gf_mul_9[left + 1]
      [] right = 11 -> oaes_gf_mul_b[left + 1]
      [] right = 13 -> oaes_gf_mul_d[left + 1]
      [] right = 14 -> oaes_gf_mul_e[left + 1]
      [] OTHER -> left

\* A row of the matrix times a word, as in both functions below.
Combine(row, w) == XorAll([j \in 1..4 |-> oaes_gf_mul(w[j], row[j])])

oaes_mix_cols(w) ==
    LET rows == << <<2, 3, 1, 1>>, <<1, 2, 3, 1>>, <<1, 1, 2, 3>>, <<3, 1, 1, 2>> >>
    IN  [i \in 1..4 |-> Combine(rows[i], w)]

oaes_inv_mix_cols(w) ==
    LET rows == << <<14, 11, 13, 9>>, <<9, 14, 11, 13>>, <<13, 9, 14, 11>>, <<11, 13, 9, 14>> >>
    IN  [i \in 1..4 |-> Combine(rows[i], w)]

\* The four columns of a block, and op on each of them.
Column(c, j) == SubSeq(c, 4 * j + 1, 4 * j + 4)
MixColumns(c) == FlattenSeq([j \in 1..4 |-> oaes_mix_cols(Column(c, j - 1))])
InvMixColumns(c) == FlattenSeq([j \in 1..4 |-> oaes_inv_mix_cols(Column(c, j - 1))])

oaes_encryption_round(key, c) ==
    XorBlock(MixColumns(oaes_shift_rows(SubBytes(c))), key)

-----------------------------------------------------------------------------
\* aesb.c.  The shift may set bit 8, which WPOLY clears.
WPOLY == \h11b
f2(x) == (2 * x) ^^ ((x \div 128) * WPOLY)
f3(x) == f2(x) ^^ x

\* Row r of t_fn: u0(p), u1(p), u2(p), u3(p).
u(r, p) ==
    CASE r = 0 -> <<f2(p), p, p, f3(p)>>
      [] r = 1 -> <<f3(p), f2(p), p, p>>
      [] r = 2 -> <<p, f3(p), f2(p), p>>
      [] r = 3 -> <<p, p, f3(p), f2(p)>>

t_fn == [r \in 0..3 |-> [p \in Byte |-> u(r, sb_data[p + 1])]]

\* Mutated form of fwd_var: the columns are taken the other way round.
fwd_var_backwards(x, r, c) == Column(x, (c - r + 4) % 4)

fwd_var(x, r, c) == Column(x, (r + c) % 4)

four_tables(x, c) ==
    LET term(r) == t_fn[r][fwd_var(x, r, c)[r + 1]]
    IN  FoldLeft(XorBlock, term(0), <<term(1), term(2), term(3)>>)

\* The macro round with fwd_rnd for its four columns.
aesb_single_round(x, k) ==
    XorBlock(FlattenSeq([c \in 1..4 |-> four_tables(x, c - 1)]), k)

-----------------------------------------------------------------------------
\* A block that differs from a fixed one in one byte, and the key of the round.
VARIABLES pos, block

Base == [i \in 1..16 |-> 0]
Key == [i \in 1..16 |-> 17 * (i - 1)]

Init == pos \in 1..16 /\ block = Base

Next == block[pos] < 255 /\ block' = [block EXCEPT ![pos] = @ + 1] /\ UNCHANGED pos

Spec == Init /\ [][Next]_<<pos, block>>

\* The product in the field, bit by bit.
Times(a, b) ==
    FoldLeft(LAMBDA acc, k : LET d == f2(acc) IN IF (b \div 2^k) % 2 = 1 THEN d ^^ a ELSE d,
             0, <<7, 6, 5, 4, 3, 2, 1, 0>>)
Rotated(v, k) == ((v * 2^k) % 256) + ((v * 2^k) \div 256)
Affine(v) == XorAll(<<v, Rotated(v, 1), Rotated(v, 2), Rotated(v, 3), Rotated(v, 4), \h63>>)
\* The map that undoes Affine.
Unaffine(v) == XorAll(<<Rotated(v, 1), Rotated(v, 3), Rotated(v, 6), 5>>)

\* The hand-written tables are the arithmetic of the field: oaes_gf_mul multiplies by
\* each factor it is called with, oaes_gf_8 holds the powers of 2, oaes_sub_byte is
\* the affine image of the inverse, oaes_inv_sub_byte undoes it, and the S-box of
\* aesb.c is that of OpenAES.
TablesAreFieldArithmetic ==
    pos = 1 =>
    LET b == block[pos]
    IN  /\ \A f \in {1, 2, 3, 9, 11, 13, 14} : oaes_gf_mul(b, f) = Times(b, f)
        /\ \A n \in 1..9 : oaes_gf_8[n + 1] = Times(oaes_gf_8[n], 2)
        /\ oaes_sub_byte(b) = Affine(Unaffine(oaes_sub_byte(b)))
        /\ Times(b, Unaffine(oaes_sub_byte(b))) = IF b = 0 THEN 0 ELSE 1
        /\ oaes_sub_byte(0) = Affine(0)
        /\ oaes_inv_sub_byte(oaes_sub_byte(b)) = b
        /\ sb_data[b + 1] = oaes_sub_byte(b)

\* The round of aesb.c that cn_slow_hash uses is that of OpenAES, for every block: both
\* are the xor of one term per byte of the block, so blocks that differ from a fixed
\* one in one byte show it for all.
RoundsAgree == aesb_single_round(block, Key) = oaes_encryption_round(Key, block)

\* The steps of decryption undo those of encryption (again one byte shows it for all).
StepsAreUndone ==
    /\ oaes_inv_shift_rows(oaes_shift_rows(block)) = block
    /\ InvMixColumns(MixColumns(block)) = block
    /\ InvSubBytes(SubBytes(block)) = block
=============================================================================
