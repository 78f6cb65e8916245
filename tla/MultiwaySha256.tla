--------------------------- MODULE MultiwaySha256 ---------------------------
(***************************************************************************)
(* SHA-256 of several messages at once: multiway_sha256::process_trunk of  *)
(* src/include/fingera/hash/multiway_sha256.hpp over the multiway          *)
(* integers, and the OpenCL kernel of src/src/ocl/sha256.cl, unrolled the  *)
(* same way.  Registers are renamed instead of moved and the schedule is   *)
(* kept in 16 words that are overwritten in place.                         *)
(***************************************************************************)
EXTENDS Word32, SequencesExt

VARIABLES
    impl,    \* which code runs: see Implementations
    count,   \* blocks per message
    left,    \* count of the loop in process_trunk: blocks still to do
    t,       \* rounds of this block done
    r,       \* registers 0 .. 7 (a .. h): lane -> word
    saved,   \* oa .. oh
    w,       \* w0 .. w15: lane -> word
    out      \* the memory the digests are written to, empty before that

vars == <<impl, count, left, t, r, saved, w, out>>

Implementations == {"multiway_integer", "mi_sse2", "opencl"}

Way(i) == IF i = "mi_sse2" THEN 4 ELSE 2
Ways == 0..(Way(impl) - 1)

K ==
    << <<\h428a, \h2f98>>, <<\h7137, \h4491>>, <<\hb5c0, \hfbcf>>, <<\he9b5, \hdba5>>,
       <<\h3956, \hc25b>>, <<\h59f1, \h11f1>>, <<\h923f, \h82a4>>, <<\hab1c, \h5ed5>>,
       <<\hd807, \haa98>>, <<\h1283, \h5b01>>, <<\h2431, \h85be>>, <<\h550c, \h7dc3>>,
       <<\h72be, \h5d74>>, <<\h80de, \hb1fe>>, <<\h9bdc, \h06a7>>, <<\hc19b, \hf174>>,
       <<\he49b, \h69c1>>, <<\hefbe, \h4786>>, <<\h0fc1, \h9dc6>>, <<\h240c, \ha1cc>>,
       <<\h2de9, \h2c6f>>, <<\h4a74, \h84aa>>, <<\h5cb0, \ha9dc>>, <<\h76f9, \h88da>>,
       <<\h983e, \h5152>>, <<\ha831, \hc66d>>, <<\hb003, \h27c8>>, <<\hbf59, \h7fc7>>,
       <<\hc6e0, \h0bf3>>, <<\hd5a7, \h9147>>, <<\h06ca, \h6351>>, <<\h1429, \h2967>>,
       <<\h27b7, \h0a85>>, <<\h2e1b, \h2138>>, <<\h4d2c, \h6dfc>>, <<\h5338, \h0d13>>,
       <<\h650a, \h7354>>, <<\h766a, \h0abb>>, <<\h81c2, \hc92e>>, <<\h9272, \h2c85>>,
       <<\ha2bf, \he8a1>>, <<\ha81a, \h664b>>, <<\hc24b, \h8b70>>, <<\hc76c, \h51a3>>,
       <<\hd192, \he819>>, <<\hd699, \h0624>>, <<\hf40e, \h3585>>, <<\h106a, \ha070>>,
       <<\h19a4, \hc116>>, <<\h1e37, \h6c08>>, <<\h2748, \h774c>>, <<\h34b0, \hbcb5>>,
       <<\h391c, \h0cb3>>, <<\h4ed8, \haa4a>>, <<\h5b9c, \hca4f>>, <<\h682e, \h6ff3>>,
       <<\h748f, \h82ee>>, <<\h78a5, \h636f>>, <<\h84c8, \h7814>>, <<\h8cc7, \h0208>>,
       <<\h90be, \hfffa>>, <<\ha450, \h6ceb>>, <<\hbef9, \ha3f7>>, <<\hc671, \h78f2>> >>

IV == << <<\h6a09, \he667>>, <<\hbb67, \hae85>>, <<\h3c6e, \hf372>>, <<\ha54f, \hf53a>>,
         <<\h510e, \h527f>>, <<\h9b05, \h688c>>, <<\h1f83, \hd9ab>>, <<\h5be0, \hcd19>> >>

-----------------------------------------------------------------------------
\* The messages: one byte '0' + way in one block, as in the tests, or 56 bytes that
\* need two blocks.
Text(n, way) ==
    IF n = 1 THEN <<48 + way>> ELSE [k \in 1..56 |-> 97 + way + (k - 1) \div 4 + ((k - 1) % 4)]

Padded(n, way) ==
    LET text == Text(n, way)
        bits == 8 * Len(text)
    IN  [k \in 1..(64 * n) |->
           IF k <= Len(text) THEN text[k]
           ELSE IF k = Len(text) + 1 THEN 128
           ELSE IF k = 64 * n - 1 THEN bits \div 256
           ELSE IF k = 64 * n THEN bits % 256 ELSE 0]

\* The memory process_trunk is given: the first blocks of all ways, then the second ones.
Memory ==
    [a \in 1..(64 * count * Way(impl)) |->
       LET b == (a - 1) \div 64
       IN  Padded(count, b % Way(impl))[64 * (b \div Way(impl)) + ((a - 1) % 64) + 1]]

-----------------------------------------------------------------------------
\* Lanes of a register.  _mm_set_epi32 takes the highest lane first.
LaneOf(way) == IF impl = "mi_sse2" THEN Way(impl) - 1 - way ELSE way

\* Instr::load<false>(block, 64, offset), lane -> word.
load(address, offset) ==
    [lane \in Ways |->
       ReadBig(Memory, address + 64 * (CHOOSE way \in Ways : LaneOf(way) = lane) + offset)]

\* Instr::save<false>: the lane that goes to the digest of a way (data[3 - i]).
SavedWay(way) == IF impl = "mi_sse2" THEN 3 - way ELSE way

swap_byte(x) ==
    BitOr(BitOr(ShiftLeft(x, 24), BitAnd(ShiftLeft(x, 8), <<255, 0>>)),
          BitOr(BitAnd(ShiftRight(x, 8), <<0, \hff00>>), ShiftRight(x, 24)))

\* All work-items read the same chunk and add their id to its first byte.
kernel_load(j) ==
    [global_id \in Ways |->
       LET x == swap_byte(ReadLittle(Memory, 4 * j))
       IN  IF j = 0 THEN Plus(x, ShiftLeft(<<0, global_id>>, 24)) ELSE x]

add(words) == FoldLeft(Plus, <<0, 0>>, words)
xor3(x, y, z) == BitXor(BitXor(x, y), z)

Ch(x, y, z) == BitXor(z, BitAnd(x, BitXor(y, z)))
Maj(x, y, z) == BitOr(BitAnd(x, y), BitAnd(z, BitOr(x, y)))
Sigma0(x) == xor3(RotateLeft(x, 30), RotateLeft(x, 19), RotateLeft(x, 10))
Sigma1(x) == xor3(RotateLeft(x, 26), RotateLeft(x, 21), RotateLeft(x, 7))
sigma0(x) == xor3(RotateLeft(x, 25), RotateLeft(x, 14), ShiftRight(x, 3))
sigma1(x) == xor3(RotateLeft(x, 15), RotateLeft(x, 13), ShiftRight(x, 10))

-----------------------------------------------------------------------------
Init ==
    /\ impl \in Implementations
    /\ count \in IF impl = "opencl" THEN {1} ELSE {1, 2}
    /\ left = count /\ t = 0
    /\ r = [k \in 0..7 |-> [lane \in Ways |-> IV[k + 1]]]
    /\ saved = r
    /\ w = [k \in 0..15 |-> [lane \in Ways |-> <<0, 0>>]]
    /\ out = << >>

\* The register passed as argument n (a = 0 .. h = 7) of round number t.
Argument(n) == (n - t) % 8

\* round(a, b, c, d, e, f, g, h, k): only d and h are references.
round(k) ==
    LET A(n, lane) == r[Argument(n)][lane]
        t1(lane) == add(<<A(7, lane), Sigma1(A(4, lane)),
                          Ch(A(4, lane), A(5, lane), A(6, lane)), k[lane]>>)
        t2(lane) == Plus(Sigma0(A(0, lane)), Maj(A(0, lane), A(1, lane), A(2, lane)))
    IN  /\ r' = [r EXCEPT ![Argument(3)] = [lane \in Ways |-> Plus(A(3, lane), t1(lane))],
                          ![Argument(7)] = [lane \in Ways |-> Plus(t1(lane), t2(lane))]]
        /\ t' = t + 1
        /\ UNCHANGED <<impl, count, left, saved, out>>

WithConstant(x) == [lane \in Ways |-> Plus(K[t + 1], x[lane])]

Block == 64 * Way(impl) * (count - left)   \* cur_block

LoadRound ==
    /\ left > 0 /\ t < 16
    /\ LET x == IF impl = "opencl" THEN kernel_load(t) ELSE load(Block, 4 * t)
       IN  w' = [w EXCEPT ![t] = x] /\ round(WithConstant(x))

\* Mutated form of Expanded: the word nine places back has been overwritten already.
Expanded_late(lane) ==
    add(<<w[t % 16][lane], sigma1(w[(t + 14) % 16][lane]), w[(t + 8) % 16][lane],
          sigma0(w[(t + 1) % 16][lane])>>)

\* _inc(w0, sigma1(w14), w9, sigma0(w1)) and so on.
Expanded(lane) ==
    add(<<w[t % 16][lane], sigma1(w[(t + 14) % 16][lane]), w[(t + 9) % 16][lane],
          sigma0(w[(t + 1) % 16][lane])>>)

\* The kernel does not store the last two words, which nothing reads.
ExpandRound ==
    /\ left > 0 /\ t \in 16..63
    /\ LET x == [lane \in Ways |-> Expanded(lane)]
       IN  /\ w' = IF impl = "opencl" /\ t >= 62 THEN w ELSE [w EXCEPT ![t % 16] = x]
           /\ round(WithConstant(x))

\* a = _add(a, oa) and so on; the next call of process_block saves the sums.
EndBlock ==
    /\ left > 0 /\ t = 64
    /\ r' = [k \in 0..7 |-> [lane \in Ways |-> Plus(r[k][lane], saved[k][lane])]]
    /\ saved' = r'
    /\ left' = left - 1 /\ t' = 0
    /\ UNCHANGED <<impl, count, w, out>>

\* Byte i of the digest of a way: words in big-endian order; the kernel stores swapped
\* words in the order of the device.
DigestByte(way, i) ==
    LET x == r[i \div 4][SavedWay(way)]
    IN  IF impl = "opencl" THEN LittleBytes(swap_byte(x))[(i % 4) + 1] ELSE BigBytes(x)[(i % 4) + 1]

Save ==
    /\ left = 0 /\ out = << >>
    /\ out' = [a \in 1..(32 * Way(impl)) |-> DigestByte((a - 1) \div 32, (a - 1) % 32)]
    /\ UNCHANGED <<impl, count, left, t, r, saved, w>>

Next == LoadRound \/ ExpandRound \/ EndBlock \/ Save

Spec == Init /\ [][Next]_vars

-----------------------------------------------------------------------------
Standard == INSTANCE Sha256Standard WITH
    K <- K,
    message <- [way \in Ways |-> [b \in 1..count |-> [j \in 1..16 |->
                  ReadBig(Padded(count, way), 64 * (b - 1) + 4 * (j - 1))]]],
    block <- count - left + 1,
    t <- t,
    v <- [way \in Ways |-> [n \in 1..8 |-> r[Argument(n - 1)][LaneOf(way)]]],
    W <- [way \in Ways |-> [j \in {k \in 0..61 : t - 16 <= k /\ k < t} |-> w[j % 16][LaneOf(way)]]],
    H <- [way \in Ways |-> [n \in 1..8 |-> saved[n - 1][LaneOf(way)]]]

\* In every round and for every way the renamed registers are the working variables of
\* the standard, and the 16 words kept in place give the word of its schedule: no lane
\* disturbs another, no word of the schedule is overwritten before its last use, and
\* the hash value is carried from block to block.
StandardStart == Standard!Init
StandardStep == [Standard!Next]_(Standard!vars)

OneBlockDigests ==
    << <<<<\h5fec, \heb66>>, <<\hffc8, \h6f38>>, <<\hd952, \h786c>>, <<\h6d69, \h6c79>>,
             <<\hc2db, \hc239>>, <<\hdd4e, \h91b4>>, <<\h6729, \hd73a>>, <<\h27fb, \h57e9>>>>,
           <<<<\h6b86, \hb273>>, <<\hff34, \hfce1>>, <<\h9d6b, \h804e>>, <<\hff5a, \h3f57>>,
             <<\h47ad, \ha4ea>>, <<\ha22f, \h1d49>>, <<\hc01e, \h52dd>>, <<\hb787, \h5b4b>>>>,
           <<<<\hd473, \h5e3a>>, <<\h265e, \h16ee>>, <<\he03f, \h5971>>, <<\h8b9b, \h5d03>>,
             <<\h019c, \h07d8>>, <<\hb6c5, \h1f90>>, <<\hda3a, \h666e>>, <<\hec13, \hab35>>>>,
           <<<<\h4e07, \h4085>>, <<\h62be, \hdb8b>>, <<\h60ce, \h05c1>>, <<\hdecf, \he3ad>>,
             <<\h16b7, \h2230>>, <<\h967d, \he01f>>, <<\h640b, \h7e47>>, <<\h29b4, \h9fce>>>> >>

TwoBlockDigest == <<<<\h248d, \h6a61>>, <<\hd206, \h38b8>>, <<\he5c0, \h2693>>, <<\h0c3e, \h6039>>,
             <<\ha33c, \he459>>, <<\h64ff, \h2167>>, <<\hf6ec, \hedd4>>, <<\h19db, \h06c1>>>>

\* The digests in memory are those that test_multiway_sha256.cpp expects, each at the
\* place of its way, and the FIPS 180-4 example for two blocks.
KnownAnswers ==
    out # << >> =>
        LET digest(way) == [n \in 1..8 |-> ReadBig(out, 32 * way + 4 * (n - 1))]
        IN  IF count = 1 THEN \A way \in Ways : digest(way) = OneBlockDigests[way + 1]
            ELSE digest(0) = TwoBlockDigest
=============================================================================
