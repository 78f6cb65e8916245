------------------------------ MODULE AesBlock ------------------------------
(***************************************************************************)
(* Key expansion and the cipher on one block (src/hash/monero/oaes_lib.c), *)
(* one step per word of the expanded key and per round, on real bytes; and *)
(* the ten rounds without a last one of the slow hash, by OpenAES and by   *)
(* aesb.c.  AesRound!Init and its variables pos and block are not used:    *)
(* only its operators are, which do not mention them.                      *)
(***************************************************************************)
EXTENDS Integers, Sequences

CONSTANTS KeyLens, Seeds

OAES_RKEY_LEN == 4
OAES_ROUND_BASE == 7

VARIABLES key, text, exp, c, i, pc

vars == <<key, text, exp, c, i, pc>>

R == INSTANCE AesRound WITH pos <- i, block <- c

key_base == Len(key) \div OAES_RKEY_LEN
num_keys == key_base + OAES_ROUND_BASE
Word(n) == SubSeq(exp, 4 * n + 1, 4 * n + 4)
RoundKey(n) == SubSeq(exp, 16 * n + 1, 16 * n + 16)

\* Keys and texts: counting bytes as in the examples of FIPS 197, and others.
KeyOf(len, seed) == [n \in 1..len |-> ((n - 1) * (1 + (76 * seed)) + 31 * seed) % 256]
TextOf(seed) == [n \in 1..16 |-> ((n - 1) * (17 + seed) + 3 * seed) % 256]

Init ==
    /\ \E len \in KeyLens, seed \in Seeds : key = KeyOf(len, seed) /\ text = TextOf(seed)
    /\ exp = key /\ c = text /\ i = key_base /\ pc = "expand"

\* The transformed last word of oaes_key_expand.
NextWord ==
    LET temp == Word(i - 1)
    IN  IF i % key_base = 0
        THEN LET t == R!SubBytes(R!oaes_word_rot_left(temp))
             IN  [t EXCEPT ![1] = R!XorAll(<<t[1], R!oaes_gf_8[i \div key_base]>>)]
        ELSE IF key_base > 6 /\ i % key_base = 4 THEN R!SubBytes(temp)
        ELSE temp

oaes_key_expand ==
    /\ pc = "expand"
    /\ IF i < num_keys * OAES_RKEY_LEN
       THEN /\ exp' = exp \o R!XorBlock(Word(i - key_base), NextWord)
            /\ i' = i + 1 /\ UNCHANGED pc
       ELSE pc' = "encrypt" /\ i' = 0 /\ UNCHANGED exp
    /\ UNCHANGED <<key, text, c>>

-----------------------------------------------------------------------------
\* oaes_encrypt_block, up to and including AddRoundKey of round i.
oaes_encrypt_block ==
    /\ pc = "encrypt" /\ i < num_keys
    /\ c' = CASE i = 0 -> R!XorBlock(c, RoundKey(0))
              [] i \in 1..(num_keys - 2) -> R!oaes_encryption_round(RoundKey(i), c)
              [] i = num_keys - 1 ->
                     R!XorBlock(R!oaes_shift_rows(R!SubBytes(c)), RoundKey(i))
    /\ i' = i + 1
    /\ pc' = IF i' = num_keys THEN "encrypted" ELSE pc
    /\ UNCHANGED <<key, text, exp>>

oaes_decrypt_block ==
    /\ pc = "decrypt"
    /\ LET undone == R!InvSubBytes(R!oaes_inv_shift_rows(c))
       IN  c' = CASE i = num_keys - 1 -> R!XorBlock(c, RoundKey(i))
                  [] i \in 1..(num_keys - 2) -> R!InvMixColumns(R!XorBlock(undone, RoundKey(i)))
                  [] i = 0 -> R!XorBlock(undone, RoundKey(0))
    /\ i' = i - 1
    /\ pc' = IF i = 0 THEN "decrypted" ELSE pc
    /\ UNCHANGED <<key, text, exp>>

\* The caller hands the ciphertext to oaes_decrypt_block.
Turn == pc = "encrypted" /\ pc' = "decrypt" /\ i' = num_keys - 1 /\ UNCHANGED <<key, text, exp, c>>

\* Both functions of the slow hash get the decrypted text: from here on c.block is the
\* block of oaes_pseudo_encrypt_ecb, c.b are b0 and b1 of aesb_pseudo_round.
StartPseudo ==
    /\ pc = "decrypted" /\ pc' = "pseudo" /\ i' = 0
    /\ c' = [block |-> c, b |-> <<c, c>>]
    /\ UNCHANGED <<key, text, exp>>

\* Round n of each of them; b0 and b1 take turns, and the result is in b0.
oaes_pseudo_encrypt_ecb(block, n) == R!oaes_encryption_round(RoundKey(n), block)

aesb_pseudo_round(b, n) ==
    [b EXCEPT ![2 - (n % 2)] = R!aesb_single_round(b[1 + (n % 2)], RoundKey(n))]

PseudoRound ==
    /\ pc = "pseudo" /\ i < 10
    /\ c' = [block |-> oaes_pseudo_encrypt_ecb(c.block, i), b |-> aesb_pseudo_round(c.b, i)]
    /\ i' = i + 1
    /\ UNCHANGED <<key, text, exp, pc>>

-----------------------------------------------------------------------------
\* The schedule of slow-hash.c for processors with AES instructions, on real bytes.
\* Of aeskeygenassist only the last two words are used.
KeyGenAssist(x, rcon) ==
    LET w == R!SubBytes(R!Column(x, 3))
        r == R!oaes_word_rot_left(w)
    IN  [third |-> w, last |-> [r EXCEPT ![1] = R!XorAll(<<r[1], rcon>>)]]

Everywhere(w) == w \o w \o w \o w
SlXor(t) ==
    LET slli(x) == <<0, 0, 0, 0>> \o SubSeq(x, 1, 12)
    IN  R!XorBlock(R!XorBlock(t, slli(t)), R!XorBlock(slli(slli(t)), slli(slli(slli(t)))))

aes_256_assist1(t1, t2) == R!XorBlock(SlXor(t1), Everywhere(t2.last))
aes_256_assist2(t1, t3) == R!XorBlock(SlXor(t3), Everywhere(KeyGenAssist(t1, 0).third))

\* Mutated form of AssistPair: t3 is combined with the old t1.
AssistPair_oldT1(t, rcon) ==
    <<aes_256_assist1(t[1], KeyGenAssist(t[2], rcon)), aes_256_assist2(t[1], t[2])>>

\* Two more keys from the last two, <<t1, t3>>.
AssistPair(t, rcon) ==
    LET t1 == aes_256_assist1(t[1], KeyGenAssist(t[2], rcon))
    IN  <<t1, aes_256_assist2(t1, t[2])>>

aes_expand_key(k) ==
    LET p0 == <<SubSeq(k, 1, 16), SubSeq(k, 17, 32)>>
        p1 == AssistPair(p0, 1)
        p2 == AssistPair(p1, 2)
        p3 == AssistPair(p2, 4)
        p4 == AssistPair(p3, 8)
    IN  p0 \o p1 \o p2 \o p3 \o p4 \o <<aes_256_assist1(p4[1], KeyGenAssist(p4[2], 16))>>

\* Round n of the assembly loop for ARMv8: aese with a zero key is SubBytes and
\* ShiftRows, on four times the same word; tbl rotates the word and dup does not.
NeonKeys(ks, n) ==
    LET v3 == ks[Len(ks) - 1]
        v4 == ks[Len(ks)]
        aese(w) == R!oaes_shift_rows(R!SubBytes(Everywhere(w)))
        v1 == Everywhere(<<2^n, 0, 0, 0>>)
        n3 == R!XorBlock(SlXor(v3), R!XorBlock(aese(R!oaes_word_rot_left(R!Column(v4, 3))), v1))
    IN  IF n = 4 THEN Append(ks, n3)
        ELSE ks \o <<n3, R!XorBlock(SlXor(v4), aese(R!Column(n3, 3)))>>

aes_expand_key_neon(k) ==
    R!FoldLeft(NeonKeys, <<SubSeq(k, 1, 16), SubSeq(k, 17, 32)>>, <<0, 1, 2, 3, 4>>)

Next ==
    \/ oaes_key_expand \/ oaes_encrypt_block \/ Turn \/ oaes_decrypt_block
    \/ StartPseudo \/ PseudoRound

Spec == Init /\ [][Next]_vars

-----------------------------------------------------------------------------
\* The ciphertexts of FIPS 197, appendix C.
FIPS(len) ==
    CASE len = 16 -> <<\h69, \hc4, \he0, \hd8, \h6a, \h7b, \h04, \h30,
                       \hd8, \hcd, \hb7, \h80, \h70, \hb4, \hc5, \h5a>>
      [] len = 24 -> <<\hdd, \ha9, \h7c, \ha4, \h86, \h4c, \hdf, \he0,
                       \h6e, \haf, \h70, \ha0, \hec, \h0d, \h71, \h91>>
      [] len = 32 -> <<\h8e, \ha2, \hb7, \hca, \h51, \h67, \h45, \hbf,
                       \hea, \hfc, \h49, \h90, \h4b, \h49, \h60, \h89>>

\* oaes_key_expand and oaes_encrypt_block together compute AES for the three lengths
\* of a key: every word of the schedule and every round has its share in the result.
KnownAnswers ==
    pc = "encrypted" /\ text = TextOf(0) => c = FIPS(Len(key))

\* oaes_decrypt_block takes the round keys in the opposite order and undoes
\* oaes_encrypt_block.
DecryptUndoesEncrypt == pc = "decrypted" => c = text

\* Ten rounds in turns between two buffers (aesb_pseudo_round) give what the loop over
\* oaes_encryption_round gives (oaes_pseudo_encrypt_ecb), and read written key words only.
PseudoRoundsAgree ==
    pc = "pseudo" /\ i = 10 =>
        /\ Len(exp) = 16 * num_keys /\ num_keys > 10
        /\ c.b[1] = c.block

\* A hash is the same on all processors: the eleven keys of both functions
\* aes_expand_key, with x86 and with ARM instructions, are those of oaes_key_expand.
SchedulesAgree ==
    pc = "encrypt" /\ Len(key) = 32 =>
        /\ R!FlattenSeq(aes_expand_key(key)) = SubSeq(exp, 1, 11 * 16)
        /\ aes_expand_key_neon(key) = aes_expand_key(key)
=============================================================================
