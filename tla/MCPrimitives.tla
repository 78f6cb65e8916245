---------------------------- MODULE MCPrimitives ----------------------------
(* Words of six bits and small stand-ins for the CPU instructions and the  *)
(* inner hashes, to model-check both implementations of CryptoNight.  They *)
(* mix enough for a wrong operand, order or index to change the result.    *)
EXTENDS Naturals

LOCAL INSTANCE Bitwise

W == 0..63

XorTable == [x \in W |-> [y \in W |-> x ^^ y]]

MCXor(x, y) == XorTable[x][y]
MCAdd(x, y) == (x + y) % 64
MCMulHi(x, y) == (x * y) \div 64
MCMulLo(x, y) == (x * y) % 64

MCAesRound(x) == <<(5 * x[1] + 3 * x[2] + 7) % 64, (x[1] + 11 * x[2] + 29) % 64>>

MCKeyGenAssist(x, r) == <<(7 * x[1] + r) % 64, (9 * x[2] + 2 * r + 1) % 64>>

MCShuffle(x, lane) ==
  IF lane = 255 THEN <<x[2], x[2]>>
  ELSE <<(x[2] + x[1]) % 64, (x[2] + x[1]) % 64>>

MCShiftLane(x) == <<(x[1] * 8) % 64, (x[2] * 8 + (x[1] \div 8)) % 64>>

(* Some Keccak states, each from a seed.                                   *)
SeedState(seed, initBlocks) ==
  [ blocks |-> [n \in 0 .. 3 + initBlocks |->
                  <<(seed * (2 * n + 5) + 13 * n) % 64,
                    (seed * (3 * n + 7) + 31 * n + 1) % 64>>],
    w24    |-> (seed * 23 + 5) % 64 ]

MCkeccakf(s) ==
  [ s EXCEPT !.blocks =
      [n \in DOMAIN s.blocks |->
         <<(s.blocks[n][1] + 3 * s.blocks[0][2] + 1) % 64,
           (s.blocks[n][2] + 5 * s.blocks[4][1]) % 64>>] ]

MCLowBits(s) == s.blocks[0][1] % 4

MCextra_hashes(n, s) == <<n, s>>

HeaderInputs(lengths, majors, seeds, initBlocks) ==
  { [length |-> l, major |-> m, nonce |-> (11 * s + 3) % 64,
     keccak1600 |-> SeedState(s, initBlocks)] :
       l \in lengths, m \in majors, s \in seeds }
=============================================================================
