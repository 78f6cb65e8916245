-------------------------------- MODULE MCHex --------------------------------
(* Model of the hex functions: the ends of the three ranges of digits and  *)
(* the characters next to them.                                            *)
EXTENDS Hex

EdgeChars == {47, 48, 57, 58, 65, 70, 71, 97, 102}
=============================================================================
