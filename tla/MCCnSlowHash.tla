---------------------------- MODULE MCCnSlowHash ----------------------------
(* Model of the reference implementation: a pad of four blocks.            *)
EXTENDS CnSlowHash, MCPrimitives

(* Lengths around the limits 0 and 43, versions without and with a tweak,  *)
(* and a version the assertion refuses.                                    *)
StandardInputs == HeaderInputs({0, 42, 43, 76}, {6, 7, 9, 128}, 1..6, 2)
=============================================================================
