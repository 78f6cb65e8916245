--------------------------- MODULE MCMoneroCpuFast ---------------------------
(* Model of monero_cpu_fast: a pad of four blocks, in groups of two.       *)
EXTENDS MoneroCpuFast, MCPrimitives

(* Lengths around the limits of the assertion, and two versions.           *)
FastInputs == HeaderInputs({75, 76, 80, 81}, {6, 7}, 1..24, 2)
=============================================================================
