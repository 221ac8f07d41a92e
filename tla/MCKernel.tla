------------------------------ MODULE MCKernel ------------------------------
(* Model checking of Kernel: two CPUs (symmetry does not apply, BSP is one *)
(* of them), a small envs[] table.                                         *)
EXTENDS Kernel, TLC
=============================================================================
