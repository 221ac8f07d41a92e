-------------------------------- MODULE MCTlb -------------------------------
(* Model checking of Tlb, and of Pmap inside it: addresses 0 and 1 share a *)
(* page table, 2 and 3 have the next one.                                  *)
EXTENDS Tlb, TLC

MCPDX(va) == va \div 2
Symmetry == Permutations(Page) \cup Permutations(Env) \cup Permutations(CPU)
=============================================================================
