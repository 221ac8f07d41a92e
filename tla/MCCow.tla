------------------------------- MODULE MCCow --------------------------------
(* The children differ in nothing.                                         *)
EXTENDS Cow, TLC

CONSTANTS root, a, b

Children == Permutations({a, b})
=============================================================================
