------------------------------ MODULE MCPedigree ------------------------------
(* Three animals and two sessions, interchangeable. *)
EXTENDS Pedigree, TLC

Symmetry == Permutations(Id) \cup Permutations(Writer)
=============================================================================
