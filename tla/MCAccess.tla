------------------------------ MODULE MCAccess ------------------------------
(* Two users, one of them ADMIN to begin with, two interchangeable requests. *)
EXTENDS Access, TLC

Symmetry == Permutations(Proc)
=============================================================================
