----------------------------- MODULE MCAccounts -----------------------------
(* Accounts on small sets. *)
EXTENDS Accounts, TLC

(* Handlers are interchangeable: no formula tells one from another. *)
Symmetry == Permutations(Proc)
=============================================================================
