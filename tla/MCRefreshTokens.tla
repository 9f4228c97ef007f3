-------------------------- MODULE MCRefreshTokens --------------------------
(* RefreshTokens on small sets. *)
EXTENDS RefreshTokens, TLC

(* Handlers are interchangeable: no formula tells one from another. *)
Symmetry == Permutations(Proc)
=============================================================================
