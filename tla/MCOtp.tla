-------------------------------- MODULE MCOtp --------------------------------
(* Otp on small sets. *)
EXTENDS Otp, TLC

(* Requests are interchangeable: no formula tells one from another. *)
Symmetry == Permutations(Proc)
=============================================================================
