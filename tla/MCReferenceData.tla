--------------------------- MODULE MCReferenceData ---------------------------
(* Two administrators, one key: a species, a breed of it, a city, and a body *)
(* create refuses.                                                           *)
EXTENDS ReferenceData, TLC

Body(dataset, code, species, active) ==
  [dataset |-> dataset, code |-> code, species |-> species,
   market |-> None, named |-> TRUE, active |-> active]
MCBodies ==
  {Body("species", "c", None, TRUE), Body("breeds", "c", 1, TRUE), Body("cities", None, None, FALSE)}

Symmetry == Permutations(Admin)
=============================================================================
