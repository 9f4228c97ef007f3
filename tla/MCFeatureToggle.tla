-------------------------- MODULE MCFeatureToggle --------------------------
(* Two instances, two requests, two flips; the requests are interchangeable, *)
(* and so are the instances.  A flip turns the toggle on or sets its rollout. *)
EXTENDS FeatureToggle, TLC

MCInput == {[on |-> TRUE, pct |-> Unset], [on |-> Unset, pct |-> 50]}
Symmetry == Permutations(Proc) \cup Permutations(Instance)
=============================================================================
