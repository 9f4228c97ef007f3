------------------------------ MODULE MCOutbox ------------------------------
(* Outbox on small sets: consumer 1 takes every event ('*'), consumer 2     *)
(* names the type of event 1 only.                                          *)
EXTENDS Outbox

MCEvent == 1..2
MCConsumer == 1..2
MCSubscribers == [e \in MCEvent |-> IF e = 1 THEN {1, 2} ELSE {1}]
=============================================================================
