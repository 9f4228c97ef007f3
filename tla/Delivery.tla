------------------------------ MODULE Delivery ------------------------------
(***************************************************************************)
(* What the transactional outbox promises (outbox.types.ts:1-5 and the     *)
(* header of outbox.relay.ts): a published event is handed at least once   *)
(* to every consumer that subscribes to it before it counts as processed,  *)
(* it may be handed over again at any time, and it ends up processed or    *)
(* parked in the dead-letter state.                                        *)
(***************************************************************************)
CONSTANTS
  Event,
  Subscribers   \* Subscribers[e]: the consumers whose eventTypes match e

VARIABLES published, handled, processed, dead

vars == <<published, handled, processed, dead>>

Init == published = {} /\ handled = {} /\ processed = {} /\ dead = {}

Publish(e) ==
  /\ e \notin published
  /\ published' = published \cup {e}
  /\ UNCHANGED <<handled, processed, dead>>

Handle(e, c) ==
  /\ e \in published /\ c \in Subscribers[e]
  /\ handled' = handled \cup {<<e, c>>}
  /\ UNCHANGED <<published, processed, dead>>

Finish(e) ==
  /\ e \in published
  /\ \A c \in Subscribers[e] : <<e, c>> \in handled
  /\ processed' = processed \cup {e}
  /\ UNCHANGED <<published, handled, dead>>

Park(e) ==
  /\ e \in published
  /\ dead' = dead \cup {e}
  /\ UNCHANGED <<published, handled, processed>>

Next ==
  \E e \in Event :
    \/ Publish(e) \/ Finish(e) \/ Park(e)
    \/ \E c \in Subscribers[e] : Handle(e, c)

Spec == Init /\ [][Next]_vars
=============================================================================
