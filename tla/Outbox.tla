------------------------------- MODULE Outbox -------------------------------
(***************************************************************************)
(* The outbox relay (lib/outbox): several worker processes claim due rows  *)
(* of outbox_events under a lease, dispatch them to the consumers outside  *)
(* any lock, and mark each row processed, due again, or dead-lettered.     *)
(*                                                                         *)
(* Every await is one action.  next_attempt_at is kept as the time that    *)
(* is left until it, so time needs no bound; the bound is on faults:       *)
(* crashes of a worker, answers the database sent and the worker never     *)
(* saw, and leases that lapse with work still in hand.                     *)
(***************************************************************************)
EXTENDS Naturals, FiniteSets

CONSTANTS
  Event,          \* event ids, numbered in the order of created_at
  Consumer,       \* consumers, numbered in the order of registration
  Subscribers,    \* Subscribers[e]: the consumers whose eventTypes match e
  Worker,         \* relay processes
  BatchSize,      \* BATCH_SIZE
  LeaseTime,      \* LEASE_SECONDS
  BaseDelay,      \* BASE_SECONDS
  MaxDelay,       \* MAX_SECONDS
  MaxAttempts,    \* MAX_ATTEMPTS
  MaxFaults       \* bound on crashes, lapsed leases and lost answers

ASSUME ConstantsAssumption ==
  /\ Event \subseteq Nat /\ Consumer \subseteq Nat
  /\ Subscribers \in [Event -> SUBSET Consumer]
  /\ BatchSize \in Nat \ {0} /\ LeaseTime \in Nat \ {0}
  /\ BaseDelay \in Nat \ {0} /\ MaxDelay \in Nat \ {0}
  /\ MaxAttempts \in Nat \ {0} /\ MaxFaults \in Nat
  /\ IsFiniteSet(Worker)

(* Arithmetic, stated because the SMT solver knows nothing of powers. *)
ASSUME PowersAssumption == \A n \in 0..MaxAttempts : 2^n \in Nat

VARIABLES
  published,  \* the rows that exist
  attempts,   \* outbox_events.attempts
  wait,       \* time until next_attempt_at
  processed,  \* rows with processed_at
  dead,       \* rows with dead_lettered_at
  handled,    \* <<e, c>>: c.handle(e) has resolved at least once
  hand,       \* the tick of each worker: the claimed rows not dispatched yet,
              \* the row being dispatched, the consumers it still has to reach
  lease,      \* time until the worker's claim lapses
  faults

vars == <<published, attempts, wait, processed, dead, handled, hand, lease, faults>>

Claimed == [event : Event, attempt : Nat]
NoRow == [event |-> 0, attempt |-> 0]
Hand(pc, batch, row, todo) == [pc |-> pc, batch |-> batch, row |-> row, todo |-> todo]
Idle == Hand("idle", {}, NoRow, {})

TypeOK ==
  /\ published \subseteq Event
  /\ attempts \in [Event -> Nat]
  /\ wait \in [Event -> Nat]
  /\ processed \subseteq Event /\ dead \subseteq Event
  /\ handled \subseteq Event \X Consumer
  /\ hand \in [Worker -> [pc : {"idle", "next", "deliver", "fail"},
                          batch : SUBSET Claimed, row : Claimed \cup {NoRow},
                          todo : SUBSET Consumer]]
  /\ lease \in [Worker -> Nat]
  /\ faults \in Nat

Init ==
  /\ published = {} /\ processed = {} /\ dead = {} /\ handled = {}
  /\ attempts = [e \in Event |-> 0]
  /\ wait = [e \in Event |-> 0]
  /\ hand = [w \in Worker |-> Idle]
  /\ lease = [w \in Worker |-> 0]
  /\ faults = 0

-----------------------------------------------------------------------------
(* backoffSeconds: exponential in the attempts made, capped. *)
Backoff(n) ==
  LET k == IF n > 1 THEN n ELSE 1
      d == BaseDelay * 2^(k - 1)
  IN  IF d < MaxDelay THEN d ELSE MaxDelay

DueUnderLease == published \ (processed \cup dead)  \* seeded fault
DueOnce == {e \in published \ (processed \cup dead) : wait[e] = 0 /\ attempts[e] = 0}  \* seeded fault
Due == {e \in published \ (processed \cup dead) : wait[e] = 0}

(* ORDER BY created_at LIMIT BATCH_SIZE *)
FirstDue == {e \in Due : Cardinality({d \in Due : d < e}) < BatchSize}

(* attempts = o.attempts + 1, returned to the worker. *)
SameAttempt(e) == attempts[e]  \* seeded fault
NextAttempt(e) == attempts[e] + 1

(* row.attempts >= MAX_ATTEMPTS: onFailure gives up. *)
Exhausted(r) == r.attempt >= MaxAttempts

(* Every matched consumer has answered. *)
NoneAnswered(w) == TRUE  \* seeded fault
AllAnswered(w) == hand[w].todo = {}

(* One unit of time off what is left. *)
Less(n) == IF n = 0 THEN 0 ELSE n - 1

At(w, pc) == hand[w].pc = pc

Take(w, h) == hand' = [hand EXCEPT ![w] = h]

(* The loop in tick: on to the next claimed row, or done. *)
Proceed(w) ==
  \/ /\ hand[w].batch # {}
     /\ Take(w, Hand("next", hand[w].batch, NoRow, {}))
     /\ UNCHANGED lease
  \/ /\ hand[w].batch = {}
     /\ Take(w, Idle)
     /\ lease' = [lease EXCEPT ![w] = 0]

-----------------------------------------------------------------------------
(* A domain transaction that called OutboxService.publish commits. *)
Publish(e) ==
  /\ e \notin published
  /\ published' = published \cup {e}
  /\ UNCHANGED <<attempts, wait, processed, dead, handled, hand, lease, faults>>

(* claim: one UPDATE ... FOR UPDATE SKIP LOCKED.  It counts the attempt and  *)
(* hides the rows for the time of the lease.                                 *)
Claim(w) ==
  /\ At(w, "idle")
  /\ FirstDue # {}
  /\ attempts' = [e \in Event |-> IF e \in FirstDue THEN NextAttempt(e) ELSE attempts[e]]
  /\ wait' = [e \in Event |-> IF e \in FirstDue THEN LeaseTime ELSE wait[e]]
  /\ Take(w, Hand("next", {[event |-> e, attempt |-> NextAttempt(e)] : e \in FirstDue}, NoRow, {}))
  /\ lease' = [lease EXCEPT ![w] = LeaseTime]
  /\ UNCHANGED <<published, processed, dead, handled, faults>>

(* RETURNING promises no order, so any claimed row may come next. *)
Dispatch(w) ==
  /\ At(w, "next")
  /\ \E r \in hand[w].batch :
       Take(w, Hand("deliver", hand[w].batch \ {r}, r, Subscribers[r.event]))
  /\ UNCHANGED <<published, attempts, wait, processed, dead, handled, lease, faults>>

(* consumer.handle resolves; the consumers are called one after the other. *)
Deliver(w) ==
  /\ At(w, "deliver")
  /\ \E c \in hand[w].todo :
       /\ \A d \in hand[w].todo : c <= d
       /\ handled' = handled \cup {<<hand[w].row.event, c>>}
       /\ Take(w, Hand("deliver", hand[w].batch, hand[w].row, hand[w].todo \ {c}))
  /\ UNCHANGED <<published, attempts, wait, processed, dead, lease, faults>>

(* All consumers done: UPDATE ... SET processed_at WHERE id. *)
MarkProcessed(w) ==
  /\ At(w, "deliver") /\ AllAnswered(w)
  /\ processed' = processed \cup {hand[w].row.event}
  /\ Proceed(w)
  /\ UNCHANGED <<published, attempts, wait, dead, handled, faults>>

(* consumer.handle or the UPDATE above throws. *)
Throw(w) ==
  /\ At(w, "deliver")
  /\ Take(w, Hand("fail", hand[w].batch, hand[w].row, {}))
  /\ UNCHANGED <<published, attempts, wait, processed, dead, handled, lease, faults>>

(* The UPDATE commits and its answer is lost: it throws all the same. *)
LoseAnswer(w) ==
  /\ At(w, "deliver") /\ AllAnswered(w)
  /\ faults < MaxFaults
  /\ faults' = faults + 1
  /\ processed' = processed \cup {hand[w].row.event}
  /\ Take(w, Hand("fail", hand[w].batch, hand[w].row, {}))
  /\ UNCHANGED <<published, attempts, wait, dead, handled, lease>>

(* onFailure decides by the attempts the claim returned, and writes by id. *)
OnFailure(w) ==
  LET r == hand[w].row IN
  /\ At(w, "fail")
  /\ \/ /\ Exhausted(r)
        /\ dead' = dead \cup {r.event}
        /\ UNCHANGED wait
     \/ /\ ~ Exhausted(r)
        /\ wait' = [wait EXCEPT ![r.event] = Backoff(r.attempt)]
        /\ UNCHANGED dead
  /\ Proceed(w)
  /\ UNCHANGED <<published, attempts, processed, handled, faults>>

(* The process dies, or onFailure itself throws: tick drops the batch. *)
Crash(w) ==
  /\ ~ At(w, "idle")
  /\ faults < MaxFaults
  /\ faults' = faults + 1
  /\ Take(w, Idle)
  /\ lease' = [lease EXCEPT ![w] = 0]
  /\ UNCHANGED <<published, attempts, wait, processed, dead, handled>>

(* Time passes.  A lease that lapses with work in hand is a fault. *)
Tick ==
  LET lapsing == {w \in Worker : lease[w] = 1} IN
  /\ \/ \E e \in Event : wait[e] > 0
     \/ \E w \in Worker : lease[w] > 0
  /\ faults + Cardinality(lapsing) <= MaxFaults
  /\ faults' = faults + Cardinality(lapsing)
  /\ wait' = [e \in Event |-> Less(wait[e])]
  /\ lease' = [w \in Worker |-> Less(lease[w])]
  /\ UNCHANGED <<published, attempts, processed, dead, handled, hand>>

Step(w) == \/ Claim(w) \/ Dispatch(w) \/ Deliver(w) \/ MarkProcessed(w)
           \/ Throw(w) \/ OnFailure(w)

Next ==
  \/ \E e \in Event : Publish(e)
  \/ \E w \in Worker : Step(w) \/ LoseAnswer(w) \/ Crash(w)
  \/ Tick

(* The poll timer keeps every live worker ticking, a handle call ends one    *)
(* way or the other, and time passes.                                        *)
Fairness == WF_vars(Tick) /\ \A w \in Worker : WF_vars(Step(w))

Spec == Init /\ [][Next]_vars
FairSpec == Spec /\ Fairness

-----------------------------------------------------------------------------
HandSet(h) == h.batch \cup IF h.pc \in {"deliver", "fail"} THEN {h.row} ELSE {}
InHand(w) == HandSet(hand[w])

(* attempts is a fencing token: whatever leases lapse and workers crash, two *)
(* workers never work on the same row under the same attempt number.         *)
AttemptIsFencing ==
  \A v, w \in Worker : v # w => InHand(v) \cap InHand(w) = {}

(* As long as no lease lapses, no worker dies and no answer is lost, an event *)
(* gets one verdict ("done / scheduled-for-retry / dead-lettered",            *)
(* outbox.relay.ts:31-32), although the marks are written by id alone.        *)
OneVerdict == processed \cap dead # {} => faults > 0

(* The relay delivers at least once; see Delivery. *)
D == INSTANCE Delivery WITH
       published <- published, handled <- handled, processed <- processed, dead <- dead
AtLeastOnce == D!Spec

(* No published event is forgotten: it is processed or parked, whatever      *)
(* consumers throw, as long as faults stop.                                  *)
EventuallySettled == \A e \in Event : e \in published ~> e \in processed \cup dead

=============================================================================
