--------------------------- MODULE Outbox_proofs ---------------------------
(***************************************************************************)
(* Proofs about Outbox, for every set of events, consumers and workers and *)
(* every batch size, lease time, delay and attempt limit.                  *)
(***************************************************************************)
EXTENDS Outbox, FiniteSetTheorems, TLAPS

(* What a worker has in hand are claimed rows of published events, under an  *)
(* attempt number the row has reached.                                       *)
Held ==
  \A w \in Worker : \A r \in InHand(w) :
    r \in Claimed /\ r.event \in published /\ r.attempt <= attempts[r.event]

IdleIsEmpty == \A w \in Worker : At(w, "idle") => hand[w].batch = {}

(* The consumers a dispatch no longer has to reach have handled the event.   *)
Answered ==
  \A w \in Worker : At(w, "deliver") =>
    /\ hand[w].todo \subseteq Subscribers[hand[w].row.event]
    /\ \A c \in Subscribers[hand[w].row.event] \ hand[w].todo :
         <<hand[w].row.event, c>> \in handled

(* An event is parked only after MAX_ATTEMPTS claims of it. *)
DeadOnlyWhenExhausted == \A e \in dead : attempts[e] >= MaxAttempts

IInv ==
  /\ TypeOK /\ Held /\ IdleIsEmpty /\ AttemptIsFencing
  /\ DeadOnlyWhenExhausted /\ Answered

HandRecord ==
  [pc : {"idle", "next", "deliver", "fail"}, batch : SUBSET Claimed,
   row : Claimed \cup {NoRow}, todo : SUBSET Consumer]

-----------------------------------------------------------------------------
(* A backoff is a time: backoffSeconds is only called with attempts left. *)
LEMMA BackoffType ==
  ASSUME NEW n \in Nat, n < MaxAttempts
  PROVE  Backoff(n) \in Nat
<1> DEFINE k == IF n > 1 THEN n ELSE 1
<1>1. k - 1 \in 0..MaxAttempts
  BY ConstantsAssumption
<1>2. 2^(k - 1) \in Nat
  BY <1>1, PowersAssumption
<1>3. BaseDelay * 2^(k - 1) \in Nat
  BY <1>2, ConstantsAssumption
<1> QED
  BY <1>3, ConstantsAssumption DEF Backoff

(* Field access of the hand a step leaves. *)
LEMMA HandFields ==
  ASSUME NEW pc, NEW batch, NEW row, NEW todo
  PROVE  /\ Hand(pc, batch, row, todo).pc = pc
         /\ Hand(pc, batch, row, todo).batch = batch
         /\ Hand(pc, batch, row, todo).row = row
         /\ Hand(pc, batch, row, todo).todo = todo
BY DEF Hand

LEMMA HandType ==
  ASSUME NEW pc \in {"idle", "next", "deliver", "fail"}, NEW batch \in SUBSET Claimed,
         NEW row \in Claimed \cup {NoRow}, NEW todo \in SUBSET Consumer
  PROVE  Hand(pc, batch, row, todo) \in HandRecord
BY DEF Hand, HandRecord

LEMMA InitIInv == Init => IInv
<1> SUFFICES ASSUME Init PROVE IInv
  OBVIOUS
<1>1. \A w \in Worker : hand[w] = Idle
  BY DEF Init
<1>2. Idle \in HandRecord /\ Idle.pc = "idle" /\ Idle.batch = {}
  BY HandType, HandFields DEF Idle
<1>3. \A w \in Worker : InHand(w) = {}
  BY <1>1, <1>2 DEF InHand, HandSet
<1>4. TypeOK
  BY <1>1, <1>2 DEF Init, TypeOK, HandRecord
<1>5. Held /\ AttemptIsFencing /\ IdleIsEmpty
  BY <1>1, <1>2, <1>3 DEF Held, AttemptIsFencing, IdleIsEmpty
<1>6. DeadOnlyWhenExhausted /\ Answered
  BY <1>1, <1>2 DEF Init, DeadOnlyWhenExhausted, Answered, At
<1> QED
  BY <1>4, <1>5, <1>6 DEF IInv

-----------------------------------------------------------------------------
(* A step of a worker that takes no new row keeps what IInv says of hands,   *)
(* and of the dead rows when it parks only an exhausted one.                 *)
LEMMA ShrinkStep ==
  ASSUME IInv, NEW w \in Worker, NEW h \in HandRecord,
         Take(w, h),
         HandSet(h) \subseteq InHand(w),
         h.pc = "idle" => h.batch = {},
         UNCHANGED <<published, attempts>>,
         \A e \in dead' : attempts[e] >= MaxAttempts,
         handled \subseteq handled',
         h.pc = "deliver" =>
           /\ h.todo \subseteq Subscribers[h.row.event]
           /\ \A c \in Subscribers[h.row.event] \ h.todo : <<h.row.event, c>> \in handled'
  PROVE  /\ Held' /\ IdleIsEmpty' /\ AttemptIsFencing' /\ DeadOnlyWhenExhausted' /\ Answered'
         /\ hand' \in [Worker -> HandRecord]
<1>1. hand \in [Worker -> HandRecord]
  BY DEF IInv, TypeOK, HandRecord
<1>2. hand' = [hand EXCEPT ![w] = h]
  BY DEF Take
<1>3. \A v \in Worker : hand'[v] = IF v = w THEN h ELSE hand[v]
  BY <1>1, <1>2
<1>4. hand' \in [Worker -> HandRecord]
  BY <1>1, <1>2
<1>5. \A v \in Worker : InHand(v)' \subseteq InHand(v)
  BY <1>3 DEF InHand, HandSet
<1>6. Held'
  BY <1>5 DEF IInv, Held
<1>7. AttemptIsFencing'
  BY <1>5 DEF IInv, AttemptIsFencing
<1>8. IdleIsEmpty'
  BY <1>3 DEF IInv, IdleIsEmpty, At
<1>9. DeadOnlyWhenExhausted'
  BY DEF DeadOnlyWhenExhausted
<1>10. Answered'
  BY <1>3 DEF IInv, Answered, At
<1> QED
  BY <1>4, <1>6, <1>7, <1>8, <1>9, <1>10

(* The hand a worker is left with when it is done with a row. *)
LEMMA ProceedStep ==
  ASSUME IInv, NEW w \in Worker, Proceed(w)
  PROVE  /\ \E h \in HandRecord :
              /\ Take(w, h) /\ HandSet(h) = hand[w].batch
              /\ h.pc \in {"idle", "next"} /\ (h.pc = "idle" => h.batch = {})
         /\ lease' \in [Worker -> Nat]
<1>1. hand[w] \in HandRecord /\ lease \in [Worker -> Nat]
  BY DEF IInv, TypeOK, HandRecord
<1>2. hand[w].batch \in SUBSET Claimed
  BY <1>1 DEF HandRecord
<1>3. lease' \in [Worker -> Nat]
  BY <1>1 DEF Proceed
<1> DEFINE g == Hand("next", hand[w].batch, NoRow, {})
<1>4. g \in HandRecord /\ Idle \in HandRecord
  BY <1>2, HandType DEF Idle
<1>5. /\ g.pc = "next" /\ g.batch = hand[w].batch
      /\ Idle.pc = "idle" /\ Idle.batch = {}
  BY HandFields DEF Idle
<1>6. HandSet(g) = hand[w].batch /\ HandSet(Idle) = {}
  BY <1>5 DEF HandSet
<1>7. CASE hand[w].batch # {}
  <2>1. Take(w, g)
    BY <1>7 DEF Proceed
  <2> QED
    BY <2>1, <1>3, <1>4, <1>5, <1>6
<1>8. CASE hand[w].batch = {}
  <2>1. Take(w, Idle)
    BY <1>8 DEF Proceed
  <2> QED
    BY <2>1, <1>3, <1>4, <1>5, <1>6, <1>8
<1> QED
  BY <1>7, <1>8

(* What IInv says of the row being dispatched. *)
LEMMA RowFacts ==
  ASSUME IInv, NEW w \in Worker, hand[w].pc \in {"deliver", "fail"}
  PROVE  /\ hand[w].row \in InHand(w) /\ hand[w].row \in Claimed
         /\ hand[w].row.event \in published
         /\ hand[w].row.event \in Event /\ hand[w].row.attempt \in Nat
         /\ attempts[hand[w].row.event] \in Nat
         /\ hand[w].row.attempt <= attempts[hand[w].row.event]
         /\ hand[w].batch \in SUBSET Claimed /\ hand[w].todo \in SUBSET Consumer
         /\ InHand(w) = hand[w].batch \cup {hand[w].row}
<1>1. InHand(w) = hand[w].batch \cup {hand[w].row}
  BY DEF InHand, HandSet
<1>2. hand[w].row \in Claimed /\ hand[w].row.event \in published
      /\ hand[w].row.attempt <= attempts[hand[w].row.event]
  BY <1>1 DEF IInv, Held
<1>3. hand[w] \in HandRecord
  BY DEF IInv, TypeOK, HandRecord
<1>4. attempts \in [Event -> Nat]
  BY DEF IInv, TypeOK
<1> QED
  BY <1>1, <1>2, <1>3, <1>4 DEF Claimed, HandRecord

-----------------------------------------------------------------------------
LEMMA ClaimIInv ==
  ASSUME IInv, NEW w \in Worker, Claim(w)
  PROVE  IInv'
<1> DEFINE new == {[event |-> e, attempt |-> NextAttempt(e)] : e \in FirstDue}
<1> DEFINE h == Hand("next", new, NoRow, {})
<1>1. FirstDue \subseteq published /\ published \subseteq Event
  BY DEF FirstDue, Due, IInv, TypeOK
<1>2. attempts \in [Event -> Nat] /\ wait \in [Event -> Nat] /\ hand \in [Worker -> HandRecord]
      /\ lease \in [Worker -> Nat]
  BY DEF IInv, TypeOK, HandRecord
<1>3. new \in SUBSET Claimed
  BY <1>1, <1>2 DEF Claimed, NextAttempt
<1>4. h \in HandRecord
  BY <1>3, HandType
<1>5. h.pc = "next" /\ h.batch = new
  BY HandFields
<1>6. /\ hand' = [hand EXCEPT ![w] = h]
      /\ attempts' = [e \in Event |-> IF e \in FirstDue THEN NextAttempt(e) ELSE attempts[e]]
      /\ wait' = [e \in Event |-> IF e \in FirstDue THEN LeaseTime ELSE wait[e]]
      /\ lease' = [lease EXCEPT ![w] = LeaseTime]
      /\ UNCHANGED <<published, processed, dead, handled, faults>>
  BY DEF Claim, Take
<1> HIDE DEF h
<1>7. \A v \in Worker : hand'[v] = IF v = w THEN h ELSE hand[v]
  BY <1>2, <1>6
<1>8. HandSet(h) = new
  BY <1>5 DEF HandSet
<1>9. \A v \in Worker : InHand(v)' = IF v = w THEN new ELSE InHand(v)
  BY <1>7, <1>8 DEF InHand, HandSet
<1>10. \A e \in Event : attempts[e] \in Nat /\ attempts'[e] \in Nat /\ attempts[e] <= attempts'[e]
  BY <1>2, <1>6 DEF NextAttempt
<1>11. \A r \in new : /\ r \in Claimed /\ r.event \in published
                       /\ r.attempt = attempts[r.event] + 1 /\ r.attempt = attempts'[r.event]
  <2>1. \A e \in FirstDue : attempts'[e] = attempts[e] + 1
    BY <1>1, <1>6 DEF NextAttempt
  <2> QED
    BY <2>1, <1>1, <1>3 DEF NextAttempt
<1> HIDE DEF new
<1>12. \A v \in Worker : \A r \in InHand(v) :
         r \in Claimed /\ r.event \in published /\ r.attempt <= attempts[r.event]
  BY DEF IInv, Held
<1>13. Held'
  <2> SUFFICES ASSUME NEW v \in Worker, NEW r \in InHand(v)'
               PROVE  r \in Claimed /\ r.event \in published' /\ r.attempt <= attempts'[r.event]
    BY DEF Held
  <2>1. CASE v = w
    BY <2>1, <1>6, <1>9, <1>10, <1>11 DEF Claimed
  <2>2. CASE v # w
    BY <2>2, <1>6, <1>9, <1>10, <1>12 DEF Claimed
  <2> QED
    BY <2>1, <2>2
<1>14. \A v \in Worker : new \cap InHand(v) = {}
  BY <1>10, <1>11, <1>12 DEF Claimed
<1>15. AttemptIsFencing'
  BY <1>9, <1>14 DEF IInv, AttemptIsFencing
<1>16. IdleIsEmpty' /\ Answered'
  BY <1>5, <1>6, <1>7 DEF IInv, IdleIsEmpty, Answered, At
<1>17. DeadOnlyWhenExhausted'
  <2>1. \A e \in dead : e \in Event /\ attempts[e] >= MaxAttempts
    BY DEF IInv, DeadOnlyWhenExhausted, TypeOK
  <2>2. MaxAttempts \in Nat
    BY ConstantsAssumption
  <2>3. \A e \in dead : attempts'[e] >= MaxAttempts
    BY <2>1, <2>2, <1>10
  <2> QED
    BY <2>3, <1>6 DEF DeadOnlyWhenExhausted
<1>18. TypeOK'
  <2>1. hand' \in [Worker -> HandRecord]
    BY <1>2, <1>4, <1>6
  <2>2. attempts' \in [Event -> Nat] /\ wait' \in [Event -> Nat] /\ lease' \in [Worker -> Nat]
    BY <1>2, <1>6, ConstantsAssumption DEF NextAttempt
  <2> QED
    BY <2>1, <2>2, <1>6 DEF IInv, TypeOK, HandRecord
<1> QED
  BY <1>13, <1>15, <1>16, <1>17, <1>18 DEF IInv

LEMMA DispatchIInv ==
  ASSUME IInv, NEW w \in Worker, Dispatch(w)
  PROVE  IInv'
<1>1. PICK r \in hand[w].batch :
        Take(w, Hand("deliver", hand[w].batch \ {r}, r, Subscribers[r.event]))
  BY DEF Dispatch
<1> DEFINE h == Hand("deliver", hand[w].batch \ {r}, r, Subscribers[r.event])
<1>2. hand[w] \in HandRecord
  BY DEF IInv, TypeOK, HandRecord
<1>3. r \in Claimed /\ hand[w].batch \in SUBSET Claimed
  BY <1>2 DEF HandRecord
<1>4. Subscribers[r.event] \in SUBSET Consumer
  BY <1>3, ConstantsAssumption DEF Claimed
<1>5. h \in HandRecord
  BY <1>3, <1>4, HandType
<1>6. h.pc = "deliver" /\ h.batch = hand[w].batch \ {r} /\ h.row = r /\ h.todo = Subscribers[r.event]
  BY HandFields
<1>7. Take(w, h)
  BY <1>1
<1> HIDE DEF h
<1>8. HandSet(h) \subseteq InHand(w)
  BY <1>6 DEF HandSet, InHand
<1>9. UNCHANGED <<published, attempts, wait, processed, dead, handled, lease, faults>>
  BY DEF Dispatch
<1>10. \A e \in dead' : attempts[e] >= MaxAttempts
  BY <1>9 DEF IInv, DeadOnlyWhenExhausted
<1>11. /\ Held' /\ IdleIsEmpty' /\ AttemptIsFencing' /\ DeadOnlyWhenExhausted' /\ Answered'
       /\ hand' \in [Worker -> HandRecord]
  BY <1>5, <1>6, <1>7, <1>8, <1>9, <1>10, ShrinkStep
<1> QED
  BY <1>9, <1>11 DEF IInv, TypeOK, HandRecord

LEMMA DeliverIInv ==
  ASSUME IInv, NEW w \in Worker, Deliver(w)
  PROVE  IInv'
<1>1. PICK c \in hand[w].todo :
        /\ handled' = handled \cup {<<hand[w].row.event, c>>}
        /\ Take(w, Hand("deliver", hand[w].batch, hand[w].row, hand[w].todo \ {c}))
  BY DEF Deliver
<1> DEFINE h == Hand("deliver", hand[w].batch, hand[w].row, hand[w].todo \ {c})
<1>2. hand[w].pc = "deliver"
  BY DEF Deliver, At
<1>3. /\ hand[w].row \in Claimed /\ hand[w].batch \in SUBSET Claimed
      /\ hand[w].todo \in SUBSET Consumer
      /\ InHand(w) = hand[w].batch \cup {hand[w].row} /\ hand[w].row.event \in Event
  BY <1>2, RowFacts
<1>4. h \in HandRecord
  BY <1>3, HandType
<1>5. h.pc = "deliver" /\ h.batch = hand[w].batch /\ h.row = hand[w].row /\ h.todo = hand[w].todo \ {c}
  BY HandFields
<1>6. Take(w, h)
  BY <1>1
<1> HIDE DEF h
<1>7. HandSet(h) \subseteq InHand(w)
  BY <1>3, <1>5 DEF HandSet
<1>8. UNCHANGED <<published, attempts, wait, processed, dead, lease, faults>>
  BY DEF Deliver
<1>9. \A e \in dead' : attempts[e] >= MaxAttempts
  BY <1>8 DEF IInv, DeadOnlyWhenExhausted
<1>10. /\ hand[w].todo \subseteq Subscribers[hand[w].row.event]
       /\ \A d \in Subscribers[hand[w].row.event] \ hand[w].todo :
            <<hand[w].row.event, d>> \in handled
  BY <1>2 DEF IInv, Answered, At
<1>11. /\ h.todo \subseteq Subscribers[h.row.event]
       /\ \A d \in Subscribers[h.row.event] \ h.todo : <<h.row.event, d>> \in handled'
  BY <1>1, <1>5, <1>10
<1>12. handled \subseteq handled' /\ handled' \subseteq Event \X Consumer
  BY <1>1, <1>3 DEF IInv, TypeOK
<1>13. /\ Held' /\ IdleIsEmpty' /\ AttemptIsFencing' /\ DeadOnlyWhenExhausted' /\ Answered'
       /\ hand' \in [Worker -> HandRecord]
  BY <1>4, <1>5, <1>6, <1>7, <1>8, <1>9, <1>11, <1>12, ShrinkStep
<1> QED
  BY <1>8, <1>12, <1>13 DEF IInv, TypeOK, HandRecord

LEMMA MarkProcessedIInv ==
  ASSUME IInv, NEW w \in Worker, MarkProcessed(w)
  PROVE  IInv'
<1>1. hand[w].pc = "deliver" /\ Proceed(w)
  BY DEF MarkProcessed, At
<1>2. hand[w].row.event \in Event /\ InHand(w) = hand[w].batch \cup {hand[w].row}
  BY <1>1, RowFacts
<1>3. PICK h \in HandRecord :
        /\ Take(w, h) /\ HandSet(h) = hand[w].batch
        /\ h.pc \in {"idle", "next"} /\ (h.pc = "idle" => h.batch = {})
  BY <1>1, ProceedStep
<1>4. lease' \in [Worker -> Nat]
  BY <1>1, ProceedStep
<1>5. /\ processed' = processed \cup {hand[w].row.event}
      /\ UNCHANGED <<published, attempts, wait, dead, handled, faults>>
  BY DEF MarkProcessed
<1>6. \A e \in dead' : attempts[e] >= MaxAttempts
  BY <1>5 DEF IInv, DeadOnlyWhenExhausted
<1>7. /\ Held' /\ IdleIsEmpty' /\ AttemptIsFencing' /\ DeadOnlyWhenExhausted' /\ Answered'
      /\ hand' \in [Worker -> HandRecord]
  BY <1>2, <1>3, <1>5, <1>6, ShrinkStep
<1> QED
  BY <1>2, <1>4, <1>5, <1>7 DEF IInv, TypeOK, HandRecord

(* The two steps that end a dispatch in onFailure. *)
LEMMA FailIInv ==
  ASSUME IInv, NEW w \in Worker, Throw(w) \/ LoseAnswer(w)
  PROVE  IInv'
<1>1. hand[w].pc = "deliver"
  BY DEF Throw, LoseAnswer, At
<1>2. /\ hand[w].row \in Claimed /\ hand[w].batch \in SUBSET Claimed
      /\ InHand(w) = hand[w].batch \cup {hand[w].row} /\ hand[w].row.event \in Event
  BY <1>1, RowFacts
<1> DEFINE h == Hand("fail", hand[w].batch, hand[w].row, {})
<1>3. h \in HandRecord
  BY <1>2, HandType
<1>4. h.pc = "fail" /\ h.batch = hand[w].batch /\ h.row = hand[w].row
  BY HandFields
<1>5. Take(w, h)
  BY DEF Throw, LoseAnswer
<1> HIDE DEF h
<1>6. HandSet(h) \subseteq InHand(w)
  BY <1>2, <1>4 DEF HandSet
<1>7. /\ UNCHANGED <<published, attempts, wait, dead, handled, lease>>
      /\ processed' \subseteq Event /\ faults' \in Nat
  BY <1>2 DEF Throw, LoseAnswer, IInv, TypeOK
<1>8. \A e \in dead' : attempts[e] >= MaxAttempts
  BY <1>7 DEF IInv, DeadOnlyWhenExhausted
<1>9. /\ Held' /\ IdleIsEmpty' /\ AttemptIsFencing' /\ DeadOnlyWhenExhausted' /\ Answered'
      /\ hand' \in [Worker -> HandRecord]
  BY <1>3, <1>4, <1>5, <1>6, <1>7, <1>8, ShrinkStep
<1> QED
  BY <1>7, <1>9 DEF IInv, TypeOK, HandRecord

LEMMA OnFailureIInv ==
  ASSUME IInv, NEW w \in Worker, OnFailure(w)
  PROVE  IInv'
<1>1. hand[w].pc = "fail" /\ Proceed(w)
  BY DEF OnFailure, At
<1>2. /\ hand[w].row \in InHand(w) /\ hand[w].row.event \in Event /\ hand[w].row.attempt \in Nat
      /\ attempts[hand[w].row.event] \in Nat
      /\ hand[w].row.attempt <= attempts[hand[w].row.event]
      /\ InHand(w) = hand[w].batch \cup {hand[w].row}
  BY <1>1, RowFacts
<1>3. PICK h \in HandRecord :
        /\ Take(w, h) /\ HandSet(h) = hand[w].batch
        /\ h.pc \in {"idle", "next"} /\ (h.pc = "idle" => h.batch = {})
  BY <1>1, ProceedStep
<1>4. lease' \in [Worker -> Nat]
  BY <1>1, ProceedStep
<1>5. UNCHANGED <<published, attempts, processed, handled, faults>>
  BY DEF OnFailure
<1>6. \/ /\ hand[w].row.attempt >= MaxAttempts
         /\ dead' = dead \cup {hand[w].row.event} /\ wait' = wait
      \/ /\ ~ (hand[w].row.attempt >= MaxAttempts) /\ dead' = dead
         /\ wait' = [wait EXCEPT ![hand[w].row.event] = Backoff(hand[w].row.attempt)]
  BY DEF OnFailure, Exhausted
<1>7. MaxAttempts \in Nat
  BY ConstantsAssumption
<1>8. \A e \in dead : attempts[e] >= MaxAttempts
  BY DEF IInv, DeadOnlyWhenExhausted
<1>9. hand[w].row.attempt >= MaxAttempts => attempts[hand[w].row.event] >= MaxAttempts
  BY <1>2, <1>7
<1>10. \A e \in dead' : attempts[e] >= MaxAttempts
  BY <1>6, <1>8, <1>9
<1>11. wait' \in [Event -> Nat] /\ dead' \subseteq Event
  <2>1. ~ (hand[w].row.attempt >= MaxAttempts) => Backoff(hand[w].row.attempt) \in Nat
    BY <1>2, <1>7, BackoffType
  <2> QED
    BY <2>1, <1>2, <1>6 DEF IInv, TypeOK
<1>12. /\ Held' /\ IdleIsEmpty' /\ AttemptIsFencing' /\ DeadOnlyWhenExhausted' /\ Answered'
       /\ hand' \in [Worker -> HandRecord]
  BY <1>2, <1>3, <1>5, <1>10, ShrinkStep
<1> QED
  BY <1>4, <1>5, <1>11, <1>12 DEF IInv, TypeOK, HandRecord

LEMMA CrashIInv ==
  ASSUME IInv, NEW w \in Worker, Crash(w)
  PROVE  IInv'
<1>1. Idle \in HandRecord /\ Idle.pc = "idle" /\ Idle.batch = {}
  BY HandType, HandFields DEF Idle
<1>2. HandSet(Idle) = {}
  BY <1>1 DEF HandSet
<1>3. Take(w, Idle) /\ UNCHANGED <<published, attempts, wait, processed, dead, handled>>
      /\ lease' = [lease EXCEPT ![w] = 0] /\ faults' = faults + 1
  BY DEF Crash
<1>4. \A e \in dead' : attempts[e] >= MaxAttempts
  BY <1>3 DEF IInv, DeadOnlyWhenExhausted
<1>5. /\ Held' /\ IdleIsEmpty' /\ AttemptIsFencing' /\ DeadOnlyWhenExhausted' /\ Answered'
      /\ hand' \in [Worker -> HandRecord]
  BY <1>1, <1>2, <1>3, <1>4, ShrinkStep
<1>6. lease' \in [Worker -> Nat] /\ faults' \in Nat
  BY <1>3 DEF IInv, TypeOK
<1>7. TypeOK'
  BY <1>3, <1>5, <1>6 DEF IInv, TypeOK, HandRecord
<1> QED
  BY <1>5, <1>7 DEF IInv

(* The steps that leave the hands, the attempts and the dead rows alone. *)
LEMMA OtherIInv ==
  ASSUME IInv, (\E e \in Event : Publish(e)) \/ Tick \/ UNCHANGED vars
  PROVE  IInv'
<1>1. /\ UNCHANGED <<attempts, processed, dead, handled, hand>>
      /\ published \subseteq published' /\ published' \subseteq Event
  BY DEF IInv, TypeOK, Publish, Tick, vars
<1>2. wait' \in [Event -> Nat] /\ lease' \in [Worker -> Nat] /\ faults' \in Nat
  <2>1. CASE Tick
    <3>1. wait' \in [Event -> Nat] /\ lease' \in [Worker -> Nat]
      BY <2>1 DEF Tick, Less, IInv, TypeOK
    <3>2. {w \in Worker : lease[w] = 1} \subseteq Worker
      OBVIOUS
    <3>3. Cardinality({w \in Worker : lease[w] = 1}) \in Nat
      BY <3>2, ConstantsAssumption, FS_Subset, FS_CardinalityType
    <3> QED
      BY <2>1, <3>1, <3>3 DEF Tick, IInv, TypeOK
  <2>2. CASE ~ Tick
    BY <2>2 DEF Publish, vars, IInv, TypeOK
  <2> QED
    BY <2>1, <2>2
<1>3. TypeOK'
  BY <1>1, <1>2 DEF IInv, TypeOK
<1>4. \A w \in Worker : InHand(w)' = InHand(w)
  BY <1>1 DEF InHand
<1>5. Held' /\ AttemptIsFencing'
  BY <1>1, <1>4 DEF IInv, Held, AttemptIsFencing
<1>6. IdleIsEmpty' /\ Answered' /\ DeadOnlyWhenExhausted'
  BY <1>1 DEF IInv, IdleIsEmpty, Answered, At, DeadOnlyWhenExhausted
<1> QED
  BY <1>3, <1>5, <1>6 DEF IInv

LEMMA StepIInv == IInv /\ [Next]_vars => IInv'
BY ClaimIInv, DispatchIInv, DeliverIInv, MarkProcessedIInv, FailIInv, OnFailureIInv,
   CrashIInv, OtherIInv DEF Next, Step

LEMMA Invariance == Spec => []IInv
BY InitIInv, StepIInv, PTL DEF Spec

-----------------------------------------------------------------------------
(* Type correctness of the relay's rows and of what its workers hold. *)
THEOREM TypeCorrect == Spec => []TypeOK
<1>1. IInv => TypeOK
  BY DEF IInv
<1> QED
  BY <1>1, Invariance, PTL

(* The attempt number an UPDATE ... RETURNING hands out fences: no two       *)
(* workers ever hold a row under the same one.                               *)
THEOREM FencingTheorem == Spec => []AttemptIsFencing
<1>1. IInv => AttemptIsFencing
  BY DEF IInv
<1> QED
  BY <1>1, Invariance, PTL

(* onFailure parks an event only after MAX_ATTEMPTS claims of it.            *)
THEOREM DeadTheorem == Spec => []DeadOnlyWhenExhausted
<1>1. IInv => DeadOnlyWhenExhausted
  BY DEF IInv
<1> QED
  BY <1>1, Invariance, PTL

-----------------------------------------------------------------------------
(* The refinement of Delivery, step by step. *)
LEMMA DeliverRefines ==
  ASSUME IInv, NEW w \in Worker, Deliver(w)
  PROVE  D!Next
<1>1. hand[w].pc = "deliver"
  BY DEF Deliver, At
<1>2. PICK c \in hand[w].todo : handled' = handled \cup {<<hand[w].row.event, c>>}
  BY DEF Deliver
<1>3. hand[w].row.event \in published /\ hand[w].row.event \in Event
  BY <1>1, RowFacts
<1>4. c \in Subscribers[hand[w].row.event]
  BY <1>1 DEF IInv, Answered, At
<1>5. D!Handle(hand[w].row.event, c)
  BY <1>2, <1>3, <1>4 DEF D!Handle, Deliver
<1> QED
  BY <1>3, <1>4, <1>5 DEF D!Next

LEMMA FinishRefines ==
  ASSUME IInv, NEW w \in Worker, MarkProcessed(w) \/ LoseAnswer(w)
  PROVE  D!Next
<1>1. hand[w].pc = "deliver" /\ hand[w].todo = {}
  BY DEF MarkProcessed, LoseAnswer, At, AllAnswered
<1>2. hand[w].row.event \in published /\ hand[w].row.event \in Event
  BY <1>1, RowFacts
<1>3. \A c \in Subscribers[hand[w].row.event] : <<hand[w].row.event, c>> \in handled
  BY <1>1 DEF IInv, Answered, At
<1>4. D!Finish(hand[w].row.event)
  BY <1>2, <1>3 DEF D!Finish, MarkProcessed, LoseAnswer
<1> QED
  BY <1>2, <1>4 DEF D!Next

LEMMA OnFailureRefines ==
  ASSUME IInv, NEW w \in Worker, OnFailure(w)
  PROVE  D!Next \/ UNCHANGED D!vars
<1>1. hand[w].row.event \in published /\ hand[w].row.event \in Event
  BY RowFacts DEF OnFailure, At
<1>2. CASE dead' = dead \cup {hand[w].row.event}
  <2>1. D!Park(hand[w].row.event)
    BY <1>1, <1>2 DEF D!Park, OnFailure
  <2> QED
    BY <1>1, <2>1 DEF D!Next
<1>3. CASE dead' = dead
  BY <1>3 DEF OnFailure, D!vars
<1> QED
  BY <1>2, <1>3 DEF OnFailure

LEMMA StepRefines == IInv /\ [Next]_vars => [D!Next]_(D!vars)
<1> SUFFICES ASSUME IInv, [Next]_vars PROVE [D!Next]_(D!vars)
  OBVIOUS
<1>1. ASSUME NEW e \in Event, Publish(e) PROVE D!Next
  BY <1>1 DEF Publish, D!Publish, D!Next
<1>2. ASSUME NEW w \in Worker, Claim(w) \/ Dispatch(w) \/ Throw(w) \/ Crash(w)
      PROVE  UNCHANGED D!vars
  BY <1>2 DEF Claim, Dispatch, Throw, Crash, D!vars
<1>3. Tick \/ UNCHANGED vars => UNCHANGED D!vars
  BY DEF Tick, vars, D!vars
<1> QED
  BY <1>1, <1>2, <1>3, DeliverRefines, FinishRefines, OnFailureRefines DEF Next, Step

(* The relay implements Delivery: under crashes, lapsed leases and consumers *)
(* that throw, no event counts as processed before every subscriber has      *)
(* handled it.                                                               *)
THEOREM RefinementTheorem == Spec => AtLeastOnce
<1>1. Init => D!Init
  BY DEF Init, D!Init
<1> QED
  BY <1>1, StepRefines, Invariance, PTL DEF Spec, AtLeastOnce, D!Spec

-----------------------------------------------------------------------------
(* Until the first fault a claimed row is its worker's alone: its lease has  *)
(* not lapsed, the row is hidden for at least as long, it has no verdict,    *)
(* and no second record of it is in any hand.                                *)
Covered ==
  \A w \in Worker : \A r \in InHand(w) :
    /\ lease[w] > 0 /\ lease[w] <= wait[r.event]
    /\ r.event \notin processed \cup dead

OneRecord ==
  \A v, w \in Worker : \A r \in InHand(v), q \in InHand(w) :
    r.event = q.event => v = w /\ r = q

RowTaken == \A w \in Worker : hand[w].pc \in {"deliver", "fail"} => hand[w].row \notin hand[w].batch

Alone == Covered /\ OneRecord /\ RowTaken /\ processed \cap dead = {}
AloneInv == faults = 0 => Alone

LEMMA ClaimAlone ==
  ASSUME IInv, Alone, NEW w \in Worker, Claim(w)
  PROVE  Alone'
<1> DEFINE new == {[event |-> e, attempt |-> NextAttempt(e)] : e \in FirstDue}
<1> DEFINE h == Hand("next", new, NoRow, {})
<1>1. FirstDue \subseteq Event /\ \A e \in FirstDue : wait[e] = 0 /\ e \notin processed \cup dead
  BY DEF FirstDue, Due, IInv, TypeOK
<1>2. hand \in [Worker -> HandRecord] /\ lease \in [Worker -> Nat] /\ wait \in [Event -> Nat]
  BY DEF IInv, TypeOK, HandRecord
<1>3. h.pc = "next" /\ h.batch = new
  BY HandFields
<1>4. /\ hand' = [hand EXCEPT ![w] = h]
      /\ wait' = [e \in Event |-> IF e \in FirstDue THEN LeaseTime ELSE wait[e]]
      /\ lease' = [lease EXCEPT ![w] = LeaseTime]
      /\ UNCHANGED <<processed, dead>>
  BY DEF Claim, Take
<1> HIDE DEF h
<1>5. \A v \in Worker : hand'[v] = IF v = w THEN h ELSE hand[v]
  BY <1>2, <1>4
<1>6. \A v \in Worker : InHand(v)' = IF v = w THEN new ELSE InHand(v)
  BY <1>3, <1>5 DEF InHand, HandSet
<1>7. \A r \in new : r.event \in FirstDue
  OBVIOUS
<1>8. \A r, q \in new : r.event = q.event => r = q
  OBVIOUS
<1> HIDE DEF new
<1>9. \A v \in Worker : \A r \in InHand(v) :
        /\ r.event \in Event /\ lease[v] > 0 /\ lease[v] <= wait[r.event]
        /\ r.event \notin processed \cup dead
  BY DEF Alone, Covered, IInv, Held, Claimed
<1>10. \A v \in Worker : \A r \in InHand(v) : r.event \notin FirstDue
  BY <1>1, <1>2, <1>9
<1>11. LeaseTime \in Nat /\ LeaseTime > 0
  BY ConstantsAssumption
<1>12. Covered'
  <2> SUFFICES ASSUME NEW v \in Worker, NEW r \in InHand(v)'
               PROVE  /\ lease'[v] > 0 /\ lease'[v] <= wait'[r.event]
                      /\ r.event \notin processed' \cup dead'
    BY DEF Covered
  <2>1. CASE v = w
    BY <2>1, <1>1, <1>2, <1>4, <1>6, <1>7, <1>11
  <2>2. CASE v # w
    BY <2>2, <1>2, <1>4, <1>6, <1>9, <1>10
  <2> QED
    BY <2>1, <2>2
<1>13. OneRecord'
  BY <1>6, <1>7, <1>8, <1>10 DEF Alone, OneRecord
<1>14. RowTaken'
  BY <1>3, <1>5 DEF Alone, RowTaken
<1> QED
  BY <1>4, <1>12, <1>13, <1>14 DEF Alone

(* A step that only lets go of rows, of the worker and of nobody else, and   *)
(* gives a verdict, or a new due time, to rows it has let go of.             *)
LEMMA ShrinkAlone ==
  ASSUME IInv, Alone, NEW w \in Worker, NEW h \in HandRecord, Take(w, h),
         HandSet(h) \subseteq InHand(w),
         h.pc \in {"deliver", "fail"} => h.row \notin h.batch,
         h.pc = "idle" \/ lease'[w] = lease[w],
         h.pc = "idle" => h.batch = {},
         \A v \in Worker \ {w} : lease'[v] = lease[v],
         \A v \in Worker : \A r \in InHand(v) : (v # w \/ r \in HandSet(h)) =>
           /\ wait'[r.event] = wait[r.event]
           /\ r.event \notin (processed' \cup dead') \ (processed \cup dead),
         processed' \cap dead' = {}
  PROVE  Alone'
<1>1. hand \in [Worker -> HandRecord]
  BY DEF IInv, TypeOK, HandRecord
<1>2. \A v \in Worker : hand'[v] = IF v = w THEN h ELSE hand[v]
  BY <1>1 DEF Take
<1>3. \A v \in Worker : InHand(v)' = IF v = w THEN HandSet(h) ELSE InHand(v)
  BY <1>2 DEF InHand
<1>4. h.pc = "idle" => HandSet(h) = {}
  BY DEF HandSet
<1>5. OneRecord'
  BY <1>3 DEF Alone, OneRecord
<1>6. RowTaken'
  BY <1>2 DEF Alone, RowTaken
<1>7. Covered'
  <2> SUFFICES ASSUME NEW v \in Worker, NEW r \in InHand(v)'
               PROVE  /\ lease'[v] > 0 /\ lease'[v] <= wait'[r.event]
                      /\ r.event \notin processed' \cup dead'
    BY DEF Covered
  <2>1. r \in InHand(v) /\ (v # w \/ r \in HandSet(h))
    BY <1>3
  <2>2. lease[v] > 0 /\ lease[v] <= wait[r.event] /\ r.event \notin processed \cup dead
    BY <2>1 DEF Alone, Covered
  <2>3. lease'[v] = lease[v]
    BY <2>1, <1>4
  <2> QED
    BY <2>1, <2>2, <2>3
<1> QED
  BY <1>5, <1>6, <1>7 DEF Alone

LEMMA DispatchAlone ==
  ASSUME IInv, Alone, NEW w \in Worker, Dispatch(w)
  PROVE  Alone'
<1>1. PICK r \in hand[w].batch :
        Take(w, Hand("deliver", hand[w].batch \ {r}, r, Subscribers[r.event]))
  BY DEF Dispatch
<1> DEFINE h == Hand("deliver", hand[w].batch \ {r}, r, Subscribers[r.event])
<1>2. hand[w] \in HandRecord
  BY DEF IInv, TypeOK, HandRecord
<1>3. r \in Claimed /\ hand[w].batch \in SUBSET Claimed
  BY <1>2 DEF HandRecord
<1>4. Subscribers[r.event] \in SUBSET Consumer
  BY <1>3, ConstantsAssumption DEF Claimed
<1>5. h \in HandRecord
  BY <1>3, <1>4, HandType
<1>6. h.pc = "deliver" /\ h.batch = hand[w].batch \ {r} /\ h.row = r
  BY HandFields
<1>7. Take(w, h)
  BY <1>1
<1> HIDE DEF h
<1>8. HandSet(h) \subseteq InHand(w)
  BY <1>6 DEF HandSet, InHand
<1>9. UNCHANGED <<wait, processed, dead, lease>>
  BY DEF Dispatch
<1>10. processed' \cap dead' = {}
  BY <1>9 DEF Alone
<1> QED
  BY <1>5, <1>6, <1>7, <1>8, <1>9, <1>10, ShrinkAlone

(* A step within the dispatch of a row. *)
LEMMA WithinAlone ==
  ASSUME IInv, Alone, NEW w \in Worker, Deliver(w) \/ Throw(w)
  PROVE  Alone'
<1>1. hand[w].pc = "deliver"
  BY DEF Deliver, Throw, At
<1>2. /\ hand[w].row \in Claimed /\ hand[w].batch \in SUBSET Claimed
      /\ hand[w].todo \in SUBSET Consumer
      /\ InHand(w) = hand[w].batch \cup {hand[w].row}
  BY <1>1, RowFacts
<1>3. PICK pc \in {"deliver", "fail"}, todo \in SUBSET Consumer :
        Take(w, Hand(pc, hand[w].batch, hand[w].row, todo))
  <2>1. CASE Deliver(w)
    <3>1. PICK c \in hand[w].todo :
            Take(w, Hand("deliver", hand[w].batch, hand[w].row, hand[w].todo \ {c}))
      BY <2>1 DEF Deliver
    <3>2. hand[w].todo \ {c} \in SUBSET Consumer
      BY <1>2
    <3> QED
      BY <3>1, <3>2
  <2>2. CASE Throw(w)
    BY <2>2 DEF Throw
  <2> QED
    BY <2>1, <2>2
<1> DEFINE h == Hand(pc, hand[w].batch, hand[w].row, todo)
<1>4. h \in HandRecord
  BY <1>2, HandType
<1>5. h.pc \in {"deliver", "fail"} /\ h.batch = hand[w].batch /\ h.row = hand[w].row
  BY HandFields
<1>6. Take(w, h)
  BY <1>3
<1> HIDE DEF h
<1>7. HandSet(h) \subseteq InHand(w)
  BY <1>2, <1>5 DEF HandSet
<1>8. UNCHANGED <<wait, processed, dead, lease>>
  BY DEF Deliver, Throw
<1>9. processed' \cap dead' = {} /\ h.row \notin h.batch
  BY <1>1, <1>5, <1>8 DEF Alone, RowTaken
<1> QED
  BY <1>4, <1>5, <1>6, <1>7, <1>8, <1>9, ShrinkAlone

(* A step that ends the dispatch with a verdict or a new due time. *)
LEMMA VerdictAlone ==
  ASSUME IInv, Alone, NEW w \in Worker, MarkProcessed(w) \/ OnFailure(w)
  PROVE  Alone'
<1>1. hand[w].pc \in {"deliver", "fail"} /\ Proceed(w)
  BY DEF MarkProcessed, OnFailure, At
<1> DEFINE e == hand[w].row.event
<1>2. hand[w].row \in InHand(w) /\ InHand(w) = hand[w].batch \cup {hand[w].row} /\ e \in Event
  BY <1>1, RowFacts
<1>3. lease \in [Worker -> Nat] /\ wait \in [Event -> Nat] /\ hand \in [Worker -> HandRecord]
  BY DEF IInv, TypeOK, HandRecord
<1>4. PICK h \in HandRecord :
        /\ Take(w, h) /\ HandSet(h) = hand[w].batch
        /\ h.pc \in {"idle", "next"} /\ (h.pc = "idle" => h.batch = {})
  BY <1>1, ProceedStep
<1>5. h.pc = "idle" \/ lease'[w] = lease[w]
  <2>1. CASE hand[w].batch = {}
    <3>1. Take(w, Idle)
      BY <1>1, <2>1 DEF Proceed
    <3>2. h = Idle
      <4>1. hand'[w] = h
        BY <1>3, <1>4 DEF Take
      <4>2. hand'[w] = Idle
        BY <1>3, <3>1 DEF Take
      <4> QED
        BY <4>1, <4>2
    <3> QED
      BY <3>2, HandFields DEF Idle
  <2>2. CASE hand[w].batch # {}
    BY <1>1, <2>2 DEF Proceed
  <2> QED
    BY <2>1, <2>2
<1>6. \A v \in Worker \ {w} : lease'[v] = lease[v]
  BY <1>1, <1>3 DEF Proceed
<1>7. /\ \A d \in Event \ {e} : wait'[d] = wait[d]
      /\ processed' \cup dead' \subseteq processed \cup dead \cup {e}
      /\ processed' \cap dead' \subseteq {e}
      /\ (processed' = processed \/ dead' = dead)
  <2>1. CASE MarkProcessed(w)
    BY <2>1, <1>3 DEF MarkProcessed, Alone
  <2>2. CASE OnFailure(w)
    BY <2>2, <1>3 DEF OnFailure, Alone
  <2> QED
    BY <2>1, <2>2
<1>8. e \notin processed \cup dead
  BY <1>2 DEF Alone, Covered
<1>9. processed' \cap dead' = {}
  BY <1>7, <1>8
<1>10. hand[w].row \notin hand[w].batch
  BY <1>1 DEF Alone, RowTaken
<1>11. \A v \in Worker : \A r \in InHand(v) : (v # w \/ r \in HandSet(h)) =>
         r.event \in Event \ {e}
  BY <1>2, <1>4, <1>10 DEF Alone, OneRecord, IInv, Held, Claimed
<1>12. \A v \in Worker : \A r \in InHand(v) : (v # w \/ r \in HandSet(h)) =>
         /\ wait'[r.event] = wait[r.event]
         /\ r.event \notin (processed' \cup dead') \ (processed \cup dead)
  BY <1>7, <1>11
<1>13. HandSet(h) \subseteq InHand(w)
  BY <1>2, <1>4
<1> HIDE DEF e
<1> QED
  BY <1>4, <1>5, <1>6, <1>9, <1>12, <1>13, ShrinkAlone

(* Time: a lease that reaches zero is a fault. *)
LEMMA TickAlone ==
  ASSUME IInv, Alone, Tick, faults' = 0
  PROVE  Alone'
<1> DEFINE lapsing == {w \in Worker : lease[w] = 1}
<1>1. IsFiniteSet(lapsing) /\ Cardinality(lapsing) \in Nat
  <2>1. lapsing \subseteq Worker
    OBVIOUS
  <2> QED
    BY <2>1, ConstantsAssumption, FS_Subset, FS_CardinalityType
<1>2. faults \in Nat /\ faults' = faults + Cardinality(lapsing)
  BY DEF Tick, IInv, TypeOK
<1>3. Cardinality(lapsing) = 0
  BY <1>1, <1>2
<1>4. lapsing = {}
  BY <1>1, <1>3, FS_EmptySet
<1>5. lease \in [Worker -> Nat] /\ wait \in [Event -> Nat]
  BY DEF IInv, TypeOK
<1>6. /\ UNCHANGED <<processed, dead, hand>>
      /\ \A w \in Worker : lease'[w] = Less(lease[w])
      /\ \A e \in Event : wait'[e] = Less(wait[e])
  BY DEF Tick
<1>7. \A w \in Worker : InHand(w)' = InHand(w)
  BY <1>6 DEF InHand
<1>8. Covered'
  <2> SUFFICES ASSUME NEW w \in Worker, NEW r \in InHand(w)
               PROVE  /\ lease'[w] > 0 /\ lease'[w] <= wait'[r.event]
                      /\ r.event \notin processed' \cup dead'
    BY <1>7 DEF Covered
  <2>1. /\ lease[w] > 0 /\ lease[w] <= wait[r.event]
        /\ r.event \notin processed \cup dead /\ r.event \in Event
    BY DEF Alone, Covered, IInv, Held, Claimed
  <2>2. lease[w] # 1
    BY <1>4
  <2> QED
    BY <2>1, <2>2, <1>5, <1>6 DEF Less
<1>9. OneRecord' /\ RowTaken'
  BY <1>6, <1>7 DEF Alone, OneRecord, RowTaken
<1> QED
  BY <1>6, <1>8, <1>9 DEF Alone

LEMMA InitAlone == Init => AloneInv
<1> SUFFICES ASSUME Init PROVE Alone
  BY DEF AloneInv
<1>1. \A w \in Worker : hand[w] = Idle
  BY DEF Init
<1>2. Idle.pc = "idle" /\ Idle.batch = {}
  BY HandFields DEF Idle
<1>3. \A w \in Worker : InHand(w) = {}
  BY <1>1, <1>2 DEF InHand, HandSet
<1> QED
  BY <1>1, <1>2, <1>3 DEF Init, Alone, Covered, OneRecord, RowTaken

LEMMA StepAlone == IInv /\ AloneInv /\ [Next]_vars => AloneInv'
<1> SUFFICES ASSUME IInv, AloneInv, [Next]_vars, faults' = 0 PROVE Alone'
  BY DEF AloneInv
<1>1. faults \in Nat
  BY DEF IInv, TypeOK
<1>2. ASSUME NEW w \in Worker, LoseAnswer(w) \/ Crash(w) PROVE FALSE
  BY <1>1, <1>2 DEF LoseAnswer, Crash
<1>3. ASSUME NEW w \in Worker, Step(w) PROVE Alone'
  <2>1. faults = 0
    BY <1>3 DEF Step, Claim, Dispatch, Deliver, MarkProcessed, Throw, OnFailure
  <2> QED
    BY <2>1, <1>3, ClaimAlone, DispatchAlone, WithinAlone, VerdictAlone DEF Step, AloneInv
<1>4. CASE Tick
  <2>1. {w \in Worker : lease[w] = 1} \subseteq Worker
    OBVIOUS
  <2>2. Cardinality({w \in Worker : lease[w] = 1}) \in Nat
    BY <2>1, ConstantsAssumption, FS_Subset, FS_CardinalityType
  <2>3. faults = 0
    BY <1>1, <1>4, <2>2 DEF Tick
  <2> QED
    BY <2>3, <1>4, TickAlone DEF AloneInv
<1>5. ASSUME (\E e \in Event : Publish(e)) \/ UNCHANGED vars PROVE Alone'
  <2>1. UNCHANGED <<processed, dead, hand, lease, wait, faults>>
    BY <1>5 DEF Publish, vars
  <2>2. \A w \in Worker : InHand(w)' = InHand(w)
    BY <2>1 DEF InHand
  <2> QED
    BY <2>1, <2>2 DEF AloneInv, Alone, Covered, OneRecord, RowTaken
<1> QED
  BY <1>2, <1>3, <1>4, <1>5 DEF Next

(* Before the first fault no event is both processed and dead-lettered,      *)
(* although neither mark looks at the other: the lease keeps the row to one  *)
(* worker until it has marked it.                                            *)
THEOREM VerdictTheorem == Spec => []OneVerdict
<1>1. Spec => []AloneInv
  BY InitAlone, StepAlone, Invariance, PTL DEF Spec
<1>2. IInv /\ AloneInv => OneVerdict
  BY DEF IInv, TypeOK, AloneInv, Alone, OneVerdict
<1> QED
  BY <1>1, <1>2, Invariance, PTL
=============================================================================
