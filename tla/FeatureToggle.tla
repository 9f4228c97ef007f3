--------------------------- MODULE FeatureToggle ---------------------------
(***************************************************************************)
(* FeatureToggleService for one key: a row of feature_toggles, a           *)
(* read-through cache in each instance, and flips, which are transactions  *)
(* of READ COMMITTED with an audit row each.                               *)
(*                                                                         *)
(* log is the history of the row, one entry for each committed flip, and a *)
(* cached state is named by its place in it; 0 is "no row".  One unit of   *)
(* time is as long as TTL makes it.                                        *)
(***************************************************************************)
EXTENDS Integers, Sequences

CONSTANTS
  Instance,  \* processes of the backend
  Proc,      \* requests
  Rollout,   \* rollout percentages, 0 among them
  Input,     \* what the flips ask for
  TTL,       \* CACHE_TTL_MS
  MaxFetch,  \* the longest that a SELECT takes to arrive
  Unset,     \* a field that a flip leaves as it is
  NoEntry,   \* the key is not in the cache
  MaxFlips,  \* bound on the flips
  MaxTime    \* bound on the clock

ASSUME ConstantsAssumption ==
  /\ TTL \in Nat \ {0} /\ MaxFetch \in Nat /\ MaxFlips \in Nat /\ MaxTime \in Nat
  /\ 0 \in Rollout
  /\ Unset \notin Rollout /\ Unset \notin BOOLEAN
  /\ Input \subseteq [on : BOOLEAN \cup {Unset}, pct : Rollout \cup {Unset}]
  /\ NoEntry \notin [v : Nat, at : Nat, began : Nat, filled : Nat]

VARIABLES
  log,     \* the states the row has had
  audit,   \* the rows of audit_log
  cache,   \* the entry of each instance
  req,     \* the request each handler works on
  now,
  set,     \* history: what the last flip that set a field set it to
  own      \* history: the newest flip that returned, of each instance

vars == <<log, audit, cache, req, now, set, own>>

Toggle == [on : BOOLEAN, pct : Rollout]
Default == [on |-> FALSE, pct |-> 0]

Idle == [pc |-> "idle"]
Entry == [v : Nat, at : Nat, began : Nat, filled : Nat]
Read == [pc : {"select", "fill"}, inst : Instance,
         v : Nat, since : Nat, began : Nat]
Flip == [pc : {"before", "upsert", "commit", "forget"}, inst : Instance,
         input : Input, before : Nat, raced : BOOLEAN, new : Toggle]

TypeOK ==
  /\ log \in Seq([state : Toggle, at : Nat])
  /\ audit \in Seq([before : Nat, after : Toggle, raced : BOOLEAN])
  /\ cache \in [Instance -> Entry \cup {NoEntry}]
  /\ req \in [Proc -> Read \cup Flip \cup {Idle}]
  /\ now \in Nat /\ set \in Toggle
  /\ own \in [Instance -> Nat]

Init ==
  /\ log = <<>> /\ audit = <<>> /\ now = 0
  /\ cache = [i \in Instance |-> NoEntry]
  /\ req = [p \in Proc |-> Idle]
  /\ set = Default
  /\ own = [i \in Instance |-> 0]

-----------------------------------------------------------------------------
At(p, pc) == req[p].pc = pc
Put(p, r) == req' = [req EXCEPT ![p] = r]
State(v) == IF v = 0 THEN Default ELSE log[v].state

FreshAtTTL(e) == e # NoEntry /\ now - e.at <= TTL  \* seeded fault
Fresh(e) == e # NoEntry /\ now - e.at < TTL

(* The upsert sets the fields that are given; a new row has the defaults.    *)
Merge(t, input) ==
  [on  |-> IF input.on = Unset THEN t.on ELSE input.on,
   pct |-> IF input.pct = Unset THEN t.pct ELSE input.pct]

(* read: a hit changes nothing.  began and filled (what own was when the read *)
(* began and when it filled the cache) are history.                          *)
Reading(pc, i, v, since, began) ==
  [pc |-> pc, inst |-> i, v |-> v, since |-> since, began |-> began]

Miss(p, i) ==
  /\ At(p, "idle") /\ ~ Fresh(cache[i])
  /\ Put(p, Reading("select", i, 0, 0, own[i]))
  /\ UNCHANGED <<log, audit, cache, now, set, own>>

Select(p) ==
  /\ At(p, "select")
  /\ Put(p, Reading("fill", req[p].inst, Len(log), now, req[p].began))
  /\ UNCHANGED <<log, audit, cache, now, set, own>>

Fill(p) ==
  LET i == req[p].inst IN
  /\ At(p, "fill")
  /\ cache' = [cache EXCEPT ![i] = [v |-> req[p].v, at |-> now, began |-> req[p].began, filled |-> own[i]]]
  /\ Put(p, Idle)
  /\ UNCHANGED <<log, audit, now, set, own>>

-----------------------------------------------------------------------------
Flipping(pc, i, input, before, raced, new) ==
  [pc |-> pc, inst |-> i, input |-> input, before |-> before, raced |-> raced, new |-> new]

AskFlip(p, i, input) ==
  /\ At(p, "idle") /\ Len(log) < MaxFlips
  /\ Put(p, Flipping("before", i, input, 0, FALSE, Default))
  /\ UNCHANGED <<log, audit, cache, now, set, own>>

BeforeFromCache(p) ==  \* seeded fault
  LET r == req[p]
      e == cache[r.inst] IN
  /\ At(p, "before")
  /\ Put(p, Flipping("upsert", r.inst, r.input, IF Fresh(e) THEN e.v ELSE Len(log), FALSE, r.new))
  /\ UNCHANGED <<log, audit, cache, now, set, own>>
FindBefore(p) ==
  LET r == req[p] IN
  /\ At(p, "before")
  /\ Put(p, Flipping("upsert", r.inst, r.input, Len(log), FALSE, r.new))
  /\ UNCHANGED <<log, audit, cache, now, set, own>>

(* The row, or its key, is locked from here to the end of the transaction.   *)
UpsertFromBefore(p) ==  \* seeded fault
  LET r == req[p] IN
  /\ At(p, "upsert") /\ ~ \E q \in Proc : At(q, "commit")
  /\ Put(p, Flipping("commit", r.inst, r.input, r.before, r.raced, Merge(State(r.before), r.input)))
  /\ UNCHANGED <<log, audit, cache, now, set, own>>
Upsert(p) ==
  LET r == req[p] IN
  /\ At(p, "upsert") /\ ~ \E q \in Proc : At(q, "commit")
  /\ Put(p, Flipping("commit", r.inst, r.input, r.before, r.raced, Merge(State(Len(log)), r.input)))
  /\ UNCHANGED <<log, audit, cache, now, set, own>>

(* The audit row and the commit; an answer that is lost rejects the          *)
(* transaction's promise, and the entry is not deleted.                      *)
Raced(r) == Flipping(r.pc, r.inst, r.input, r.before, TRUE, r.new)
Commit(p, lost) ==
  LET r == req[p] IN
  /\ At(p, "commit") /\ Len(log) < MaxFlips
  /\ log' = Append(log, [state |-> r.new, at |-> now])
  /\ audit' = Append(audit, [before |-> r.before, after |-> r.new, raced |-> r.raced])
  /\ set' = Merge(set, r.input)
  /\ req' = [q \in Proc |->
       IF q # p THEN IF At(q, "upsert") THEN Raced(req[q]) ELSE req[q]
       ELSE IF lost THEN Idle
       ELSE Flipping("forget", r.inst, r.input, Len(log) + 1, r.raced, r.new)]
  /\ UNCHANGED <<cache, now, own>>

(* cache.delete; before names the flip's own version by now.                 *)
KeepEntry(p) ==  \* seeded fault
  LET i == req[p].inst IN
  /\ At(p, "forget")
  /\ own' = [own EXCEPT ![i] = IF req[p].before > own[i] THEN req[p].before ELSE own[i]]
  /\ Put(p, Idle)
  /\ UNCHANGED <<log, audit, cache, now, set>>
Forget(p) ==
  LET i == req[p].inst IN
  /\ At(p, "forget")
  /\ cache' = [cache EXCEPT ![i] = NoEntry]
  /\ own' = [own EXCEPT ![i] = IF req[p].before > own[i] THEN req[p].before ELSE own[i]]
  /\ Put(p, Idle)
  /\ UNCHANGED <<log, audit, now, set>>

-----------------------------------------------------------------------------
(* A statement fails; an open transaction is rolled back.                    *)
Fail(p) ==
  /\ req[p].pc \in {"select", "fill", "before", "upsert", "commit"}
  /\ Put(p, Idle)
  /\ UNCHANGED <<log, audit, cache, now, set, own>>

Restart(i) ==
  /\ cache' = [cache EXCEPT ![i] = NoEntry]
  /\ req' = [p \in Proc |-> IF req[p] # Idle /\ req[p].inst = i THEN Idle ELSE req[p]]
  /\ UNCHANGED <<log, audit, now, set, own>>

(* Time passes, and no answer of the database is longer under way.           *)
Tick ==
  /\ now < MaxTime
  /\ \A p \in Proc : At(p, "fill") => now - req[p].since < MaxFetch
  /\ now' = now + 1
  /\ UNCHANGED <<log, audit, cache, req, set, own>>

Next ==
  \/ \E p \in Proc, i \in Instance : Miss(p, i) \/ \E input \in Input : AskFlip(p, i, input)
  \/ \E p \in Proc : Select(p) \/ Fill(p) \/ FindBefore(p) \/ Upsert(p) \/ Forget(p) \/ Fail(p)
  \/ \E p \in Proc, lost \in BOOLEAN : Commit(p, lost)
  \/ \E i \in Instance : Restart(i)
  \/ Tick

Spec == Init /\ [][Next]_vars

-----------------------------------------------------------------------------
(* What an instance answers from its cache was the state of the toggle less  *)
(* than the TTL and the duration of a fetch ago, in whatever order fetches   *)
(* return and flips happen.  (The comment on the class bounds it by the TTL  *)
(* alone, but the 30 s start when the answer arrives.)                       *)
StaleBound ==
  \A i \in Instance :
    LET e == cache[i] IN
    Fresh(e) => e.v = Len(log) \/ now < log[e.v + 1].at + TTL + MaxFetch

(* Once a flip has returned, its instance has an older state in the cache    *)
(* only because of a read that began before the flip returned and came back  *)
(* after it: what was there is gone, and a later read finds the flip.        *)
OwnFlipIsSeen ==
  \A i \in Instance :
    LET e == cache[i] IN
    e # NoEntry => e.v >= own[i] \/ (e.began < own[i] /\ e.filled = own[i])

(* Flips of different fields do not undo each other: each field is what the  *)
(* last committed flip that gave it has set.                                 *)
NoFieldIsLost == State(Len(log)) = set

(* "append to audit_log atomically with the change": the trail has every     *)
(* state, and what it says was there before was, unless another flip         *)
(* committed between the read and the upsert.                                *)
TrailChains ==
  /\ Len(audit) = Len(log)
  /\ \A n \in 1..Len(audit) :
       /\ audit[n].after = log[n].state
       /\ audit[n].before = n - 1 \/ audit[n].raced
=============================================================================
