------------------------- MODULE FeatureToggle_proofs -------------------------
(***************************************************************************)
(* How old an answer of the cache can be, and what flips leave of each     *)
(* other, for any instances, requests, durations and history of flips.     *)
(***************************************************************************)
EXTENDS FeatureToggle, TLAPS

(* A version that is not the newest was superseded no earlier than t.        *)
CurrentAt(v, t) == v <= Len(log) /\ (v < Len(log) => log[v + 1].at >= t)

(* What a read has fetched was current when it was fetched, a short time ago.*)
ReadAt(r) ==
  /\ r.pc \in {"select", "fill"} => r.began <= own[r.inst]
  /\ r.pc = "fill" => /\ CurrentAt(r.v, r.since)
                      /\ r.since <= now /\ now <= r.since + MaxFetch
                      /\ r.v >= r.began
ReadsInv == \A p \in Proc : ReadAt(req[p])

EntryAt(i, e) ==
  e # NoEntry => /\ CurrentAt(e.v, e.at - MaxFetch)
                 /\ e.at <= now
                 /\ e.v >= e.began
                 /\ e.began <= own[i] /\ e.filled = own[i]
CacheInv == \A i \in Instance : EntryAt(i, cache[i])

(* One transaction at a time has the row, and has computed its new state     *)
(* from the newest; what it found before is the newest unless it is raced.   *)
FlipsInv ==
  /\ \A p, q \in Proc : At(p, "commit") /\ At(q, "commit") => p = q
  /\ \A p \in Proc :
       /\ At(p, "commit") => req[p].new = Merge(State(Len(log)), req[p].input)
       /\ At(p, "upsert") \/ At(p, "commit") => req[p].before = Len(log) \/ req[p].raced
       /\ At(p, "forget") => req[p].before <= Len(log)
  /\ \A i \in Instance : own[i] <= Len(log)

IInv == TypeOK /\ ReadsInv /\ CacheInv /\ FlipsInv /\ NoFieldIsLost /\ TrailChains

-----------------------------------------------------------------------------
LEMMA RequestTypes ==
  /\ \A pc \in {"select", "fill"}, i \in Instance, v, t, b \in Nat : Reading(pc, i, v, t, b) \in Read
  /\ \A pc \in {"before", "upsert", "commit", "forget"}, i \in Instance, input \in Input,
        b \in Nat, raced \in BOOLEAN, new \in Toggle :
       Flipping(pc, i, input, b, raced, new) \in Flip
  BY DEF Reading, Read, Flipping, Flip

LEMMA RequestFields ==
  \A pc, i, v, t, b :
    LET r == Reading(pc, i, v, t, b) IN
    r.pc = pc /\ r.inst = i /\ r.v = v /\ r.since = t /\ r.began = b
  BY DEF Reading

LEMMA RequestKinds ==
  \A r \in Read \cup Flip \cup {Idle} :
    /\ r.pc \in {"select", "fill"} =>
         r \in Read /\ r.inst \in Instance /\ r.v \in Nat /\ r.since \in Nat /\ r.began \in Nat
    /\ r.pc \in {"before", "upsert", "commit", "forget"} =>
         /\ r \in Flip /\ r.inst \in Instance /\ r.input \in Input
         /\ r.before \in Nat /\ r.raced \in BOOLEAN /\ r.new \in Toggle
    /\ r.pc \in {"idle", "select", "fill", "before", "upsert", "commit", "forget"}
  BY DEF Read, Flip, Idle

LEMMA MergeType == \A t \in Toggle, input \in Input : Merge(t, input) \in Toggle
  BY ConstantsAssumption DEF Merge, Toggle

LEMMA DefaultType == Default \in Toggle
  BY ConstantsAssumption DEF Default, Toggle

LEMMA ElementType ==
  ASSUME NEW S, NEW s \in Seq(S), NEW n \in 1..Len(s)
  PROVE  s[n] \in S
  OBVIOUS

LEMMA LogDates ==
  ASSUME TypeOK, NEW n \in 1..Len(log)
  PROVE  log[n].at \in Nat
<1>1. log[n] \in [state : Toggle, at : Nat]
  BY ElementType DEF TypeOK
<1>. QED  BY <1>1

LEMMA StateType == TypeOK => State(Len(log)) \in Toggle
<1> SUFFICES ASSUME TypeOK PROVE State(Len(log)) \in Toggle
  OBVIOUS
<1>1. CASE Len(log) = 0
  BY <1>1, DefaultType DEF State
<1>2. CASE Len(log) # 0
  <2>1. Len(log) \in 1..Len(log)
    BY <1>2 DEF TypeOK
  <2>2. log[Len(log)] \in [state : Toggle, at : Nat]
    BY <2>1, ElementType DEF TypeOK
  <2>. QED  BY <1>2, <2>2 DEF State
<1>. QED  BY <1>1, <1>2

LEMMA InitHolds == Init => IInv
  BY DefaultType DEF Init, IInv, TypeOK, ReadsInv, ReadAt, EntryAt, CacheInv, FlipsInv, NoFieldIsLost, TrailChains,
     State, At, Idle

LEMMA TypeStep == TypeOK /\ [Next]_vars => TypeOK'
<1> SUFFICES ASSUME TypeOK, [Next]_vars PROVE TypeOK'
  OBVIOUS
<1>0. \A p \in Proc : req[p] \in Read \cup Flip \cup {Idle}
  BY DEF TypeOK
<1>1. ASSUME NEW p \in Proc, NEW i \in Instance, Miss(p, i) PROVE TypeOK'
  <2>1. Reading("select", i, 0, 0, own[i]) \in Read
    BY RequestTypes DEF TypeOK
  <2>. QED  BY <1>1, <2>1 DEF Miss, Put, TypeOK
<1>2. ASSUME NEW p \in Proc, NEW i \in Instance, NEW input \in Input, AskFlip(p, i, input)
      PROVE TypeOK'
  <2>1. Flipping("before", i, input, 0, FALSE, Default) \in Flip
    BY RequestTypes, DefaultType
  <2>. QED  BY <1>2, <2>1 DEF AskFlip, Put, TypeOK
<1>3. ASSUME NEW p \in Proc, Select(p) PROVE TypeOK'
  <2>1. Reading("fill", req[p].inst, Len(log), now, req[p].began) \in Read
    BY <1>0, <1>3, RequestTypes, RequestKinds DEF Select, At, TypeOK
  <2>. QED  BY <1>3, <2>1 DEF Select, Put, TypeOK
<1>4. ASSUME NEW p \in Proc, Fill(p) PROVE TypeOK'
  <2>1. req[p].inst \in Instance /\ req[p].v \in Nat /\ req[p].began \in Nat
    BY <1>0, <1>4, RequestKinds DEF Fill, At
  <2>2. [v |-> req[p].v, at |-> now, began |-> req[p].began, filled |-> own[req[p].inst]] \in Entry
    BY <2>1 DEF Entry, TypeOK
  <2>. QED  BY <1>4, <2>2 DEF Fill, Put, TypeOK
<1>5. ASSUME NEW p \in Proc, FindBefore(p) PROVE TypeOK'
  <2>0. req[p].inst \in Instance /\ req[p].input \in Input /\ req[p].new \in Toggle /\ Len(log) \in Nat
    BY <1>0, <1>5, RequestKinds DEF FindBefore, At, TypeOK
  <2>1. Flipping("upsert", req[p].inst, req[p].input, Len(log), FALSE, req[p].new) \in Flip
    BY <2>0, RequestTypes
  <2>. QED  BY <1>5, <2>1 DEF FindBefore, Put, TypeOK
<1>6. ASSUME NEW p \in Proc, Upsert(p) PROVE TypeOK'
  <2>1. req[p].inst \in Instance /\ req[p].input \in Input /\ req[p].before \in Nat /\ req[p].raced \in BOOLEAN
    BY <1>0, <1>6, RequestKinds DEF Upsert, At
  <2>2. Merge(State(Len(log)), req[p].input) \in Toggle
    BY <2>1, StateType, MergeType
  <2>3. Flipping("commit", req[p].inst, req[p].input, req[p].before, req[p].raced,
                 Merge(State(Len(log)), req[p].input)) \in Flip
    BY <2>1, <2>2, RequestTypes
  <2>. QED  BY <1>6, <2>3 DEF Upsert, Put, TypeOK
<1>7. ASSUME NEW p \in Proc, NEW lost \in BOOLEAN, Commit(p, lost) PROVE TypeOK'
  <2>1. /\ req[p].inst \in Instance /\ req[p].input \in Input /\ req[p].before \in Nat
        /\ req[p].raced \in BOOLEAN /\ req[p].new \in Toggle
    BY <1>0, <1>7, RequestKinds DEF Commit, At
  <2>2. [state |-> req[p].new, at |-> now] \in [state : Toggle, at : Nat]
    BY <2>1 DEF TypeOK
  <2>3. [before |-> req[p].before, after |-> req[p].new, raced |-> req[p].raced]
          \in [before : Nat, after : Toggle, raced : BOOLEAN]
    BY <2>1
  <2>4. log' \in Seq([state : Toggle, at : Nat])
    BY <1>7, <2>2 DEF Commit, TypeOK
  <2>5. audit' \in Seq([before : Nat, after : Toggle, raced : BOOLEAN])
    BY <1>7, <2>3 DEF Commit, TypeOK
  <2>6. set' \in Toggle
    BY <1>7, <2>1, MergeType DEF Commit, TypeOK
  <2>7. Flipping("forget", req[p].inst, req[p].input, Len(log) + 1, req[p].raced, req[p].new) \in Flip
    BY <2>1, RequestTypes DEF TypeOK
  <2>8. ASSUME NEW q \in Proc, At(q, "upsert") PROVE Raced(req[q]) \in Flip
    BY <1>0, <2>8, RequestKinds, RequestTypes DEF At, Raced
  <2>9. \A q \in Proc : req'[q] \in Read \cup Flip \cup {Idle}
    BY <1>0, <1>7, <2>7, <2>8 DEF Commit
  <2>10. req' \in [Proc -> Read \cup Flip \cup {Idle}]
    BY <1>7, <2>9 DEF Commit
  <2>. QED  BY <1>7, <2>4, <2>5, <2>6, <2>10 DEF Commit, TypeOK
<1>8. ASSUME NEW p \in Proc, Forget(p) PROVE TypeOK'
  <2>1. req[p].inst \in Instance /\ req[p].before \in Nat
    BY <1>0, <1>8, RequestKinds DEF Forget, At
  <2>. QED  BY <1>8, <2>1 DEF Forget, Put, TypeOK
<1>9. ASSUME NEW p \in Proc, Fail(p) PROVE TypeOK'
  BY <1>9 DEF Fail, Put, TypeOK
<1>10. ASSUME NEW i \in Instance, Restart(i) PROVE TypeOK'
  BY <1>10 DEF Restart, TypeOK
<1>11. CASE Tick
  BY <1>11 DEF Tick, TypeOK
<1>12. CASE UNCHANGED vars
  BY <1>12 DEF vars, TypeOK
<1>. QED
  BY <1>1, <1>2, <1>3, <1>4, <1>5, <1>6, <1>7, <1>8, <1>9, <1>10, <1>11, <1>12 DEF Next

(* Type correctness of the history, the caches and the requests.             *)
THEOREM TypeCorrect == Spec => []TypeOK
<1>1. Init => TypeOK
  BY InitHolds DEF IInv
<1>. QED  BY <1>1, TypeStep, PTL DEF Spec

-----------------------------------------------------------------------------
(* What a commit adds to the history.                                        *)
LEMMA LogGrows ==
  ASSUME TypeOK, NEW p \in Proc, NEW lost \in BOOLEAN, Commit(p, lost)
  PROVE  /\ Len(log') = Len(log) + 1
         /\ \A n \in 1..Len(log) : log'[n] = log[n]
         /\ log'[Len(log) + 1].state = req[p].new
         /\ log'[Len(log) + 1].at = now
         /\ State(Len(log))' = req[p].new
<1>1. log' = Append(log, [state |-> req[p].new, at |-> now])
  BY DEF Commit
<1>2. /\ Len(log) \in Nat
      /\ Len(log') = Len(log) + 1
      /\ \A n \in 1..Len(log) : log'[n] = log[n]
      /\ log'[Len(log) + 1] = [state |-> req[p].new, at |-> now]
  BY <1>1 DEF TypeOK
<1>. QED  BY <1>2 DEF State

LEMMA CurrentKept ==
  ASSUME TypeOK, NEW v \in Nat, NEW t \in Int, CurrentAt(v, t), t <= now,
         UNCHANGED log \/ \E p \in Proc, lost \in BOOLEAN : Commit(p, lost)
  PROVE  CurrentAt(v, t)'
<1>1. CASE UNCHANGED log
  BY <1>1 DEF CurrentAt
<1>2. ASSUME NEW p \in Proc, NEW lost \in BOOLEAN, Commit(p, lost) PROVE CurrentAt(v, t)'
  <2>1. CASE v = Len(log)
    BY <1>2, <2>1, LogGrows DEF CurrentAt, TypeOK
  <2>2. CASE v < Len(log)
    <3>1. v + 1 \in 1..Len(log)
      BY <2>2 DEF TypeOK
    <3>. QED  BY <1>2, <2>2, <3>1, LogGrows DEF CurrentAt, TypeOK
  <2>. QED  BY <2>1, <2>2 DEF CurrentAt, TypeOK
<1>. QED  BY <1>1, <1>2

LEMMA LogStep ==
  [Next]_vars => UNCHANGED log \/ \E p \in Proc, lost \in BOOLEAN : Commit(p, lost)
  BY DEF Next, vars, Miss, AskFlip, Select, Fill, FindBefore, Upsert, Forget, Fail, Restart, Tick

(* own only grows, and only as a flip returns.                               *)
LEMMA OwnStep ==
  ASSUME TypeOK, [Next]_vars
  PROVE  UNCHANGED own \/ \E p \in Proc : Forget(p) /\ \A i \in Instance : own[i] <= own'[i]
<1>1. ASSUME NEW p \in Proc, Forget(p) PROVE \A i \in Instance : own[i] <= own'[i]
  <2>1. req[p].inst \in Instance /\ req[p].before \in Nat
    BY <1>1, RequestKinds DEF Forget, At, TypeOK
  <2>. QED  BY <1>1, <2>1 DEF Forget, TypeOK
<1>. QED
  BY <1>1 DEF Next, vars, Miss, AskFlip, Select, Fill, FindBefore, Upsert, Commit, Fail, Restart, Tick

-----------------------------------------------------------------------------
LEMMA ReadKept ==
  ASSUME TypeOK, [Next]_vars, NEW r \in Read, ReadAt(r), now' = now \/ r.pc # "fill"
  PROVE  ReadAt(r)'
<1>1. r.v \in Nat /\ r.since \in Nat /\ r.began \in Nat /\ r.inst \in Instance
  BY DEF Read
<1>2. own'[r.inst] \in Nat /\ own[r.inst] <= own'[r.inst]
  BY <1>1, OwnStep, TypeStep DEF TypeOK
<1>3. CurrentAt(r.v, r.since) /\ r.since <= now => CurrentAt(r.v, r.since)'
  BY <1>1, LogStep, CurrentKept
<1>. QED  BY <1>1, <1>2, <1>3 DEF ReadAt, TypeOK

LEMMA ReadsStep == TypeOK /\ ReadsInv /\ FlipsInv /\ [Next]_vars => ReadsInv'
<1> SUFFICES ASSUME TypeOK, ReadsInv, FlipsInv, [Next]_vars, NEW p \in Proc
             PROVE ReadAt(req[p])'
  BY DEF ReadsInv
<1>0. req[p] \in Read \cup Flip \cup {Idle} /\ ReadAt(req[p])
  BY DEF TypeOK, ReadsInv
<1>1. CASE req'[p].pc \notin {"select", "fill"}
  BY <1>1 DEF ReadAt
<1>2. CASE req'[p] = req[p] /\ req[p].pc \in {"select", "fill"} /\ ~ Tick
  <2>1. now' = now
    BY <1>2 DEF Next, vars, Miss, AskFlip, Select, Fill, FindBefore, Upsert, Commit, Forget, Fail, Restart
  <2>2. req[p] \in Read
    BY <1>0, <1>2, RequestKinds
  <2>3. PICK r \in Read : r = req[p] /\ r = req'[p]
    BY <1>2, <2>2
  <2>4. ReadAt(r)'
    BY <1>0, <2>1, <2>3, ReadKept
  <2>. QED  BY <2>3, <2>4 DEF ReadAt, CurrentAt
<1>3. CASE req[p].pc \in {"select", "fill"} /\ Tick
  <2>1. req[p] \in Read
    BY <1>0, <1>3, RequestKinds
  <2>2. req[p].since \in Nat
    BY <2>1 DEF Read
  <2>. QED  BY <1>0, <1>3, <2>2, ConstantsAssumption DEF Tick, ReadAt, CurrentAt, At, TypeOK
<1>4. ASSUME NEW i \in Instance, Miss(p, i) PROVE ReadAt(req[p])'
  <2>1. req'[p] = Reading("select", i, 0, 0, own[i])
    BY <1>4 DEF Miss, Put, TypeOK
  <2>2. own' = own
    BY <1>4 DEF Miss
  <2>. QED  BY <2>1, <2>2, RequestFields DEF ReadAt, TypeOK
<1>5. CASE Select(p)
  <2>1. req'[p] = Reading("fill", req[p].inst, Len(log), now, req[p].began)
    BY <1>5 DEF Select, Put, TypeOK
  <2>2. UNCHANGED <<own, log, now>>
    BY <1>5 DEF Select
  <2>3. req[p].inst \in Instance /\ req[p].began \in Nat /\ req[p].began <= own[req[p].inst]
    BY <1>0, <1>5, RequestKinds DEF Select, At, ReadAt
  <2>4. req[p].began <= Len(log)
    BY <2>3 DEF FlipsInv, TypeOK
  <2>5. /\ req'[p].pc = "fill" /\ req'[p].inst = req[p].inst /\ req'[p].v = Len(log)
        /\ req'[p].since = now /\ req'[p].began = req[p].began
    BY <2>1, RequestFields
  <2>6. CurrentAt(req[p].v, req[p].since)'
    BY <2>2, <2>5 DEF CurrentAt, TypeOK
  <2>. QED  BY <2>2, <2>3, <2>4, <2>5, <2>6, ConstantsAssumption DEF ReadAt, TypeOK
<1>6. ASSUME req'[p] # req[p], req'[p].pc \in {"select", "fill"}
      PROVE Select(p) \/ \E i \in Instance : Miss(p, i)
  <2>1. ASSUME NEW q \in Proc, q # p,
               \/ Select(q) \/ Fill(q) \/ FindBefore(q) \/ Upsert(q) \/ Forget(q) \/ Fail(q)
               \/ \E i \in Instance : Miss(q, i) \/ \E input \in Input : AskFlip(q, i, input)
        PROVE FALSE
    BY <1>6, <2>1 DEF Select, Fill, FindBefore, Upsert, Forget, Fail, Miss, AskFlip, Put, TypeOK
  <2>2. ASSUME Fill(p) \/ Forget(p) \/ Fail(p)
        PROVE FALSE
    BY <1>6, <2>2 DEF Fill, Forget, Fail, Put, TypeOK, Idle
  <2>3. ASSUME NEW i \in Instance, NEW input \in Input, AskFlip(p, i, input)
        PROVE FALSE
    BY <1>6, <2>3 DEF AskFlip, Flipping, Put, TypeOK
  <2>4. ASSUME FindBefore(p) \/ Upsert(p)
        PROVE FALSE
    BY <1>6, <2>4 DEF FindBefore, Upsert, Flipping, Put, TypeOK
  <2>5. ASSUME NEW q \in Proc, NEW lost \in BOOLEAN, Commit(q, lost)
        PROVE FALSE
    <3>1. \/ req'[p] = Idle
          \/ req'[p] = Flipping("forget", req[q].inst, req[q].input, Len(log) + 1, req[q].raced, req[q].new)
          \/ At(p, "upsert") /\ req'[p] = Raced(req[p])
          \/ req'[p] = req[p]
      BY <2>5 DEF Commit
    <3>2. At(p, "upsert") => Raced(req[p]).pc = "upsert"
      BY DEF Raced, Flipping, At
    <3>. QED  BY <1>6, <3>1, <3>2 DEF Idle, Flipping
  <2>6. ASSUME NEW i \in Instance, Restart(i)
        PROVE FALSE
    BY <1>6, <2>6 DEF Restart, Idle
  <2>7. UNCHANGED vars \/ Tick => FALSE
    BY <1>6 DEF vars, Tick
  <2>. QED  BY <2>1, <2>2, <2>3, <2>4, <2>5, <2>6, <2>7 DEF Next
<1>7. Tick => req'[p] = req[p]
  BY DEF Tick
<1>. QED  BY <1>1, <1>2, <1>3, <1>4, <1>5, <1>6, <1>7

-----------------------------------------------------------------------------
LEMMA CacheStep == TypeOK /\ ReadsInv /\ CacheInv /\ [Next]_vars => CacheInv'
<1> SUFFICES ASSUME TypeOK, ReadsInv, CacheInv, [Next]_vars, NEW i \in Instance
             PROVE EntryAt(i, cache[i])'
  BY DEF CacheInv
<1>0. cache[i] \in Entry \cup {NoEntry} /\ EntryAt(i, cache[i])
  BY DEF TypeOK, CacheInv
<1>1. CASE cache'[i] = NoEntry
  BY <1>1 DEF EntryAt
<1>2. CASE cache'[i] = cache[i] /\ cache[i] # NoEntry /\ own'[i] = own[i]
  <2>1. PICK e \in Entry : e = cache[i]
    BY <1>0, <1>2
  <2>2. e.v \in Nat /\ e.at \in Nat /\ e.began \in Nat /\ e.at <= now
    BY <1>0, <1>2, <2>1 DEF Entry, EntryAt
  <2>3. e.at - MaxFetch \in Int /\ e.at - MaxFetch <= now
    BY <2>2, ConstantsAssumption DEF TypeOK
  <2>4. CurrentAt(e.v, e.at - MaxFetch)'
    BY <1>0, <1>2, <2>1, <2>2, <2>3, LogStep, CurrentKept DEF EntryAt
  <2>5. now' >= now
    <3>1. now' = now \/ Tick
      BY DEF Next, vars, Miss, AskFlip, Select, Fill, FindBefore, Upsert, Commit, Forget, Fail, Restart
    <3>. QED  BY <3>1 DEF Tick, TypeOK
  <2>6. EntryAt(i, e)'
    <3>1. now \in Nat /\ now' \in Nat /\ e.at <= now'
      BY <2>2, <2>5, TypeStep DEF TypeOK
    <3>2. e.v >= e.began /\ e.began <= own[i] /\ e.filled = own[i]
      BY <1>0, <1>2, <2>1 DEF EntryAt
    <3>. QED  BY <1>2, <2>4, <3>1, <3>2 DEF EntryAt
  <2>. QED  BY <1>2, <2>1, <2>6 DEF EntryAt, CurrentAt
<1>3. ASSUME NEW p \in Proc, Fill(p), req[p].inst = i
      PROVE EntryAt(i, cache[i])'
  <2>1. cache'[i] = [v |-> req[p].v, at |-> now, began |-> req[p].began, filled |-> own[i]]
    BY <1>3 DEF Fill, TypeOK
  <2>2. /\ req[p].v \in Nat /\ req[p].since \in Nat /\ req[p].began \in Nat
        /\ ReadAt(req[p]) /\ req[p].pc = "fill"
    BY <1>3, RequestKinds DEF Fill, At, TypeOK, ReadsInv
  <2>3. UNCHANGED <<log, now, own>>
    BY <1>3 DEF Fill
  <2>4. CurrentAt(req[p].v, now - MaxFetch)
    <3>1. Len(log) \in Nat /\ now \in Nat /\ MaxFetch \in Nat
      BY ConstantsAssumption DEF TypeOK
    <3>2. req[p].v < Len(log) => log[req[p].v + 1].at \in Nat
      <4>1. req[p].v < Len(log) => req[p].v + 1 \in 1..Len(log)
        BY <2>2, <3>1
      <4>. QED  BY <4>1, LogDates
    <3>. QED  BY <2>2, <3>1, <3>2 DEF ReadAt, CurrentAt
  <2>5. CurrentAt(cache[i].v, cache[i].at - MaxFetch)'
    BY <2>1, <2>3, <2>4 DEF CurrentAt
  <2>6. req[p].v >= req[p].began /\ req[p].began <= own[i]
    BY <1>3, <2>2 DEF ReadAt
  <2>7. /\ cache'[i].v = req[p].v /\ cache'[i].at = now
        /\ cache'[i].began = req[p].began /\ cache'[i].filled = own[i]
    BY <2>1
  <2>8. cache'[i].at <= now'
    BY <2>3, <2>7 DEF TypeOK
  <2>. QED  BY <2>3, <2>5, <2>6, <2>7, <2>8 DEF EntryAt
<1>4. \/ cache'[i] = NoEntry
      \/ cache'[i] = cache[i] /\ own'[i] = own[i]
      \/ \E p \in Proc : Fill(p) /\ req[p].inst = i
  <2>1. ASSUME NEW p \in Proc, Forget(p)
        PROVE cache'[i] = NoEntry \/ (cache'[i] = cache[i] /\ own'[i] = own[i])
    BY <2>1 DEF Forget, TypeOK
  <2>2. ASSUME NEW p \in Proc, Fill(p), req[p].inst # i
        PROVE cache'[i] = cache[i] /\ own'[i] = own[i]
    BY <2>2 DEF Fill, TypeOK
  <2>3. ASSUME NEW j \in Instance, Restart(j)
        PROVE cache'[i] = NoEntry \/ (cache'[i] = cache[i] /\ own'[i] = own[i])
    BY <2>3 DEF Restart, TypeOK
  <2>. QED
    BY <2>1, <2>2, <2>3
       DEF Next, vars, Miss, AskFlip, Select, FindBefore, Upsert, Commit, Fail, Tick
<1>. QED  BY <1>1, <1>2, <1>3, <1>4

-----------------------------------------------------------------------------
LEMMA HistoryStep ==
  TypeOK /\ FlipsInv /\ NoFieldIsLost /\ TrailChains /\ [Next]_vars => NoFieldIsLost' /\ TrailChains'
<1> SUFFICES ASSUME TypeOK, FlipsInv, NoFieldIsLost, TrailChains, [Next]_vars
             PROVE NoFieldIsLost' /\ TrailChains'
  OBVIOUS
<1>1. ASSUME UNCHANGED <<log, audit, set>> PROVE NoFieldIsLost' /\ TrailChains'
  BY <1>1 DEF NoFieldIsLost, TrailChains, State
<1>2. ASSUME NEW p \in Proc, NEW lost \in BOOLEAN, Commit(p, lost)
      PROVE NoFieldIsLost' /\ TrailChains'
  <2>1. req[p].new = Merge(set, req[p].input)
    BY <1>2 DEF Commit, FlipsInv, NoFieldIsLost
  <2>2. NoFieldIsLost'
    BY <1>2, <2>1, LogGrows DEF Commit, NoFieldIsLost
  <2>3. audit' = Append(audit, [before |-> req[p].before, after |-> req[p].new, raced |-> req[p].raced])
    BY <1>2 DEF Commit
  <2>4. /\ Len(audit) \in Nat /\ Len(audit') = Len(audit) + 1
        /\ \A n \in 1..Len(audit) : audit'[n] = audit[n]
        /\ audit'[Len(audit) + 1] =
             [before |-> req[p].before, after |-> req[p].new, raced |-> req[p].raced]
    BY <2>3 DEF TypeOK
  <2>5. req[p].before = Len(log) \/ req[p].raced
    BY <1>2 DEF Commit, FlipsInv
  <2>6. ASSUME NEW n \in 1..Len(audit)'
        PROVE /\ audit'[n].after = log'[n].state
              /\ audit'[n].before = n - 1 \/ audit'[n].raced
    <3>1. CASE n \in 1..Len(audit)
      BY <1>2, <2>4, <3>1, LogGrows DEF TrailChains
    <3>2. CASE n = Len(audit) + 1
      <4>1. audit'[n].after = log'[n].state
        BY <1>2, <2>4, <3>2, LogGrows DEF TrailChains
      <4>2. audit'[n].before = req[p].before /\ audit'[n].raced = req[p].raced /\ n - 1 = Len(log)
        BY <2>4, <3>2 DEF TrailChains
      <4>. QED  BY <2>5, <4>1, <4>2
    <3>. QED  BY <2>4, <2>6, <3>1, <3>2
  <2>7. TrailChains'
    BY <1>2, <2>4, <2>6, LogGrows DEF TrailChains
  <2>. QED  BY <2>2, <2>7
<1>. QED
  BY <1>1, <1>2 DEF Next, vars, Miss, AskFlip, Select, Fill, FindBefore, Upsert, Forget, Fail, Restart, Tick

-----------------------------------------------------------------------------
FlipAt(r) ==
  /\ r.pc = "commit" => r.new = Merge(State(Len(log)), r.input)
  /\ r.pc \in {"upsert", "commit"} => r.before = Len(log) \/ r.raced
  /\ r.pc = "forget" => r.before <= Len(log)

LEMMA FlipsStep == TypeOK /\ FlipsInv /\ [Next]_vars => FlipsInv'
<1> SUFFICES ASSUME TypeOK, FlipsInv, [Next]_vars PROVE FlipsInv'
  OBVIOUS
<1>1. \A i \in Instance : own'[i] <= Len(log')
  <2>1. Len(log) \in Nat /\ Len(log') \in Nat /\ Len(log) <= Len(log')
    BY LogStep, LogGrows DEF TypeOK
  <2>2. CASE own' = own
    BY <2>1, <2>2 DEF FlipsInv, TypeOK
  <2>3. ASSUME NEW p \in Proc, Forget(p) PROVE \A i \in Instance : own'[i] <= Len(log')
    <3>1. req[p].inst \in Instance /\ req[p].before \in Nat /\ req[p].before <= Len(log)
      BY <2>3, RequestKinds DEF Forget, At, TypeOK, FlipsInv
    <3>. QED  BY <2>1, <2>3, <3>1 DEF Forget, FlipsInv, TypeOK
  <2>. QED  BY <2>2, <2>3, OwnStep
<1>2. ASSUME NEW p \in Proc, ~ \E q \in Proc, lost \in BOOLEAN : Commit(q, lost)
      PROVE FlipAt(req[p])'
  <2>1. log' = log
    BY <1>2, LogStep
  <2>2. FlipAt(req[p])
    BY DEF FlipsInv, FlipAt, At
  <2>3. CASE req'[p] = req[p]
    BY <2>1, <2>2, <2>3 DEF FlipAt, State
  <2>4. CASE FindBefore(p)
    BY <2>1, <2>4 DEF FindBefore, Put, Flipping, FlipAt, TypeOK
  <2>5. CASE Upsert(p)
    BY <2>1, <2>2, <2>5 DEF Upsert, Put, Flipping, FlipAt, At, State, TypeOK
  <2>6. CASE req'[p].pc \in {"idle", "select", "fill", "before"}
    BY <2>6 DEF FlipAt
  <2>7. req'[p] = req[p] \/ FindBefore(p) \/ Upsert(p) \/ req'[p].pc \in {"idle", "select", "fill", "before"}
    <3>1. ASSUME NEW q \in Proc,
                 \/ Select(q) \/ Fill(q) \/ Forget(q) \/ Fail(q)
                 \/ \E i \in Instance : Miss(q, i) \/ \E input \in Input : AskFlip(q, i, input)
          PROVE req'[p] = req[p] \/ req'[p].pc \in {"idle", "select", "fill", "before"}
      BY <3>1 DEF Select, Fill, Forget, Fail, Miss, AskFlip, Put, Reading, Flipping, Idle, TypeOK
    <3>2. ASSUME NEW q \in Proc, FindBefore(q) \/ Upsert(q), q # p
          PROVE req'[p] = req[p]
      BY <3>2 DEF FindBefore, Upsert, Put, TypeOK
    <3>3. ASSUME NEW i \in Instance, Restart(i)
          PROVE req'[p] = req[p] \/ req'[p].pc \in {"idle", "select", "fill", "before"}
      BY <3>3 DEF Restart, Idle
    <3>. QED  BY <1>2, <3>1, <3>2, <3>3 DEF Next, vars, Tick
  <2>. QED  BY <2>3, <2>4, <2>5, <2>6, <2>7
<1>3. ASSUME NEW q \in Proc, NEW lost \in BOOLEAN, Commit(q, lost), NEW p \in Proc
      PROVE FlipAt(req[p])' /\ ~ At(p, "commit")'
  <2>1. CASE p = q
    BY <1>3, <2>1, LogGrows DEF Commit, Flipping, Idle, FlipAt, At, TypeOK
  <2>2. CASE p # q /\ At(p, "upsert")
    BY <1>3, <2>2 DEF Commit, Raced, Flipping, FlipAt, At
  <2>3. CASE p # q /\ ~ At(p, "upsert")
    <3>1. req'[p] = req[p] /\ ~ At(p, "commit")
      BY <1>3, <2>3 DEF Commit, FlipsInv
    <3>2. req[p].pc = "forget" => req[p].before \in Nat /\ req[p].before <= Len(log)
      BY RequestKinds DEF FlipsInv, At, TypeOK
    <3>. QED  BY <1>3, <2>3, <3>1, <3>2, LogGrows DEF FlipAt, At, TypeOK
  <2>. QED  BY <2>1, <2>2, <2>3
<1>4. \A p \in Proc : FlipAt(req[p])'
  BY <1>2, <1>3
<1>5. \A p, q \in Proc : At(p, "commit")' /\ At(q, "commit")' => p = q
  <2>1. CASE \E q \in Proc, lost \in BOOLEAN : Commit(q, lost)
    BY <1>3, <2>1
  <2>2. ASSUME NEW p \in Proc, Upsert(p)
        PROVE \A q \in Proc \ {p} : ~ At(q, "commit")'
    BY <2>2 DEF Upsert, Put, At, TypeOK
  <2>3. ASSUME NEW p \in Proc, At(p, "commit")', ~ At(p, "commit"),
               ~ \E q \in Proc, lost \in BOOLEAN : Commit(q, lost)
        PROVE Upsert(p)
    <3>1. ASSUME NEW q \in Proc,
                 \/ Select(q) \/ Fill(q) \/ FindBefore(q) \/ Forget(q) \/ Fail(q)
                 \/ \E i \in Instance : Miss(q, i) \/ \E input \in Input : AskFlip(q, i, input)
          PROVE FALSE
      BY <2>3, <3>1
         DEF Select, Fill, FindBefore, Forget, Fail, Miss, AskFlip, Put, Reading, Flipping, Idle, At, TypeOK
    <3>2. ASSUME NEW q \in Proc, Upsert(q), q # p
          PROVE FALSE
      BY <2>3, <3>2 DEF Upsert, Put, At, TypeOK
    <3>3. ASSUME NEW i \in Instance, Restart(i)
          PROVE FALSE
      BY <2>3, <3>3 DEF Restart, Idle, At
    <3>. QED  BY <2>3, <3>1, <3>2, <3>3 DEF Next, vars, Tick, At
  <2>. QED  BY <2>1, <2>2, <2>3 DEF FlipsInv
<1>. QED  BY <1>1, <1>4, <1>5 DEF FlipsInv, FlipAt, At

LEMMA Inductive == IInv /\ [Next]_vars => IInv'
  BY TypeStep, ReadsStep, CacheStep, FlipsStep, HistoryStep DEF IInv

LEMMA Invariance == Spec => []IInv
  BY InitHolds, Inductive, PTL DEF Spec

LEMMA Ages ==
  \A n, at, d, ttl, fetch \in Nat :
    d >= at - fetch /\ n - at < ttl => n < d + ttl + fetch
  OBVIOUS

(* For any TTL and any duration of a fetch, no cached answer is older than   *)
(* the two together.                                                         *)
THEOREM StaleTheorem == Spec => []StaleBound
<1>1. IInv => StaleBound
  <2> SUFFICES ASSUME IInv, NEW i \in Instance, Fresh(cache[i]), cache[i].v # Len(log)
               PROVE  now < log[cache[i].v + 1].at + TTL + MaxFetch
    BY DEF StaleBound
  <2>1. PICK e \in Entry : e = cache[i]
    BY DEF IInv, TypeOK, Fresh
  <2>2. /\ e.v \in Nat /\ e.at \in Nat /\ e # NoEntry
        /\ CurrentAt(e.v, e.at - MaxFetch)
        /\ now - e.at < TTL
    BY <2>1 DEF Entry, IInv, CacheInv, EntryAt, Fresh
  <2>3. e.v + 1 \in 1..Len(log) /\ log[e.v + 1].at >= e.at - MaxFetch
    BY <2>1, <2>2 DEF CurrentAt, IInv, TypeOK
  <2>4. log[e.v + 1].at \in Nat
    BY <2>3, LogDates DEF IInv
  <2>5. now \in Nat /\ TTL \in Nat /\ MaxFetch \in Nat
    BY ConstantsAssumption DEF IInv, TypeOK
  <2>6. PICK d \in Nat : d = log[e.v + 1].at
    BY <2>4
  <2>7. PICK at \in Nat, n \in Nat : at = e.at /\ n = now
    BY <2>2, <2>5
  <2>8. d >= at - MaxFetch /\ n - at < TTL
    BY <2>2, <2>3, <2>6, <2>7
  <2>9. n < d + TTL + MaxFetch
    BY <2>5, <2>8, Ages
  <2>. QED  BY <2>1, <2>6, <2>7, <2>9
<1>. QED  BY <1>1, Invariance, PTL

(* Once a flip has returned, only a read that straddles its return leaves    *)
(* the cache of its instance behind.                                         *)
THEOREM OwnFlipTheorem == Spec => []OwnFlipIsSeen
<1>1. IInv => OwnFlipIsSeen
  BY DEF IInv, CacheInv, EntryAt, OwnFlipIsSeen, TypeOK, Entry
<1>. QED  BY <1>1, Invariance, PTL

(* Concurrent flips of different fields are both kept.                       *)
THEOREM FieldTheorem == Spec => []NoFieldIsLost
<1>1. IInv => NoFieldIsLost
  BY DEF IInv
<1>. QED  BY <1>1, Invariance, PTL

(* The audit trail has every state of the toggle, and chains unless flips    *)
(* raced.                                                                    *)
THEOREM TrailTheorem == Spec => []TrailChains
<1>1. IInv => TrailChains
  BY DEF IInv
<1>. QED  BY <1>1, Invariance, PTL
=============================================================================
