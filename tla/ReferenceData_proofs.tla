------------------------ MODULE ReferenceData_proofs ------------------------
(***************************************************************************)
(* Proofs about ReferenceData, for any administrators, keys, bodies and    *)
(* bounds.                                                                 *)
(***************************************************************************)
EXTENDS ReferenceData, TLAPS

(* Requests and clients hold entries and versions that exist.                *)
Refs ==
  /\ \A i \in Ids : Latest(i) >= 1
  /\ \A a \in Admin :
       /\ req[a].pc = "write" =>
            /\ req[a].id \in Ids /\ req[a].base \in 1..Latest(req[a].id)
            /\ req[a].seen # None => /\ req[a].seen \in 1..Latest(req[a].id)
                                     /\ At(req[a].id, req[a].seen) = At(req[a].id, req[a].base)
       /\ req[a].pc = "audit" => req[a].id \in Ids /\ req[a].n \in 1..Latest(req[a].id)
       /\ view[a] # None => view[a].id \in Ids /\ view[a].n \in 1..Latest(view[a].id)
  /\ \A l \in log : l.id \in Ids /\ l.n \in 1..Latest(l.id)
  /\ \A o \in over : /\ o.id \in Ids
                     /\ o.seen \in 1..Latest(o.id) /\ o.onto \in 1..Latest(o.id)

(* A version is audited at most once: by one request, or by a record.        *)
OneAuditor ==
  \A a \in Admin : req[a].pc = "audit" =>
    /\ \A l \in log : l.id # req[a].id \/ l.n # req[a].n
    /\ \A b \in Admin \ {a} : req[b].pc = "audit" => req[b].id # req[a].id \/ req[b].n # req[a].n

(* What a toggle writes is the negation of what it read.                     *)
Says(v, id, base) ==
  /\ v = "activated" => ~ entry[id].versions[base].active
  /\ v = "deactivated" => entry[id].versions[base].active
Did(v, id, n) ==
  /\ v = "activated" => entry[id].versions[n].active
  /\ v = "deactivated" => ~ entry[id].versions[n].active
WillNegate(r) ==
  /\ Says(r.verb, r.id, r.base)
  /\ r.verb = "activated" => r.active = TRUE
  /\ r.verb = "deactivated" => r.active = FALSE
Negated(x) ==
  /\ x.base < x.n /\ Did(x.verb, x.id, x.n)
  /\ x.verb \in {"activated", "deactivated"} => x.base \in 1..Latest(x.id)
  /\ Says(x.verb, x.id, x.base)
Negates(r) == /\ r.pc = "write" => WillNegate(r)
              /\ r.pc = "audit" => Negated(r)
TogglesNegate == /\ \A a \in Admin : Negates(req[a])
                 /\ \A l \in log : Negated(l)

(* Under a key that has no excuse, one request at most has yet to answer, it *)
(* is alone with the key if it has not inserted, and an entry is on record.  *)
AnswerKept(k) == stored[k] # None \/ \E m \in flying : m.key = k
Lone(k) ==
  /\ \A a, b \in Admin : Creating(a, k) /\ Creating(b, k) => a = b
  /\ \A a \in Admin : req[a].pc = "insert" /\ req[a].key = k => \A i \in Ids : entry[i].key # k
  /\ \A i \in Ids : entry[i].key = k => AnswerKept(k) \/ \E a \in Admin : Creating(a, k)
OneCreator == \A k \in Key \ excused : Lone(k)

IInv == /\ TypeOK /\ Refs /\ OneAuditor /\ TogglesNegate /\ OneCreator
        /\ CreatedOnce /\ StoredIsDone /\ TrailComplete /\ SilentOverwriteNeedsARace

-----------------------------------------------------------------------------
(* The steps that neither change an entry nor move a request.                *)
Quiet ==
  \/ \E a \in Admin, i \in Ids : Fetch(a, i)
  \/ \E m \in flying : Store(m) \/ LoseStore(m)
  \/ \E k \in Key : Expire(k)
  \/ Tick
  \/ UNCHANGED vars

LEMMA Cases ==
  ASSUME [Next]_vars
  PROVE  \/ Quiet
         \/ \E a \in Admin, k \in Key \cup {None}, d \in Bodies : AskCreate(a, k, d)
         \/ \E a \in Admin, b \in BOOLEAN \cup {None} : Patch(a, b)
         \/ \E a \in Admin, i \in Ids : Toggle(a, i)
         \/ \E a \in Admin : Insert(a) \/ Write(a) \/ Audit(a) \/ Fail(a)
BY DEF Next, Step, Quiet

LEMMA QuietKeeps == Quiet => UNCHANGED <<entry, req, log, failed, over>>
BY DEF Quiet, Fetch, Store, LoseStore, Expire, Tick, vars

LEMMA Idles == /\ Idle.pc = "idle" /\ Idle \notin Request
               /\ \A a \in Admin : TypeOK /\ req[a].pc \in Pc => req[a] \in Request
BY DEF Idle, Request, Pc, TypeOK

(* The three shapes of a request.                                            *)
LEMMA Shapes ==
  ASSUME NEW r \in Request \cup {Idle}
  PROVE  /\ r.pc \in Pc \cup {"idle"}
         /\ r.pc = "idle" <=> r = Idle
         /\ r.pc = "insert" => r.dto \in Dto /\ r.key \in Key \cup {None}
         /\ r.pc = "write" => /\ r.id \in Id /\ r.base \in Nat /\ r.seen \in Nat \cup {None}
                              /\ r.active \in BOOLEAN \cup {None}
                              /\ r.verb \in Verb \ {"created"} /\ r.since \in 0..MaxClock
         /\ r.pc = "audit" => r.id \in Id /\ r.n \in Nat /\ r.base \in Nat /\ r.verb \in Verb
<1>1. CASE r = Idle
  BY <1>1 DEF Idle, Pc
<1>2. CASE r \in [pc : {"insert"}, dto : Dto, key : Key \cup {None}]
  BY <1>2 DEF Idle, Pc
<1>3. CASE r \in [pc : {"write"}, id : Id, base : Nat, seen : Nat \cup {None},
          active : BOOLEAN \cup {None}, verb : Verb \ {"created"}, since : 0..MaxClock]
  BY <1>3 DEF Idle, Pc
<1>4. CASE r \in [pc : {"audit"}, id : Id, n : Nat, base : Nat, verb : Verb]
  BY <1>4 DEF Idle, Pc
<1> QED
  BY <1>1, <1>2, <1>3, <1>4 DEF Request

(* Entries are only added, and an entry's versions too.                      *)
Grows ==
  /\ Len(entry) \in Nat /\ Len(entry') \in Nat /\ Len(entry) <= Len(entry')
  /\ \A i \in Ids :
       /\ entry'[i].dto = entry[i].dto /\ entry'[i].key = entry[i].key
       /\ Latest(i) \in Nat /\ Latest(i)' \in Nat /\ Latest(i) <= Latest(i)'
       /\ \A n \in 1..Latest(i) : entry'[i].versions[n] = entry[i].versions[n]

LEMMA Rows ==
  ASSUME TypeOK
  PROVE  /\ Len(entry) \in Nat
         /\ \A i \in Ids : /\ i \in Id /\ entry[i] \in Entry /\ entry[i].versions \in Seq(Version)
                           /\ Latest(i) \in Nat
                           /\ \A n \in 1..Latest(i) : entry[i].versions[n] \in Version
<1>1. entry \in Seq(Entry) /\ Len(entry) \in Nat
  BY DEF TypeOK
<1>2. \A i \in Ids : i \in Id /\ entry[i] \in Entry
  BY <1>1 DEF Ids, Id
<1>3. \A e \in Entry : e.versions \in Seq(Version)
  BY DEF Entry
<1>4. \A s \in Seq(Version) : Len(s) \in Nat /\ \A n \in 1..Len(s) : s[n] \in Version
  OBVIOUS
<1> QED
  BY <1>1, <1>2, <1>3, <1>4 DEF Latest

LEMMA SameGrows == ASSUME TypeOK, UNCHANGED entry PROVE Grows
BY Rows DEF Grows, Latest, Ids

LEMMA InsertGrows ==
  ASSUME TypeOK, NEW e \in Entry, entry' = Append(entry, e)
  PROVE  Grows /\ Len(entry') = Len(entry) + 1 /\ entry'[Len(entry) + 1] = e
         /\ entry' \in Seq(Entry)
<1>1. entry \in Seq(Entry)
  BY DEF TypeOK
<1>2. /\ Len(entry') = Len(entry) + 1 /\ entry'[Len(entry) + 1] = e /\ entry' \in Seq(Entry)
      /\ \A i \in Ids : entry'[i] = entry[i]
  BY <1>1 DEF Ids
<1> QED
  BY <1>1, <1>2, Rows DEF Grows, Latest, Ids

LEMMA WriteGrows ==
  ASSUME TypeOK, NEW i \in Ids, NEW v \in Version,
         entry' = [entry EXCEPT ![i] = WithVersion(entry[i], v)]
  PROVE  /\ Grows /\ Len(entry') = Len(entry) /\ entry' \in Seq(Entry)
         /\ Latest(i)' = Latest(i) + 1 /\ entry'[i].versions[Latest(i) + 1] = v
         /\ \A j \in Ids \ {i} : entry'[j] = entry[j]
<1> DEFINE e == WithVersion(entry[i], v)
<1>1. entry \in Seq(Entry) /\ entry[i] \in Entry /\ entry[i].versions \in Seq(Version)
  BY Rows DEF TypeOK
<1>2. /\ e \in Entry /\ e.dto = entry[i].dto /\ e.key = entry[i].key
      /\ e.versions = Append(entry[i].versions, v)
  BY <1>1 DEF WithVersion, Entry
<1> HIDE DEF e
<1>3. /\ Len(entry') = Len(entry) /\ entry' \in Seq(Entry) /\ entry'[i] = e
      /\ \A j \in Ids \ {i} : entry'[j] = entry[j]
  BY <1>1, <1>2 DEF Ids, e
<1>4. /\ Len(e.versions) = Latest(i) + 1 /\ e.versions[Latest(i) + 1] = v
      /\ \A n \in 1..Latest(i) : e.versions[n] = entry[i].versions[n]
  BY <1>1, <1>2 DEF Latest
<1>5. Grows
  <2>1. \A j \in Ids : j # i => entry'[j] = entry[j]
    BY <1>3
  <2> QED
    BY <1>2, <1>3, <1>4, <2>1, Rows DEF Grows, Latest
<1> QED
  BY <1>3, <1>4, <1>5 DEF Latest

-----------------------------------------------------------------------------
LEMMA TypeInit == Init => TypeOK
BY ConstantsAssumption DEF Init, TypeOK, Idle

LEMMA GotoType ==
  ASSUME TypeOK, NEW a \in Admin, NEW r \in Request \cup {Idle}, Goto(a, r)
  PROVE  /\ req' \in [Admin -> Request \cup {Idle}]
         /\ \A b \in Admin : req'[b] = IF b = a THEN r ELSE req[b]
BY DEF TypeOK, Goto

LEMMA ReturnType ==
  ASSUME TypeOK, NEW a \in Admin, Return(a)
  PROVE  /\ req' \in [Admin -> Request \cup {Idle}]
         /\ \A b \in Admin : req'[b] = IF b = a THEN Idle ELSE req[b]
BY DEF TypeOK, Return

LEMMA CreatedKey ==
  ASSUME TypeOK, Refs
  PROVE  \A a \in Admin : req[a].pc = "audit" => entry[req[a].id].key \in Key \cup {None}
                                                 /\ entry[req[a].id].dto \in Dto
BY Rows DEF Refs, Entry

LEMMA InsertForm ==
  ASSUME TypeOK, NEW a \in Admin, Insert(a)
  PROVE  /\ UNCHANGED <<view, stored, flying, log, clock, faults, failed, over, excused>>
         /\ req[a].pc = "insert" /\ req[a].dto \in Dto /\ req[a].key \in Key \cup {None}
         /\ \/ \E e \in Entry, r \in Request :
                  /\ entry' = Append(entry, e) /\ Goto(a, r)
                  /\ e.key = req[a].key /\ e.dto = req[a].dto /\ Len(e.versions) = 1
                  /\ r = [pc |-> "audit", id |-> Len(entry) + 1, n |-> 1, base |-> 0,
                          verb |-> "created"]
            \/ Return(a) /\ UNCHANGED entry
<1>1. req[a] \in Request \cup {Idle}
  BY DEF TypeOK
<1>2. req[a].pc = "insert"
  BY DEF Insert
<1>3. req[a].dto \in Dto /\ req[a].key \in Key \cup {None}
  BY <1>1, <1>2, Shapes
<1>4. req[a].dto.active \in BOOLEAN
  BY <1>3 DEF Dto
<1> DEFINE v == [at |-> clock, active |-> req[a].dto.active]
           e == [dto |-> req[a].dto, key |-> req[a].key, versions |-> <<v>>]
           r == [pc |-> "audit", id |-> Len(entry) + 1, n |-> 1, base |-> 0, verb |-> "created"]
<1>5. v \in Version
  BY <1>4 DEF Version, TypeOK
<1>6. <<v>> \in Seq(Version) /\ Len(<<v>>) = 1
  <2> HIDE DEF v
  <2> QED
    BY <1>5
<1>7. e \in Entry /\ Len(e.versions) = 1 /\ e.key = req[a].key /\ e.dto = req[a].dto
  BY <1>3, <1>6 DEF Entry
<1>8. r \in Request
  BY Rows DEF Request, Id, Verb
<1>9. \/ entry' = Append(entry, e) /\ Goto(a, r)
      \/ Return(a) /\ UNCHANGED entry
  BY DEF Insert
<1>10. UNCHANGED <<view, stored, flying, log, clock, faults, failed, over, excused>>
  BY DEF Insert
<1> QED
  BY <1>2, <1>3, <1>7, <1>8, <1>9, <1>10

LEMMA WriteForm ==
  ASSUME TypeOK, Refs, NEW a \in Admin, Write(a)
  PROVE  /\ UNCHANGED <<view, stored, flying, log, clock, faults, failed, excused>>
         /\ req[a].pc = "write" /\ req[a].id \in Ids /\ req[a].verb \in Verb \ {"created"}
         /\ req[a].base \in Nat /\ req[a].seen \in Nat \cup {None}
         /\ over' = IF req[a].seen = None THEN over
                    ELSE over \cup {[id |-> req[a].id, seen |-> req[a].seen,
                                     checked |-> req[a].base, onto |-> Latest(req[a].id)]}
         /\ \E v \in Version, r \in Request :
              /\ entry' = [entry EXCEPT ![req[a].id] = WithVersion(entry[req[a].id], v)]
              /\ req[a].active \in BOOLEAN => v.active = req[a].active
              /\ Goto(a, r)
              /\ r = [pc |-> "audit", id |-> req[a].id, n |-> Latest(req[a].id) + 1,
                      base |-> req[a].base, verb |-> req[a].verb]
<1>1. req[a] \in Request \cup {Idle}
  BY DEF TypeOK
<1>2. req[a].pc = "write"
  BY DEF Write
<1>3. /\ req[a].id \in Id /\ req[a].base \in Nat /\ req[a].seen \in Nat \cup {None}
      /\ req[a].active \in BOOLEAN \cup {None}
      /\ req[a].verb \in Verb \ {"created"} /\ req[a].since \in 0..MaxClock
  BY <1>1, <1>2, Shapes
<1>4. req[a].id \in Ids /\ Latest(req[a].id) \in Nat /\ Latest(req[a].id) >= 1
  BY <1>2, Rows DEF Refs
<1>5. entry[req[a].id].versions[Latest(req[a].id)] \in Version
  BY <1>4, Rows
<1>6. Active(req[a].id) \in BOOLEAN
  BY <1>5 DEF Active, Version
<1> DEFINE on == IF req[a].active = None THEN Active(req[a].id) ELSE req[a].active
           r == [pc |-> "audit", id |-> req[a].id, n |-> Latest(req[a].id) + 1,
                 base |-> req[a].base, verb |-> req[a].verb]
<1>7. on \in BOOLEAN
  BY <1>3, <1>6
<1>8. req[a].active \in BOOLEAN => on = req[a].active
  BY ConstantsAssumption
<1>9. r \in Request
  BY <1>3, <1>4 DEF Request
<1>10. PICK t \in req[a].since..clock :
         entry' = [entry EXCEPT ![req[a].id] = WithVersion(entry[req[a].id], [at |-> t, active |-> on])]
  BY DEF Write
<1>11. t \in 0..MaxClock
  BY <1>3, <1>10, ConstantsAssumption DEF TypeOK
<1>12. Goto(a, r)
  BY DEF Write
<1>13. /\ UNCHANGED <<view, stored, flying, log, clock, faults, failed, excused>>
       /\ over' = IF req[a].seen = None THEN over
                  ELSE over \cup {[id |-> req[a].id, seen |-> req[a].seen,
                                   checked |-> req[a].base, onto |-> Latest(req[a].id)]}
  BY DEF Write
<1> HIDE DEF on
<1> DEFINE v == [at |-> t, active |-> on]
<1>14. v \in Version /\ v.active = on
  BY <1>7, <1>11 DEF Version
<1>15. entry' = [entry EXCEPT ![req[a].id] = WithVersion(entry[req[a].id], v)]
  BY <1>10
<1> HIDE DEF v, r
<1>16. r = [pc |-> "audit", id |-> req[a].id, n |-> Latest(req[a].id) + 1,
            base |-> req[a].base, verb |-> req[a].verb]
  BY DEF r
<1> QED
  BY <1>2, <1>3, <1>4, <1>8, <1>9, <1>12, <1>13, <1>14, <1>15, <1>16

(* The other steps that move a request, by what they do to it.               *)
LEMMA AskForm ==
  ASSUME TypeOK, Refs, NEW a \in Admin, NEW k \in Key \cup {None}, NEW d \in Bodies, AskCreate(a, k, d)
  PROVE  /\ UNCHANGED <<entry, view, stored, flying, log, clock, faults, failed, over>>
         /\ req[a] = Idle /\ (k # None => stored[k] = None)
         /\ excused' = IF k # None /\ Running(k) THEN excused \cup {k} ELSE excused
         /\ \E r \in Request : Goto(a, r) /\ r.pc = "insert" /\ r.key = k
<1> DEFINE r == [pc |-> "insert", dto |-> d, key |-> k]
<1>1. r \in Request /\ r.pc = "insert" /\ r.key = k
  BY BodiesAssumption DEF Request
<1>2. Goto(a, r)
  BY DEF AskCreate
<1> QED
  BY <1>1, <1>2 DEF AskCreate, Free

LEMMA PatchForm ==
  ASSUME TypeOK, Refs, NEW a \in Admin, NEW b \in BOOLEAN \cup {None}, Patch(a, b)
  PROVE  /\ UNCHANGED <<entry, view, stored, flying, log, clock, faults, failed, over, excused>>
         /\ req[a] = Idle
         /\ \E r \in Request :
              /\ Goto(a, r)
              /\ r.pc = "write" /\ r.verb = "updated" /\ r.id \in Ids
              /\ r.base = Latest(r.id) /\ r.base \in 1..Latest(r.id)
              /\ r.seen \in 1..Latest(r.id) /\ At(r.id, r.seen) = At(r.id, r.base)
<1> DEFINE v == view[a]
           r == [pc |-> "write", id |-> v.id, base |-> Latest(v.id), seen |-> v.n,
                 active |-> b, verb |-> "updated", since |-> clock]
<1>1. v # None /\ v.id \in Ids /\ v.n \in 1..Latest(v.id) /\ v.n \in Nat
  BY Rows DEF Patch, Refs
<1>2. v.id \in Id /\ Latest(v.id) \in Nat /\ Latest(v.id) >= 1
  BY <1>1, Rows DEF Refs
<1>3. clock \in 0..MaxClock
  BY DEF TypeOK
<1>4. At(v.id, v.n) = At(v.id, Latest(v.id)) /\ Goto(a, r) /\ req[a] = Idle
      /\ UNCHANGED <<entry, view, stored, flying, log, clock, faults, failed, over, excused>>
  BY DEF Patch, Free
<1> HIDE DEF v
<1>5. r \in Request
  BY <1>1, <1>2, <1>3 DEF Request, Verb
<1>6. /\ r.pc = "write" /\ r.verb = "updated" /\ r.id = v.id
      /\ r.base = Latest(v.id) /\ r.seen = v.n
  OBVIOUS
<1> HIDE DEF r
<1> QED
  BY <1>1, <1>2, <1>4, <1>5, <1>6

LEMMA ToggleForm ==
  ASSUME TypeOK, Refs, NEW a \in Admin, NEW i \in Ids, Toggle(a, i)
  PROVE  /\ UNCHANGED <<entry, view, stored, flying, log, clock, faults, failed, over, excused>>
         /\ req[a] = Idle
         /\ \E r \in Request :
              /\ Goto(a, r)
              /\ r.pc = "write" /\ r.id = i /\ r.seen = None
              /\ r.base = Latest(i) /\ r.base \in 1..Latest(i)
              /\ r.active = ~ Active(i) /\ Active(i) \in BOOLEAN
              /\ r.verb = IF Active(i) THEN "deactivated" ELSE "activated"
<1> DEFINE r == [pc |-> "write", id |-> i, base |-> Latest(i), seen |-> None,
                 active |-> ~ Active(i), since |-> clock,
                 verb |-> IF Active(i) THEN "deactivated" ELSE "activated"]
<1>1. i \in Id /\ Latest(i) \in Nat /\ Latest(i) >= 1
  BY Rows DEF Refs
<1>2. entry[i].versions[Latest(i)] \in Version
  BY <1>1, Rows
<1>3. Active(i) \in BOOLEAN
  BY <1>2 DEF Active, Version
<1>4. clock \in 0..MaxClock
  BY DEF TypeOK
<1>5. (~ Active(i)) \in BOOLEAN
  BY <1>3
<1>6. (IF Active(i) THEN "deactivated" ELSE "activated") \in Verb \ {"created"}
  <2>1. "deactivated" \in Verb \ {"created"} /\ "activated" \in Verb \ {"created"}
    BY DEF Verb
  <2> HIDE DEF Verb
  <2> QED
    BY <2>1, Zenon
<1>7. r \in Request
  <2> DEFINE on == ~ Active(i)
             verb == IF Active(i) THEN "deactivated" ELSE "activated"
  <2>1. on \in BOOLEAN /\ verb \in Verb \ {"created"}
    BY <1>5, <1>6
  <2> HIDE DEF on, verb
  <2>2. [pc |-> "write", id |-> i, base |-> Latest(i), seen |-> None,
         active |-> on, since |-> clock, verb |-> verb] \in Request
    BY <1>1, <1>4, <2>1 DEF Request
  <2> QED
    BY <2>2 DEF on, verb
<1>8. Goto(a, r) /\ req[a] = Idle
      /\ UNCHANGED <<entry, view, stored, flying, log, clock, faults, failed, over, excused>>
  BY DEF Toggle, Free
<1>9. /\ r.pc = "write" /\ r.id = i /\ r.seen = None /\ r.base = Latest(i)
      /\ r.active = ~ Active(i) /\ r.verb = IF Active(i) THEN "deactivated" ELSE "activated"
  OBVIOUS
<1> HIDE DEF r
<1> QED
  BY <1>1, <1>3, <1>7, <1>8, <1>9

LEMMA AuditForm ==
  ASSUME TypeOK, Refs, NEW a \in Admin, Audit(a)
  PROVE  /\ UNCHANGED <<entry, stored, clock, faults, failed, over, excused>>
         /\ req[a].pc = "audit" /\ Return(a)
         /\ req[a].id \in Ids /\ req[a].n \in 1..Latest(req[a].id) /\ req[a].n \in Nat
         /\ req[a].base \in Nat /\ req[a].verb \in Verb
         /\ log' = log \cup {[id |-> req[a].id, n |-> req[a].n, base |-> req[a].base,
                              verb |-> req[a].verb]}
         /\ view' = IF req[a].verb = "updated"
                    THEN [view EXCEPT ![a] = [id |-> req[a].id, n |-> req[a].n]] ELSE view
         /\ LET e == entry[req[a].id] IN
            /\ e.key \in Key \cup {None} /\ e.dto \in Dto
            /\ flying' = IF req[a].verb = "created" /\ e.key # None
                         THEN flying \cup {[key |-> e.key, dto |-> e.dto, id |-> req[a].id]}
                         ELSE flying
<1>1. req[a] \in Request \cup {Idle}
  BY DEF TypeOK
<1>2. req[a].pc = "audit"
  BY DEF Audit
<1>3. req[a].id \in Id /\ req[a].n \in Nat /\ req[a].base \in Nat /\ req[a].verb \in Verb
  BY <1>1, <1>2, Shapes
<1>4. req[a].id \in Ids /\ req[a].n \in 1..Latest(req[a].id)
  BY <1>2 DEF Refs
<1> QED
  BY <1>2, <1>3, <1>4, CreatedKey DEF Audit

LEMMA FailForm ==
  ASSUME TypeOK, Refs, NEW a \in Admin, Fail(a)
  PROVE  /\ UNCHANGED <<entry, view, stored, flying, log, clock, over>>
         /\ Return(a) /\ req[a] \in Request
         /\ faults' \in 0..MaxFaults
         /\ failed' = IF req[a].pc = "audit" THEN failed \cup {<<req[a].id, req[a].n>>} ELSE failed
         /\ failed' \subseteq Id \X Nat
         /\ excused' = IF req[a].pc = "audit" /\ req[a].verb = "created" /\ entry[req[a].id].key # None
                       THEN excused \cup {entry[req[a].id].key} ELSE excused
         /\ excused' \subseteq Key
<1>1. req[a] \in Request \cup {Idle} /\ req[a] # Idle
  BY DEF TypeOK, Fail, Free
<1>2. req[a].pc = "audit" => req[a].id \in Id /\ req[a].n \in Nat
  BY <1>1, Shapes
<1>3. req[a].pc = "audit" => entry[req[a].id].key \in Key \cup {None}
  BY CreatedKey
<1>4. faults' \in 0..MaxFaults
  BY ConstantsAssumption DEF Fail, TypeOK
<1> QED
  BY <1>1, <1>2, <1>3, <1>4 DEF Fail, TypeOK

LEMMA TypeStep == TypeOK /\ Refs /\ [Next]_vars => TypeOK'
<1> SUFFICES ASSUME TypeOK, Refs, [Next]_vars PROVE TypeOK'
  OBVIOUS
<1>1. CASE Quiet
  <2>1. CASE \E a \in Admin, i \in Ids : Fetch(a, i)
    <3>1. PICK a \in Admin, i \in Ids : Fetch(a, i)
      BY <2>1
    <3>2. [id |-> i, n |-> Latest(i)] \in [id : Id, n : Nat]
      BY Rows
    <3> QED
      BY <3>1, <3>2 DEF Fetch, TypeOK
  <2>2. CASE \E m \in flying : Store(m) \/ LoseStore(m)
    <3>1. PICK m \in flying : Store(m) \/ LoseStore(m)
      BY <2>2
    <3>2. m \in Answer /\ m.key \in Key
      BY DEF TypeOK, Answer
    <3> QED
      BY <3>1, <3>2, ConstantsAssumption DEF Store, LoseStore, TypeOK
  <2>3. CASE \E k \in Key : Expire(k)
    BY <2>3 DEF Expire, TypeOK
  <2>4. CASE Tick
    BY <2>4, ConstantsAssumption DEF Tick, TypeOK
  <2>5. CASE UNCHANGED vars
    BY <2>5 DEF vars, TypeOK
  <2> QED
    BY <1>1, <2>1, <2>2, <2>3, <2>4, <2>5 DEF Quiet
<1>2. ASSUME NEW a \in Admin, NEW k \in Key \cup {None}, NEW d \in Bodies, AskCreate(a, k, d)
      PROVE TypeOK'
  <2>1. req' \in [Admin -> Request \cup {Idle}]
    BY <1>2, AskForm, GotoType
  <2>2. excused' \subseteq Key
    BY <1>2, AskForm DEF TypeOK
  <2> QED
    BY <1>2, <2>1, <2>2, AskForm DEF TypeOK
<1>3. ASSUME NEW a \in Admin, NEW b \in BOOLEAN \cup {None}, Patch(a, b) PROVE TypeOK'
  <2>1. req' \in [Admin -> Request \cup {Idle}]
    BY <1>3, PatchForm, GotoType
  <2> QED
    BY <1>3, <2>1, PatchForm DEF TypeOK
<1>4. ASSUME NEW a \in Admin, NEW i \in Ids, Toggle(a, i) PROVE TypeOK'
  <2>1. req' \in [Admin -> Request \cup {Idle}]
    BY <1>4, ToggleForm, GotoType
  <2> QED
    BY <1>4, <2>1, ToggleForm DEF TypeOK
<1>5. ASSUME NEW a \in Admin, Insert(a) PROVE TypeOK'
  <2>1. req' \in [Admin -> Request \cup {Idle}] /\ entry' \in Seq(Entry)
    BY <1>5, InsertForm, GotoType, ReturnType, InsertGrows DEF TypeOK
  <2> QED
    BY <1>5, <2>1, InsertForm DEF TypeOK
<1>6. ASSUME NEW a \in Admin, Write(a) PROVE TypeOK'
  <2>1. req' \in [Admin -> Request \cup {Idle}] /\ entry' \in Seq(Entry)
    BY <1>6, WriteForm, GotoType, WriteGrows
  <2>2. Latest(req[a].id) \in Nat /\ req[a].id \in Id
    BY <1>6, WriteForm, Rows
  <2>3. over' \subseteq [id : Id, seen : Nat, checked : Nat, onto : Nat]
    BY <1>6, <2>2, WriteForm DEF TypeOK
  <2> QED
    BY <1>6, <2>1, <2>3, WriteForm DEF TypeOK
<1>7. ASSUME NEW a \in Admin, Audit(a) PROVE TypeOK'
  <2>1. req' \in [Admin -> Request \cup {Idle}]
    BY <1>7, AuditForm, ReturnType
  <2>2. req[a].id \in Id
    BY <1>7, AuditForm, Rows
  <2>3. log' \subseteq [id : Id, n : Nat, base : Nat, verb : Verb]
    BY <1>7, <2>2, AuditForm DEF TypeOK
  <2>4. view' \in [Admin -> [id : Id, n : Nat] \cup {None}]
    BY <1>7, <2>2, AuditForm DEF TypeOK
  <2>5. flying' \subseteq Answer
    <3> DEFINE e == entry[req[a].id]
               m == [key |-> e.key, dto |-> e.dto, id |-> req[a].id]
    <3>1. e.key # None => m \in Answer
      BY <1>7, <2>2, AuditForm DEF Answer
    <3>2. flying' = flying \/ (e.key # None /\ flying' = flying \cup {m})
      BY <1>7, AuditForm
    <3> HIDE DEF m
    <3> QED
      BY <3>1, <3>2 DEF TypeOK
  <2> QED
    BY <1>7, <2>1, <2>3, <2>4, <2>5, AuditForm DEF TypeOK
<1>8. ASSUME NEW a \in Admin, Fail(a) PROVE TypeOK'
  <2>1. req' \in [Admin -> Request \cup {Idle}]
    BY <1>8, FailForm, ReturnType
  <2> QED
    BY <1>8, <2>1, FailForm DEF TypeOK
<1> QED
  BY <1>1, <1>2, <1>3, <1>4, <1>5, <1>6, <1>7, <1>8, Cases

-----------------------------------------------------------------------------
LEMMA AllGrows == TypeOK /\ Refs /\ [Next]_vars => Grows
<1> SUFFICES ASSUME TypeOK, Refs, [Next]_vars PROVE Grows
  OBVIOUS
<1>1. ASSUME NEW a \in Admin, Insert(a) PROVE Grows
  BY <1>1, InsertForm, InsertGrows, SameGrows
<1>2. ASSUME NEW a \in Admin, Write(a) PROVE Grows
  BY <1>2, WriteForm, WriteGrows
<1>3. UNCHANGED entry => Grows
  BY SameGrows
<1> QED
  BY <1>1, <1>2, <1>3, Cases, QuietKeeps, AskForm, PatchForm, ToggleForm, AuditForm, FailForm

(* What holds of an entry's version goes on holding.                         *)
LEMMA Keeps ==
  ASSUME TypeOK, Grows, NEW i \in Ids
  PROVE  /\ i \in Ids' /\ Latest(i) <= Latest(i)' /\ Latest(i) \in Nat /\ Latest(i)' \in Nat
         /\ \A n \in 1..Latest(i) :
              /\ n \in 1..Latest(i)' /\ At(i, n)' = At(i, n)
              /\ entry'[i].versions[n].active = entry[i].versions[n].active
         /\ entry'[i].key = entry[i].key /\ entry'[i].dto = entry[i].dto
<1>1. i \in Ids'
  BY DEF Grows, Ids
<1>2. /\ Latest(i) \in Nat /\ Latest(i)' \in Nat /\ Latest(i) <= Latest(i)'
      /\ \A n \in 1..Latest(i) : entry'[i].versions[n] = entry[i].versions[n]
      /\ entry'[i].key = entry[i].key /\ entry'[i].dto = entry[i].dto
  BY DEF Grows
<1>3. \A n \in 1..Latest(i) : n \in 1..Latest(i)'
  BY <1>2
<1> QED
  BY <1>1, <1>2, <1>3 DEF At

(* The parts of Refs, of one request, client, record or overwrite.           *)
RefReq(r) ==
  /\ r.pc = "write" =>
       /\ r.id \in Ids /\ r.base \in 1..Latest(r.id)
       /\ r.seen # None => r.seen \in 1..Latest(r.id) /\ At(r.id, r.seen) = At(r.id, r.base)
  /\ r.pc = "audit" => r.id \in Ids /\ r.n \in 1..Latest(r.id)
RefView(v) == v # None => v.id \in Ids /\ v.n \in 1..Latest(v.id)
RefLog(l) == l.id \in Ids /\ l.n \in 1..Latest(l.id)
RefOver(o) == o.id \in Ids /\ o.seen \in 1..Latest(o.id) /\ o.onto \in 1..Latest(o.id)

LEMMA RefsParts ==
  Refs <=> /\ \A i \in Ids : Latest(i) >= 1
           /\ \A a \in Admin : RefReq(req[a]) /\ RefView(view[a])
           /\ \A l \in log : RefLog(l)
           /\ \A o \in over : RefOver(o)
BY DEF Refs, RefReq, RefView, RefLog, RefOver

LEMMA RefKept ==
  ASSUME TypeOK, Grows
  PROVE  /\ \A r : RefReq(r) => RefReq(r)'
         /\ \A v : RefView(v) => RefView(v)'
         /\ \A l : RefLog(l) => RefLog(l)'
         /\ \A o : RefOver(o) => RefOver(o)'
BY Keeps DEF RefReq, RefView, RefLog, RefOver

LEMMA RefsStep == TypeOK /\ Refs /\ [Next]_vars => Refs'
<1> SUFFICES ASSUME TypeOK, Refs, [Next]_vars PROVE Refs'
  OBVIOUS
<1>0. Grows
  BY AllGrows
<1>1. \A i \in Ids : Latest(i)' >= 1
  BY <1>0, Keeps DEF Refs
<1>2. ASSUME \A i \in Ids' : i \in Ids \/ Latest(i)' >= 1,
             \A a \in Admin : req'[a] = req[a] \/ RefReq(req[a])',
             \A a \in Admin : view'[a] = view[a] \/ RefView(view[a])',
             \A l \in log' : l \in log \/ RefLog(l)',
             \A o \in over' : o \in over \/ RefOver(o)'
      PROVE  Refs'
  <2>1. \A i \in Ids' : Latest(i)' >= 1
    BY <1>1, <1>2
  <2>2. \A a \in Admin : RefReq(req[a])' /\ RefView(view[a])'
    BY <1>0, <1>2, RefsParts, RefKept
  <2>3. (\A l \in log' : RefLog(l)') /\ (\A o \in over' : RefOver(o)')
    BY <1>0, <1>2, RefsParts, RefKept
  <2> QED
    BY <2>1, <2>2, <2>3 DEF Refs, RefReq, RefView, RefLog, RefOver
<1>3. ASSUME UNCHANGED <<entry, log, over>>,
             \A a \in Admin : req'[a] = req[a] \/ RefReq(req'[a]),
             \A a \in Admin : view'[a] = view[a] \/ RefView(view'[a])
      PROVE  Refs'
  <2>1. Ids' = Ids
    BY <1>3 DEF Ids
  <2>2. /\ \A a \in Admin : req'[a] = req[a] \/ RefReq(req[a])'
        /\ \A a \in Admin : view'[a] = view[a] \/ RefView(view[a])'
    BY <1>0, <1>3, RefKept
  <2> QED
    BY <1>2, <1>3, <2>1, <2>2
<1>4. CASE Quiet
  <2>1. \A a \in Admin : view'[a] = view[a] \/ RefView(view'[a])
    <3>1. CASE \E b \in Admin, i \in Ids : Fetch(b, i)
      <4>1. PICK b \in Admin, i \in Ids : Fetch(b, i)
        BY <3>1
      <4> DEFINE v == [id |-> i, n |-> Latest(i)]
      <4>2. RefView(v)
        BY Rows DEF Refs, RefView
      <4>3. \A a \in Admin : view'[a] = IF a = b THEN v ELSE view[a]
        BY <4>1 DEF Fetch, TypeOK
      <4> QED
        BY <4>2, <4>3
    <3>2. CASE UNCHANGED view
      BY <3>2
    <3> QED
      BY <1>4, <3>1, <3>2 DEF Quiet, Store, LoseStore, Expire, Tick, vars
  <2> QED
    BY <1>3, <1>4, <2>1, QuietKeeps
<1>5. ASSUME NEW a \in Admin, NEW k \in Key \cup {None}, NEW d \in Bodies, AskCreate(a, k, d)
      PROVE Refs'
  <2>1. \A b \in Admin : req'[b] = req[b] \/ RefReq(req'[b])
    BY <1>5, AskForm, GotoType DEF RefReq
  <2> QED
    BY <1>3, <1>5, <2>1, AskForm
<1>6. ASSUME NEW a \in Admin, NEW b \in BOOLEAN \cup {None}, Patch(a, b) PROVE Refs'
  <2>1. \A c \in Admin : req'[c] = req[c] \/ RefReq(req'[c])
    BY <1>6, PatchForm, GotoType DEF RefReq
  <2> QED
    BY <1>3, <1>6, <2>1, PatchForm
<1>7. ASSUME NEW a \in Admin, NEW i \in Ids, Toggle(a, i) PROVE Refs'
  <2>1. \A b \in Admin : req'[b] = req[b] \/ RefReq(req'[b])
    BY <1>7, ToggleForm, GotoType DEF RefReq
  <2> QED
    BY <1>3, <1>7, <2>1, ToggleForm
<1>8. \A r \in {Idle} : RefReq(r) /\ RefReq(r)'
  BY Idles DEF RefReq
<1>9. ASSUME NEW a \in Admin, Insert(a) PROVE Refs'
  <2>1. CASE Return(a) /\ UNCHANGED entry
    <3>1. \A b \in Admin : req'[b] = req[b] \/ RefReq(req'[b])
      BY <1>8, <2>1, ReturnType
    <3> QED
      BY <1>3, <1>9, <2>1, <3>1, InsertForm
  <2>2. ASSUME NEW e \in Entry, NEW r \in Request,
               entry' = Append(entry, e), Goto(a, r), Len(e.versions) = 1,
               r = [pc |-> "audit", id |-> Len(entry) + 1, n |-> 1, base |-> 0, verb |-> "created"]
        PROVE  Refs'
    <3>0. PICK k : k = Len(entry) + 1
      OBVIOUS
    <3>1. Len(entry') = k /\ entry'[k] = e /\ Len(entry) \in Nat /\ k = Len(entry) + 1
      BY <2>2, <3>0, InsertGrows, Rows
    <3>2. /\ k \in Ids' /\ Latest(k)' = 1
          /\ \A i \in Ids' : i \in Ids \/ i = k
      BY <2>2, <3>1 DEF Ids, Latest
    <3>3. RefReq(r)'
      <4>1. r.pc = "audit" /\ r.id = k /\ r.n = 1
        BY <2>2, <3>0
      <4> QED
        BY <3>2, <4>1 DEF RefReq
    <3>4. \A b \in Admin : req'[b] = req[b] \/ req'[b] = r
      BY <2>2, GotoType
    <3>5. \A b \in Admin : req'[b] = req[b] \/ RefReq(req[b])'
      BY <3>3, <3>4
    <3> QED
      BY <1>2, <1>9, <3>2, <3>5, InsertForm
  <2> QED
    BY <1>9, <2>1, <2>2, InsertForm
<1>10. ASSUME NEW a \in Admin, Write(a) PROVE Refs'
  <2>0. PICK i \in Ids : i = req[a].id
    BY <1>10, WriteForm
  <2>1. PICK v \in Version, r \in Request :
          /\ entry' = [entry EXCEPT ![i] = WithVersion(entry[i], v)]
          /\ Goto(a, r)
          /\ r = [pc |-> "audit", id |-> i, n |-> Latest(i) + 1, base |-> req[a].base, verb |-> req[a].verb]
    BY <1>10, <2>0, WriteForm
  <2>2. i \in Ids /\ Latest(i) \in Nat /\ Latest(i)' = Latest(i) + 1 /\ Len(entry') = Len(entry)
    BY <2>1, WriteGrows, Rows
  <2>3. Ids' = Ids /\ Latest(i) + 1 \in 1..Latest(i)'
    BY <2>2 DEF Ids
  <2>4. RefReq(r)'
    <3>1. r.pc = "audit" /\ r.id = i /\ r.n = Latest(i) + 1
      BY <2>1
    <3>2. i \in Ids' /\ r.n \in 1..Latest(i)'
      BY <2>2, <2>3, <3>1
    <3> QED
      BY <3>1, <3>2 DEF RefReq
  <2>5. \A b \in Admin : req'[b] = req[b] \/ req'[b] = r
    BY <2>1, GotoType
  <2>6. \A b \in Admin : req'[b] = req[b] \/ RefReq(req[b])'
    BY <2>4, <2>5
  <2>7. /\ req[a].seen # None => req[a].seen \in 1..Latest(i)'
        /\ Latest(i) \in 1..Latest(i)'
    BY <1>10, <2>0, <2>2, WriteForm DEF Refs
  <2>8. \A o \in over' : o \in over \/ RefOver(o)'
    <3>1. SUFFICES ASSUME NEW o \in over', o \notin over PROVE RefOver(o)'
      OBVIOUS
    <3>2. req[a].seen # None /\ o.id = i /\ o.seen = req[a].seen /\ o.onto = Latest(i)
      BY <1>10, <2>0, <3>1, WriteForm
    <3> QED
      BY <2>2, <2>3, <2>7, <3>2 DEF RefOver
  <2> QED
    BY <1>2, <1>10, <2>3, <2>6, <2>8, WriteForm
<1>11. ASSUME NEW a \in Admin, Audit(a) PROVE Refs'
  <2>1. \A b \in Admin : req'[b] = req[b] \/ RefReq(req[b])'
    <3>1. \A b \in Admin : req'[b] = req[b] \/ req'[b] = Idle
      BY <1>11, AuditForm, ReturnType
    <3> QED
      BY <1>8, <3>1
  <2>2. \A b \in Admin : view'[b] = view[b] \/ RefView(view[b])'
    <3>0. PICK v : v = [id |-> req[a].id, n |-> req[a].n]
      OBVIOUS
    <3>1. RefView(v)'
      <4>1. RefView(v)
        BY <1>11, <3>0, AuditForm DEF RefView
      <4> QED
        BY <1>0, <4>1, RefKept
    <3>2. \A b \in Admin : view'[b] = view[b] \/ view'[b] = v
      BY <1>11, <3>0, AuditForm DEF TypeOK
    <3> QED
      BY <3>1, <3>2
  <2>3. \A l \in log' : l \in log \/ RefLog(l)'
    <3>1. \A l \in log' : l \in log \/ RefLog(l)
      BY <1>11, AuditForm DEF RefLog
    <3> QED
      BY <1>0, <3>1, RefKept
  <2>4. Ids' = Ids /\ over' = over
    BY <1>11, AuditForm DEF Ids
  <2> QED
    BY <1>2, <2>1, <2>2, <2>3, <2>4
<1>12. ASSUME NEW a \in Admin, Fail(a) PROVE Refs'
  <2>1. UNCHANGED <<entry, log, over, view>>
    <3>1. UNCHANGED log
      BY <1>12, FailForm
    <3> QED
      BY <1>12, <3>1, FailForm
  <2>2. \A b \in Admin : req'[b] = req[b] \/ RefReq(req'[b])
    BY <1>8, <1>12, FailForm, ReturnType
  <2> QED
    BY <1>3, <2>1, <2>2
<1> QED
  BY <1>4, <1>5, <1>6, <1>7, <1>9, <1>10, <1>11, <1>12, Cases

-----------------------------------------------------------------------------
(* The audit trail: a version comes into being together with its auditor,    *)
(* who leaves with its record or its failure.                                *)
Audits(r, i, n) == r.pc = "audit" /\ r.id = i /\ r.n = n
OnRecord(i, n) == \E l \in log : l.id = i /\ l.n = n

TrailInv == OneAuditor /\ TrailComplete

LEMMA SameAuditors ==
  /\ TrailInv /\ UNCHANGED <<entry, log, failed>>
  /\ \A b \in Admin : \/ req'[b] = req[b]
                      \/ req[b].pc # "audit" /\ req'[b].pc # "audit"
  => TrailInv'
<1> SUFFICES ASSUME TrailInv, UNCHANGED <<entry, log, failed>>,
                    \A b \in Admin : \/ req'[b] = req[b]
                                     \/ req[b].pc # "audit" /\ req'[b].pc # "audit"
             PROVE  TrailInv'
  OBVIOUS
<1>1. Ids' = Ids /\ \A i : Latest(i)' = Latest(i)
  BY DEF Ids, Latest
<1>2. \A b \in Admin : \A i, n : Audits(req[b], i, n)' <=> Audits(req[b], i, n)
  BY DEF Audits
<1>3. OneAuditor'
  BY DEF TrailInv, OneAuditor
<1>4. TrailComplete'
  BY <1>1, <1>2 DEF TrailInv, TrailComplete, Audits
<1> QED
  BY <1>3, <1>4 DEF TrailInv

LEMMA NewVersion ==
  ASSUME TrailInv, TypeOK, Refs, UNCHANGED <<log, failed>>,
         NEW a \in Admin, NEW r, NEW i, NEW n, r.pc = "audit", r.id = i, r.n = n,
         req[a].pc # "audit", \A b \in Admin : req'[b] = IF b = a THEN r ELSE req[b],
         ~ (i \in Ids /\ n \in 1..Latest(i)),
         \A j \in Ids' : \A m : m \in 1..Latest(j)' =>
            (j \in Ids /\ m \in 1..Latest(j)) \/ (j = i /\ m = n)
  PROVE  TrailInv'
<1>1. ~ OnRecord(i, n) /\ \A b \in Admin : ~ Audits(req[b], i, n)
  BY DEF Refs, OnRecord, Audits
<1>2. OneAuditor'
  <2>1. ASSUME NEW b \in Admin, req'[b].pc = "audit"
        PROVE  /\ \A l \in log' : l.id # req'[b].id \/ l.n # req'[b].n
               /\ \A c \in Admin \ {b} : req'[c].pc = "audit" =>
                    req'[c].id # req'[b].id \/ req'[c].n # req'[b].n
    <3>1. CASE b = a
      BY <1>1, <2>1, <3>1 DEF OnRecord, Audits
    <3>2. CASE b # a
      BY <1>1, <2>1, <3>2 DEF TrailInv, OneAuditor, Audits
    <3> QED
      BY <3>1, <3>2
  <2> QED
    BY <2>1 DEF OneAuditor
<1>3. TrailComplete'
  <2>1. ASSUME NEW j \in Ids', NEW m \in 1..Latest(j)'
        PROVE  \/ <<j, m>> \in failed'
               \/ \E l \in log' : l.id = j /\ l.n = m
               \/ \E b \in Admin : req'[b].pc = "audit" /\ req'[b].id = j /\ req'[b].n = m
    <3>1. CASE j = i /\ m = n
      BY <3>1
    <3>2. CASE j \in Ids /\ m \in 1..Latest(j)
      <4>1. \/ <<j, m>> \in failed
            \/ \E l \in log : l.id = j /\ l.n = m
            \/ \E b \in Admin : req[b].pc = "audit" /\ req[b].id = j /\ req[b].n = m
        BY <3>2 DEF TrailInv, TrailComplete
      <4> QED
        BY <4>1
    <3> QED
      BY <2>1, <3>1, <3>2
  <2> QED
    BY <2>1 DEF TrailInv, TrailComplete
<1> QED
  BY <1>2, <1>3 DEF TrailInv

LEMMA TrailStep == TrailInv /\ TypeOK /\ Refs /\ [Next]_vars => TrailInv'
<1> SUFFICES ASSUME TrailInv, TypeOK, Refs, [Next]_vars PROVE TrailInv'
  OBVIOUS
<1>1. CASE Quiet
  <2>1. UNCHANGED <<entry, log, failed>> /\ \A b \in Admin : req'[b] = req[b]
    BY <1>1, QuietKeeps
  <2> QED
    BY <2>1, SameAuditors
<1>2. ASSUME NEW a \in Admin, NEW r \in Request \cup {Idle}, req[a].pc # "audit", r.pc # "audit",
             Goto(a, r), UNCHANGED <<entry, log, failed>>
      PROVE  TrailInv'
  <2>1. \A b \in Admin : req'[b] = IF b = a THEN r ELSE req[b]
    BY <1>2, GotoType
  <2>2. \A b \in Admin : \/ req'[b] = req[b]
                         \/ req[b].pc # "audit" /\ req'[b].pc # "audit"
    BY <1>2, <2>1
  <2> QED
    BY <1>2, <2>2, SameAuditors
<1>3. ASSUME NEW a \in Admin, NEW k \in Key \cup {None}, NEW d \in Bodies, AskCreate(a, k, d)
      PROVE TrailInv'
  <2>1. PICK r \in Request : Goto(a, r) /\ r.pc = "insert"
    BY <1>3, AskForm
  <2> QED
    BY <1>2, <1>3, <2>1, AskForm, Idles
<1>4. ASSUME NEW a \in Admin, NEW b \in BOOLEAN \cup {None}, Patch(a, b) PROVE TrailInv'
  <2>1. PICK r \in Request : Goto(a, r) /\ r.pc = "write"
    BY <1>4, PatchForm
  <2>2. req[a] = Idle /\ UNCHANGED <<entry, log, failed>>
    BY <1>4, PatchForm
  <2> QED
    BY <1>2, <2>1, <2>2, Idles
<1>5. ASSUME NEW a \in Admin, NEW i \in Ids, Toggle(a, i) PROVE TrailInv'
  <2>1. PICK r \in Request : Goto(a, r) /\ r.pc = "write"
    BY <1>5, ToggleForm
  <2>2. req[a] = Idle /\ UNCHANGED <<entry, log, failed>>
    BY <1>5, ToggleForm
  <2> QED
    BY <1>2, <2>1, <2>2, Idles
<1>6. ASSUME NEW a \in Admin, Insert(a) PROVE TrailInv'
  <2>1. CASE Return(a) /\ UNCHANGED entry
    <3>1. Goto(a, Idle)
      BY <2>1 DEF Return, Goto
    <3> QED
      BY <1>2, <1>6, <2>1, <3>1, InsertForm, Idles
  <2>2. ASSUME NEW e \in Entry, NEW r \in Request,
               entry' = Append(entry, e), Goto(a, r), Len(e.versions) = 1,
               r = [pc |-> "audit", id |-> Len(entry) + 1, n |-> 1, base |-> 0, verb |-> "created"]
        PROVE  TrailInv'
    <3>0. PICK k : k = Len(entry) + 1
      OBVIOUS
    <3>1. /\ Len(entry') = k /\ entry'[k] = e /\ Len(entry) \in Nat
          /\ r.pc = "audit" /\ r.id = k /\ r.n = 1 /\ req[a].pc # "audit"
      BY <1>6, <2>2, <3>0, InsertGrows, InsertForm, Rows
    <3>2. /\ Latest(k)' = 1 /\ k \notin Ids
          /\ \A i \in Ids' : i \in Ids \/ i = k
      BY <2>2, <3>0, <3>1 DEF Ids, Latest
    <3>3. \A i \in Ids : Latest(i)' = Latest(i)
      BY <2>2 DEF TypeOK, Ids, Latest
    <3>4. \A b \in Admin : req'[b] = IF b = a THEN r ELSE req[b]
      BY <2>2, GotoType
    <3>5. UNCHANGED <<log, failed>>
      BY <1>6, InsertForm
    <3>6. \A j \in Ids' : \A m : m \in 1..Latest(j)' =>
            (j \in Ids /\ m \in 1..Latest(j)) \/ (j = k /\ m = 1)
      BY <3>2, <3>3
    <3> QED
      BY <3>1, <3>2, <3>4, <3>5, <3>6, NewVersion
  <2> QED
    BY <1>6, <2>1, <2>2, InsertForm
<1>7. ASSUME NEW a \in Admin, Write(a) PROVE TrailInv'
  <2>0. PICK i \in Ids : i = req[a].id
    BY <1>7, WriteForm
  <2>1. PICK v \in Version, r \in Request :
          /\ entry' = [entry EXCEPT ![i] = WithVersion(entry[i], v)]
          /\ Goto(a, r)
          /\ r = [pc |-> "audit", id |-> i, n |-> Latest(i) + 1, base |-> req[a].base, verb |-> req[a].verb]
    BY <1>7, <2>0, WriteForm
  <2>2. PICK n : n = Latest(i) + 1
    OBVIOUS
  <2>3. /\ Latest(i) \in Nat /\ Latest(i)' = n /\ Len(entry') = Len(entry)
        /\ \A j \in Ids \ {i} : entry'[j] = entry[j]
        /\ r.pc = "audit" /\ r.id = i /\ r.n = n /\ req[a].pc # "audit"
    BY <1>7, <2>1, <2>2, WriteForm, WriteGrows, Rows
  <2>4. Ids' = Ids /\ n \notin 1..Latest(i) /\ \A j \in Ids \ {i} : Latest(j)' = Latest(j)
    BY <2>2, <2>3 DEF Ids, Latest
  <2>5. \A j \in Ids' : \A m : m \in 1..Latest(j)' =>
            (j \in Ids /\ m \in 1..Latest(j)) \/ (j = i /\ m = n)
    BY <2>2, <2>3, <2>4
  <2>6. \A b \in Admin : req'[b] = IF b = a THEN r ELSE req[b]
    BY <2>1, GotoType
  <2>7. UNCHANGED <<log, failed>>
    BY <1>7, WriteForm
  <2> QED
    BY <2>3, <2>4, <2>5, <2>6, <2>7, NewVersion
<1>8. ASSUME NEW a \in Admin, Audit(a) PROVE TrailInv'
  <2>0. PICK l : l = [id |-> req[a].id, n |-> req[a].n, base |-> req[a].base, verb |-> req[a].verb]
    OBVIOUS
  <2>1. /\ log' = log \cup {l} /\ req[a].pc = "audit" /\ l.id = req[a].id /\ l.n = req[a].n
        /\ UNCHANGED <<entry, failed>>
    BY <1>8, <2>0, AuditForm
  <2>2. \A b \in Admin : req'[b] = IF b = a THEN Idle ELSE req[b]
    BY <1>8, AuditForm, ReturnType
  <2>3. Ids' = Ids /\ \A i : Latest(i)' = Latest(i)
    BY <2>1 DEF Ids, Latest
  <2>4. OneAuditor'
    BY <2>1, <2>2, Idles DEF TrailInv, OneAuditor
  <2>5. \A m \in log : m.id # l.id \/ m.n # l.n
    BY <2>1 DEF TrailInv, OneAuditor
  <2>6. \A m, o \in log' : m.id = o.id /\ m.n = o.n => m = o
    BY <2>1, <2>5 DEF TrailInv, TrailComplete
  <2>7. ASSUME NEW i \in Ids, NEW n \in 1..Latest(i)
        PROVE  \/ <<i, n>> \in failed'
               \/ \E m \in log' : m.id = i /\ m.n = n
               \/ \E b \in Admin : req'[b].pc = "audit" /\ req'[b].id = i /\ req'[b].n = n
    <3>1. \/ <<i, n>> \in failed
          \/ \E m \in log : m.id = i /\ m.n = n
          \/ \E b \in Admin : req[b].pc = "audit" /\ req[b].id = i /\ req[b].n = n
      BY DEF TrailInv, TrailComplete
    <3> QED
      BY <2>1, <2>2, <3>1
  <2> QED
    BY <2>3, <2>4, <2>6, <2>7 DEF TrailInv, TrailComplete
<1>9. ASSUME NEW a \in Admin, Fail(a) PROVE TrailInv'
  <2>1. \A b \in Admin : req'[b] = IF b = a THEN Idle ELSE req[b]
    BY <1>9, FailForm, ReturnType
  <2>2. UNCHANGED <<entry, log>>
    BY <1>9, FailForm
  <2>3. Ids' = Ids /\ \A i : Latest(i)' = Latest(i)
    BY <2>2 DEF Ids, Latest
  <2>4. /\ failed \subseteq failed'
        /\ req[a].pc = "audit" => <<req[a].id, req[a].n>> \in failed'
    BY <1>9, FailForm
  <2>5. OneAuditor'
    BY <2>1, <2>2, Idles DEF TrailInv, OneAuditor
  <2>6. ASSUME NEW i \in Ids, NEW n \in 1..Latest(i)
        PROVE  \/ <<i, n>> \in failed'
               \/ \E m \in log' : m.id = i /\ m.n = n
               \/ \E b \in Admin : req'[b].pc = "audit" /\ req'[b].id = i /\ req'[b].n = n
    <3>1. \/ <<i, n>> \in failed
          \/ \E m \in log : m.id = i /\ m.n = n
          \/ \E b \in Admin : req[b].pc = "audit" /\ req[b].id = i /\ req[b].n = n
      BY DEF TrailInv, TrailComplete
    <3> QED
      BY <2>1, <2>2, <2>4, <3>1
  <2> QED
    BY <2>2, <2>3, <2>5, <2>6 DEF TrailInv, TrailComplete
<1> QED
  BY <1>1, <1>3, <1>4, <1>5, <1>6, <1>7, <1>8, <1>9, Cases
-----------------------------------------------------------------------------
LEMMA NegationKept ==
  ASSUME TypeOK, Grows
  PROVE  /\ \A r : RefReq(r) /\ Negates(r) => Negates(r)'
         /\ \A l : RefLog(l) /\ Negated(l) => Negated(l)'
<1>1. ASSUME NEW x, x.id \in Ids, x.n \in 1..Latest(x.id), Negated(x) PROVE Negated(x)'
  <2>1. Did(x.verb, x.id, x.n)'
    BY <1>1, Keeps DEF Negated, Did
  <2>2. x.verb \in {"activated", "deactivated"} =>
          /\ x.base \in 1..Latest(x.id)' /\ x.base \in 1..Latest(x.id)
          /\ entry'[x.id].versions[x.base].active = entry[x.id].versions[x.base].active
    BY <1>1, Keeps DEF Negated
  <2>3. Says(x.verb, x.id, x.base)'
    BY <1>1, <2>2 DEF Negated, Says
  <2> QED
    BY <1>1, <2>1, <2>2, <2>3 DEF Negated
<1>2. ASSUME NEW r, r.pc = "write", RefReq(r), WillNegate(r) PROVE WillNegate(r)'
  <2>1. Says(r.verb, r.id, r.base)'
    BY <1>2, Keeps DEF WillNegate, Says, RefReq
  <2> QED
    BY <1>2, <2>1 DEF WillNegate
<1>3. ASSUME NEW r, RefReq(r), Negates(r) PROVE Negates(r)'
  BY <1>1, <1>2, <1>3 DEF Negates, RefReq
<1>4. ASSUME NEW l, RefLog(l), Negated(l) PROVE Negated(l)'
  BY <1>1, <1>4 DEF RefLog
<1> QED
  BY <1>3, <1>4

LEMMA NegationStep == TogglesNegate /\ TypeOK /\ Refs /\ [Next]_vars => TogglesNegate'
<1> SUFFICES ASSUME TogglesNegate, TypeOK, Refs, [Next]_vars PROVE TogglesNegate'
  OBVIOUS
<1>0. Grows
  BY AllGrows
<1>1. ASSUME \A a \in Admin : req'[a] = req[a] \/ Negates(req[a])',
             \A l \in log' : l \in log \/ Negated(l)'
      PROVE  TogglesNegate'
  <2>1. \A a \in Admin : Negates(req[a])'
    BY <1>0, <1>1, NegationKept, RefsParts DEF TogglesNegate
  <2>2. \A l \in log' : Negated(l)'
    BY <1>0, <1>1, NegationKept, RefsParts DEF TogglesNegate
  <2> QED
    BY <2>1, <2>2 DEF TogglesNegate, Negates, WillNegate, Negated
<1>2. ASSUME UNCHANGED <<entry, log>>, NEW a \in Admin, NEW r \in Request \cup {Idle},
             Goto(a, r), RefReq(r), Negates(r)
      PROVE  TogglesNegate'
  <2>1. Negates(r)'
    BY <1>0, <1>2, NegationKept
  <2>2. \A b \in Admin : req'[b] = req[b] \/ req'[b] = r
    BY <1>2, GotoType
  <2>3. \A b \in Admin : req'[b] = req[b] \/ Negates(req[b])'
    BY <2>1, <2>2
  <2> QED
    BY <1>1, <1>2, <2>3
<1>3. RefReq(Idle) /\ Negates(Idle) /\ Negates(Idle)'
  BY Idles DEF RefReq, Negates
<1>4. CASE Quiet
  <2>1. UNCHANGED log /\ \A b \in Admin : req'[b] = req[b]
    BY <1>4, QuietKeeps
  <2> QED
    BY <1>1, <2>1
<1>5. ASSUME NEW a \in Admin, NEW k \in Key \cup {None}, NEW d \in Bodies, AskCreate(a, k, d)
      PROVE TogglesNegate'
  <2>1. PICK r \in Request : Goto(a, r) /\ r.pc = "insert"
    BY <1>5, AskForm
  <2>2. RefReq(r) /\ Negates(r)
    BY <2>1 DEF RefReq, Negates
  <2> QED
    BY <1>2, <1>5, <2>1, <2>2, AskForm
<1>6. ASSUME NEW a \in Admin, NEW b \in BOOLEAN \cup {None}, Patch(a, b) PROVE TogglesNegate'
  <2>1. PICK r \in Request :
              /\ Goto(a, r)
              /\ r.pc = "write" /\ r.verb = "updated" /\ r.id \in Ids
              /\ r.base = Latest(r.id) /\ r.base \in 1..Latest(r.id)
              /\ r.seen \in 1..Latest(r.id) /\ At(r.id, r.seen) = At(r.id, r.base)
    BY <1>6, PatchForm
  <2>2. RefReq(r) /\ Negates(r)
    BY <2>1 DEF RefReq, Negates, WillNegate, Says
  <2> QED
    BY <1>2, <1>6, <2>1, <2>2, PatchForm
<1>7. ASSUME NEW a \in Admin, NEW i \in Ids, Toggle(a, i) PROVE TogglesNegate'
  <2>1. PICK r \in Request :
              /\ Goto(a, r)
              /\ r.pc = "write" /\ r.id = i /\ r.seen = None
              /\ r.base = Latest(i) /\ r.base \in 1..Latest(i)
              /\ r.active = ~ Active(i) /\ Active(i) \in BOOLEAN
              /\ r.verb = IF Active(i) THEN "deactivated" ELSE "activated"
    BY <1>7, ToggleForm
  <2>2. RefReq(r)
    BY <2>1 DEF RefReq
  <2>3. CASE Active(i)
    <3>1. r.active = FALSE /\ r.verb = "deactivated"
      BY <2>1, <2>3, Zenon
    <3>2. entry[i].versions[r.base].active
      BY <2>1, <2>3 DEF Active
    <3>3. Negates(r)
      BY <2>1, <3>1, <3>2 DEF Negates, WillNegate, Says
    <3> QED
      BY <1>2, <1>7, <2>1, <2>2, <3>3, ToggleForm
  <2>4. CASE ~ Active(i)
    <3>1. r.active = TRUE /\ r.verb = "activated"
      BY <2>1, <2>4, Zenon
    <3>2. ~ entry[i].versions[r.base].active
      BY <2>1, <2>4 DEF Active
    <3>3. Negates(r)
      BY <2>1, <3>1, <3>2 DEF Negates, WillNegate, Says
    <3> QED
      BY <1>2, <1>7, <2>1, <2>2, <3>3, ToggleForm
  <2> QED
    BY <2>3, <2>4
<1>8. ASSUME NEW a \in Admin, Insert(a) PROVE TogglesNegate'
  <2>1. CASE Return(a) /\ UNCHANGED entry
    <3>1. \A b \in Admin : req'[b] = req[b] \/ req'[b] = Idle
      BY <2>1, ReturnType
    <3> QED
      BY <1>1, <1>3, <1>8, <3>1, InsertForm
  <2>2. ASSUME NEW e \in Entry, NEW r \in Request, Goto(a, r),
               r = [pc |-> "audit", id |-> Len(entry) + 1, n |-> 1, base |-> 0, verb |-> "created"]
        PROVE  TogglesNegate'
    <3>1. r.pc = "audit" /\ r.n = 1 /\ r.base = 0 /\ r.verb = "created"
      BY <2>2
    <3>2. Negates(r)'
      BY <3>1 DEF Negates, Negated, Did, Says
    <3>3. \A b \in Admin : req'[b] = req[b] \/ req'[b] = r
      BY <2>2, GotoType
    <3>4. \A b \in Admin : req'[b] = req[b] \/ Negates(req[b])'
      BY <3>2, <3>3
    <3> QED
      BY <1>1, <1>8, <3>4, InsertForm
  <2> QED
    BY <1>8, <2>1, <2>2, InsertForm
<1>9. ASSUME NEW a \in Admin, Write(a) PROVE TogglesNegate'
  <2>0. PICK i \in Ids : i = req[a].id
    BY <1>9, WriteForm
  <2>1. PICK v \in Version, r \in Request :
          /\ entry' = [entry EXCEPT ![i] = WithVersion(entry[i], v)]
          /\ req[a].active \in BOOLEAN => v.active = req[a].active
          /\ Goto(a, r)
          /\ r = [pc |-> "audit", id |-> i, n |-> Latest(i) + 1, base |-> req[a].base, verb |-> req[a].verb]
    BY <1>9, <2>0, WriteForm
  <2>2. PICK n : n = Latest(i) + 1
    OBVIOUS
  <2>3. /\ Latest(i) \in Nat /\ entry'[i].versions[n] = v
        /\ r.pc = "audit" /\ r.id = i /\ r.n = n /\ r.base = req[a].base /\ r.verb = req[a].verb
    BY <2>1, <2>2, WriteGrows, Rows
  <2>4. /\ req[a].base \in 1..Latest(i) /\ RefReq(req[a]) /\ Negates(req[a])
        /\ req[a].pc = "write" /\ req[a].verb \in Verb
    BY <1>9, <2>0, WriteForm, RefsParts DEF RefReq, TogglesNegate
  <2>5. Says(r.verb, i, r.base)
    BY <2>0, <2>3, <2>4 DEF Negates, WillNegate
  <2>6. Says(r.verb, r.id, r.base)'
    <3>1. entry'[i].versions[r.base].active = entry[i].versions[r.base].active
      BY <1>0, <2>3, <2>4, Keeps
    <3> QED
      BY <2>3, <2>5, <3>1 DEF Says
  <2>7. Did(r.verb, r.id, r.n)'
    <3>1. WillNegate(req[a])
      BY <2>4 DEF Negates
    <3>2. /\ r.verb = "activated" => v.active = TRUE
          /\ r.verb = "deactivated" => v.active = FALSE
      BY <2>1, <2>3, <3>1 DEF WillNegate
    <3> QED
      BY <2>3, <3>2 DEF Did
  <2>8. r.base < r.n /\ r.base \in 1..Latest(i)'
    <3>1. Latest(i)' \in Nat /\ Latest(i) <= Latest(i)'
      BY <1>0, Keeps
    <3> QED
      BY <2>2, <2>3, <2>4, <3>1
  <2>9. Negates(r)'
    BY <2>3, <2>6, <2>7, <2>8 DEF Negates, Negated
  <2>10. \A b \in Admin : req'[b] = req[b] \/ req'[b] = r
    BY <2>1, GotoType
  <2>11. \A b \in Admin : req'[b] = req[b] \/ Negates(req[b])'
    BY <2>9, <2>10
  <2> QED
    BY <1>1, <1>9, <2>11, WriteForm
<1>10. ASSUME NEW a \in Admin, Audit(a) PROVE TogglesNegate'
  <2>1. PICK l : l = [id |-> req[a].id, n |-> req[a].n, base |-> req[a].base, verb |-> req[a].verb]
    OBVIOUS
  <2>2. log' = log \cup {l} /\ RefLog(l)
    BY <1>10, <2>1, AuditForm DEF RefLog
  <2>3. Negated(l)
    <3>1. Negated(req[a])
      BY <1>10, AuditForm DEF TogglesNegate, Negates
    <3>2. l.id = req[a].id /\ l.n = req[a].n /\ l.base = req[a].base /\ l.verb = req[a].verb
      BY <2>1
    <3> QED
      BY <3>1, <3>2 DEF Negated, Did, Says
  <2>4. Negated(l)'
    BY <1>0, <2>2, <2>3, NegationKept
  <2>5. \A b \in Admin : req'[b] = req[b] \/ req'[b] = Idle
    BY <1>10, AuditForm, ReturnType
  <2>6. \A b \in Admin : req'[b] = req[b] \/ Negates(req[b])'
    BY <1>3, <2>5
  <2>7. \A m \in log' : m \in log \/ Negated(m)'
    BY <2>2, <2>4
  <2> QED
    BY <1>1, <2>6, <2>7
<1>11. ASSUME NEW a \in Admin, Fail(a) PROVE TogglesNegate'
  <2>1. \A b \in Admin : req'[b] = req[b] \/ req'[b] = Idle
    BY <1>11, FailForm, ReturnType
  <2>2. \A b \in Admin : req'[b] = req[b] \/ Negates(req[b])'
    BY <1>3, <2>1
  <2>3. UNCHANGED log
    BY <1>11, FailForm
  <2> QED
    BY <1>1, <2>2, <2>3
<1> QED
  BY <1>4, <1>5, <1>6, <1>7, <1>8, <1>9, <1>10, <1>11, Cases
-----------------------------------------------------------------------------
(* A PATCH that overwrites what its client had not seen.                     *)
Races(o) == o.seen # o.onto => o.checked # o.onto \/ At(o.id, o.seen) = At(o.id, o.onto)

LEMMA RaceKept ==
  ASSUME TypeOK, Grows
  PROVE  \A o : RefOver(o) /\ Races(o) => Races(o)'
<1> SUFFICES ASSUME NEW o, RefOver(o), Races(o) PROVE Races(o)'
  OBVIOUS
<1>1. At(o.id, o.seen)' = At(o.id, o.seen) /\ At(o.id, o.onto)' = At(o.id, o.onto)
  BY Keeps DEF RefOver
<1> QED
  BY <1>1 DEF Races

LEMMA OverwriteStep ==
  SilentOverwriteNeedsARace /\ TypeOK /\ Refs /\ [Next]_vars => SilentOverwriteNeedsARace'
<1> SUFFICES ASSUME SilentOverwriteNeedsARace, TypeOK, Refs, [Next]_vars
             PROVE  SilentOverwriteNeedsARace'
  OBVIOUS
<1>0. Grows /\ \A o \in over : RefOver(o) /\ Races(o)
  BY AllGrows, RefsParts DEF SilentOverwriteNeedsARace, Races
<1>1. ASSUME \A o \in over' : o \in over \/ Races(o)' PROVE SilentOverwriteNeedsARace'
  <2>1. \A o \in over' : Races(o)'
    BY <1>0, <1>1, RaceKept
  <2> QED
    BY <2>1 DEF SilentOverwriteNeedsARace, Races
<1>2. ASSUME NEW a \in Admin, Write(a) PROVE SilentOverwriteNeedsARace'
  <2>1. SUFFICES ASSUME NEW o \in over', o \notin over PROVE Races(o)'
    BY <1>1
  <2>2. PICK i \in Ids : i = req[a].id
    BY <1>2, WriteForm
  <2>3. /\ req[a].seen # None /\ o.id = i /\ o.seen = req[a].seen
        /\ o.checked = req[a].base /\ o.onto = Latest(i)
    BY <1>2, <2>1, <2>2, WriteForm
  <2>4. /\ RefReq(req[a]) /\ req[a].pc = "write" /\ Latest(i) >= 1 /\ Latest(i) \in Nat
    BY <1>2, <2>2, WriteForm, RefsParts, Rows
  <2>5. Races(o)
    BY <2>2, <2>3, <2>4 DEF RefReq, Races
  <2>6. RefOver(o)
    BY <2>2, <2>3, <2>4 DEF RefReq, RefOver
  <2> QED
    BY <1>0, <2>5, <2>6, RaceKept
<1>3. over' = over => SilentOverwriteNeedsARace'
  BY <1>1
<1>4. ASSUME NEW a \in Admin, Insert(a) \/ Audit(a) \/ Fail(a) PROVE over' = over
  BY <1>4, InsertForm, AuditForm, FailForm
<1> QED
  BY <1>2, <1>3, <1>4, Cases, QuietKeeps, AskForm, PatchForm, ToggleForm

-----------------------------------------------------------------------------
(* An answer that is kept, or on its way, is of an entry that was created    *)
(* and audited.                                                              *)
Done(m) == /\ m.id \in Ids /\ entry[m.id].dto = m.dto /\ entry[m.id].key = m.key
           /\ \E l \in log : l.id = m.id /\ l.verb = "created"

LEMMA DoneStep == StoredIsDone /\ TypeOK /\ Refs /\ [Next]_vars => StoredIsDone'
<1> SUFFICES ASSUME StoredIsDone, TypeOK, Refs, [Next]_vars PROVE StoredIsDone'
  OBVIOUS
<1>0. Grows
  BY AllGrows
<1>1. (\A m \in flying : Done(m)) /\ \A k \in Key : stored[k] = None \/ Done(stored[k])
  BY DEF StoredIsDone, Done
<1>2. ASSUME log \subseteq log', \A m \in flying' : m \in flying \/ Done(m)',
             \A k \in Key : stored'[k] = stored[k] \/ stored'[k] = None \/ stored'[k] \in flying
      PROVE  StoredIsDone'
  <2>1. ASSUME NEW m, Done(m) PROVE Done(m)'
    <3>1. m.id \in Ids' /\ entry'[m.id].key = entry[m.id].key /\ entry'[m.id].dto = entry[m.id].dto
      BY <1>0, <2>1, Keeps DEF Done
    <3> QED
      BY <1>2, <2>1, <3>1 DEF Done
  <2>2. \A m \in flying' : Done(m)'
    BY <1>1, <1>2, <2>1
  <2>3. \A k \in Key : stored'[k] = None \/ Done(stored[k])'
    <3>1. \A k \in Key : \/ stored'[k] = None
                        \/ \E m : stored'[k] = m /\ Done(m)
      BY <1>1, <1>2
    <3> QED
      BY <2>1, <3>1
  <2> QED
    BY <2>2, <2>3 DEF StoredIsDone, Done
<1>3. UNCHANGED <<stored, flying, log>> => StoredIsDone'
  BY <1>2
<1>4. CASE Quiet
  <2>1. UNCHANGED log
    BY <1>4, QuietKeeps
  <2>2. CASE \E m \in flying : Store(m)
    <3>1. PICK m \in flying : Store(m)
      BY <2>2
    <3> QED
      BY <1>2, <2>1, <3>1 DEF Store, TypeOK
  <2>3. CASE \E k \in Key : Expire(k)
    BY <1>2, <2>1, <2>3 DEF Expire, TypeOK
  <2>4. CASE \E m \in flying : LoseStore(m)
    BY <1>2, <2>1, <2>4 DEF LoseStore
  <2>5. CASE Tick \/ UNCHANGED vars \/ \E a \in Admin, i \in Ids : Fetch(a, i)
    BY <1>3, <2>5 DEF Tick, vars, Fetch
  <2> QED
    BY <1>4, <2>2, <2>3, <2>4, <2>5 DEF Quiet
<1>5. ASSUME NEW a \in Admin, Audit(a) PROVE StoredIsDone'
  <2>1. PICK l : l = [id |-> req[a].id, n |-> req[a].n, base |-> req[a].base, verb |-> req[a].verb]
    OBVIOUS
  <2>2. PICK m : m = [key |-> entry[req[a].id].key, dto |-> entry[req[a].id].dto, id |-> req[a].id]
    OBVIOUS
  <2>3. /\ UNCHANGED <<stored, entry>> /\ log' = log \cup {l} /\ req[a].id \in Ids
        /\ \/ flying' = flying
           \/ req[a].verb = "created" /\ flying' = flying \cup {m}
    BY <1>5, <2>1, <2>2, AuditForm
  <2>4. req[a].verb = "created" => Done(m)'
    <3>1. /\ m.id = req[a].id /\ m.dto = entry[m.id].dto /\ m.key = entry[m.id].key
          /\ l.id = req[a].id /\ l.verb = req[a].verb /\ Ids' = Ids
      BY <2>1, <2>2, <2>3 DEF Ids
    <3> QED
      BY <2>3, <3>1 DEF Done
  <2> QED
    BY <1>2, <2>3, <2>4
<1>6. ASSUME NEW a \in Admin, Insert(a) \/ Write(a) \/ Fail(a) PROVE UNCHANGED <<stored, flying, log>>
  BY <1>6, InsertForm, WriteForm, FailForm
<1> QED
  BY <1>3, <1>4, <1>5, <1>6, Cases, AskForm, PatchForm, ToggleForm
-----------------------------------------------------------------------------
(* Under a key without an excuse, requests create one after the other, and   *)
(* each finds the answer of the one before.                                  *)
Creates(r, k) == \/ r.pc = "insert" /\ r.key = k
                 \/ r.pc = "audit" /\ r.verb = "created" /\ entry[r.id].key = k

LEMMA CreatesIs == \A a \in Admin, k \in Key : Creating(a, k) <=> Creates(req[a], k)
BY DEF Creating, Creates

LEMMA CreatesKept ==
  ASSUME TypeOK, Grows
  PROVE  \A r, k : RefReq(r) => (Creates(r, k)' <=> Creates(r, k))
BY Keeps DEF RefReq, Creates

(* Of a key: no request starts to create under it, no entry is added to it,  *)
(* and a request that stops leaves its answer, or had not inserted.          *)
LEMMA LoneKept ==
  ASSUME TypeOK, Refs, Grows, NEW k \in Key, Lone(k),
         \A i \in Ids' : i \in Ids \/ entry'[i].key # k,
         AnswerKept(k) => AnswerKept(k)',
         \A b \in Admin : \/ req'[b] = req[b]
                          \/ /\ ~ Creates(req[b], k)'
                             /\ Creates(req[b], k) => req[b].pc = "insert" \/ AnswerKept(k)'
  PROVE  Lone(k)'
<1>1. \A b \in Admin : req'[b] = req[b] => (Creates(req[b], k)' <=> Creates(req[b], k))
  <2>1. ASSUME NEW b \in Admin, req'[b] = req[b] PROVE Creates(req[b], k)' <=> Creates(req[b], k)
    <3>1. PICK r : r = req[b]
      OBVIOUS
    <3>2. RefReq(r)
      BY <3>1, RefsParts
    <3>3. Creates(r, k)' <=> Creates(r, k)
      BY <3>2, CreatesKept
    <3> QED
      BY <2>1, <3>1, <3>3
  <2> QED
    BY <2>1
<1>2. \A b \in Admin : Creates(req[b], k)' => Creates(req[b], k) /\ req'[b] = req[b]
  BY <1>1
<1>3. \A i \in Ids : i \in Ids' /\ entry'[i].key = entry[i].key
  BY Keeps
<1>4. /\ \A a, b \in Admin : Creates(req[a], k) /\ Creates(req[b], k) => a = b
      /\ \A a \in Admin : req[a].pc = "insert" /\ req[a].key = k => \A i \in Ids : entry[i].key # k
      /\ \A i \in Ids : entry[i].key = k => AnswerKept(k) \/ \E a \in Admin : Creates(req[a], k)
  BY CreatesIs DEF Lone
<1>5. \A a, b \in Admin : Creates(req[a], k)' /\ Creates(req[b], k)' => a = b
  BY <1>2, <1>4
<1>6. ASSUME NEW a \in Admin, req'[a].pc = "insert", req'[a].key = k, NEW i \in Ids'
      PROVE  entry'[i].key # k
  <2>1. Creates(req[a], k)'
    BY <1>6 DEF Creates
  <2> QED
    BY <1>2, <1>3, <1>4, <1>6, <2>1
<1>7. ASSUME NEW i \in Ids', entry'[i].key = k
      PROVE  AnswerKept(k)' \/ \E a \in Admin : Creates(req[a], k)'
  <2>1. i \in Ids /\ entry[i].key = k
    BY <1>3, <1>7
  <2>2. CASE AnswerKept(k)
    BY <2>2
  <2>3. ASSUME NEW a \in Admin, Creates(req[a], k)
        PROVE  AnswerKept(k)' \/ \E b \in Admin : Creates(req[b], k)'
    <3>1. CASE req'[a] = req[a]
      BY <1>1, <2>3, <3>1
    <3>2. req[a].pc # "insert"
      BY <1>4, <2>1, <2>3 DEF Creates
    <3> QED
      BY <2>3, <3>1, <3>2
  <2> QED
    BY <1>4, <2>1, <2>2, <2>3
<1> QED
  BY <1>5, <1>6, <1>7 DEF Lone, Creating, Creates

OnceInv == OneCreator /\ CreatedOnce

(* A step that adds no entry, and after which Lone still holds.              *)
LEMMA NoNewEntry ==
  ASSUME TypeOK, Refs, Grows, OnceInv, Ids' = Ids, excused \subseteq excused',
         \A k \in Key \ excused' : Lone(k)'
  PROVE  OnceInv'
<1>1. \A i \in Ids : entry'[i].key = entry[i].key
  BY Keeps
<1>2. \A i \in Ids : entry[i].key \in Key \cup {None}
  BY Rows DEF Entry
<1>3. CreatedOnce'
  BY <1>1, <1>2 DEF OnceInv, CreatedOnce
<1>4. OneCreator'
  BY DEF OneCreator
<1> QED
  BY <1>3, <1>4 DEF OnceInv

LEMMA OnceStep == OnceInv /\ TypeOK /\ Refs /\ [Next]_vars => OnceInv'
<1> SUFFICES ASSUME OnceInv, TypeOK, Refs, [Next]_vars PROVE OnceInv'
  OBVIOUS
<1>0. Grows /\ \A k \in Key \ excused : Lone(k)
  BY AllGrows DEF OnceInv, OneCreator
<1>1. \A a \in Admin, k \in Key : (req[a].pc = "write" => ~ Creates(req[a], k))
                                /\ (req[a] = Idle => ~ Creates(req[a], k))
  BY Idles DEF Creates
<1>2. \A a \in Admin, k \in Key : req'[a].pc = "write" \/ req'[a] = Idle => ~ Creates(req[a], k)'
  BY Idles DEF Creates
(* A step of one request, which was not creating, or had not inserted.       *)
<1>3. ASSUME NEW a \in Admin, NEW r, r.pc = "write" \/ r = Idle, UNCHANGED <<entry, stored, flying>>,
             excused \subseteq excused', \A b \in Admin : req'[b] = IF b = a THEN r ELSE req[b],
             \A k \in Key \ excused' : Creates(req[a], k) => req[a].pc = "insert"
      PROVE  OnceInv'
  <2>1. Ids' = Ids /\ \A k \in Key : AnswerKept(k)' <=> AnswerKept(k)
    BY <1>3 DEF Ids, AnswerKept
  <2>2. ASSUME NEW k \in Key \ excused' PROVE Lone(k)'
    <3>1. \A b \in Admin : \/ req'[b] = req[b]
                           \/ /\ ~ Creates(req[b], k)'
                              /\ Creates(req[b], k) => req[b].pc = "insert" \/ AnswerKept(k)'
      BY <1>2, <1>3, <2>2
    <3> QED
      BY <1>0, <1>3, <2>1, <2>2, <3>1, LoneKept
  <2> QED
    BY <1>0, <1>3, <2>1, <2>2, NoNewEntry
<1>4. CASE Quiet
  <2>1. UNCHANGED <<entry, req>> /\ Ids' = Ids
    BY <1>4, QuietKeeps DEF Ids
  <2>2. excused \subseteq excused' /\ \A k \in Key \ excused' : AnswerKept(k) => AnswerKept(k)'
    <3>1. ASSUME NEW m \in flying, Store(m)
          PROVE  excused \subseteq excused' /\ \A k \in Key \ excused' : AnswerKept(k) => AnswerKept(k)'
      <4>1. m \in Answer /\ m.key \in Key /\ m # None
        BY NoneAssumption DEF TypeOK, Answer
      <4>2. /\ excused' = excused /\ flying' = flying \ {m}
            /\ stored'[m.key] # None /\ \A k \in Key : stored[k] # None => stored'[k] # None
        BY <3>1, <4>1 DEF Store, TypeOK
      <4> QED
        BY <4>2 DEF AnswerKept
    <3>2. ASSUME NEW m \in flying, LoseStore(m)
          PROVE  excused \subseteq excused' /\ \A k \in Key \ excused' : AnswerKept(k) => AnswerKept(k)'
      BY <3>2 DEF LoseStore, AnswerKept
    <3>3. ASSUME NEW j \in Key, Expire(j)
          PROVE  excused \subseteq excused' /\ \A k \in Key \ excused' : AnswerKept(k) => AnswerKept(k)'
      BY <3>3 DEF Expire, AnswerKept, TypeOK
    <3>4. CASE UNCHANGED <<stored, flying, excused>>
      BY <3>4 DEF AnswerKept
    <3> QED
      BY <1>4, <3>1, <3>2, <3>3, <3>4 DEF Quiet, Fetch, Tick, vars
  <2>3. \A b \in Admin : req'[b] = req[b]
    BY <2>1
  <2>4. ASSUME NEW k \in Key \ excused' PROVE Lone(k)'
    BY <1>0, <2>1, <2>2, <2>3, <2>4, LoneKept
  <2> QED
    BY <1>0, <2>1, <2>2, <2>4, NoNewEntry
<1>5. ASSUME NEW a \in Admin, NEW j \in Key \cup {None}, NEW d \in Bodies, AskCreate(a, j, d)
      PROVE OnceInv'
  <2>1. PICK r \in Request : Goto(a, r) /\ r.pc = "insert" /\ r.key = j
    BY <1>5, AskForm
  <2>2. \A b \in Admin : req'[b] = IF b = a THEN r ELSE req[b]
    BY <2>1, GotoType
  <2>3. UNCHANGED <<entry, stored, flying>> /\ Ids' = Ids /\ excused \subseteq excused' /\ req[a] = Idle
    BY <1>5, AskForm DEF Ids
  <2>4. \A k \in Key : AnswerKept(k)' <=> AnswerKept(k)
    BY <2>3 DEF AnswerKept
  <2>5. ASSUME NEW k \in Key \ excused', k # j PROVE Lone(k)'
    <3>1. \A b \in Admin : req'[b] = req[b] \/ (~ Creates(req[b], k)' /\ ~ Creates(req[b], k))
      BY <1>1, <2>1, <2>2, <2>3, <2>5 DEF Creates
    <3>2. \A b \in Admin : \/ req'[b] = req[b]
                           \/ /\ ~ Creates(req[b], k)'
                              /\ Creates(req[b], k) => req[b].pc = "insert" \/ AnswerKept(k)'
      BY <3>1
    <3> QED
      BY <1>0, <2>3, <2>4, <2>5, <3>2, LoneKept
  <2>6. ASSUME j \in Key \ excused' PROVE Lone(j)'
    <3>1. j # None /\ ~ Running(j) /\ stored[j] = None
      BY <1>5, <2>6, AskForm, ConstantsAssumption
    <3>2. ~ AnswerKept(j) /\ \A b \in Admin : ~ Creating(b, j)
      BY <3>1 DEF Running, AnswerKept
    <3>3. \A i \in Ids : entry[i].key # j
      BY <1>0, <2>3, <2>6, <3>2 DEF Lone
    <3>4. \A b \in Admin : Creating(b, j)' => b = a
      BY <2>2, <2>3, <3>2 DEF Creating
    <3> QED
      BY <2>3, <3>3, <3>4 DEF Lone
  <2> QED
    BY <1>0, <2>3, <2>5, <2>6, NoNewEntry
<1>6. ASSUME NEW a \in Admin, NEW b \in BOOLEAN \cup {None}, Patch(a, b) PROVE OnceInv'
  <2>1. PICK r \in Request : Goto(a, r) /\ r.pc = "write"
    BY <1>6, PatchForm
  <2> QED
    BY <1>1, <1>3, <1>6, <2>1, PatchForm, GotoType
<1>7. ASSUME NEW a \in Admin, NEW i \in Ids, Toggle(a, i) PROVE OnceInv'
  <2>1. PICK r \in Request : Goto(a, r) /\ r.pc = "write"
    BY <1>7, ToggleForm
  <2> QED
    BY <1>1, <1>3, <1>7, <2>1, ToggleForm, GotoType
<1>8. ASSUME NEW a \in Admin, Fail(a) PROVE OnceInv'
  <2>1. \A b \in Admin : req'[b] = IF b = a THEN Idle ELSE req[b]
    BY <1>8, FailForm, ReturnType
  <2>2. \A k \in Key \ excused' : Creates(req[a], k) => req[a].pc = "insert"
    BY <1>8, FailForm, ConstantsAssumption DEF Creates
  <2> QED
    BY <1>3, <1>8, <2>1, <2>2, FailForm
<1>9. ASSUME NEW a \in Admin, Write(a) PROVE OnceInv'
  <2>0. PICK i \in Ids : i = req[a].id
    BY <1>9, WriteForm
  <2>1. PICK v \in Version, r \in Request :
          /\ entry' = [entry EXCEPT ![i] = WithVersion(entry[i], v)]
          /\ Goto(a, r)
          /\ r = [pc |-> "audit", id |-> i, n |-> Latest(i) + 1, base |-> req[a].base, verb |-> req[a].verb]
    BY <1>9, <2>0, WriteForm
  <2>2. /\ r.pc = "audit" /\ r.verb # "created" /\ req[a].pc = "write"
        /\ UNCHANGED <<stored, flying, excused>>
    BY <1>9, <2>1, WriteForm
  <2>3. Ids' = Ids
    BY <2>1, WriteGrows DEF Ids
  <2>4. \A b \in Admin : req'[b] = IF b = a THEN r ELSE req[b]
    BY <2>1, GotoType
  <2>5. ASSUME NEW k \in Key \ excused' PROVE Lone(k)'
    <3>1. \A b \in Admin : req'[b] = req[b] \/ (~ Creates(req[b], k)' /\ ~ Creates(req[b], k))
      BY <2>2, <2>4 DEF Creates
    <3>2. \A b \in Admin : \/ req'[b] = req[b]
                           \/ /\ ~ Creates(req[b], k)'
                              /\ Creates(req[b], k) => req[b].pc = "insert" \/ AnswerKept(k)'
      BY <3>1
    <3>3. AnswerKept(k)' <=> AnswerKept(k)
      BY <2>2 DEF AnswerKept
    <3> QED
      BY <1>0, <2>2, <2>3, <2>5, <3>2, <3>3, LoneKept
  <2> QED
    BY <1>0, <2>2, <2>3, <2>5, NoNewEntry
<1>10. ASSUME NEW a \in Admin, Audit(a) PROVE OnceInv'
  <2>1. \A b \in Admin : req'[b] = IF b = a THEN Idle ELSE req[b]
    BY <1>10, AuditForm, ReturnType
  <2>2. /\ UNCHANGED <<entry, stored, excused>> /\ Ids' = Ids /\ flying \subseteq flying'
        /\ req[a].pc = "audit"
    BY <1>10, AuditForm DEF Ids
  <2>3. ASSUME NEW k \in Key, Creates(req[a], k) PROVE \E m \in flying' : m.key = k
    <3>1. PICK m : m = [key |-> entry[req[a].id].key, dto |-> entry[req[a].id].dto, id |-> req[a].id]
      OBVIOUS
    <3>2. req[a].verb = "created" /\ entry[req[a].id].key = k /\ k # None
      BY <2>2, <2>3, ConstantsAssumption DEF Creates
    <3>3. flying' = flying \cup {m}
      BY <1>10, <3>1, <3>2, AuditForm
    <3> QED
      BY <3>1, <3>2, <3>3
  <2>4. ASSUME NEW k \in Key \ excused' PROVE Lone(k)'
    <3>1. AnswerKept(k) => AnswerKept(k)'
      BY <2>2 DEF AnswerKept
    <3>2. \A b \in Admin : \/ req'[b] = req[b]
                           \/ /\ ~ Creates(req[b], k)'
                              /\ Creates(req[b], k) => req[b].pc = "insert" \/ AnswerKept(k)'
      BY <1>2, <2>1, <2>3 DEF AnswerKept
    <3> QED
      BY <1>0, <2>2, <2>4, <3>1, <3>2, LoneKept
  <2> QED
    BY <1>0, <2>2, <2>4, NoNewEntry
<1>11. ASSUME NEW a \in Admin, Insert(a) PROVE OnceInv'
  <2>1. CASE Return(a) /\ UNCHANGED entry
    BY <1>3, <1>11, <2>1, InsertForm, ReturnType
  <2>2. ASSUME NEW e \in Entry, NEW r \in Request, entry' = Append(entry, e), Goto(a, r),
               e.key = req[a].key,
               r = [pc |-> "audit", id |-> Len(entry) + 1, n |-> 1, base |-> 0, verb |-> "created"]
        PROVE  OnceInv'
    <3>0. PICK j : j = Len(entry) + 1
      OBVIOUS
    <3>1. /\ r.pc = "audit" /\ r.id = j /\ r.verb = "created" /\ entry'[j] = e
          /\ req[a].pc = "insert" /\ e.key \in Key \cup {None}
          /\ UNCHANGED <<stored, flying, excused>>
      BY <1>11, <2>2, <3>0, InsertForm, InsertGrows
    <3>2. j \in Ids' /\ j \notin Ids /\ \A i \in Ids' : i \in Ids \/ i = j
      BY <2>2, <3>0, InsertGrows, Rows DEF Ids
    <3>3. \A i \in Ids : entry'[i].key = entry[i].key
      BY <1>0, Keeps
    <3>4. \A b \in Admin : req'[b] = IF b = a THEN r ELSE req[b]
      BY <2>2, GotoType
    <3>5. ASSUME NEW k \in Key \ excused, k # e.key PROVE Lone(k)'
      <4>1. \A b \in Admin : \/ req'[b] = req[b]
                             \/ /\ ~ Creates(req[b], k)'
                                /\ Creates(req[b], k) => req[b].pc = "insert" \/ AnswerKept(k)'
        BY <2>2, <3>1, <3>4, <3>5 DEF Creates
      <4>2. AnswerKept(k)' <=> AnswerKept(k)
        BY <3>1 DEF AnswerKept
      <4>3. \A i \in Ids' : i \in Ids \/ entry'[i].key # k
        BY <3>1, <3>2, <3>5
      <4> QED
        BY <1>0, <3>5, <4>1, <4>2, <4>3, LoneKept
    <3>6. ASSUME e.key \in Key \ excused
          PROVE  (\A i \in Ids : entry[i].key # e.key) /\ Lone(e.key)'
      <4>1. Lone(e.key) /\ Creating(a, e.key)
        BY <1>0, <2>2, <3>1, <3>6 DEF Creating
      <4>2. \A i \in Ids : entry[i].key # e.key
        BY <2>2, <3>1, <4>1 DEF Lone
      <4>3. \A b \in Admin : Creating(b, e.key) => b = a
        BY <4>1 DEF Lone
      <4>4. \A b \in Admin \ {a} : ~ Creates(req[b], e.key)'
        <5>1. SUFFICES ASSUME NEW b \in Admin \ {a}, Creates(req[b], e.key)' PROVE FALSE
          OBVIOUS
        <5>2. PICK q : q = req[b]
          OBVIOUS
        <5>3. RefReq(q) /\ req'[b] = q
          BY <3>4, <5>2, RefsParts
        <5>4. Creates(q, e.key)'
          BY <5>1, <5>3
        <5>5. Creates(q, e.key)
          BY <1>0, <5>3, <5>4, CreatesKept
        <5> QED
          BY <3>6, <4>3, <5>2, <5>5, CreatesIs
      <4>5. Creates(req[a], e.key)'
        BY <3>1, <3>4 DEF Creates
      <4>6. \A b \in Admin : Creating(b, e.key)' <=> b = a
        BY <4>4, <4>5 DEF Creating, Creates
      <4>7. \A b \in Admin : ~ (req'[b].pc = "insert" /\ req'[b].key = e.key)
        BY <3>1, <3>4, <4>4 DEF Creates
      <4> QED
        BY <4>2, <4>6, <4>7 DEF Lone
    <3>7. OneCreator'
      BY <3>1, <3>5, <3>6 DEF OneCreator
    <3>8. CreatedOnce'
      <4>1. ASSUME NEW i \in Ids', NEW h \in Ids', i # h, entry'[i].key = entry'[h].key,
                   entry'[i].key # None
            PROVE  entry'[i].key \in excused'
        <5>1. CASE i \in Ids /\ h \in Ids
          BY <3>1, <3>3, <4>1, <5>1 DEF OnceInv, CreatedOnce
        <5>2. CASE i = j /\ h \in Ids
          BY <3>1, <3>3, <3>6, <4>1, <5>2
        <5>3. CASE h = j /\ i \in Ids
          BY <3>1, <3>3, <3>6, <4>1, <5>3
        <5> QED
          BY <3>2, <4>1, <5>1, <5>2, <5>3
      <4> QED
        BY <4>1 DEF CreatedOnce
    <3> QED
      BY <3>7, <3>8 DEF OnceInv
  <2> QED
    BY <1>11, <2>1, <2>2, InsertForm
<1> QED
  BY <1>4, <1>5, <1>6, <1>7, <1>8, <1>9, <1>10, <1>11, Cases
-----------------------------------------------------------------------------
LEMMA IInvInit == Init => IInv
<1> SUFFICES ASSUME Init PROVE IInv
  OBVIOUS
<1>1. /\ entry = <<>> /\ log = {} /\ flying = {} /\ over = {} /\ Ids = {}
      /\ \A a \in Admin : req[a] = Idle /\ view[a] = None
      /\ \A k \in Key : stored[k] = None
  BY DEF Init, Ids
<1>2. \A a \in Admin : req[a].pc = "idle"
  BY <1>1, Idles
<1>3. Refs
  BY <1>1, <1>2 DEF Refs
<1>4. OneAuditor /\ TrailComplete
  BY <1>1, <1>2 DEF OneAuditor, TrailComplete
<1>5. TogglesNegate
  BY <1>1, <1>2 DEF TogglesNegate, Negates
<1>6. OneCreator /\ CreatedOnce
  BY <1>1, <1>2 DEF OneCreator, Lone, Creating, CreatedOnce
<1>7. StoredIsDone /\ SilentOverwriteNeedsARace
  BY <1>1 DEF StoredIsDone, SilentOverwriteNeedsARace
<1> QED
  BY <1>3, <1>4, <1>5, <1>6, <1>7, TypeInit DEF IInv

LEMMA IInvStep == IInv /\ [Next]_vars => IInv'
BY TypeStep, RefsStep, TrailStep, NegationStep, OnceStep, DoneStep, OverwriteStep
   DEF IInv, TrailInv, OnceInv

LEMMA Inductive == Spec => []IInv
BY IInvInit, IInvStep, PTL DEF Spec

(* Every reachable state of the registry has the types of TypeOK, for any    *)
(* number of administrators, keys and bodies and any bounds.                 *)
THEOREM TypeCorrect == Spec => []TypeOK
<1>1. IInv => TypeOK
  BY DEF IInv
<1> QED
  BY <1>1, Inductive, PTL

(* ReferenceDataService never leaves a version unaudited except by a request *)
(* that failed between its UPDATE and its audit insert, and never audits one *)
(* version twice.                                                            *)
THEOREM TrailTheorem == Spec => []TrailComplete
<1>1. IInv => TrailComplete
  BY DEF IInv
<1> QED
  BY <1>1, Inductive, PTL

(* toggleActive records the same direction twice in a row only when the      *)
(* second toggle read the entry before the first one wrote it.               *)
THEOREM AlternateTheorem == Spec => []TrailAlternates
<1>1. IInv => TrailAlternates
  <2> SUFFICES ASSUME IInv, NEW l \in log, NEW m \in log, l.id = m.id, m.n = l.n + 1,
                      l.verb = m.verb, l.verb \in {"activated", "deactivated"}
               PROVE  m.base < l.n
    BY DEF TrailAlternates
  <2>1. Negated(l) /\ Negated(m)
    BY DEF IInv, TogglesNegate
  <2>2. l.n \in Nat /\ m.n \in Nat /\ m.base \in Nat
    BY DEF IInv, TypeOK
  <2>3. m.base # l.n
    <3>1. SUFFICES ASSUME m.base = l.n PROVE FALSE
      OBVIOUS
    <3>2. Did(l.verb, l.id, l.n) /\ Says(l.verb, l.id, l.n)
      BY <2>1, <3>1 DEF Negated
    <3> QED
      BY <3>2 DEF Did, Says
  <2>4. m.base < m.n
    BY <2>1 DEF Negated
  <2> QED
    BY <2>2, <2>3, <2>4
<1> QED
  BY <1>1, Inductive, PTL

(* IdempotencyInterceptor lets a key create twice only when its requests     *)
(* overlapped, one failed after its insert, or the answer was lost or        *)
(* expired.                                                                  *)
THEOREM OnceTheorem == Spec => []CreatedOnce
<1>1. IInv => CreatedOnce
  BY DEF IInv
<1> QED
  BY <1>1, Inductive, PTL

(* IdempotencyInterceptor replays only answers of entries that exist, were   *)
(* created from that body under that key, and are in the audit log.          *)
THEOREM DoneTheorem == Spec => []StoredIsDone
<1>1. IInv => StoredIsDone
  BY DEF IInv
<1> QED
  BY <1>1, Inductive, PTL

(* ReferenceDataService.update overwrites a version its client has not seen  *)
(* only when the two writes raced past the If-Match check, or fell into the  *)
(* same millisecond.                                                         *)
THEOREM OverwriteTheorem == Spec => []SilentOverwriteNeedsARace
<1>1. IInv => SilentOverwriteNeedsARace
  BY DEF IInv
<1> QED
  BY <1>1, Inductive, PTL
=============================================================================
