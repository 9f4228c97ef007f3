---------------------------- MODULE ReferenceData ----------------------------
(***************************************************************************)
(* The reference-data registry (ReferenceDataService, its controller, the  *)
(* ETag helpers and IdempotencyInterceptor): administrators create entries *)
(* under an optional Idempotency-Key, change them by PATCH with If-Match,  *)
(* and switch them on and off.  No handler runs in a transaction: every    *)
(* read, write and audit insert is an action of its own.                   *)
(*                                                                         *)
(* An entry keeps the history of its versions, each with its updated_at    *)
(* (in the milliseconds an ETag is made of) and its is_active; the columns *)
(* that only carry names and order are not told apart.                     *)
(***************************************************************************)
EXTENDS Naturals, Sequences, FiniteSets

CONSTANTS
  Admin,       \* clients, one request each at a time
  Key,         \* Idempotency-Key values
  Code,        \* codes of entries
  None,        \* an absent field, header or answer
  Bodies,      \* the bodies the administrators POST
  MaxVersions, \* bound on the versions of all entries together
  MaxClock,    \* bound on the milliseconds that pass
  MaxFaults    \* bound on requests that fail half-way, and on stores that are lost

CAPS == [species |-> [code |-> TRUE, speciesId |-> FALSE, market |-> TRUE],
         breeds |-> [code |-> TRUE, speciesId |-> TRUE, market |-> FALSE],
         cities |-> [code |-> FALSE, speciesId |-> FALSE, market |-> FALSE],
         health_certifications |-> [code |-> TRUE, speciesId |-> FALSE, market |-> TRUE],
         genetic_markers |-> [code |-> TRUE, speciesId |-> FALSE, market |-> TRUE]]

ASSUME ConstantsAssumption ==
  /\ None \notin Code /\ None \notin Key /\ None \notin Nat \cup BOOLEAN
  /\ MaxVersions \in Nat /\ MaxClock \in Nat /\ MaxFaults \in Nat

Market == {"pet", "livestock"}
(* The body of a POST; named tells whether a locale of the name is there.    *)
Dto == [dataset : DOMAIN CAPS, code : Code \cup {None}, species : Nat \cup {None},
        market : Market \cup {None}, named : BOOLEAN, active : BOOLEAN]
ASSUME BodiesAssumption == Bodies \subseteq Dto

VARIABLES
  entry,   \* the rows, in the order of their ids: body, key of the request, versions
  req,     \* the request each administrator has in flight
  view,    \* the version of an entry each administrator last saw
  stored,  \* Redis: the answer kept under each key
  flying,  \* stores on their way to Redis
  log,     \* audit_log
  clock,
  faults,
  failed,  \* history: versions whose request failed before its audit insert
  over,    \* history: what each PATCH saw, checked against and wrote onto
  excused  \* history: keys with overlapping requests, a fault or an expiry

vars == <<entry, req, view, stored, flying, log, clock, faults, failed, over, excused>>

Id == Nat \ {0}
Version == [at : 0..MaxClock, active : BOOLEAN]
Entry == [dto : Dto, key : Key \cup {None}, versions : Seq(Version)]
Pc == {"insert", "write", "audit"}
Verb == {"created", "updated", "activated", "deactivated"}
Idle == [pc |-> "idle"]
Request ==
  [pc : {"insert"}, dto : Dto, key : Key \cup {None}]
    \cup [pc : {"write"}, id : Id, base : Nat, seen : Nat \cup {None},
          active : BOOLEAN \cup {None}, verb : Verb \ {"created"}, since : 0..MaxClock]
    \cup [pc : {"audit"}, id : Id, n : Nat, base : Nat, verb : Verb]
Answer == [key : Key, dto : Dto, id : Id]

ASSUME NoneAssumption == None \notin Answer \cup [id : Id, n : Nat]

TypeOK ==
  /\ entry \in Seq(Entry)
  /\ req \in [Admin -> Request \cup {Idle}]
  /\ view \in [Admin -> [id : Id, n : Nat] \cup {None}]
  /\ stored \in [Key -> Answer \cup {None}]
  /\ flying \subseteq Answer
  /\ log \subseteq [id : Id, n : Nat, base : Nat, verb : Verb]
  /\ clock \in 0..MaxClock /\ faults \in 0..MaxFaults
  /\ failed \subseteq Id \X Nat
  /\ over \subseteq [id : Id, seen : Nat, checked : Nat, onto : Nat]
  /\ excused \subseteq Key

Init ==
  /\ entry = <<>>
  /\ req = [a \in Admin |-> Idle]
  /\ view = [a \in Admin |-> None]
  /\ stored = [k \in Key |-> None]
  /\ flying = {} /\ log = {} /\ failed = {} /\ over = {} /\ excused = {}
  /\ clock = 0 /\ faults = 0

-----------------------------------------------------------------------------
Ids == 1..Len(entry)
Latest(i) == Len(entry[i].versions)
At(i, n) == entry[i].versions[n].at
Active(i) == entry[i].versions[Latest(i)].active
Written == {w \in (1..MaxVersions) \X (1..MaxVersions) : w[1] \in Ids /\ w[2] <= Latest(w[1])}
HasRoom == Cardinality(Written) + Cardinality({a \in Admin : req[a].pc \in {"insert", "write"}})
             < MaxVersions
Free(a) == req[a] = Idle
Goto(a, r) == req' = [req EXCEPT ![a] = r]
Return(a) == req' = [req EXCEPT ![a] = Idle]

(* The CHECKs of create: each field exactly where the dataset has it (a      *)
(* market may be left out), a name, and for a breed an existing species,     *)
(* active or not.  Rows are never deleted, so the species that was looked up *)
(* still exists when the breed is inserted.                                  *)
Acceptable(d) ==
  LET caps == CAPS[d.dataset] IN
  /\ d.code # None <=> caps.code
  /\ d.species # None <=> caps.speciesId
  /\ d.market # None => caps.market
  /\ d.named
  /\ d.dataset = "breeds" => d.species \in Ids /\ entry[d.species].dto.dataset = "species"

(* The UNIQUE constraints of the tables; cities have none.                   *)
Scope(d) ==
  CASE d.dataset = "breeds" -> d.species
    [] d.dataset \in {"health_certifications", "genetic_markers"} ->
         IF d.market = None THEN "livestock" ELSE d.market
    [] OTHER -> None
Taken(d) ==
  /\ d.dataset # "cities"
  /\ \E i \in Ids : LET e == entry[i].dto IN
       e.dataset = d.dataset /\ e.code = d.code /\ Scope(e) = Scope(d)

(* POST with a key that has an answer in Redis is replayed or refused and    *)
(* changes nothing; otherwise the handler runs.                              *)
Creating(a, k) ==
  \/ req[a].pc = "insert" /\ req[a].key = k
  \/ req[a].pc = "audit" /\ req[a].verb = "created" /\ entry[req[a].id].key = k
Running(k) == (\E a \in Admin : Creating(a, k)) \/ (\E m \in flying : m.key = k)

AskCreateAlways(a, k, d) ==  \* seeded fault
  /\ Free(a) /\ HasRoom
  /\ Goto(a, [pc |-> "insert", dto |-> d, key |-> k])
  /\ excused' = IF k # None /\ Running(k) THEN excused \cup {k} ELSE excused
  /\ UNCHANGED <<entry, view, stored, flying, log, clock, faults, failed, over>>

AskCreate(a, k, d) ==
  /\ Free(a) /\ HasRoom
  /\ k # None => stored[k] = None
  /\ Goto(a, [pc |-> "insert", dto |-> d, key |-> k])
  /\ excused' = IF k # None /\ Running(k) THEN excused \cup {k} ELSE excused
  /\ UNCHANGED <<entry, view, stored, flying, log, clock, faults, failed, over>>

Insert(a) ==
  LET r == req[a] IN
  /\ r.pc = "insert"
  /\ \/ /\ Acceptable(r.dto) /\ ~ Taken(r.dto)
        /\ entry' = Append(entry, [dto |-> r.dto, key |-> r.key,
                                   versions |-> <<[at |-> clock, active |-> r.dto.active]>>])
        /\ Goto(a, [pc |-> "audit", id |-> Len(entry) + 1, n |-> 1, base |-> 0, verb |-> "created"])
     \/ /\ ~ Acceptable(r.dto) \/ Taken(r.dto)    \* 400 or 409
        /\ Return(a)
        /\ UNCHANGED entry
  /\ UNCHANGED <<view, stored, flying, log, clock, faults, failed, over, excused>>

(* GET by id.                                                                *)
Fetch(a, i) ==
  /\ Free(a)
  /\ view' = [view EXCEPT ![a] = [id |-> i, n |-> Latest(i)]]
  /\ UNCHANGED <<entry, req, stored, flying, log, clock, faults, failed, over, excused>>

PatchUnchecked(a, active) ==  \* seeded fault
  LET v == view[a] IN
  /\ Free(a) /\ v # None /\ HasRoom
  /\ Goto(a, [pc |-> "write", id |-> v.id, base |-> Latest(v.id), seen |-> v.n,
              active |-> active, verb |-> "updated", since |-> clock])
  /\ UNCHANGED <<entry, view, stored, flying, log, clock, faults, failed, over, excused>>

(* PATCH up to its precondition: the ETag the client sends is made of the    *)
(* updated_at it saw, and is compared with the one of the row just read.     *)
Patch(a, active) ==
  LET v == view[a] IN
  /\ Free(a) /\ v # None /\ HasRoom
  /\ At(v.id, v.n) = At(v.id, Latest(v.id))
  /\ Goto(a, [pc |-> "write", id |-> v.id, base |-> Latest(v.id), seen |-> v.n,
              active |-> active, verb |-> "updated", since |-> clock])
  /\ UNCHANGED <<entry, view, stored, flying, log, clock, faults, failed, over, excused>>

ToggleWhatWasSeen(a, i) ==  \* seeded fault
  LET on == view[a] # None /\ view[a].id = i /\ entry[i].versions[view[a].n].active IN
  /\ Free(a) /\ HasRoom
  /\ Goto(a, [pc |-> "write", id |-> i, base |-> Latest(i), seen |-> None,
              active |-> ~ on, since |-> clock,
              verb |-> IF on THEN "deactivated" ELSE "activated"])
  /\ UNCHANGED <<entry, view, stored, flying, log, clock, faults, failed, over, excused>>

(* PATCH toggle-active up to its read; it takes no If-Match.                 *)
Toggle(a, i) ==
  /\ Free(a) /\ HasRoom
  /\ Goto(a, [pc |-> "write", id |-> i, base |-> Latest(i), seen |-> None,
              active |-> ~ Active(i), since |-> clock,
              verb |-> IF Active(i) THEN "deactivated" ELSE "activated"])
  /\ UNCHANGED <<entry, view, stored, flying, log, clock, faults, failed, over, excused>>

(* UPDATE ... WHERE id: the row is not looked at again.  The trigger stamps  *)
(* the start of the statement, which may have waited for the row since.      *)
WithVersion(e, v) == [dto |-> e.dto, key |-> e.key, versions |-> Append(e.versions, v)]
WriteOnly(a) ==  \* seeded fault
  LET r == req[a] IN
  /\ r.pc = "write"
  /\ \E t \in r.since..clock :
       entry' = [entry EXCEPT ![r.id] = WithVersion(@,
                   [at |-> t, active |-> IF r.active = None THEN Active(r.id) ELSE r.active])]
  /\ Return(a)
  /\ UNCHANGED <<view, stored, flying, log, clock, faults, failed, over, excused>>

Write(a) ==
  LET r == req[a] IN
  /\ r.pc = "write"
  /\ \E t \in r.since..clock :
       entry' = [entry EXCEPT ![r.id] = WithVersion(@,
                   [at |-> t, active |-> IF r.active = None THEN Active(r.id) ELSE r.active])]
  /\ over' = IF r.seen = None THEN over
             ELSE over \cup {[id |-> r.id, seen |-> r.seen, checked |-> r.base, onto |-> Latest(r.id)]}
  /\ Goto(a, [pc |-> "audit", id |-> r.id, n |-> Latest(r.id) + 1, base |-> r.base, verb |-> r.verb])
  /\ UNCHANGED <<view, stored, flying, log, clock, faults, failed, excused>>

AnswerFirst(a) ==  \* seeded fault
  LET r == req[a] e == entry[r.id] IN
  /\ r.pc = "audit"
  /\ flying' = IF r.verb = "created" /\ e.key # None
               THEN flying \cup {[key |-> e.key, dto |-> e.dto, id |-> r.id]} ELSE flying
  /\ Return(a)
  /\ UNCHANGED <<entry, view, stored, log, clock, faults, failed, over, excused>>

(* The audit insert and the answer: a POST's answer goes to Redis without    *)
(* waiting, a PATCH's carries the ETag of the row it wrote.                  *)
Audit(a) ==
  LET r == req[a] e == entry[r.id] IN
  /\ r.pc = "audit"
  /\ log' = log \cup {[id |-> r.id, n |-> r.n, base |-> r.base, verb |-> r.verb]}
  /\ flying' = IF r.verb = "created" /\ e.key # None
               THEN flying \cup {[key |-> e.key, dto |-> e.dto, id |-> r.id]} ELSE flying
  /\ view' = IF r.verb = "updated" THEN [view EXCEPT ![a] = [id |-> r.id, n |-> r.n]] ELSE view
  /\ Return(a)
  /\ UNCHANGED <<entry, stored, clock, faults, failed, over, excused>>

(* SET ... NX EX 86400 arrives, or is lost; the answer expires.              *)
Store(m) ==
  /\ stored' = IF stored[m.key] = None THEN [stored EXCEPT ![m.key] = m] ELSE stored
  /\ flying' = flying \ {m}
  /\ UNCHANGED <<entry, req, view, log, clock, faults, failed, over, excused>>

LoseStore(m) ==
  /\ faults < MaxFaults
  /\ flying' = flying \ {m}
  /\ excused' = excused \cup {m.key}
  /\ faults' = faults + 1
  /\ UNCHANGED <<entry, req, view, stored, log, clock, failed, over>>

Expire(k) ==
  /\ stored[k] # None
  /\ stored' = [stored EXCEPT ![k] = None]
  /\ excused' = excused \cup {k}
  /\ UNCHANGED <<entry, req, view, flying, log, clock, faults, failed, over>>

(* A statement fails or the instance ends: the request is over where it is.  *)
Fail(a) ==
  LET r == req[a] IN
  /\ ~ Free(a) /\ faults < MaxFaults
  /\ Return(a)
  /\ failed' = IF r.pc = "audit" THEN failed \cup {<<r.id, r.n>>} ELSE failed
  /\ excused' = IF r.pc = "audit" /\ r.verb = "created" /\ entry[r.id].key # None
                THEN excused \cup {entry[r.id].key} ELSE excused
  /\ faults' = faults + 1
  /\ UNCHANGED <<entry, view, stored, flying, log, clock, over>>

Tick ==
  /\ clock < MaxClock
  /\ clock' = clock + 1
  /\ UNCHANGED <<entry, req, view, stored, flying, log, faults, failed, over, excused>>

Step(a) ==
  \/ \E k \in Key \cup {None}, d \in Bodies : AskCreate(a, k, d)
  \/ \E i \in Ids : Fetch(a, i) \/ Toggle(a, i)
  \/ \E b \in BOOLEAN \cup {None} : Patch(a, b)
  \/ Insert(a) \/ Write(a) \/ Audit(a) \/ Fail(a)

Next ==
  \/ \E a \in Admin : Step(a)
  \/ \E m \in flying : Store(m) \/ LoseStore(m)
  \/ \E k \in Key : Expire(k)
  \/ Tick

Spec == Init /\ [][Next]_vars

-----------------------------------------------------------------------------
(* Two entries are created under one Idempotency-Key only if its requests    *)
(* overlapped, a request failed after its insert, or the stored answer was   *)
(* lost or has expired.                                                      *)
CreatedOnce ==
  \A i, j \in Ids : i # j /\ entry[i].key = entry[j].key /\ entry[i].key # None
                   => entry[i].key \in excused

(* An answer that Redis keeps, or that is on its way there, is of an entry   *)
(* that was created from that body under that key and is in the audit log.   *)
StoredIsDone ==
  \A m \in flying \cup ({stored[k] : k \in Key} \ {None}) :
    /\ m.id \in Ids
    /\ entry[m.id].dto = m.dto /\ entry[m.id].key = m.key
    /\ \E l \in log : l.id = m.id /\ l.verb = "created"

(* Every version of every entry has one audit record, or a request that will *)
(* still write it, or one that failed before it could; never two.            *)
TrailComplete ==
  /\ \A i \in Ids : \A n \in 1..Latest(i) :
       \/ <<i, n>> \in failed
       \/ \E l \in log : l.id = i /\ l.n = n
       \/ \E a \in Admin : req[a].pc = "audit" /\ req[a].id = i /\ req[a].n = n
  /\ \A l, m \in log : l.id = m.id /\ l.n = m.n => l = m

(* The audit log activates (or deactivates) an entry twice in a row only if  *)
(* the second administrator had read it before the first one wrote.          *)
TrailAlternates ==
  \A l, m \in log :
    l.id = m.id /\ m.n = l.n + 1 /\ l.verb = m.verb /\ l.verb \in {"activated", "deactivated"}
      => m.base < l.n

(* A PATCH overwrites a version its client has not seen only if that version *)
(* was written after its If-Match check, or in the millisecond of the        *)
(* version the client saw.                                                   *)
SilentOverwriteNeedsARace ==
  \A o \in over : o.seen # o.onto => \/ o.checked # o.onto
                                     \/ At(o.id, o.seen) = At(o.id, o.onto)
=============================================================================
