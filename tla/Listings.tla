------------------------------ MODULE Listings ------------------------------
(***************************************************************************)
(* The listings table between its writers: any statement a client sends,   *)
(* the cascades of cascade_user_deactivation and                           *)
(* cascade_animal_deactivation, and RetentionService.expireListings, which *)
(* the ticks of RetentionExpireJob run under the scheduler lock            *)
(* (AdvisoryLock).                                                         *)
(*                                                                         *)
(* Statements run under READ COMMITTED.  An UPDATE of many rows picks them *)
(* by what is committed when it starts; it then takes them one by one,     *)
(* waits for a row another transaction has written, and looks at the       *)
(* newest version again before it writes.  What a transaction has written  *)
(* is in tx[s].rows, and others see it from the commit on.                 *)
(***************************************************************************)
EXTENDS AdvisoryLock, Integers

CONSTANTS
  Listing,    \* rows of listings, those still to be inserted included
  Account, Animal,
  SellerOf, AnimalOf, TypeOf, \* of each listing; no statement changes them
  Client,     \* sessions of HTTP instances and operators
  Stored,     \* rows the table may hold at the start
  Written,    \* rows the statements of clients write
  MaxWrites,  \* bound on statements of clients
  MaxFaults   \* bound on lost counts

Owner == Account \cup Animal
Session == Client \cup Job

Status == {"none", "DRAFT", "PENDING_MODERATION", "ACTIVE", "EXPIRED", "SOLD", "DEACTIVATED"}
Row == [status : Status, approved : BOOLEAN, expires : {"never", "later", "past"}]
Absent == [status |-> "none", approved |-> FALSE, expires |-> "never"]

ASSUME ListingsAssumption ==
  /\ SellerOf \in [Listing -> Account] /\ AnimalOf \in [Listing -> Animal]
  /\ DOMAIN TypeOf = Listing
  /\ Account \cap Animal = {} /\ Client \cap Job = {} /\ Nobody \notin Owner
  /\ IsFiniteSet(Listing)
  /\ Stored \subseteq Row /\ Written \subseteq Row \ {Absent}
  /\ MaxWrites \in Nat /\ MaxFaults \in Nat

VARIABLES
  listing,
  owner,    \* of users and animals: "live" without deactivated_at, "off" with
            \* it, "kept" an account made ACTIVE again that still has it
  tx,       \* the transaction of each session
  writes, faults,
  owed      \* history: how many listings the ticks of each job have expired, less
            \* what their listing.auto_expired rows in audit_log say

table == <<listing, owner, tx, writes, faults, owed>>

(* todo: rows still to be taken; late: of a cascade, listings that others   *)
(* have made live since it picked its rows; count: rows the UPDATE returned.*)
Rows == UNION {[L -> Row] : L \in SUBSET Listing}
Tx == [pc : {"idle", "rows", "commit", "audit", "done"}, on : Owner \cup {Nobody},
       to : {"live", "off", "kept"}, todo : SUBSET Listing, late : SUBSET Listing,
       rows : Rows, count : 0..Cardinality(Listing)]
NoRows == [l \in {} |-> Absent]
IdleTx == [pc |-> "idle", on |-> Nobody, to |-> "live", todo |-> {}, late |-> {},
           rows |-> NoRows, count |-> 0]

ListingsTypeOK ==
  /\ TypeOK
  /\ listing \in [Listing -> Row]
  /\ owner \in [Owner -> {"live", "off", "kept"}]
  /\ tx \in [Session -> Tx]
  /\ writes \in 0..MaxWrites /\ faults \in 0..MaxFaults
  /\ owed \in [Job -> Int]

(* The pre-moderation gate and the index uq_active_listing_per_type.        *)
Approved(r) == r.status = "ACTIVE" => r.approved
Rivals(l) == {k \in Listing \ {l} : AnimalOf[k] = AnimalOf[l] /\ TypeOf[k] = TypeOf[l]}

ListingsInit ==
  /\ Init
  /\ listing \in [Listing -> Stored]
  /\ \A l \in Listing :
       /\ Approved(listing[l])
       /\ listing[l].status = "ACTIVE" => \A k \in Rivals(l) : listing[k].status # "ACTIVE"
  /\ owner = [x \in Owner |-> "live"]
  /\ tx = [s \in Session |-> IdleTx]
  /\ writes = 0 /\ faults = 0
  /\ owed = [j \in Job |-> 0]

-----------------------------------------------------------------------------
Set(s, t) == tx' = [tx EXCEPT ![s] = t]
With(rows, l, r) == [k \in DOMAIN rows \cup {l} |-> IF k = l THEN r ELSE rows[k]]
Locked(l) == \E s \in Session : l \in DOMAIN tx[s].rows
Held(x) == \E s \in Session : tx[s].on = x

(* The index waits for the transaction that wrote a rival.                  *)
Unique(l, r) ==
  r.status = "ACTIVE" => \A k \in Rivals(l) : listing[k].status # "ACTIVE" /\ ~ Locked(k)

(* An INSERT, or an UPDATE of one row, after its BEFORE trigger.            *)
Write(c, l) ==
  /\ tx[c] = IdleTx /\ writes < MaxWrites
  /\ ~ Locked(l)
  /\ \E r \in Written :
       /\ Approved(r) /\ Unique(l, r)
       /\ Set(c, [IdleTx EXCEPT !.pc = "commit", !.rows = With(NoRows, l, r)])
  /\ writes' = writes + 1
  /\ UNCHANGED <<listing, owner, faults, owed, vars>>

(* The rows the cascade of an owner picks. *)
CascadedIfActive(r) == r.status = "ACTIVE"  \* seeded fault
Cascaded(r) == r.status \notin {"none", "DEACTIVATED", "SOLD", "EXPIRED"}
Owns(x, l) == x \in {SellerOf[l], AnimalOf[l]}

(* UPDATE users or animals SET deactivated_at: only from NULL does the      *)
(* AFTER trigger touch the listings.                                        *)
Deactivate(c, x) ==
  /\ tx[c] = IdleTx /\ writes < MaxWrites
  /\ ~ Held(x)
  /\ Set(c, [IdleTx EXCEPT !.pc = "rows", !.on = x, !.to = "off",
               !.todo = {l \in Listing : owner[x] = "live" /\ Owns(x, l) /\ Cascaded(listing[l])}])
  /\ writes' = writes + 1
  /\ UNCHANGED <<listing, owner, faults, owed, vars>>

(* The date is cleared with the status, or, by verifyPhone on an account it *)
(* had loaded before (Activated of Accounts), kept.                         *)
Reactivate(c, x) ==
  /\ tx[c] = IdleTx /\ writes < MaxWrites
  /\ ~ Held(x) /\ owner[x] = "off"
  /\ \E to \in {"live", "kept"} :
       /\ to = "kept" => x \in Account
       /\ Set(c, [IdleTx EXCEPT !.pc = "rows", !.on = x, !.to = to])
  /\ writes' = writes + 1
  /\ UNCHANGED <<listing, owner, faults, owed, vars>>

(* The predicate of expireListings. *)
Due(r) == r.status = "ACTIVE" /\ r.expires = "past"

Expire(j) ==
  /\ pc[j] = "work" /\ tx[j] = IdleTx
  /\ Set(j, [IdleTx EXCEPT !.pc = "rows", !.todo = {l \in Listing : Due(listing[l])}])
  /\ UNCHANGED <<listing, owner, writes, faults, owed, vars>>

(* Whether an UPDATE of many rows still wants one it had picked.            *)
WantedAsPicked(s, r) == TRUE  \* seeded fault
Wanted(s, r) == IF s \in Job THEN Due(r) ELSE Cascaded(r)
Rewritten(s, r) == [r EXCEPT !.status = IF s \in Job THEN "EXPIRED" ELSE "DEACTIVATED"]

TakeRow(s) ==
  /\ tx[s].pc = "rows"
  /\ \E l \in tx[s].todo :
       /\ ~ Locked(l)
       /\ Set(s, [tx[s] EXCEPT !.todo = @ \ {l},
                    !.rows = IF Wanted(s, listing[l])
                             THEN With(@, l, Rewritten(s, listing[l])) ELSE @])
  /\ UNCHANGED <<listing, owner, writes, faults, owed, vars>>

-----------------------------------------------------------------------------
Dealable == {"DRAFT", "PENDING_MODERATION", "ACTIVE"}

(* What session s has written becomes visible; then is its next state.      *)
Apply(s, then) ==
  LET rows == tx[s].rows
      revived == {l \in DOMAIN rows : rows[l].status \in Dealable} IN
  /\ listing' = [l \in Listing |-> IF l \in DOMAIN rows THEN rows[l] ELSE listing[l]]
  /\ tx' = [z \in Session |-> IF z = s THEN then
              ELSE IF tx[z].on = Nobody THEN tx[z]
              ELSE [tx[z] EXCEPT !.late = @ \cup revived]]

Commit(c) ==
  /\ c \in Client
  /\ tx[c].pc \in {"rows", "commit"} /\ tx[c].todo = {}
  /\ Apply(c, IdleTx)
  /\ owner' = IF tx[c].on = Nobody THEN owner ELSE [owner EXCEPT ![tx[c].on] = tx[c].to]
  /\ UNCHANGED <<writes, faults, owed, vars>>

(* A client rolls back, a statement fails, or PostgreSQL breaks a deadlock.  *)
Rollback(s) ==
  /\ tx[s].pc \in {"rows", "commit"}
  /\ Set(s, [IdleTx EXCEPT !.pc = IF s \in Job THEN "done" ELSE "idle"])
  /\ UNCHANGED <<listing, owner, writes, faults, owed, vars>>

(* expireListings goes on to the audit row if it changed any; if the answer  *)
(* is lost, it throws.                                                       *)
CommitExpiry(j) ==
  LET n == Cardinality(DOMAIN tx[j].rows)
      turned == {l \in DOMAIN tx[j].rows : listing[l].status # "EXPIRED"} IN
  /\ j \in Job /\ tx[j].pc = "rows" /\ tx[j].todo = {}
  /\ owed' = [owed EXCEPT ![j] = @ + Cardinality(turned)]
  /\ \/ /\ Apply(j, [IdleTx EXCEPT !.pc = IF n > 0 THEN "audit" ELSE "done", !.count = n])
        /\ UNCHANGED faults
     \/ /\ n > 0 /\ faults < MaxFaults
        /\ faults' = faults + 1
        /\ Apply(j, [IdleTx EXCEPT !.pc = "done"])
  /\ UNCHANGED <<owner, writes, vars>>

Report(j) ==
  /\ tx[j].pc = "audit"
  /\ Set(j, [IdleTx EXCEPT !.pc = "done"])
  /\ \/ owed' = [owed EXCEPT ![j] = @ - tx[j].count] /\ UNCHANGED faults
     \/ faults < MaxFaults /\ faults' = faults + 1 /\ UNCHANGED owed
  /\ UNCHANGED <<listing, owner, writes, vars>>

(* Time passes expires_at. *)
Lapse(l) ==
  /\ listing[l].expires = "later" /\ ~ Locked(l)
  /\ listing' = [listing EXCEPT ![l].expires = "past"]
  /\ UNCHANGED <<owner, tx, writes, faults, owed, vars>>

-----------------------------------------------------------------------------
(* The lock around it: the callback ends when the statements have, and a    *)
(* worker that dies takes its transactions with it.                         *)
LockStep(j) ==
  /\ Acquire(j) \/ AcquireLost(j) \/ Skip(j) \/ Release(j)
  /\ UNCHANGED table

FinishTick(j) ==
  /\ Finish(j)
  /\ tx[j].pc = "done"
  /\ Set(j, IdleTx)
  /\ UNCHANGED <<listing, owner, writes, faults, owed>>

CrashWorker(i) ==
  LET lost == {j \in Job : HomeOf[j] = i /\ tx[j].pc = "audit"} IN
  /\ Crash(i)
  /\ faults + Cardinality(lost) <= MaxFaults
  /\ faults' = faults + Cardinality(lost)
  /\ tx' = [s \in Session |-> IF s \in Job /\ HomeOf[s] = i THEN IdleTx ELSE tx[s]]
  /\ UNCHANGED <<listing, owner, writes, owed>>

LoseSession == DropSession /\ UNCHANGED table

ListingsNext ==
  \/ \E c \in Client, l \in Listing : Write(c, l)
  \/ \E c \in Client, x \in Owner : Deactivate(c, x) \/ Reactivate(c, x)
  \/ \E s \in Session : TakeRow(s) \/ Commit(s) \/ Rollback(s) \/ CommitExpiry(s)
  \/ \E j \in Job : Expire(j) \/ Report(j) \/ LockStep(j) \/ FinishTick(j)
  \/ \E i \in Instance : CrashWorker(i)
  \/ \E l \in Listing : Lapse(l)
  \/ LoseSession

ListingsSpec == ListingsInit /\ [][ListingsNext]_<<vars, table>>

-----------------------------------------------------------------------------
(* A deactivation that commits leaves no listing of the account or animal   *)
(* on the market but those another session put there after the cascade had  *)
(* picked its rows -- unless deactivated_at was set already, when the       *)
(* cascade does not look at all.                                            *)
CascadeMissesNewcomersOnly ==
  [][\A c \in Client, x \in Owner :
       Commit(c) /\ tx[c].on = x /\ tx[c].to = "off" /\ owner[x] = "live" =>
         \A l \in Listing : Owns(x, l) /\ listing'[l].status \in Dealable => l \in tx[c].late]_<<vars, table>>

(* However many ticks work at once -- of one instance, or of two after the  *)
(* session with the lock was lost -- each expiry is reported once, by the    *)
(* tick that made it: its reports say no more than has happened, and no less *)
(* but for a count lost between the UPDATE and the audit row.               *)
ExpiryReportedOnce ==
  \A j \in Job :
    /\ tx[j].count <= owed[j]
    /\ faults = 0 => tx[j].count = owed[j]
=============================================================================
