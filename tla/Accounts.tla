------------------------------ MODULE Accounts ------------------------------
(***************************************************************************)
(* The life of an account: the users table and the handlers of             *)
(* IdentityService, RecoveryService, ProfileService, AdminUserService and  *)
(* the worker's RetentionService that change it.                           *)
(*                                                                         *)
(* Every handler loads the row, decides on what it loaded, and writes by   *)
(* id alone in a later await.  The load is one action, each write another, *)
(* so handlers interleave between the two.  A column no decision depends   *)
(* on (names, counters, last_login_at) is left out.                        *)
(***************************************************************************)
EXTENDS Naturals

CONSTANTS
  User,            \* rows of users, those still to be inserted included
  Phone, OAuth, Mail, \* phone_hash values, ids of one provider, e-mail addresses
  Proc,            \* concurrent request handlers
  Worker,          \* retention jobs
  Nobody,          \* the user field of an idle handler
  Null,            \* SQL NULL
  Grace,           \* DEACTIVATION_GRACE_MS, in units of time
  RetentionGrace,  \* RETENTION_GRACE_DAYS
  MaxTime,         \* bound on the clock
  MaxCrashes       \* bound on crashes

Ident == Phone \cup OAuth \cup Mail
Time == 0..MaxTime

ASSUME ConstantsAssumption ==
  /\ Nobody \notin User /\ Null \notin Nat /\ Null \notin Ident
  /\ Phone \cap OAuth = {} /\ Phone \cap Mail = {} /\ OAuth \cap Mail = {}
  /\ Proc \cap Worker = {}
  /\ Grace \in Nat /\ RetentionGrace \in Nat
  /\ MaxTime \in Nat /\ MaxCrashes \in Nat

VARIABLES
  row,      \* the users table
  code,     \* phones and e-mail addresses with an OTP in Redis
  access,   \* users that hold an unexpired access token
  session,  \* users with an unrevoked refresh-token family
  req,      \* the local state of each handler
  now,
  crashes,
  audited   \* users with a user.erased row in audit_log

vars == <<row, code, access, session, req, now, crashes, audited>>

Status == {"none", "UNVERIFIED", "PENDING_VERIFICATION", "VERIFIED", "ACTIVE",
           "SUSPENDED", "DEACTIVATED"}
Row == [status : Status, active : BOOLEAN, since : Time \cup {Null},
        erased : BOOLEAN, ids : SUBSET Ident, verified : BOOLEAN]

RowOf(status, active, since, erased, ids, verified) ==
  [status |-> status, active |-> active, since |-> since,
   erased |-> erased, ids |-> ids, verified |-> verified]
Absent == RowOf("none", FALSE, Null, FALSE, {}, FALSE)
Pc == {"idle", "issue", "otp", "clear", "lockout", "activate", "revive", "login", "deactivate",
       "reactivate", "update", "rebind", "erase", "logout", "revoke", "audit"}
Seen == [status : Status, since : Time \cup {Null}]
Request == [pc : Pc, user : User \cup {Nobody}, seen : Seen, on : Ident \cup {Null}]

(* Of the row it loaded, a handler goes by two columns. *)
SeenOf(r) == [status |-> r.status, since |-> r.since]
Serving(pc, u, seen, i) == [pc |-> pc, user |-> u, seen |-> seen, on |-> i]
Idle == Serving("idle", Nobody, SeenOf(Absent), Null)
Handler == Proc \cup Worker

TypeOK ==
  /\ row \in [User -> Row]
  /\ code \subseteq Phone \cup Mail
  /\ access \subseteq User /\ session \subseteq User /\ audited \subseteq User
  /\ req \in [Handler -> Request]
  /\ now \in Time /\ crashes \in 0..MaxCrashes

Init ==
  /\ row = [u \in User |-> Absent]
  /\ code = {} /\ access = {} /\ session = {} /\ audited = {}
  /\ req = [p \in Handler |-> Idle]
  /\ now = 0 /\ crashes = 0

-----------------------------------------------------------------------------
Blocked == {"SUSPENDED", "DEACTIVATED"}

AnyStatus == Status  \* seeded fault
AwaitingVerification == {"UNVERIFIED", "PENDING_VERIFICATION"}

Free(i) == \A u \in User : i \notin row[u].ids

(* Date.now() - deactivated_at > DEACTIVATION_GRACE_MS *)
PastGrace(r) == r.since # Null /\ now > r.since + Grace

(* What RetentionService selects. *)
Overdue(r) == /\ r.status = "DEACTIVATED" /\ ~ r.erased
              /\ r.since # Null /\ now > r.since + RetentionGrace

(* The column values each UPDATE sets. *)
Registered(I) == RowOf("PENDING_VERIFICATION", TRUE, Null, FALSE, I, FALSE)
Joined(I, v) == RowOf("ACTIVE", TRUE, Null, FALSE, I, v)
Activated(r) == RowOf("ACTIVE", TRUE, r.since, r.erased, r.ids, r.verified)
LockedOut(r) == [r EXCEPT !.status = "UNVERIFIED"]
Revived(r) == RowOf("ACTIVE", TRUE, Null, r.erased, r.ids, r.verified)
Identified(r, I) == [r EXCEPT !.ids = I]

Undated(r) ==  \* seeded fault
  RowOf("DEACTIVATED", FALSE, r.since, r.erased, r.ids, r.verified)
Deactivated(r) == RowOf("DEACTIVATED", FALSE, now, r.erased, r.ids, r.verified)

Unmarked(r, since) ==  \* seeded fault
  RowOf("DEACTIVATED", FALSE, IF since = Null THEN now ELSE since, r.erased, {}, FALSE)
Anonymised(r, since) ==
  RowOf("DEACTIVATED", FALSE, IF since = Null THEN now ELSE since, TRUE, {}, FALSE)

At(p, pc) == req[p].pc = pc
Begin(p, r) == req[p] = Idle /\ req' = [req EXCEPT ![p] = r]
Load(p, pc, u, i) == Begin(p, Serving(pc, u, SeenOf(row[u]), i))
Unseen(pc, u) == Serving(pc, u, SeenOf(Absent), Null)
Sending(u, i) == Serving("issue", u, SeenOf(Absent), i)
Decide(p, pc) == req' = [req EXCEPT ![p] = Serving(pc, req[p].user, req[p].seen, req[p].on)]
Goto(p, pc) == req' = [req EXCEPT ![p] = Unseen(pc, req[p].user)]
Return(p) == req' = [req EXCEPT ![p] = Idle]
Write(p, r) == row' = [row EXCEPT ![req[p].user] = r]

-----------------------------------------------------------------------------
(* registerPhone, with an optional e-mail address nobody has verified: the   *)
(* unique index on phone_hash decides between two.                           *)
RegisterPhone(p, u, i) ==
  /\ row[u].status = "none" /\ Free(i)
  /\ \/ row' = [row EXCEPT ![u] = Registered({i})]
     \/ \E m \in Mail : row' = [row EXCEPT ![u] = Registered({i, m})]
  /\ Begin(p, Sending(u, i))
  /\ UNCHANGED <<code, access, session, now, crashes, audited>>

(* registerPhone finds the account still waiting; requestEmail finds one     *)
(* that may be recovered.                                                    *)
AskCode(p, u, i) ==
  /\ i \in row[u].ids
  /\ \/ i \in Phone /\ row[u].status \in AwaitingVerification
     \/ i \in Mail /\ row[u].verified /\ ~ row[u].erased /\ row[u].status # "SUSPENDED"
  /\ Begin(p, Sending(u, i))
  /\ UNCHANGED <<row, code, access, session, now, crashes, audited>>

(* OtpService.issue stores a code, or there is a cooldown.                   *)
IssueCode(p) ==
  /\ At(p, "issue")
  /\ code' \in {code, code \cup {req[p].on}}
  /\ Return(p)
  /\ UNCHANGED <<row, access, session, now, crashes, audited>>

(* verifyPhone loads the account the phone belongs to.                       *)
VerifyPhone(p, u, i) ==
  /\ i \in Phone \cap row[u].ids
  /\ row[u].status \in AwaitingVerification
  /\ Load(p, "otp", u, i)
  /\ UNCHANGED <<row, code, access, session, now, crashes, audited>>

(* RecoveryService.verifyEmail does the same for a verified address.         *)
VerifyEmail(p, u, i) ==
  /\ i \in Mail \cap row[u].ids
  /\ row[u].verified /\ ~ row[u].erased
  /\ Load(p, "otp", u, i)
  /\ UNCHANGED <<row, code, access, session, now, crashes, audited>>

(* OtpService.verify: see the module Otp for when it answers what.           *)
CheckCode(p) ==
  /\ At(p, "otp")
  /\ \/ /\ req[p].on \in code                \* OK
        /\ Decide(p, "clear")
        /\ UNCHANGED code
     \/ /\ Return(p)                         \* INVALID
        /\ UNCHANGED code
     \/ /\ code' \in {code, code \ {req[p].on}}   \* LOCKED
        /\ IF req[p].on \in Phone THEN Decide(p, "lockout") ELSE Return(p)
  /\ UNCHANGED <<row, access, session, now, crashes, audited>>

(* The code is deleted; what follows is decided on the row loaded before.    *)
ClearCode(p) ==
  LET seen == req[p].seen IN
  /\ At(p, "clear")
  /\ code' = code \ {req[p].on}
  /\ \/ req[p].on \in Phone /\ Decide(p, "activate")
     \/ /\ req[p].on \in Mail
        /\ \/ seen.status \notin Blocked /\ Goto(p, "login")
           \/ seen.status = "DEACTIVATED" /\ ~ PastGrace(seen) /\ Decide(p, "revive")
           \/ seen.status = "SUSPENDED" /\ Return(p)
           \/ seen.status = "DEACTIVATED" /\ PastGrace(seen) /\ Return(p)
  /\ UNCHANGED <<row, access, session, now, crashes, audited>>

(* verifyPhone on LOCKED: back to UNVERIFIED.                                *)
LockOut(p) ==
  /\ At(p, "lockout")
  /\ Write(p, LockedOut(row[req[p].user]))
  /\ Return(p)
  /\ UNCHANGED <<code, access, session, now, crashes, audited>>

(* verifyPhone on OK.                                                        *)
Activate(p) ==
  /\ At(p, "activate")
  /\ Write(p, Activated(row[req[p].user]))
  /\ Goto(p, "login")
  /\ UNCHANGED <<code, access, session, now, crashes, audited>>

(* verifyEmail for an account deactivated within the grace.                  *)
Revive(p) ==
  /\ At(p, "revive")
  /\ Write(p, Revived(row[req[p].user]))
  /\ Goto(p, "login")
  /\ UNCHANGED <<code, access, session, now, crashes, audited>>

(* oauthLogin finds an account that may log in, ...                          *)
OAuthLogin(p, u, i) ==
  /\ i \in OAuth \cap row[u].ids
  /\ row[u].status \notin Blocked
  /\ Begin(p, Unseen("login", u))
  /\ UNCHANGED <<row, code, access, session, now, crashes, audited>>

(* ... or inserts one: born ACTIVE, with the address that the provider or    *)
(* the body gives, if any, and what the provider says of an address, if any. *)
OAuthRegister(p, u, i) ==
  /\ row[u].status = "none" /\ Free(i)
  /\ \E v \in BOOLEAN : \/ row' = [row EXCEPT ![u] = Joined({i}, v)]
                        \/ \E m \in Mail : row' = [row EXCEPT ![u] = Joined({i, m}, v)]
  /\ Begin(p, Unseen("login", u))
  /\ UNCHANGED <<code, access, session, now, crashes, audited>>

(* AuthService.issueSession.                                                 *)
Login(p) ==
  /\ At(p, "login")
  /\ session' = session \cup {req[p].user}
  /\ access' = access \cup {req[p].user}
  /\ Return(p)
  /\ UNCHANGED <<row, code, now, crashes, audited>>

(* AuthService.refresh re-reads the account; see RefreshTokens.              *)
Refresh(u) ==
  /\ u \in session
  /\ \/ /\ row[u].active /\ row[u].status \notin Blocked
        /\ access' = access \cup {u}
        /\ UNCHANGED session
     \/ /\ ~ row[u].active \/ row[u].status \in Blocked
        /\ session' = session \ {u}
        /\ UNCHANGED access
  /\ UNCHANGED <<row, code, req, now, crashes, audited>>

-----------------------------------------------------------------------------
(* deactivateMe, from ACTIVE or VERIFIED; eraseMe, from any status that is   *)
(* not blocked.  An access token is all either asks for.                     *)
AskDeactivate(p, u) ==
  /\ u \in access
  /\ row[u].status \notin Blocked
  /\ Load(p, "deactivate", u, Null)
  /\ UNCHANGED <<row, code, access, session, now, crashes, audited>>

Deactivate(p) ==
  /\ At(p, "deactivate")
  /\ Write(p, Deactivated(row[req[p].user]))
  /\ Goto(p, "logout")
  /\ UNCHANGED <<code, access, session, now, crashes, audited>>

(* reactivateMe: deactivated, and the grace has not elapsed.                 *)
AskReactivate(p, u) ==
  /\ u \in access
  /\ row[u].status = "DEACTIVATED" /\ ~ PastGrace(row[u])
  /\ Load(p, "reactivate", u, Null)
  /\ UNCHANGED <<row, code, access, session, now, crashes, audited>>

Reactivate(p) ==
  /\ At(p, "reactivate")
  /\ Write(p, Revived(row[req[p].user]))
  /\ Return(p)
  /\ UNCHANGED <<code, access, session, now, crashes, audited>>

(* updateMe may set the address, or clear it with a null; email_verified is  *)
(* left as it is.                                                            *)
AskUpdate(p, u, i) ==
  /\ u \in access
  /\ Load(p, "update", u, i)
  /\ UNCHANGED <<row, code, access, session, now, crashes, audited>>

Update(p) ==
  LET r == row[req[p].user] IN
  /\ At(p, "update")
  /\ Write(p, Identified(r, (r.ids \ Mail) \cup ({req[p].on} \ {Null})))
  /\ Return(p)
  /\ UNCHANGED <<code, access, session, now, crashes, audited>>

(* AdminUserService.rebind: a new phone, or a provider id set or cleared.    *)
AskRebind(p, u, i) ==
  /\ row[u].status # "none" /\ i \in Phone \cup OAuth
  /\ Load(p, "rebind", u, i)
  /\ UNCHANGED <<row, code, access, session, now, crashes, audited>>

(* A unique index refuses an identifier another account has.                 *)
Rebind(p) ==
  LET i == req[p].on
      r == row[req[p].user]
      kind == IF i \in Phone THEN Phone ELSE OAuth IN
  /\ At(p, "rebind")
  /\ \/ /\ Free(i) \/ i \in r.ids
        /\ Write(p, Identified(r, (r.ids \ kind) \cup {i}))
        /\ Goto(p, "logout")
     \/ /\ i \in OAuth
        /\ Write(p, Identified(r, r.ids \ OAuth))
        /\ Goto(p, "logout")
     \/ /\ ~ Free(i) /\ i \notin r.ids
        /\ Return(p)
        /\ UNCHANGED row
  /\ UNCHANGED <<code, access, session, now, crashes, audited>>

(* AdminUserService.setRole: the role is not modelled, the revocation is.    *)
SetRole(p, u) ==
  /\ row[u].status # "none"
  /\ Begin(p, Unseen("logout", u))
  /\ UNCHANGED <<row, code, access, session, now, crashes, audited>>

(* AdminUserService.erase: eraseUser refuses a row it loaded as erased.      *)
AskErase(p, u) ==
  /\ p \in Proc
  /\ row[u].status # "none" /\ ~ row[u].erased
  /\ Load(p, "erase", u, Null)
  /\ UNCHANGED <<row, code, access, session, now, crashes, audited>>

(* RetentionService.eraseDeactivatedPastGrace selects an account; nothing    *)
(* looks at the row again before it is erased.                               *)
SelectOverdue(w, u) ==
  /\ w \in Worker
  /\ Overdue(row[u])
  /\ Load(w, "erase", u, Null)
  /\ UNCHANGED <<row, code, access, session, now, crashes, audited>>

(* eraseUser's transaction; the worker's also revokes the sessions.          *)
Erase(p) ==
  LET u == req[p].user IN
  /\ At(p, "erase")
  /\ Write(p, Anonymised(row[u], req[p].seen.since))
  /\ \/ p \in Worker /\ session' = session \ {u} /\ Goto(p, "audit")
     \/ p \in Proc /\ Goto(p, "revoke") /\ UNCHANGED session
  /\ UNCHANGED <<code, access, now, crashes, audited>>

LogoutOnly(p) ==  \* seeded fault
  /\ session' = session \ {req[p].user}
  /\ At(p, "logout") \/ At(p, "revoke")
  /\ Return(p)
  /\ UNCHANGED <<row, code, access, now, crashes, audited>>

(* AuthService.logout without a token; eraseUser goes on to the audit.       *)
Logout(p) ==
  /\ session' = session \ {req[p].user}
  /\ \/ At(p, "logout") /\ Return(p)
     \/ At(p, "revoke") /\ Goto(p, "audit")
  /\ UNCHANGED <<row, code, access, now, crashes, audited>>

AuditErased(p) ==
  /\ At(p, "audit")
  /\ audited' = audited \cup {req[p].user}
  /\ Return(p)
  /\ UNCHANGED <<row, code, access, session, now, crashes>>

-----------------------------------------------------------------------------
(* Moderation is not in the backend yet: an operator sets the status.        *)
Suspend(u) ==
  /\ row[u].status = "ACTIVE"
  /\ row' = [row EXCEPT ![u].status = "SUSPENDED"]
  /\ UNCHANGED <<code, access, session, req, now, crashes, audited>>

Reinstate(u) ==
  /\ row[u].status = "SUSPENDED"
  /\ row' = [row EXCEPT ![u].status = "ACTIVE"]
  /\ UNCHANGED <<code, access, session, req, now, crashes, audited>>

(* The process dies, or an await throws, between two steps.                  *)
Crash(p) ==
  /\ ~ At(p, "idle")
  /\ crashes < MaxCrashes
  /\ crashes' = crashes + 1
  /\ Return(p)
  /\ UNCHANGED <<row, code, access, session, now, audited>>

(* A unit of time (days) outlives every access token and every OTP.          *)
Tick ==
  /\ now < MaxTime
  /\ now' = now + 1
  /\ access' = {} /\ code' = {}
  /\ UNCHANGED <<row, session, req, crashes, audited>>

Step(p) ==
  \/ IssueCode(p) \/ CheckCode(p) \/ ClearCode(p) \/ LockOut(p) \/ Activate(p) \/ Revive(p)
  \/ Login(p) \/ Deactivate(p) \/ Reactivate(p) \/ Update(p) \/ Rebind(p)
  \/ Erase(p) \/ Logout(p) \/ AuditErased(p)

Ask(p, u) ==
  \/ AskDeactivate(p, u) \/ AskReactivate(p, u) \/ AskErase(p, u) \/ SetRole(p, u)
  \/ \E i \in Ident : \/ AskCode(p, u, i) \/ VerifyPhone(p, u, i) \/ VerifyEmail(p, u, i)
                       \/ AskRebind(p, u, i)
  \/ \E i \in Mail \cup {Null} : AskUpdate(p, u, i)
  \/ \E i \in Phone : RegisterPhone(p, u, i)
  \/ \E i \in OAuth : OAuthLogin(p, u, i) \/ OAuthRegister(p, u, i)

Next ==
  \/ \E p \in Handler : Step(p) \/ Crash(p)
  \/ \E p \in Proc, u \in User : Ask(p, u)
  \/ \E w \in Worker, u \in User : SelectOverdue(w, u)
  \/ \E u \in User : Refresh(u) \/ Suspend(u) \/ Reinstate(u)
  \/ Tick

(* Handlers that have begun go on, and the hourly job keeps selecting.       *)
Fairness ==
  /\ \A p \in Handler : WF_vars(Step(p))
  /\ \A w \in Worker, u \in User : WF_vars(SelectOverdue(w, u))

Spec == Init /\ [][Next]_vars
FairSpec == Spec /\ Fairness
-----------------------------------------------------------------------------
(* A deactivated account carries its date and is not active: without the    *)
(* date the retention job would never select it, and the listings cascade   *)
(* would not fire.  Every handler that writes one column must keep the      *)
(* other two in step.                                                       *)
DeactivatedIsDated ==
  \A u \in User : row[u].status = "DEACTIVATED" => row[u].since # Null /\ ~ row[u].active

(* The transitions the documents allow: docs/specs/statemachines/           *)
(* user_state_machine.md with VERIFIED collapsed into ACTIVE, and the       *)
(* recoverable grace of docs/specs/01-identity-domain.md:115-117.  An owner *)
(* does not deactivate a way out of a suspension; only an erasure does.     *)
Legal(r, s) ==
  \/ s.status = r.status
  \/ s.status = "DEACTIVATED" /\ (r.status = "SUSPENDED" => s.erased)
  \/ r.status = "none" /\ s.status \in {"PENDING_VERIFICATION", "ACTIVE"}
  \/ r.status \in {"UNVERIFIED", "PENDING_VERIFICATION"} /\ s.status \in {"UNVERIFIED", "ACTIVE"}
  \/ r.status = "ACTIVE" /\ s.status = "SUSPENDED"
  \/ r.status = "SUSPENDED" /\ s.status = "ACTIVE" /\ UNCHANGED req  \* an operator
  \/ r.status = "DEACTIVATED" /\ s.status = "ACTIVE"

(* A handler writes over a row that has changed since it was loaded.        *)
Lost(p, u) == req[p].user = u /\ req[p].seen.status # row[u].status

(* Whatever the interleaving, an account leaves the documented state        *)
(* machine only in a lost race: a handler whose snapshot is still current   *)
(* makes legal transitions only.                                            *)
IllegalOnlyByLostRace ==
  [][\A u \in User : Legal(row[u], row'[u])
       \/ \E p \in Handler : Lost(p, u) /\ req'[p] # req[p]]_vars

(* The ways into an account without a session: to verify its phone for the  *)
(* first time, a provider, a recovery by e-mail.                            *)
WayIn(r) ==
  \/ r.status = "none"
  \/ r.status \in {"UNVERIFIED", "PENDING_VERIFICATION"} /\ r.ids \cap Phone # {}
  \/ r.status # "DEACTIVATED" /\ r.ids \cap OAuth # {}
  \/ r.verified /\ ~ r.erased /\ r.ids \cap Mail # {}

OutOfReach(u) ==
  /\ ~ WayIn(row[u]) /\ u \notin access \cup session
  /\ \A p \in Handler : req[p].user = u =>
       req[p].pc \in {"issue", "erase", "logout", "revoke", "audit", "rebind"}

(* Who has no way in, no token and no request under way stays out: an        *)
(* erasure, or a deactivation nothing can revive, is final from then on, and *)
(* an account with nothing but a verified phone, once logged out, is given   *)
(* another way in by an administrator's rebind and by nothing else.          *)
OutOfReachStays ==
  [][\A u \in User : OutOfReach(u) =>
       \/ OutOfReach(u)'
       \/ \E p \in Handler : Rebind(p) /\ req[p].user = u /\ row[u].status # "DEACTIVATED"]_vars

(* The retention job gets to every account that stays deactivated past the  *)
(* retention grace.                                                         *)
OverdueIsErased == \A u \in User : Overdue(row[u]) ~> ~ Overdue(row[u])

(* Every erasure gets its user.erased row in audit_log, or a process died:   *)
(* the row is written after the transaction, and an erased account is       *)
(* skipped by whoever tries again.                                          *)
ErasureIsAudited ==
  \A u \in User : row[u].erased ~> u \in audited \/ crashes > 0

-----------------------------------------------------------------------------
(* What the repository says and the code does not keep.                     *)

(* identity.service.ts:131-132: "never re-activate an already-active/       *)
(* suspended/deactivated account via a stale OTP (race-safety)".            *)
StaleOtpNeverReactivates ==
  [][\A p \in Proc : Activate(p) => row[req[p].user].status \in AwaitingVerification]_vars
=============================================================================
