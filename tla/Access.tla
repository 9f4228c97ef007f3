------------------------------- MODULE Access -------------------------------
(***************************************************************************)
(* Roles: the column of users, the access tokens that carry a copy of it,  *)
(* the guards that trust the copy, and AdminUserService.setRole, which     *)
(* changes the column.  An access token cannot be revoked; a session can,  *)
(* and is used to get another access token (RefreshTokens has its rows).   *)
(* Whether an account is blocked is left to Accounts.                      *)
(***************************************************************************)
EXTENDS Roles, Integers, Sequences

CONSTANTS
  User,
  Admin,        \* the users who are ADMIN to begin with
  Input,        \* what the body of a role change may name
  Proc,         \* requests
  TTL,          \* JWT_ACCESS_TTL
  MaxFlight,    \* the longest that a request is under way
  MaxSessions,  \* bound on the sessions
  Ending,       \* bound: the sessions that anything but a role change ends
  MaxChanges,   \* bound on the role changes
  MaxTime       \* bound on the clock

ASSUME ConstantsAssumption ==
  /\ Admin \subseteq User
  /\ {"ADMIN", "USER"} \subseteq Role
  /\ Role \subseteq Input
  /\ Role \subseteq UserTier \cup {"ADMIN", "MODERATOR"}
  /\ TTL \in Nat \ {0} /\ MaxFlight \in Nat
  /\ Ending \subseteq Nat /\ MaxSessions \in Nat /\ MaxChanges \in Nat /\ MaxTime \in Nat

VARIABLES
  hist,     \* the roles each user has had, the last of which is the column
  session,  \* the families of refresh tokens, in the order of their issue
  token,    \* access tokens that are not expired
  audit,    \* the role changes in audit_log
  task,     \* the request each handler works on
  now

accesses == <<hist, session, token, audit, task, now>>

Idle == [pc |-> "idle"]
LoginRequest == [pc : {"issue"}, user : User, role : Role, since : Nat]
RefreshRequest == [pc : {"rotate", "recheck", "sign"}, s : Nat, role : Role, since : Nat]
ChangeRequest == [pc : {"load", "write", "sweep", "audit"}, user : User, role : Role,
                  by : User, n : Nat, since : Nat]

AccessTypeOK ==
  /\ hist \in [User -> Seq([role : Role, at : Nat, by : User])]
  /\ session \in Seq([user : User, born : Nat, live : BOOLEAN, stale : BOOLEAN])
  /\ token \subseteq [user : User, role : Role, exp : Nat]
  /\ audit \subseteq User \X Nat
  /\ task \in [Proc -> LoginRequest \cup RefreshRequest \cup ChangeRequest \cup {Idle}]
  /\ now \in Nat

AccessInit ==
  /\ hist = [u \in User |-> <<[role |-> IF u \in Admin THEN "ADMIN" ELSE "USER", at |-> 0, by |-> u]>>]
  /\ session = <<>> /\ token = {} /\ audit = {}
  /\ task = [p \in Proc |-> Idle]
  /\ now = 0

-----------------------------------------------------------------------------
At(p, pc) == task[p].pc = pc
Put(p, r) == task' = [task EXCEPT ![p] = r]
Version(u) == Len(hist[u])
RoleOf(u) == hist[u][Version(u)].role

(* The token is good until its expiry, whatever has become of the account.   *)
Usable(t, at) == at < t.exp

Sign(u, r) == token' = token \cup {[user |-> u, role |-> r, exp |-> now + TTL]}

Authenticated(t) == Usable(t, now)
Admitted(t, required) == Authenticated(t) /\ (required = {} \/ \E r \in required : RoleSatisfies(t.role, r))

-----------------------------------------------------------------------------
(* A login (OTP, OAuth, recovery, dev-token) has the row, and issues a       *)
(* session before it signs.  born (the user's version at the issue) is history. *)
Load(p, u) ==
  /\ At(p, "idle") /\ Len(session) < MaxSessions
  /\ Put(p, [pc |-> "issue", user |-> u, role |-> RoleOf(u), since |-> now])
  /\ UNCHANGED <<hist, session, token, audit, now>>

OpenSession(p) ==
  LET u == task[p].user IN
  /\ At(p, "issue") /\ Len(session) < MaxSessions
  /\ session' = Append(session, [user |-> u, born |-> Version(u), live |-> TRUE, stale |-> FALSE])
  /\ Sign(u, task[p].role)
  /\ Put(p, Idle)
  /\ UNCHANGED <<hist, audit, now>>

(* A refresh: rotate's read and its transaction, which writes by id and so   *)
(* makes a revoked family usable again (stale); then the account is read,    *)
(* and a token is signed with the role it has.                               *)
Refreshing(p, pc, s, r) == Put(p, [pc |-> pc, s |-> s, role |-> r, since |-> task[p].since])

Present(p, s) ==
  /\ At(p, "idle") /\ session[s].live
  /\ Put(p, [pc |-> "rotate", s |-> s, role |-> "USER", since |-> now])
  /\ UNCHANGED <<hist, session, token, audit, now>>

Rotate(p) ==
  LET s == task[p].s
      f == session[s] IN
  /\ At(p, "rotate")
  /\ session' = [session EXCEPT ![s] = [f EXCEPT !.stale = f.stale \/ ~ f.live, !.live = TRUE]]
  /\ Refreshing(p, "recheck", s, "USER")
  /\ UNCHANGED <<hist, token, audit, now>>

Recheck(p) ==
  LET s == task[p].s IN
  /\ At(p, "recheck")
  /\ Refreshing(p, "sign", s, RoleOf(session[s].user))
  /\ UNCHANGED <<hist, session, token, audit, now>>

SignRefreshed(p) ==
  /\ At(p, "sign")
  /\ Sign(session[task[p].s].user, task[p].role)
  /\ Put(p, Idle)
  /\ UNCHANGED <<hist, session, audit, now>>

(* Logout, reuse, eviction, or a blocked account ends a session.             *)
Revoke(s) ==
  /\ s \in Ending /\ session[s].live
  /\ session' = [session EXCEPT ![s].live = FALSE]
  /\ UNCHANGED <<hist, token, audit, task, now>>

-----------------------------------------------------------------------------
(* setRole, behind @Roles('ADMIN'); the versions n of a user's role are      *)
(* history.  A role that is there already ends the request, so a retry after *)
(* a failure does not revoke what the first attempt has left.                *)
Changing(p, pc, n) ==
  LET r == task[p] IN
  Put(p, [pc |-> pc, user |-> r.user, role |-> r.role, by |-> r.by, n |-> n, since |-> r.since])

AskUnchecked(p, t, u, r) ==  \* seeded fault
  /\ At(p, "idle") /\ Admitted(t, {"ADMIN"}) /\ Version(u) <= MaxChanges
  /\ Put(p, [pc |-> "load", user |-> u, role |-> r, by |-> t.user, n |-> 0, since |-> now])
  /\ UNCHANGED <<hist, session, token, audit, now>>
AskSetRole(p, t, u, r) ==
  /\ r \in Role
  /\ At(p, "idle") /\ Admitted(t, {"ADMIN"}) /\ Version(u) <= MaxChanges
  /\ Put(p, [pc |-> "load", user |-> u, role |-> r, by |-> t.user, n |-> 0, since |-> now])
  /\ UNCHANGED <<hist, session, token, audit, now>>

Swept(u) == [s \in 1..Len(session) |->
  IF session[s].user = u THEN [session[s] EXCEPT !.live = FALSE] ELSE session[s]]

ReadTarget(p) ==
  LET r == task[p] IN
  /\ At(p, "load")
  /\ IF RoleOf(r.user) = r.role THEN Put(p, Idle) ELSE Changing(p, "write", 0)
  /\ UNCHANGED <<hist, session, token, audit, now>>

UpdateRole(p) ==
  LET r == task[p] IN
  /\ At(p, "write") /\ Version(r.user) <= MaxChanges
  /\ hist' = [hist EXCEPT ![r.user] = Append(@, [role |-> r.role, at |-> now, by |-> r.by])]
  /\ Changing(p, "sweep", Version(r.user) + 1)
  /\ UNCHANGED <<session, token, audit, now>>

SweepActor(p) ==  \* seeded fault
  /\ At(p, "sweep")
  /\ session' = Swept(task[p].by)
  /\ Changing(p, "audit", task[p].n)
  /\ UNCHANGED <<hist, token, audit, now>>
Sweep(p) ==
  /\ At(p, "sweep")
  /\ session' = Swept(task[p].user)
  /\ Changing(p, "audit", task[p].n)
  /\ UNCHANGED <<hist, token, audit, now>>

Record(p) ==
  /\ At(p, "audit")
  /\ audit' = audit \cup {<<task[p].user, task[p].n>>}
  /\ Put(p, Idle)
  /\ UNCHANGED <<hist, session, token, now>>

-----------------------------------------------------------------------------
(* A statement fails, or the process dies: what was written stays.           *)
Fail(p) ==
  /\ task[p] # Idle
  /\ Put(p, Idle)
  /\ UNCHANGED <<hist, session, token, audit, now>>

Tick ==
  /\ now < MaxTime
  /\ \A p \in Proc : task[p] # Idle => now - task[p].since < MaxFlight
  /\ now' = now + 1
  /\ token' = {t \in token : Usable(t, now + 1)}
  /\ UNCHANGED <<hist, session, audit, task>>

AccessNext ==
  \/ \E p \in Proc, u \in User : Load(p, u)
  \/ \E p \in Proc, s \in 1..Len(session) : Present(p, s)
  \/ \E p \in Proc, t \in token, u \in User, r \in Input : AskSetRole(p, t, u, r)
  \/ \E p \in Proc : OpenSession(p) \/ Rotate(p) \/ Recheck(p) \/ SignRefreshed(p)
  \/ \E p \in Proc : ReadTarget(p) \/ UpdateRole(p) \/ Sweep(p) \/ Record(p) \/ Fail(p)
  \/ \E s \in 1..Len(session) : Revoke(s)
  \/ Tick

AccessSpec == AccessInit /\ [][AccessNext]_accesses

-----------------------------------------------------------------------------
(* u had the role r at some time after t and not after t2.                   *)
HeldBetween(u, r, t, t2) ==
  \E k \in 1..Version(u) :
    /\ hist[u][k].role = r /\ hist[u][k].at <= t2
    /\ k = Version(u) \/ hist[u][k + 1].at > t

(* Every change of a role goes back to somebody who was ADMIN less than the  *)
(* life of a token and two requests (his login or refresh, and the change    *)
(* itself) before it, whatever others did to his role meanwhile.             *)
AuthorityIsRecent ==
  \A u \in User : \A n \in 2..Version(u) :
    LET h == hist[u][n] IN HeldBetween(h.by, "ADMIN", h.at - TTL - 2 * MaxFlight, h.at)

(* "revokes ALL refresh families": when a role change is on record, no       *)
(* session from before it can be refreshed, except through a rotation that   *)
(* read its token before the revocation and wrote after it.                  *)
RecordedIsSwept ==
  \A e \in audit : \A s \in 1..Len(session) :
    LET f == session[s] IN f.user = e[1] /\ f.live /\ f.born < e[2] => f.stale
=============================================================================
