--------------------------- MODULE RefreshTokens ---------------------------
(***************************************************************************)
(* The refresh-token table and the request handlers that work on it:       *)
(* RefreshTokenService (issue, rotate, revoke, evict), AuthService         *)
(* (refresh, logout) and the account changes that revoke every session.    *)
(*                                                                         *)
(* A handler is a chain of awaits.  Every await on the database is one     *)
(* action here, so two handlers interleave wherever the code awaits.  The  *)
(* row id doubles as issued_at: rows are numbered in the order they are    *)
(* inserted.  A family is named by the row that founded it, which is what  *)
(* a fresh randomUUID() amounts to.                                        *)
(***************************************************************************)
EXTENDS Naturals, Sequences, FiniteSets

CONSTANTS
  User,         \* account ids
  NoUser,       \* the user field of an idle handler
  Proc,         \* concurrent request handlers
  MaxTokens,    \* bound on the rows inserted
  MaxFamilies   \* MAX_ACTIVE_FAMILIES

ASSUME ConstantsAssumption ==
  /\ NoUser \notin User
  /\ MaxTokens \in Nat
  /\ MaxFamilies \in Nat \ {0}
  /\ IsFiniteSet(Proc)

VARIABLES
  rows,     \* refresh_tokens: owner, family and rotated_from (0 for NULL)
  revoked,  \* the rows whose revoked_at is set
  lapsed,   \* rows 1..lapsed are past expires_at
  held,     \* rows whose secret some client has received
  account,  \* "usable", or "blocked": not is_active or BLOCKED_STATUSES
  req,      \* the local state of each handler
  closed,   \* history: families some statement revoked as a whole
  stale,    \* history: families where a rotation used up an already revoked row
  swept     \* history: blocked users revoked as a whole since they were blocked

vars == <<rows, revoked, lapsed, held, account, req, closed, stale, swept>>

Token == 1..MaxTokens
Issued == 1..Len(rows)
Row == [owner : User, family : Token, parent : 0..MaxTokens]
Request ==
  [pc : {"idle", "scan", "evict", "rotate", "recheck", "burn", "sweep"},
   user : User \cup {NoUser}, tok : 0..MaxTokens, evict : SUBSET Token]

Serving(pc, u, t) == [pc |-> pc, user |-> u, tok |-> t, evict |-> {}]
Idle == Serving("idle", NoUser, 0)

TypeOK ==
  /\ rows \in Seq(Row) /\ Len(rows) <= MaxTokens
  /\ revoked \subseteq Issued
  /\ lapsed \in 0..Len(rows)
  /\ held \subseteq Issued
  /\ account \in [User -> {"usable", "blocked"}]
  /\ req \in [Proc -> Request]
  /\ closed \subseteq Token
  /\ stale \subseteq Token
  /\ swept \subseteq User

Init ==
  /\ rows = <<>>
  /\ revoked = {} /\ lapsed = 0 /\ held = {}
  /\ account = [u \in User |-> "usable"]
  /\ req = [p \in Proc |-> Idle]
  /\ closed = {} /\ stale = {} /\ swept = {}

-----------------------------------------------------------------------------
Live == Issued \ revoked
LiveOf(u) == {t \in Live : rows[t].owner = u}
FamilyOf(f) == {t \in Issued : rows[t].family = f}
OwnedBy(u) == {t \in Issued : rows[t].owner = u}

(* Login flows and refresh refuse an account that is not active. *)
AlwaysUsable(u) == TRUE  \* seeded fault
Usable(u) == account[u] = "usable"

(* findMany(... distinct family_id, order by issued_at): the first live row *)
(* of every family the user still has.                                      *)
ActiveFamilies(u) ==
  {t \in LiveOf(u) : \A s \in LiveOf(u) : rows[s].family = rows[t].family => t <= s}

(* Seeded fault: a cap that is off by one. *)
OverCapOffByOne(u) ==
  LET F == ActiveFamilies(u)
  IN  {t \in F : Cardinality({s \in F : s < t}) + MaxFamilies < Cardinality(F)}

(* The first length - (MAX_ACTIVE_FAMILIES - 1) of them. *)
OverCap(u) ==
  LET F == ActiveFamilies(u)
  IN  {t \in F : Cardinality({s \in F : s < t}) + (MaxFamilies - 1) < Cardinality(F)}

(* Seeded fault: only the founding row of the family is revoked. *)
RevokeFounder(f) ==
  /\ revoked' = revoked \cup {f}
  /\ closed' = closed \cup {f}

(* revokeFamily: one UPDATE over the family's unrevoked rows. *)
RevokeFamily(f) ==
  /\ revoked' = revoked \cup FamilyOf(f)
  /\ closed' = closed \cup {f}

(* The first half of rotate's transaction: an UPDATE by id. *)
RevokeNoRow(t) == revoked' = revoked  \* seeded fault
RevokeRow(t) == revoked' = revoked \cup {t}

(* revokeAllForUser: one UPDATE over the user's unrevoked rows. *)
RevokeAllForUser(u) ==
  /\ revoked' = revoked \cup OwnedBy(u)
  /\ closed' = closed \cup {rows[t].family : t \in OwnedBy(u)}
  /\ swept' = IF account[u] = "blocked" THEN swept \cup {u} ELSE swept

Begin(p, r) == req[p] = Idle /\ req' = [req EXCEPT ![p] = r]
At(p, pc) == req[p].pc = pc
Return(p) == req' = [req EXCEPT ![p] = Idle]

-----------------------------------------------------------------------------
(* A login flow has found the account usable and calls issueSession. *)
Login(p, u) ==
  /\ Usable(u)
  /\ Begin(p, Serving("scan", u, 0))
  /\ UNCHANGED <<rows, revoked, lapsed, held, account, closed, stale, swept>>

(* evictOldestIfOverCap reads the families ... *)
Scan(p) ==
  /\ At(p, "scan")
  /\ req' = [req EXCEPT ![p].pc = "evict", ![p].evict = OverCap(req[p].user)]
  /\ UNCHANGED <<rows, revoked, lapsed, held, account, closed, stale, swept>>

(* ... and revokes those over the cap one by one, the oldest first. *)
Evict(p) ==
  /\ At(p, "evict")
  /\ \E t \in req[p].evict :
       /\ \A s \in req[p].evict : t <= s
       /\ RevokeFamily(rows[t].family)
       /\ req' = [req EXCEPT ![p].evict = @ \ {t}]
  /\ UNCHANGED <<rows, lapsed, held, account, stale, swept>>

(* issue: the first row of a new family; its secret is the response. *)
Create(p) ==
  LET t == Len(rows) + 1 IN
  /\ At(p, "evict") /\ req[p].evict = {}
  /\ t <= MaxTokens
  /\ rows' = Append(rows, [owner |-> req[p].user, family |-> t, parent |-> 0])
  /\ held' = held \cup {t}
  /\ Return(p)
  /\ UNCHANGED <<revoked, lapsed, account, closed, stale, swept>>

(* rotate reads the presented row: revoked comes before expired, and an    *)
(* expired row changes nothing.                                            *)
Present(p, t) ==
  /\ t \in held
  /\ \/ t \in revoked /\ Begin(p, Serving("burn", NoUser, t))
     \/ t \notin revoked /\ t > lapsed /\ Begin(p, Serving("rotate", NoUser, t))
  /\ UNCHANGED <<rows, revoked, lapsed, held, account, closed, stale, swept>>

(* rotate's transaction: it revokes the row it read by id alone and inserts *)
(* the successor.                                                           *)
Rotate(p) ==
  LET old == req[p].tok
      new == Len(rows) + 1
      f == rows[old].family IN
  /\ At(p, "rotate")
  /\ new <= MaxTokens
  /\ rows' = Append(rows, [owner |-> rows[old].owner, family |-> f, parent |-> old])
  /\ RevokeRow(old)
  /\ stale' = IF old \in revoked THEN stale \cup {f} ELSE stale
  /\ req' = [req EXCEPT ![p] = Serving("recheck", NoUser, new)]
  /\ UNCHANGED <<lapsed, held, account, closed, swept>>

(* AuthService.refresh looks at the account again: it hands the successor   *)
(* out or burns the family.                                                 *)
Recheck(p) ==
  LET t == req[p].tok IN
  /\ At(p, "recheck")
  /\ \/ /\ Usable(rows[t].owner)
        /\ held' = held \cup {t}
        /\ Return(p)
     \/ /\ ~ Usable(rows[t].owner)
        /\ req' = [req EXCEPT ![p] = Serving("burn", NoUser, t)]
        /\ UNCHANGED held
  /\ UNCHANGED <<rows, revoked, lapsed, account, closed, stale, swept>>

(* revokeFamily after a reuse, a blocked refresh or a logout by token. *)
Burn(p) ==
  /\ At(p, "burn")
  /\ RevokeFamily(rows[req[p].tok].family)
  /\ Return(p)
  /\ UNCHANGED <<rows, lapsed, held, account, stale, swept>>

(* logout with a token: revokeByToken looks the family up. *)
LogoutToken(p, t) ==
  /\ t \in held
  /\ Begin(p, Serving("burn", NoUser, t))
  /\ UNCHANGED <<rows, revoked, lapsed, held, account, closed, stale, swept>>

(* logout without a token, or setRole once it has written the new role. *)
LogoutAll(p, u) ==
  /\ Begin(p, Serving("sweep", u, 0))
  /\ UNCHANGED <<rows, revoked, lapsed, held, account, closed, stale, swept>>

(* deactivateMe, eraseMe, eraseUser: the status is written first. *)
Block(p, u) ==
  /\ account[u] = "usable"
  /\ account' = [account EXCEPT ![u] = "blocked"]
  /\ Begin(p, Serving("sweep", u, 0))
  /\ UNCHANGED <<rows, revoked, lapsed, held, closed, stale, swept>>

Sweep(p) ==
  /\ At(p, "sweep")
  /\ RevokeAllForUser(req[p].user)
  /\ Return(p)
  /\ UNCHANGED <<rows, lapsed, held, account, stale>>

(* reactivateMe or a verified recovery. *)
Reactivate(u) ==
  /\ account[u] = "blocked"
  /\ account' = [account EXCEPT ![u] = "usable"]
  /\ swept' = swept \ {u}
  /\ UNCHANGED <<rows, revoked, lapsed, held, req, closed, stale>>

(* A handler stops between two awaits: its process died or an await threw. *)
Crash(p) ==
  /\ ~ At(p, "idle")
  /\ Return(p)
  /\ UNCHANGED <<rows, revoked, lapsed, held, account, closed, stale, swept>>

(* Time passes; every row has the same lifetime. *)
Lapse ==
  /\ lapsed < Len(rows)
  /\ lapsed' = lapsed + 1
  /\ UNCHANGED <<rows, revoked, held, account, req, closed, stale, swept>>

Next ==
  \/ \E p \in Proc, u \in User : Login(p, u) \/ LogoutAll(p, u) \/ Block(p, u)
  \/ \E p \in Proc, t \in Token : Present(p, t) \/ LogoutToken(p, t)
  \/ \E p \in Proc : \/ Scan(p) \/ Evict(p) \/ Create(p) \/ Rotate(p)
                     \/ Recheck(p) \/ Burn(p) \/ Sweep(p) \/ Crash(p)
  \/ \E u \in User : Reactivate(u)
  \/ Lapse

Spec == Init /\ [][Next]_vars

-----------------------------------------------------------------------------
(* A family has one usable secret at a time, as long as no rotation in it   *)
(* consumed a row that had been revoked since the rotation read it.         *)
OneLivePerFamily ==
  \A s, t \in Live :
    rows[s].family = rows[t].family /\ rows[s].family \notin stale => s = t

(* A family revoked as a whole - reuse, eviction, logout, role or status    *)
(* change - never has a usable row again, with the same exception: the      *)
(* unconditional UPDATE in rotate is the only way back in.                  *)
ClosedIsFinal == \A t \in Live : rows[t].family \in closed => rows[t].family \in stale

(* Once a blocked account has been swept, a usable secret that a client     *)
(* holds can only come from a login that was past its status check: the     *)
(* recheck in AuthService.refresh lets no refresh in flight through.        *)
BlockedSessionsAreLogins ==
  \A u \in swept : \A t \in LiveOf(u) \cap held : rows[t].parent = 0

(* Logins of one user race between the scan and the insert, so the cap can  *)
(* be overrun, by at most one family per other handler; a family that a     *)
(* stale rotation brought back is not counted.                              *)
CapUnderConcurrency ==
  \A u \in User :
    Cardinality({t \in ActiveFamilies(u) : rows[t].family \notin stale})
      <= (MaxFamilies - 1) + Cardinality(Proc)

=============================================================================
