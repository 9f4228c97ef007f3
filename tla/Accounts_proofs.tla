--------------------------- MODULE Accounts_proofs ---------------------------
(***************************************************************************)
(* Proofs about Accounts, for any users, identifiers, handlers and bounds: *)
(* the type invariant, that a deactivated account is dated, that an        *)
(* account leaves the documented state machine only in a lost race, and    *)
(* that an account out of reach stays so.                                  *)
(***************************************************************************)
EXTENDS Accounts, TLAPS

(* What a handler may write depends on the status it loaded. *)
DecidedOn(p) ==
  LET r == req[p] IN
  /\ r.pc # "idle" => r.user \in User
  /\ r.pc \in {"otp", "clear"} => r.on \in Phone \cup Mail
  /\ r.pc \in {"otp", "clear"} /\ r.on \in Phone => r.seen.status \in AwaitingVerification
  /\ r.pc \in {"lockout", "activate"} => r.seen.status \in AwaitingVerification
  /\ r.pc \in {"revive", "reactivate"} => r.seen.status = "DEACTIVATED"
  /\ r.pc = "deactivate" => r.seen.status # "SUSPENDED"
  /\ r.pc = "issue" => r.on \in Phone \cup Mail
  /\ r.pc = "update" => r.on \in Mail \cup {Null}
  /\ r.pc = "rebind" => r.on \in Phone \cup OAuth

IInv == TypeOK /\ DeactivatedIsDated /\ \A p \in Handler : DecidedOn(p)

-----------------------------------------------------------------------------
(* The records a handler's state can be, and what each UPDATE yields. *)
LEMMA ServingType ==
  ASSUME NEW pc \in Pc, NEW u \in User \cup {Nobody}, NEW s \in Seen,
         NEW i \in Ident \cup {Null}
  PROVE  /\ Serving(pc, u, s, i) \in Request
         /\ Serving(pc, u, s, i).pc = pc /\ Serving(pc, u, s, i).user = u
         /\ Serving(pc, u, s, i).seen = s /\ Serving(pc, u, s, i).on = i
  BY DEF Serving, Request

LEMMA SeenType ==
  ASSUME NEW r \in Row
  PROVE  SeenOf(r) \in Seen /\ SeenOf(r).status = r.status
  BY DEF SeenOf, Seen, Row

LEMMA AbsentType == Absent \in Row
  BY DEF Absent, RowOf, Row, Status

LEMMA IdleType == Idle \in Request /\ Idle.pc = "idle"
  <1>1. SeenOf(Absent) \in Seen
    BY AbsentType, SeenType
  <1>2. "idle" \in Pc
    BY DEF Pc
  <1> QED
    BY <1>1, <1>2, ServingType DEF Idle

LEMMA WriteTypes ==
  ASSUME NEW r \in Row, now \in Time
  PROVE  /\ Activated(r) \in Row /\ LockedOut(r) \in Row /\ Revived(r) \in Row
         /\ Deactivated(r) \in Row
         /\ \A s \in Time \cup {Null} : Anonymised(r, s) \in Row
         /\ \A I \in SUBSET Ident : Identified(r, I) \in Row
  BY DEF Identified, RowOf, Activated, LockedOut, Revived, Deactivated, Anonymised, Row, Status

(* A row whose date agrees with its status. *)
Dated(r) == r.status = "DEACTIVATED" => r.since # Null /\ ~ r.active

LEMMA NowIsNotNull ==
  ASSUME now \in Time
  PROVE  now # Null
  BY ConstantsAssumption DEF Time

LEMMA WriteDates ==
  ASSUME NEW r \in Row, now \in Time
  PROVE  /\ Dated(Activated(r)) /\ Dated(LockedOut(r)) /\ Dated(Revived(r))
         /\ Dated(Deactivated(r))
         /\ \A s \in Time \cup {Null} : Dated(Anonymised(r, s))
         /\ Dated(r) => \A I \in SUBSET Ident : Dated(Identified(r, I))
  BY NowIsNotNull
     DEF Dated, Identified, RowOf, Activated, LockedOut, Revived, Deactivated, Anonymised, Row, Status

-----------------------------------------------------------------------------
(* One handler moves to a state that satisfies its part of the invariant. *)
LEMMA HandlerStep ==
  ASSUME IInv, NEW p \in Handler, NEW r \in Request,
         req' = [req EXCEPT ![p] = r], UNCHANGED now,
         /\ r.pc # "idle" => r.user \in User
         /\ r.pc \in {"otp", "clear"} => r.on \in Phone \cup Mail
         /\ r.pc \in {"otp", "clear"} /\ r.on \in Phone => r.seen.status \in AwaitingVerification
         /\ r.pc \in {"lockout", "activate"} => r.seen.status \in AwaitingVerification
         /\ r.pc \in {"revive", "reactivate"} => r.seen.status = "DEACTIVATED"
         /\ r.pc = "deactivate" => r.seen.status # "SUSPENDED"
         /\ r.pc = "issue" => r.on \in Phone \cup Mail
         /\ r.pc = "update" => r.on \in Mail \cup {Null}
         /\ r.pc = "rebind" => r.on \in Phone \cup OAuth
  PROVE  req' \in [Handler -> Request] /\ \A q \in Handler : DecidedOn(q)'
  BY DEF IInv, TypeOK, DecidedOn, AwaitingVerification

LEMMA ReturnStep ==
  ASSUME IInv, NEW p \in Handler, Return(p), UNCHANGED now
  PROVE  req' \in [Handler -> Request] /\ \A q \in Handler : DecidedOn(q)'
  BY IdleType, HandlerStep DEF Return

LEMMA GotoStep ==
  ASSUME IInv, NEW p \in Handler, req[p].pc # "idle",
         NEW pc \in {"login", "logout", "revoke", "audit"}, Goto(p, pc), UNCHANGED now
  PROVE  req' \in [Handler -> Request] /\ \A q \in Handler : DecidedOn(q)'
  <1> DEFINE r == Unseen(pc, req[p].user)
  <1>1. req[p].user \in User
    BY DEF IInv, DecidedOn
  <1>2. SeenOf(Absent) \in Seen
    BY AbsentType, SeenType
  <1>3. r \in Request /\ r.pc = pc /\ r.user = req[p].user
    BY <1>1, <1>2, ServingType DEF Unseen, Pc
  <1>4. req' = [req EXCEPT ![p] = r]
    BY DEF Goto
  <1> HIDE DEF r
  <1> QED
    BY <1>1, <1>3, <1>4, HandlerStep

LEMMA DecideStep ==
  ASSUME IInv, NEW p \in Handler, req[p].pc # "idle", NEW pc \in Pc, Decide(p, pc), UNCHANGED now,
         pc \in {"clear", "lockout", "activate", "revive"},
         pc = "clear" => req[p].pc = "otp",
         pc \in {"lockout", "activate"} => req[p].on \in Phone /\ req[p].pc \in {"otp", "clear"},
         pc = "revive" => req[p].seen.status = "DEACTIVATED"
  PROVE  req' \in [Handler -> Request] /\ \A q \in Handler : DecidedOn(q)'
  <1> DEFINE r == Serving(pc, req[p].user, req[p].seen, req[p].on)
  <1>1. /\ req[p] \in Request /\ req[p].user \in User
        /\ req[p].pc \in {"otp", "clear"} => req[p].on \in Phone \cup Mail
        /\ req[p].pc \in {"otp", "clear"} /\ req[p].on \in Phone =>
             req[p].seen.status \in AwaitingVerification
    BY DEF IInv, TypeOK, DecidedOn
  <1>2. req[p].seen \in Seen /\ req[p].on \in Ident \cup {Null}
    BY <1>1 DEF Request
  <1>3. /\ r \in Request /\ r.pc = pc /\ r.user = req[p].user
        /\ r.seen = req[p].seen /\ r.on = req[p].on
    BY <1>1, <1>2, ServingType
  <1>4. req' = [req EXCEPT ![p] = r]
    BY DEF Decide
  <1> HIDE DEF r
  <1> QED
    BY <1>1, <1>3, <1>4, HandlerStep

LEMMA BeginUnseen ==
  ASSUME IInv, NEW p \in Handler, NEW u \in User, NEW pc \in {"login", "logout"},
         Begin(p, Unseen(pc, u)), UNCHANGED now
  PROVE  req' \in [Handler -> Request] /\ \A q \in Handler : DecidedOn(q)'
  <1> DEFINE r == Unseen(pc, u)
  <1>1. SeenOf(Absent) \in Seen
    BY AbsentType, SeenType
  <1>2. r \in Request /\ r.pc = pc /\ r.user = u
    BY <1>1, ServingType DEF Unseen, Pc
  <1>3. req' = [req EXCEPT ![p] = r]
    BY DEF Begin
  <1> HIDE DEF r
  <1> QED
    BY <1>2, <1>3, HandlerStep

LEMMA BeginSending ==
  ASSUME IInv, NEW p \in Handler, NEW u \in User, NEW i \in Phone \cup Mail,
         Begin(p, Sending(u, i)), UNCHANGED now
  PROVE  req' \in [Handler -> Request] /\ \A q \in Handler : DecidedOn(q)'
  <1> DEFINE r == Sending(u, i)
  <1>1. SeenOf(Absent) \in Seen
    BY AbsentType, SeenType
  <1>2. r \in Request /\ r.pc = "issue" /\ r.user = u /\ r.on = i
    BY <1>1, ServingType DEF Sending, Pc, Ident
  <1>3. req' = [req EXCEPT ![p] = r]
    BY DEF Begin
  <1> HIDE DEF r
  <1> QED
    BY <1>2, <1>3, HandlerStep

LEMMA LoadStep ==
  ASSUME IInv, NEW p \in Handler, NEW u \in User, NEW i \in Ident \cup {Null},
         NEW pc \in {"otp", "deactivate", "reactivate", "update", "rebind", "erase"},
         Load(p, pc, u, i), UNCHANGED now,
         pc = "otp" => i \in Phone \cup Mail,
         pc = "otp" /\ i \in Phone => row[u].status \in AwaitingVerification,
         pc = "reactivate" => row[u].status = "DEACTIVATED",
         pc = "deactivate" => row[u].status # "SUSPENDED",
         pc = "update" => i \in Mail \cup {Null},
         pc = "rebind" => i \in Phone \cup OAuth
  PROVE  req' \in [Handler -> Request] /\ \A q \in Handler : DecidedOn(q)'
  <1> DEFINE r == Serving(pc, u, SeenOf(row[u]), i)
  <1>1. row[u] \in Row
    BY DEF IInv, TypeOK
  <1>2. SeenOf(row[u]) \in Seen /\ SeenOf(row[u]).status = row[u].status
    BY <1>1, SeenType
  <1>3. /\ r \in Request /\ r.pc = pc /\ r.user = u
        /\ r.seen = SeenOf(row[u]) /\ r.on = i
    BY <1>2, ServingType DEF Pc
  <1>4. req' = [req EXCEPT ![p] = r]
    BY DEF Load, Begin
  <1> HIDE DEF r
  <1> QED
    BY <1>2, <1>3, <1>4, HandlerStep

-----------------------------------------------------------------------------
(* One row is written, and stays dated. *)
LEMMA PutStep ==
  ASSUME IInv, NEW u \in User, NEW r \in Row, Dated(r), row' = [row EXCEPT ![u] = r]
  PROVE  row' \in [User -> Row] /\ DeactivatedIsDated'
  BY DEF IInv, TypeOK, DeactivatedIsDated, Dated

LEMMA WriteStep ==
  ASSUME IInv, NEW p \in Handler, req[p].pc # "idle", NEW r \in Row, Dated(r), Write(p, r)
  PROVE  row' \in [User -> Row] /\ DeactivatedIsDated'
  <1>1. req[p].user \in User
    BY DEF IInv, DecidedOn
  <1> QED
    BY <1>1, PutStep DEF Write

LEMMA RowFacts ==
  ASSUME IInv, NEW u \in User
  PROVE  row[u] \in Row /\ Dated(row[u]) /\ now \in Time
  BY DEF IInv, TypeOK, DeactivatedIsDated, Dated

LEMMA HandlerFacts ==
  ASSUME IInv, NEW p \in Handler, req[p].pc # "idle"
  PROVE  /\ req[p] \in Request /\ req[p].user \in User
         /\ req[p].seen.since \in Time \cup {Null}
         /\ row[req[p].user] \in Row /\ Dated(row[req[p].user]) /\ now \in Time
  <1>1. req[p] \in Request /\ req[p].user \in User
    BY DEF IInv, TypeOK, DecidedOn
  <1> QED
    BY <1>1, RowFacts DEF Request, Seen

(* Nothing the invariant speaks of has moved. *)
Still == UNCHANGED <<row, code, access, session, now, crashes, audited>>

LEMMA StillStep ==
  ASSUME IInv, Still, req' \in [Handler -> Request], \A q \in Handler : DecidedOn(q)'
  PROVE  IInv'
  BY DEF IInv, Still, TypeOK, DeactivatedIsDated

-----------------------------------------------------------------------------
THEOREM InitIInv == Init => IInv
  <1> SUFFICES ASSUME Init PROVE IInv
    OBVIOUS
  <1>1. \A p \in Handler : req[p] = Idle
    BY DEF Init
  <1>2. TypeOK
    <2>1. row \in [User -> Row]
      BY AbsentType DEF Init
    <2>2. req \in [Handler -> Request]
      BY IdleType DEF Init
    <2> QED
      BY <2>1, <2>2, ConstantsAssumption DEF Init, TypeOK, Time
  <1>3. DeactivatedIsDated
    BY DEF Init, DeactivatedIsDated, Absent, RowOf
  <1>4. \A p \in Handler : DecidedOn(p)
    BY <1>1, IdleType DEF DecidedOn
  <1> QED
    BY <1>2, <1>3, <1>4 DEF IInv

(* A request begins: nothing but its handler's state changes. *)
LEMMA AskPreserves ==
  ASSUME IInv, NEW p \in Handler, NEW u \in User,
         \/ \E i \in Ident : AskCode(p, u, i) \/ VerifyPhone(p, u, i) \/ VerifyEmail(p, u, i)
                             \/ AskRebind(p, u, i) \/ (i \in OAuth /\ OAuthLogin(p, u, i))
         \/ \E i \in Mail \cup {Null} : AskUpdate(p, u, i)
         \/ AskDeactivate(p, u) \/ AskReactivate(p, u) \/ AskErase(p, u) \/ SetRole(p, u)
         \/ SelectOverdue(p, u)
  PROVE  IInv'
  <1>1. Null \in Ident \cup {Null}
    OBVIOUS
  <1>2. Still
    BY DEF Still, AskCode, VerifyPhone, VerifyEmail, AskUpdate, AskRebind, OAuthLogin, AskDeactivate,
           AskReactivate, AskErase, SetRole, SelectOverdue
  <1>3. req' \in [Handler -> Request] /\ \A q \in Handler : DecidedOn(q)'
    <2>1. CASE \E i \in Ident : VerifyPhone(p, u, i)
      <3>1. PICK i \in Ident : VerifyPhone(p, u, i)
        BY <2>1
      <3>2. Load(p, "otp", u, i) /\ i \in Phone /\ row[u].status \in AwaitingVerification
        BY <3>1 DEF VerifyPhone
      <3> QED
        BY <3>2, <1>2, LoadStep DEF Still
    <2>2. CASE \E i \in Ident : VerifyEmail(p, u, i)
      <3>1. PICK i \in Ident : VerifyEmail(p, u, i)
        BY <2>2
      <3>2. Load(p, "otp", u, i) /\ i \in Mail /\ i \notin Phone
        BY <3>1, ConstantsAssumption DEF VerifyEmail
      <3> QED
        BY <3>2, <1>2, LoadStep DEF Still
    <2>3. CASE \E i \in Mail \cup {Null} : AskUpdate(p, u, i)
      <3>1. PICK i \in Mail \cup {Null} : AskUpdate(p, u, i)
        BY <2>3
      <3>2. Load(p, "update", u, i) /\ i \in Ident \cup {Null}
        BY <3>1 DEF AskUpdate, Ident
      <3> QED
        BY <3>2, <1>2, LoadStep DEF Still
    <2>4. CASE \E i \in Ident : AskRebind(p, u, i)
      <3>1. PICK i \in Ident : AskRebind(p, u, i)
        BY <2>4
      <3>2. Load(p, "rebind", u, i) /\ i \in Phone \cup OAuth
        BY <3>1 DEF AskRebind
      <3> QED
        BY <3>2, <1>2, LoadStep DEF Still
    <2>5. CASE \E i \in Ident : OAuthLogin(p, u, i)
      <3>1. Begin(p, Unseen("login", u))
        BY <2>5 DEF OAuthLogin
      <3> QED
        BY <3>1, <1>2, BeginUnseen DEF Still
    <2>6. CASE AskDeactivate(p, u)
      <3>1. Load(p, "deactivate", u, Null) /\ row[u].status # "SUSPENDED"
        BY <2>6 DEF AskDeactivate, Blocked
      <3> QED
        BY <3>1, <1>1, <1>2, LoadStep DEF Still
    <2>7. CASE AskReactivate(p, u)
      <3>1. Load(p, "reactivate", u, Null) /\ row[u].status = "DEACTIVATED"
        BY <2>7 DEF AskReactivate
      <3> QED
        BY <3>1, <1>1, <1>2, LoadStep DEF Still
    <2>8. CASE AskErase(p, u) \/ SelectOverdue(p, u)
      <3>1. Load(p, "erase", u, Null)
        BY <2>8 DEF AskErase, SelectOverdue
      <3> QED
        BY <3>1, <1>1, <1>2, LoadStep DEF Still
    <2>9. CASE SetRole(p, u)
      <3>1. Begin(p, Unseen("logout", u))
        BY <2>9 DEF SetRole
      <3> QED
        BY <3>1, <1>2, BeginUnseen DEF Still
    <2>10. CASE \E i \in Ident : AskCode(p, u, i)
      <3>1. PICK i \in Phone \cup Mail : Begin(p, Sending(u, i))
        BY <2>10 DEF AskCode
      <3> QED
        BY <3>1, <1>2, BeginSending DEF Still
    <2> QED
      BY <2>1, <2>2, <2>3, <2>4, <2>5, <2>6, <2>7, <2>8, <2>9, <2>10
  <1> QED
    BY <1>2, <1>3, StillStep

(* A row is written or not; the rest of the types are sets that shrink or   *)
(* gain a known element.                                                    *)
LEMMA Assemble ==
  ASSUME IInv, row' \in [User -> Row], DeactivatedIsDated',
         req' \in [Handler -> Request], \A q \in Handler : DecidedOn(q)',
         code' \subseteq Phone \cup Mail, access' \subseteq User, session' \subseteq User,
         audited' \subseteq User, UNCHANGED <<now, crashes>>
  PROVE  IInv'
  BY DEF IInv, TypeOK

LEMMA IssueCodePreserves ==
  ASSUME IInv, NEW p \in Handler, IssueCode(p)
  PROVE  IInv'
  <1>1. /\ req[p].pc = "issue" /\ Return(p)
        /\ code' \in {code, code \cup {req[p].on}}
        /\ UNCHANGED <<row, access, session, now, crashes, audited>>
    BY DEF IssueCode, At
  <1>2. req[p].on \in Phone \cup Mail
    BY <1>1 DEF IInv, DecidedOn
  <1>3. req' \in [Handler -> Request] /\ \A q \in Handler : DecidedOn(q)'
    BY <1>1, ReturnStep
  <1> QED
    BY <1>1, <1>2, <1>3, Assemble DEF IInv, TypeOK, DeactivatedIsDated

LEMMA CheckCodePreserves ==
  ASSUME IInv, NEW p \in Handler, CheckCode(p)
  PROVE  IInv'
  <1>1. /\ At(p, "otp") /\ UNCHANGED <<row, access, session, now, crashes, audited>>
        /\ code' \subseteq code
    BY DEF CheckCode
  <1>2. req[p].pc = "otp"
    BY <1>1 DEF At
  <1>3. \/ Decide(p, "clear") \/ Return(p)
        \/ Decide(p, "lockout") /\ req[p].on \in Phone
    BY DEF CheckCode
  <1>4. req' \in [Handler -> Request] /\ \A q \in Handler : DecidedOn(q)'
    <2>1. CASE Decide(p, "clear")
      BY <1>1, <1>2, <2>1, DecideStep DEF Pc
    <2>2. CASE Return(p)
      BY <1>1, <2>2, ReturnStep
    <2>3. CASE Decide(p, "lockout") /\ req[p].on \in Phone
      BY <1>1, <1>2, <2>3, DecideStep DEF Pc
    <2> QED
      BY <1>3, <2>1, <2>2, <2>3
  <1> QED
    BY <1>1, <1>4, Assemble DEF IInv, TypeOK, DeactivatedIsDated

LEMMA ClearCodePreserves ==
  ASSUME IInv, NEW p \in Handler, ClearCode(p)
  PROVE  IInv'
  <1>1. /\ At(p, "clear") /\ UNCHANGED <<row, access, session, now, crashes, audited>>
        /\ code' \subseteq code
    BY DEF ClearCode
  <1>2. req[p].pc = "clear"
    BY <1>1 DEF At
  <1>3. \/ Decide(p, "activate") /\ req[p].on \in Phone
        \/ Decide(p, "revive") /\ req[p].seen.status = "DEACTIVATED"
        \/ Goto(p, "login") \/ Return(p)
    BY DEF ClearCode
  <1>4. req' \in [Handler -> Request] /\ \A q \in Handler : DecidedOn(q)'
    <2>1. CASE Decide(p, "activate") /\ req[p].on \in Phone
      BY <1>1, <1>2, <2>1, DecideStep DEF Pc
    <2>2. CASE Decide(p, "revive") /\ req[p].seen.status = "DEACTIVATED"
      BY <1>1, <1>2, <2>2, DecideStep DEF Pc
    <2>3. CASE Goto(p, "login")
      BY <1>1, <1>2, <2>3, GotoStep
    <2>4. CASE Return(p)
      BY <1>1, <2>4, ReturnStep
    <2> QED
      BY <1>3, <2>1, <2>2, <2>3, <2>4
  <1> QED
    BY <1>1, <1>4, Assemble DEF IInv, TypeOK, DeactivatedIsDated

(* A handler writes its row and goes on or returns. *)
LEMMA WritePreserves ==
  ASSUME IInv, NEW p \in Handler, req[p].pc # "idle", NEW r \in Row, Dated(r), Write(p, r),
         Return(p) \/ (\E pc \in {"login", "logout", "revoke", "audit"} : Goto(p, pc)),
         session' \subseteq session, UNCHANGED <<code, access, now, crashes, audited>>
  PROVE  IInv'
  <1>1. row' \in [User -> Row] /\ DeactivatedIsDated'
    BY WriteStep
  <1>2. req' \in [Handler -> Request] /\ \A q \in Handler : DecidedOn(q)'
    <2>1. CASE Return(p)
      BY <2>1, ReturnStep
    <2>2. CASE \E pc \in {"login", "logout", "revoke", "audit"} : Goto(p, pc)
      BY <2>2, GotoStep
    <2> QED
      BY <2>1, <2>2
  <1> QED
    BY <1>1, <1>2, Assemble DEF IInv, TypeOK

LEMMA RowWritesPreserve ==
  ASSUME IInv, NEW p \in Handler,
         LockOut(p) \/ Activate(p) \/ Revive(p) \/ Deactivate(p) \/ Reactivate(p) \/ Erase(p)
  PROVE  IInv'
  <1> DEFINE r == row[req[p].user]
  <1>1. req[p].pc # "idle"
    BY DEF LockOut, Activate, Revive, Deactivate, Reactivate, Erase, At
  <1>2. r \in Row /\ now \in Time /\ req[p].seen.since \in Time \cup {Null}
    BY <1>1, HandlerFacts
  <1>3. /\ UNCHANGED <<code, access, now, crashes, audited>>
        /\ session' \subseteq session
        /\ Return(p) \/ (\E pc \in {"login", "logout", "revoke", "audit"} : Goto(p, pc))
    BY DEF LockOut, Activate, Revive, Deactivate, Reactivate, Erase
  <1>4. \E s \in Row : Dated(s) /\ Write(p, s)
    <2>1. CASE LockOut(p)
      <3>1. Write(p, LockedOut(r))
        BY <2>1 DEF LockOut
      <3> HIDE DEF r
      <3> QED
        BY <1>2, <3>1, WriteTypes, WriteDates
    <2>2. CASE Activate(p)
      <3>1. Write(p, Activated(r))
        BY <2>2 DEF Activate
      <3> HIDE DEF r
      <3> QED
        BY <1>2, <3>1, WriteTypes, WriteDates
    <2>3. CASE Revive(p) \/ Reactivate(p)
      <3>1. Write(p, Revived(r))
        BY <2>3 DEF Revive, Reactivate
      <3> HIDE DEF r
      <3> QED
        BY <1>2, <3>1, WriteTypes, WriteDates
    <2>4. CASE Deactivate(p)
      <3>1. Write(p, Deactivated(r))
        BY <2>4 DEF Deactivate
      <3> HIDE DEF r
      <3> QED
        BY <1>2, <3>1, WriteTypes, WriteDates
    <2>5. CASE Erase(p)
      <3>1. Write(p, Anonymised(r, req[p].seen.since))
        BY <2>5 DEF Erase
      <3> HIDE DEF r
      <3> QED
        BY <1>2, <3>1, WriteTypes, WriteDates
    <2> QED
      BY <2>1, <2>2, <2>3, <2>4, <2>5
  <1> HIDE DEF r
  <1> QED
    BY <1>1, <1>3, <1>4, WritePreserves

LEMMA IdentWritesPreserve ==
  ASSUME IInv, NEW p \in Handler, Update(p) \/ Rebind(p)
  PROVE  IInv'
  <1> DEFINE r == row[req[p].user]
  <1>1. req[p].pc \in {"update", "rebind"}
    BY DEF Update, Rebind, At
  <1>2. r \in Row /\ Dated(r) /\ now \in Time /\ req[p] \in Request
    BY <1>1, HandlerFacts
  <1>3. /\ UNCHANGED <<code, access, session, now, crashes, audited>>
        /\ Return(p) \/ Goto(p, "logout")
    BY DEF Update, Rebind
  <1>4. CASE \E I \in SUBSET Ident : Write(p, Identified(r, I))
    <2>1. PICK I \in SUBSET Ident : Write(p, Identified(r, I))
      BY <1>4
    <2> HIDE DEF r
    <2>2. Identified(r, I) \in Row /\ Dated(Identified(r, I))
      BY <1>2, WriteTypes, WriteDates
    <2> QED
      BY <1>1, <1>3, <2>1, <2>2, WritePreserves
  <1>5. CASE UNCHANGED row /\ Return(p)
    <2>1. req' \in [Handler -> Request] /\ \A q \in Handler : DecidedOn(q)'
      BY <1>3, <1>5, ReturnStep
    <2> QED
      BY <1>3, <1>5, <2>1, StillStep DEF Still
  <1>6. (\E I \in SUBSET Ident : Write(p, Identified(r, I))) \/ (UNCHANGED row /\ Return(p))
    <2>1. r.ids \subseteq Ident
      BY <1>2 DEF Row
    <2>2. CASE Update(p)
      <3>1. Write(p, Identified(r, (r.ids \ Mail) \cup ({req[p].on} \ {Null}))) /\ req[p].pc = "update"
        BY <2>2 DEF Update, At
      <3>2. req[p].on \in Mail \cup {Null}
        BY <3>1 DEF IInv, DecidedOn
      <3>3. (r.ids \ Mail) \cup ({req[p].on} \ {Null}) \in SUBSET Ident
        BY <2>1, <3>2 DEF Ident
      <3> HIDE DEF r
      <3> QED
        BY <3>1, <3>3
    <2>3. CASE Rebind(p)
      <3> DEFINE kind == IF req[p].on \in Phone THEN Phone ELSE OAuth
      <3>1. req[p].on \in Phone \cup OAuth
        BY <2>3 DEF IInv, DecidedOn, Rebind, At
      <3>2. \/ Write(p, Identified(r, (r.ids \ kind) \cup {req[p].on}))
            \/ Write(p, Identified(r, r.ids \ OAuth))
            \/ UNCHANGED row /\ Return(p)
        BY <2>3 DEF Rebind
      <3>3. (r.ids \ kind) \cup {req[p].on} \in SUBSET Ident /\ r.ids \ OAuth \in SUBSET Ident
        BY <2>1, <3>1 DEF Ident
      <3> HIDE DEF r, kind
      <3> QED
        BY <3>2, <3>3
    <2> QED
      BY <2>2, <2>3
  <1> QED
    BY <1>4, <1>5, <1>6

LEMMA SessionStepsPreserve ==
  ASSUME IInv, NEW p \in Handler, Login(p) \/ Logout(p) \/ AuditErased(p)
  PROVE  IInv'
  <1>1. req[p].pc # "idle"
    BY DEF Login, Logout, AuditErased, At
  <1>2. req[p].user \in User
    BY <1>1, HandlerFacts
  <1>3. /\ UNCHANGED <<row, code, now, crashes>>
        /\ access' \subseteq access \cup {req[p].user}
        /\ session' \subseteq session \cup {req[p].user}
        /\ audited' \subseteq audited \cup {req[p].user}
        /\ Return(p) \/ Goto(p, "audit")
    BY DEF Login, Logout, AuditErased
  <1>4. req' \in [Handler -> Request] /\ \A q \in Handler : DecidedOn(q)'
    <2>1. CASE Return(p)
      BY <1>3, <2>1, ReturnStep
    <2>2. CASE Goto(p, "audit")
      BY <1>1, <1>3, <2>2, GotoStep
    <2> QED
      BY <1>3, <2>1, <2>2
  <1> QED
    BY <1>2, <1>3, <1>4, Assemble DEF IInv, TypeOK, DeactivatedIsDated

LEMMA NewRows ==
  ASSUME NEW I \in SUBSET Ident, NEW v \in BOOLEAN
  PROVE  /\ Registered(I) \in Row /\ Dated(Registered(I))
         /\ Joined(I, v) \in Row /\ Dated(Joined(I, v))
  BY DEF Registered, Joined, RowOf, Row, Status, Dated

LEMMA RegisterPreserves ==
  ASSUME IInv, NEW p \in Handler, NEW u \in User, NEW i \in Phone, RegisterPhone(p, u, i)
  PROVE  IInv'
  <1>1. PICK I \in SUBSET Ident : row' = [row EXCEPT ![u] = Registered(I)]
    <2>1. {i} \in SUBSET Ident /\ \A m \in Mail : {i, m} \in SUBSET Ident
      BY DEF Ident
    <2> QED
      BY <2>1 DEF RegisterPhone
  <1>2. Registered(I) \in Row /\ Dated(Registered(I))
    BY NewRows
  <1>3. Begin(p, Sending(u, i)) /\ UNCHANGED <<code, access, session, now, crashes, audited>>
    BY DEF RegisterPhone
  <1>4. row' \in [User -> Row] /\ DeactivatedIsDated'
    BY <1>1, <1>2, PutStep
  <1>5. req' \in [Handler -> Request] /\ \A q \in Handler : DecidedOn(q)'
    BY <1>3, BeginSending
  <1> QED
    BY <1>3, <1>4, <1>5, Assemble DEF IInv, TypeOK

LEMMA OAuthRegisterPreserves ==
  ASSUME IInv, NEW p \in Handler, NEW u \in User, NEW i \in OAuth, OAuthRegister(p, u, i)
  PROVE  IInv'
  <1>1. PICK I \in SUBSET Ident, v \in BOOLEAN : row' = [row EXCEPT ![u] = Joined(I, v)]
    <2>1. {i} \in SUBSET Ident /\ \A m \in Mail : {i, m} \in SUBSET Ident
      BY DEF Ident
    <2> QED
      BY <2>1 DEF OAuthRegister
  <1>2. Joined(I, v) \in Row /\ Dated(Joined(I, v))
    BY NewRows
  <1>3. row' \in [User -> Row] /\ DeactivatedIsDated'
    BY <1>1, <1>2, PutStep
  <1>4. Begin(p, Unseen("login", u)) /\ UNCHANGED <<code, access, session, now, crashes, audited>>
    BY DEF OAuthRegister
  <1>5. req' \in [Handler -> Request] /\ \A q \in Handler : DecidedOn(q)'
    BY <1>4, BeginUnseen
  <1> QED
    BY <1>3, <1>4, <1>5, Assemble DEF IInv, TypeOK

LEMMA StatusWrites ==
  ASSUME IInv, NEW u \in User, Suspend(u) \/ Reinstate(u)
  PROVE  IInv'
  <1>1. PICK s \in {"ACTIVE", "SUSPENDED"} : row' = [row EXCEPT ![u].status = s]
    BY DEF Suspend, Reinstate
  <1>2. UNCHANGED <<code, access, session, req, now, crashes, audited>>
    BY DEF Suspend, Reinstate
  <1>3. [row[u] EXCEPT !.status = s] \in Row /\ Dated([row[u] EXCEPT !.status = s])
    <2>1. row[u] \in Row
      BY RowFacts
    <2> QED
      BY <2>1 DEF Row, Status, Dated
  <1>4. row' = [row EXCEPT ![u] = [row[u] EXCEPT !.status = s]]
    BY <1>1
  <1>5. row' \in [User -> Row] /\ DeactivatedIsDated'
    BY <1>3, <1>4, PutStep
  <1>6. req' \in [Handler -> Request] /\ \A q \in Handler : DecidedOn(q)'
    BY <1>2 DEF IInv, TypeOK, DecidedOn
  <1> QED
    BY <1>2, <1>5, <1>6, Assemble DEF IInv, TypeOK

LEMMA OtherStepsPreserve ==
  ASSUME IInv,
         \/ \E u \in User : Refresh(u)
         \/ \E p \in Handler : Crash(p)
         \/ Tick \/ UNCHANGED vars
  PROVE  IInv'
  <1>1. CASE \E u \in User : Refresh(u)
    BY <1>1 DEF IInv, Refresh, TypeOK, DeactivatedIsDated, DecidedOn
  <1>2. CASE \E p \in Handler : Crash(p)
    <2>1. PICK p \in Handler : Crash(p)
      BY <1>2
    <2>2. /\ Return(p) /\ UNCHANGED <<row, code, access, session, now, audited>>
          /\ crashes < MaxCrashes /\ crashes' = crashes + 1
      BY <2>1 DEF Crash
    <2>3. req' \in [Handler -> Request] /\ \A q \in Handler : DecidedOn(q)'
      BY <2>2, ReturnStep
    <2>4. crashes' \in 0..MaxCrashes
      BY <2>2, ConstantsAssumption DEF IInv, TypeOK
    <2> QED
      BY <2>2, <2>3, <2>4 DEF IInv, TypeOK, DeactivatedIsDated
  <1>3. CASE Tick
    <2>1. now' \in Time
      BY <1>3, ConstantsAssumption DEF Tick, IInv, TypeOK, Time
    <2>2. \A q \in Handler : DecidedOn(q)'
      BY <1>3 DEF Tick, IInv, DecidedOn
    <2> QED
      BY <1>3, <2>1, <2>2 DEF Tick, IInv, TypeOK, DeactivatedIsDated
  <1>4. CASE UNCHANGED vars
    BY <1>4 DEF vars, IInv, TypeOK, DeactivatedIsDated, DecidedOn
  <1> QED
    BY <1>1, <1>2, <1>3, <1>4

(* The disjuncts of Next, as the lemmas above group them. *)
LEMMA NextCases ==
  ASSUME Next \/ UNCHANGED vars
  PROVE  \/ \E p \in Handler :
              \/ IssueCode(p) \/ CheckCode(p) \/ ClearCode(p)
              \/ LockOut(p) \/ Activate(p) \/ Revive(p) \/ Deactivate(p) \/ Reactivate(p) \/ Erase(p)
              \/ Update(p) \/ Rebind(p) \/ Login(p) \/ Logout(p) \/ AuditErased(p)
         \/ \E p \in Handler, u \in User :
              \/ \E i \in Ident : \/ AskCode(p, u, i) \/ VerifyPhone(p, u, i) \/ VerifyEmail(p, u, i)
                                  \/ AskRebind(p, u, i)
                                  \/ (i \in OAuth /\ OAuthLogin(p, u, i))
              \/ \E i \in Mail \cup {Null} : AskUpdate(p, u, i)
              \/ AskDeactivate(p, u) \/ AskReactivate(p, u) \/ AskErase(p, u) \/ SetRole(p, u)
              \/ SelectOverdue(p, u)
         \/ \E p \in Handler, u \in User, i \in OAuth : OAuthRegister(p, u, i)
         \/ \E p \in Handler, u \in User, i \in Phone : RegisterPhone(p, u, i)
         \/ \E u \in User : Suspend(u) \/ Reinstate(u)
         \/ \E u \in User : Refresh(u)
         \/ \E p \in Handler : Crash(p)
         \/ Tick \/ UNCHANGED vars
  <1>1. Proc \subseteq Handler /\ Worker \subseteq Handler /\ OAuth \subseteq Ident
    BY DEF Handler, Ident
  <1>2. CASE \E p \in Handler : Step(p) \/ Crash(p)
    BY <1>2 DEF Step
  <1>3. CASE \E p \in Proc, u \in User : Ask(p, u)
    BY <1>1, <1>3 DEF Ask
  <1>4. CASE \E w \in Worker, u \in User : SelectOverdue(w, u)
    BY <1>1, <1>4
  <1>5. CASE ~ (\E p \in Handler : Step(p) \/ Crash(p)) /\ ~ (\E p \in Proc, u \in User : Ask(p, u))
             /\ ~ (\E w \in Worker, u \in User : SelectOverdue(w, u))
    BY <1>5 DEF Next
  <1> QED
    BY <1>2, <1>3, <1>4, <1>5

THEOREM StepIInv == IInv /\ [Next]_vars => IInv'
  <1> SUFFICES ASSUME IInv, Next \/ UNCHANGED vars PROVE IInv'
    OBVIOUS
  <1> QED
    BY NextCases, IssueCodePreserves, CheckCodePreserves, ClearCodePreserves, RowWritesPreserve, IdentWritesPreserve,
       SessionStepsPreserve, AskPreserves, OAuthRegisterPreserves, RegisterPreserves,
       StatusWrites, OtherStepsPreserve

THEOREM Invariance == Spec => []IInv
  BY InitIInv, StepIInv, PTL DEF Spec

(* The type invariant holds, for any users, handlers and bounds.             *)
THEOREM TypeCorrect == Spec => []TypeOK
  <1>1. IInv => TypeOK
    BY DEF IInv
  <1> QED
    BY <1>1, Invariance, PTL

(* No handler leaves a DEACTIVATED row without its date, or active: the      *)
(* retention job can see every one of them.                                  *)
THEOREM DatedTheorem == Spec => []DeactivatedIsDated
  <1>1. IInv => DeactivatedIsDated
    BY DEF IInv
  <1> QED
    BY <1>1, Invariance, PTL

-----------------------------------------------------------------------------
(* One row is written: the others keep their status.                         *)
LEMMA LegalPut ==
  ASSUME IInv, NEW u \in User, NEW r, row' = [row EXCEPT ![u] = r], Legal(row[u], r)
  PROVE  \A v \in User : Legal(row[v], row'[v])
  BY DEF IInv, TypeOK, Legal

LEMMA LegalStill ==
  ASSUME IInv, UNCHANGED row
  PROVE  \A v \in User : Legal(row[v], row'[v])
  BY DEF Legal

(* What p's next step may do to the row it is at.                            *)
LegalOrLost(p) ==
  \A u \in User : Legal(row[u], row'[u]) \/ (Lost(p, u) /\ req'[p] # req[p])

(* A handler whose snapshot is current makes a legal transition; the write   *)
(* of one whose snapshot is not is a lost race.                              *)
LEMMA RaceOrLegal ==
  ASSUME IInv, NEW p \in Handler, NEW r, Write(p, r), req[p].pc # "idle",
         req'[p] # req[p],
         req[p].seen.status = row[req[p].user].status => Legal(row[req[p].user], r)
  PROVE  LegalOrLost(p)
  <1>1. req[p].user \in User /\ row' = [row EXCEPT ![req[p].user] = r]
    BY HandlerFacts DEF Write
  <1>2. CASE req[p].seen.status = row[req[p].user].status
    BY <1>1, <1>2, LegalPut DEF LegalOrLost
  <1>3. CASE req[p].seen.status # row[req[p].user].status
    <2>1. \A u \in User : u # req[p].user => row'[u] = row[u]
      BY <1>1 DEF IInv, TypeOK
    <2>2. \A u \in User : u # req[p].user => Legal(row[u], row'[u])
      BY <2>1 DEF Legal
    <2> QED
      BY <1>3, <2>2 DEF LegalOrLost, Lost
  <1> QED
    BY <1>2, <1>3

(* A step that returns, or goes on to the log-in, has moved its handler.     *)
LEMMA Moves ==
  ASSUME IInv, NEW p \in Handler,
         NEW pc \in {"lockout", "activate", "revive", "deactivate", "reactivate", "erase"},
         req[p].pc = pc,
         Return(p) \/ (\E to \in {"login", "logout", "revoke", "audit"} : Goto(p, to))
  PROVE  req'[p] # req[p]
  <1>1. CASE Return(p)
    BY <1>1, IdleType DEF Return, IInv, TypeOK
  <1>2. CASE \E to \in {"login", "logout", "revoke", "audit"} : Goto(p, to)
    <2>1. PICK to \in {"login", "logout", "revoke", "audit"} : Goto(p, to)
      BY <1>2
    <2>2. req'[p] = Unseen(to, req[p].user)
      BY <2>1 DEF Goto, IInv, TypeOK
    <2>3. Unseen(to, req[p].user).pc = to
      BY DEF Unseen, Serving
    <2> QED
      BY <2>2, <2>3
  <1> QED
    BY <1>1, <1>2

(* The transitions the UPDATEs of the handlers make.                         *)
LEMMA WriteStatus ==
  ASSUME NEW r \in Row
  PROVE  /\ Activated(r).status = "ACTIVE" /\ Revived(r).status = "ACTIVE"
         /\ LockedOut(r).status = "UNVERIFIED" /\ Deactivated(r).status = "DEACTIVATED"
         /\ \A s : Anonymised(r, s).status = "DEACTIVATED"
         /\ \A I : Identified(r, I).status = r.status
  BY DEF Row, RowOf, Activated, Revived, LockedOut, Deactivated, Anonymised, Identified

LEMMA RowWritesRace ==
  ASSUME IInv, NEW p \in Handler,
         LockOut(p) \/ Activate(p) \/ Revive(p) \/ Deactivate(p) \/ Reactivate(p) \/ Erase(p)
  PROVE  LegalOrLost(p)
  <1> DEFINE r == row[req[p].user]
             seen == req[p].seen
  <1>1. /\ req[p].pc \in {"lockout", "activate", "revive", "deactivate", "reactivate", "erase"}
        /\ Return(p) \/ (\E to \in {"login", "logout", "revoke", "audit"} : Goto(p, to))
    BY DEF LockOut, Activate, Revive, Deactivate, Reactivate, Erase, At
  <1>2. req'[p] # req[p] /\ req[p].pc # "idle"
    BY <1>1, Moves
  <1>3. r \in Row
    BY <1>2, HandlerFacts
  <1>4. PICK s : Write(p, s) /\ (seen.status = r.status => Legal(r, s))
    <2>1. CASE LockOut(p)
      <3>1. Write(p, LockedOut(r)) /\ seen.status \in AwaitingVerification
        BY <2>1 DEF LockOut, At, IInv, DecidedOn
      <3>2. LockedOut(r).status = "UNVERIFIED"
        BY <1>3, WriteStatus
      <3> QED
        BY <3>1, <3>2 DEF Legal, AwaitingVerification
    <2>2. CASE Activate(p)
      <3>1. Write(p, Activated(r)) /\ seen.status \in AwaitingVerification
        BY <2>2 DEF Activate, At, IInv, DecidedOn
      <3>2. Activated(r).status = "ACTIVE"
        BY <1>3, WriteStatus
      <3> QED
        BY <3>1, <3>2 DEF Legal, AwaitingVerification
    <2>3. CASE Revive(p) \/ Reactivate(p)
      <3>1. Write(p, Revived(r)) /\ seen.status = "DEACTIVATED"
        BY <2>3 DEF Revive, Reactivate, At, IInv, DecidedOn
      <3>2. Revived(r).status = "ACTIVE"
        BY <1>3, WriteStatus
      <3> QED
        BY <3>1, <3>2 DEF Legal
    <2>4. CASE Deactivate(p)
      <3>1. Write(p, Deactivated(r)) /\ Deactivated(r).status = "DEACTIVATED"
            /\ seen.status # "SUSPENDED"
        BY <1>3, <2>4, WriteStatus DEF Deactivate, At, IInv, DecidedOn
      <3> QED
        BY <3>1 DEF Legal
    <2>5. CASE Erase(p)
      <3>1. /\ Write(p, Anonymised(r, seen.since))
            /\ Anonymised(r, seen.since).status = "DEACTIVATED" /\ Anonymised(r, seen.since).erased
        BY <1>3, <2>5, WriteStatus DEF Erase, Anonymised, RowOf
      <3> QED
        BY <3>1 DEF Legal
    <2> QED
      BY <2>1, <2>2, <2>3, <2>4, <2>5
  <1> QED
    BY <1>2, <1>4, RaceOrLegal

LEMMA IdentWritesAreLegal ==
  ASSUME IInv, NEW p \in Handler, Update(p) \/ Rebind(p)
  PROVE  \A u \in User : Legal(row[u], row'[u])
  <1> DEFINE r == row[req[p].user]
  <1>1. req[p].pc # "idle"
    BY DEF Update, Rebind, At
  <1>2. req[p].user \in User /\ r \in Row
    BY <1>1, HandlerFacts
  <1>3. (\E I : Write(p, Identified(r, I))) \/ UNCHANGED row
    BY DEF Update, Rebind
  <1>4. ASSUME NEW I, Write(p, Identified(r, I)) PROVE \A u \in User : Legal(row[u], row'[u])
    <2>1. Identified(r, I).status = r.status
      BY <1>2, WriteStatus
    <2>2. Legal(r, Identified(r, I))
      BY <2>1 DEF Legal
    <2> QED
      BY <1>2, <1>4, <2>2, LegalPut DEF Write
  <1> QED
    BY <1>3, <1>4, LegalStill

LEMMA InsertsAreLegal ==
  ASSUME IInv, NEW u \in User,
         \/ \E p \in Handler, i \in Phone : RegisterPhone(p, u, i)
         \/ \E p \in Handler, i \in OAuth : OAuthRegister(p, u, i)
  PROVE  \A v \in User : Legal(row[v], row'[v])
  <1>1. row[u].status = "none"
    BY DEF RegisterPhone, OAuthRegister
  <1>2. CASE \E I : row' = [row EXCEPT ![u] = Registered(I)]
    <2>1. PICK I : row' = [row EXCEPT ![u] = Registered(I)]
      BY <1>2
    <2>2. Registered(I).status = "PENDING_VERIFICATION"
      BY DEF Registered, RowOf
    <2>3. Legal(row[u], Registered(I))
      BY <1>1, <2>2 DEF Legal
    <2> QED
      BY <2>1, <2>3, LegalPut
  <1>3. CASE \E I, v : row' = [row EXCEPT ![u] = Joined(I, v)]
    <2>1. PICK I, v : row' = [row EXCEPT ![u] = Joined(I, v)]
      BY <1>3
    <2>2. Joined(I, v).status = "ACTIVE"
      BY DEF Joined, RowOf
    <2>3. Legal(row[u], Joined(I, v))
      BY <1>1, <2>2 DEF Legal
    <2> QED
      BY <2>1, <2>3, LegalPut
  <1> QED
    BY <1>2, <1>3 DEF RegisterPhone, OAuthRegister

LEMMA OperatorIsLegal ==
  ASSUME IInv, NEW u \in User, Suspend(u) \/ Reinstate(u)
  PROVE  \A v \in User : Legal(row[v], row'[v])
  <1>1. row[u] \in Row
    BY RowFacts
  <1>2. CASE Suspend(u)
    <2>1. row' = [row EXCEPT ![u] = [row[u] EXCEPT !.status = "SUSPENDED"]]
          /\ row[u].status = "ACTIVE"
      BY <1>2 DEF Suspend
    <2>2. Legal(row[u], [row[u] EXCEPT !.status = "SUSPENDED"])
      BY <1>1, <2>1 DEF Legal, Row
    <2> QED
      BY <2>1, <2>2, LegalPut
  <1>3. CASE Reinstate(u)
    <2>1. row' = [row EXCEPT ![u] = [row[u] EXCEPT !.status = "ACTIVE"]]
          /\ row[u].status = "SUSPENDED" /\ UNCHANGED req
      BY <1>3 DEF Reinstate
    <2>2. Legal(row[u], [row[u] EXCEPT !.status = "ACTIVE"])
      BY <1>1, <2>1 DEF Legal, Row
    <2> QED
      BY <2>1, <2>2, LegalPut
  <1> QED
    BY <1>2, <1>3

(* Every step is legal for every account, or one handler's lost race.        *)
LEMMA StepIsLegalOrLost ==
  ASSUME IInv, Next \/ UNCHANGED vars
  PROVE  \A u \in User : Legal(row[u], row'[u])
                           \/ \E p \in Handler : Lost(p, u) /\ req'[p] # req[p]
  <1>1. \/ UNCHANGED row
        \/ \E p \in Handler : LockOut(p) \/ Activate(p) \/ Revive(p) \/ Deactivate(p)
                              \/ Reactivate(p) \/ Erase(p)
        \/ \E p \in Handler : Update(p) \/ Rebind(p)
        \/ \E u \in User : \/ \E p \in Handler, i \in Phone : RegisterPhone(p, u, i)
                           \/ \E p \in Handler, i \in OAuth : OAuthRegister(p, u, i)
        \/ \E u \in User : Suspend(u) \/ Reinstate(u)
    BY NextCases
       DEF CheckCode, ClearCode, Login, Logout, AuditErased, AskCode, VerifyPhone, VerifyEmail, AskUpdate,
           AskRebind, OAuthLogin, AskDeactivate, AskReactivate, AskErase, SetRole, SelectOverdue,
           IssueCode, Refresh, Crash, Tick, vars
  <1>2. CASE \E p \in Handler : LockOut(p) \/ Activate(p) \/ Revive(p) \/ Deactivate(p)
                                \/ Reactivate(p) \/ Erase(p)
    BY <1>2, RowWritesRace DEF LegalOrLost
  <1> QED
    BY <1>1, <1>2, LegalStill, IdentWritesAreLegal, InsertsAreLegal, OperatorIsLegal

(* Whatever the interleaving of handlers, jobs and operators, an account     *)
(* leaves the documented state machine only when a handler writes over a     *)
(* row that has changed since it loaded it.                                  *)
THEOREM LostRaceTheorem == Spec => IllegalOnlyByLostRace
  <1>1. IInv /\ [Next]_vars =>
          [\A u \in User : Legal(row[u], row'[u])
             \/ \E p \in Handler : Lost(p, u) /\ req'[p] # req[p]]_vars
    BY StepIsLegalOrLost
  <1> QED
    BY <1>1, Invariance, PTL DEF Spec, IllegalOnlyByLostRace

-----------------------------------------------------------------------------
(* What no request is doing for an account that is out of reach. *)
Outside == {"issue", "erase", "logout", "revoke", "audit", "rebind"}
NobodyLetsIn(u) == \A q \in Handler : req[q].user = u => req[q].pc \in Outside

LEMMA OutOfReachDef ==
  ASSUME NEW u \in User
  PROVE  OutOfReach(u) <=> ~ WayIn(row[u]) /\ u \notin access \cup session /\ NobodyLetsIn(u)
  BY DEF OutOfReach, NobodyLetsIn, Outside

LEMMA OutOfReachPrime ==
  ASSUME NEW u \in User, ~ WayIn(row'[u]), u \notin access' \cup session', NobodyLetsIn(u)'
  PROVE  OutOfReach(u)'
  BY DEF OutOfReach, NobodyLetsIn, Outside

(* One handler moves, and not into the account.                              *)
LEMMA MoveOutside ==
  ASSUME IInv, NEW u \in User, OutOfReach(u), NEW p \in Handler, NEW r,
         req' = [req EXCEPT ![p] = r], r.user = u => r.pc \in Outside
  PROVE  NobodyLetsIn(u)'
  BY OutOfReachDef DEF IInv, TypeOK, NobodyLetsIn

LEMMA ReturnOutside ==
  ASSUME IInv, NEW u \in User, OutOfReach(u), NEW p \in Handler, Return(p)
  PROVE  NobodyLetsIn(u)'
  <1>1. Idle.user # u
    BY ConstantsAssumption DEF Idle, Serving
  <1> QED
    BY <1>1, MoveOutside DEF Return

LEMMA GotoOutside ==
  ASSUME IInv, NEW u \in User, OutOfReach(u), NEW p \in Handler, NEW pc, Goto(p, pc),
         pc \in Outside \/ req[p].user # u
  PROVE  NobodyLetsIn(u)'
  <1> DEFINE r == Unseen(pc, req[p].user)
  <1>1. r.pc = pc /\ r.user = req[p].user
    BY DEF Unseen, Serving
  <1>2. req' = [req EXCEPT ![p] = r]
    BY DEF Goto
  <1> HIDE DEF r
  <1> QED
    BY <1>1, <1>2, MoveOutside

(* A request that could let its user in is not one for u.                    *)
LEMMA NotFor ==
  ASSUME NEW u \in User, OutOfReach(u), NEW p \in Handler, req[p].pc \notin Outside
  PROVE  req[p].user # u
  BY OutOfReachDef DEF NobodyLetsIn

LEMMA OthersRow ==
  ASSUME IInv, NEW u \in User, NEW v, v # u, NEW r, row' = [row EXCEPT ![v] = r]
  PROVE  row'[u] = row[u]
  BY DEF IInv, TypeOK

LEMMA HandlersKeepOut ==
  ASSUME IInv, NEW u \in User, OutOfReach(u), NEW p \in Handler,
         \/ CheckCode(p) \/ ClearCode(p) \/ LockOut(p) \/ Activate(p) \/ Revive(p)
         \/ Deactivate(p) \/ Reactivate(p) \/ Update(p) \/ Login(p)
  PROVE  OutOfReach(u)'
  <1>1. req[p].pc \notin Outside
    BY DEF CheckCode, ClearCode, LockOut, Activate, Revive, Deactivate, Reactivate, Update,
           Login, At, Outside
  <1>2. req[p].user # u
    BY <1>1, NotFor
  <1>3. row'[u] = row[u]
    BY <1>2, OthersRow
       DEF CheckCode, ClearCode, LockOut, Activate, Revive, Deactivate, Reactivate, Update, Login, Write
  <1>4. u \notin access' \cup session'
    BY <1>2, OutOfReachDef
       DEF CheckCode, ClearCode, LockOut, Activate, Revive, Deactivate, Reactivate, Update, Login
  <1>5. NobodyLetsIn(u)'
    <2>1. \/ Return(p) \/ (\E pc : Goto(p, pc)) \/ (\E pc : Decide(p, pc))
      BY DEF CheckCode, ClearCode, LockOut, Activate, Revive, Deactivate, Reactivate, Update, Login
    <2>2. CASE \E pc : Decide(p, pc)
      <3>1. PICK pc : Decide(p, pc)
        BY <2>2
      <3>2. Serving(pc, req[p].user, req[p].seen, req[p].on).user # u
        BY <1>2 DEF Serving
      <3> QED
        BY <3>1, <3>2, MoveOutside DEF Decide
    <2> QED
      BY <1>2, <2>1, <2>2, ReturnOutside, GotoOutside
  <1> QED
    BY <1>3, <1>4, <1>5, OutOfReachDef, OutOfReachPrime

LEMMA EraseKeepsOut ==
  ASSUME IInv, NEW u \in User, OutOfReach(u), NEW p \in Handler,
         IssueCode(p) \/ Erase(p) \/ Logout(p) \/ AuditErased(p)
  PROVE  OutOfReach(u)'
  <1>1. u \notin access' \cup session'
    BY OutOfReachDef DEF IssueCode, Erase, Logout, AuditErased
  <1>2. NobodyLetsIn(u)'
    BY ReturnOutside, GotoOutside DEF IssueCode, Erase, Logout, AuditErased, Outside
  <1>3. ~ WayIn(row'[u])
    <2>1. CASE ~ Erase(p)
      BY <2>1, OutOfReachDef DEF IssueCode, Logout, AuditErased
    <2>2. CASE Erase(p) /\ req[p].user # u
      BY <2>2, OthersRow, OutOfReachDef DEF Erase, Write
    <2>3. CASE Erase(p) /\ req[p].user = u
      <3>1. row'[u] = Anonymised(row[u], req[p].seen.since)
        BY <2>3 DEF Erase, Write, IInv, TypeOK
      <3> QED
        BY <3>1 DEF Anonymised, RowOf, WayIn
    <2> QED
      BY <2>1, <2>2, <2>3
  <1> QED
    BY <1>1, <1>2, <1>3, OutOfReachPrime

LEMMA RebindKeepsOut ==
  ASSUME IInv, NEW u \in User, OutOfReach(u), NEW p \in Handler, Rebind(p)
  PROVE  OutOfReach(u)' \/ (req[p].user = u /\ row[u].status # "DEACTIVATED")
  <1>1. u \notin access' \cup session'
    BY OutOfReachDef DEF Rebind
  <1>2. NobodyLetsIn(u)'
    BY ReturnOutside, GotoOutside DEF Rebind, Outside
  <1>3. CASE req[p].user # u
    BY <1>1, <1>2, <1>3, OthersRow, OutOfReachDef, OutOfReachPrime DEF Rebind, Write
  <1>4. CASE UNCHANGED row
    BY <1>1, <1>2, <1>4, OutOfReachDef, OutOfReachPrime
  <1>5. CASE req[p].user = u /\ row[u].status = "DEACTIVATED" /\ ~ UNCHANGED row
    <2>1. req[p].on \in Phone \cup OAuth
      BY DEF Rebind, At, IInv, DecidedOn
    <2>2. PICK I : Write(p, Identified(row[u], I)) /\ I \cap Mail = row[u].ids \cap Mail
      BY <1>5, <2>1, ConstantsAssumption DEF Rebind
    <2>3. row[u] \in Row /\ row'[u] = Identified(row[u], I)
      BY <1>5, <2>2 DEF Write, IInv, TypeOK
    <2>4. /\ row'[u].status = "DEACTIVATED" /\ row'[u].ids = I
          /\ row'[u].verified = row[u].verified /\ row'[u].erased = row[u].erased
      BY <1>5, <2>3 DEF Identified, Row
    <2>5. ~ WayIn(row'[u])
      BY <1>5, <2>2, <2>4, OutOfReachDef DEF WayIn
    <2> QED
      BY <1>1, <1>2, <2>5, OutOfReachPrime
  <1> QED
    BY <1>3, <1>4, <1>5

LEMMA AskKeepsOut ==
  ASSUME IInv, NEW u \in User, OutOfReach(u), NEW p \in Handler, NEW v \in User,
         \/ \E i \in Ident : \/ AskCode(p, v, i) \/ VerifyPhone(p, v, i) \/ VerifyEmail(p, v, i)
                             \/ AskRebind(p, v, i)
                             \/ (i \in OAuth /\ OAuthLogin(p, v, i))
         \/ \E i \in Mail \cup {Null} : AskUpdate(p, v, i)
         \/ AskDeactivate(p, v) \/ AskReactivate(p, v) \/ AskErase(p, v) \/ SetRole(p, v)
         \/ SelectOverdue(p, v)
  PROVE  OutOfReach(u)'
  <1> DEFINE Letting ==
        \/ \E i \in Ident : \/ VerifyPhone(p, v, i) \/ VerifyEmail(p, v, i)
                            \/ (i \in OAuth /\ OAuthLogin(p, v, i))
        \/ \E i \in Mail \cup {Null} : AskUpdate(p, v, i)
        \/ AskDeactivate(p, v) \/ AskReactivate(p, v)
  <1>1. UNCHANGED <<row, access, session>>
    BY DEF AskCode, VerifyPhone, VerifyEmail, AskUpdate, AskRebind, OAuthLogin, AskDeactivate,
           AskReactivate, AskErase, SetRole, SelectOverdue
  <1>2. CASE Letting
    <2>1. v # u
      BY <1>2, OutOfReachDef
         DEF VerifyPhone, VerifyEmail, AskUpdate, OAuthLogin, AskDeactivate, AskReactivate,
             WayIn, AwaitingVerification, Blocked
    <2>2. \E pc, s, i : req' = [req EXCEPT ![p] = Serving(pc, v, s, i)]
      BY <1>2 DEF VerifyPhone, VerifyEmail, AskUpdate, OAuthLogin, AskDeactivate, AskReactivate,
                  Load, Begin, Unseen
    <2>3. \A pc, s, i : Serving(pc, v, s, i).user # u
      BY <2>1 DEF Serving
    <2> QED
      BY <1>1, <2>2, <2>3, MoveOutside, OutOfReachDef, OutOfReachPrime
  <1>3. CASE ~ Letting
    <2>1. PICK pc, s, i : pc \in Outside /\ req' = [req EXCEPT ![p] = Serving(pc, v, s, i)]
      BY <1>3 DEF AskCode, AskRebind, AskErase, SetRole, SelectOverdue, Load, Begin, Unseen, Sending, Outside
    <2>2. Serving(pc, v, s, i).pc = pc
      BY DEF Serving
    <2> QED
      BY <1>1, <2>1, <2>2, MoveOutside, OutOfReachDef, OutOfReachPrime
  <1> QED
    BY <1>2, <1>3

LEMMA InsertsKeepOut ==
  ASSUME IInv, NEW u \in User, OutOfReach(u), NEW v \in User,
         \/ \E p \in Handler, i \in Phone : RegisterPhone(p, v, i)
         \/ \E p \in Handler, i \in OAuth : OAuthRegister(p, v, i)
  PROVE  OutOfReach(u)'
  <1>1. v # u
    BY OutOfReachDef DEF RegisterPhone, OAuthRegister, WayIn
  <1>2. row'[u] = row[u] /\ UNCHANGED <<access, session>>
    BY <1>1, OthersRow DEF RegisterPhone, OAuthRegister
  <1>3. PICK p \in Handler : \E r : req' = [req EXCEPT ![p] = r] /\ r.user = v
    <2>1. Unseen("login", v).user = v /\ \A i : Sending(v, i).user = v
      BY DEF Unseen, Sending, Serving
    <2> QED
      BY <2>1 DEF RegisterPhone, OAuthRegister, Begin
  <1>4. PICK r : req' = [req EXCEPT ![p] = r] /\ r.user = v
    BY <1>3
  <1> QED
    BY <1>1, <1>2, <1>4, MoveOutside, OutOfReachDef, OutOfReachPrime

LEMMA OthersKeepOut ==
  ASSUME IInv, NEW u \in User, OutOfReach(u),
         \/ \E v \in User : Suspend(v) \/ Reinstate(v) \/ Refresh(v)
         \/ \E p \in Handler : Crash(p)
         \/ Tick \/ UNCHANGED vars
  PROVE  OutOfReach(u)'
  <1>1. CASE \E v \in User : Suspend(v) \/ Reinstate(v)
    <2>1. PICK v \in User, s \in {"ACTIVE", "SUSPENDED"} :
            row' = [row EXCEPT ![v].status = s] /\ row[v].status \in {"ACTIVE", "SUSPENDED"}
      BY <1>1 DEF Suspend, Reinstate
    <2>2. row[u] \in Row
      BY RowFacts
    <2>3. row'[u] = IF v = u THEN [row[u] EXCEPT !.status = s] ELSE row[u]
      BY <2>1 DEF IInv, TypeOK
    <2>4. ~ WayIn(row'[u])
      BY <2>1, <2>2, <2>3, OutOfReachDef DEF WayIn, Row
    <2> QED
      BY <1>1, <2>4, OutOfReachDef, OutOfReachPrime DEF Suspend, Reinstate, NobodyLetsIn
  <1>2. CASE \E v \in User : Refresh(v)
    BY <1>2, OutOfReachDef, OutOfReachPrime DEF Refresh, NobodyLetsIn
  <1>3. CASE \E p \in Handler : Crash(p)
    BY <1>3, ReturnOutside, OutOfReachDef, OutOfReachPrime DEF Crash
  <1>4. CASE Tick
    BY <1>4, OutOfReachDef, OutOfReachPrime DEF Tick, NobodyLetsIn
  <1>5. CASE UNCHANGED vars
    BY <1>5, OutOfReachDef, OutOfReachPrime DEF vars, NobodyLetsIn
  <1> QED
    BY <1>1, <1>2, <1>3, <1>4, <1>5

LEMMA StepKeepsOut ==
  ASSUME IInv, Next \/ UNCHANGED vars, NEW u \in User, OutOfReach(u)
  PROVE  \/ OutOfReach(u)'
         \/ \E p \in Handler : Rebind(p) /\ req[p].user = u /\ row[u].status # "DEACTIVATED"
  BY NextCases, HandlersKeepOut, EraseKeepsOut, RebindKeepsOut, AskKeepsOut, InsertsKeepOut,
     OthersKeepOut

(* An account without a way in, a token or a request stays out, but for an   *)
(* administrator who rebinds one that is not deactivated.                    *)
THEOREM ReachTheorem == Spec => OutOfReachStays
  <1>1. IInv /\ [Next]_vars =>
          [\A u \in User : OutOfReach(u) =>
             \/ OutOfReach(u)'
             \/ \E p \in Handler : Rebind(p) /\ req[p].user = u /\ row[u].status # "DEACTIVATED"]_vars
    BY StepKeepsOut
  <1> QED
    BY <1>1, Invariance, PTL DEF Spec, OutOfReachStays
=============================================================================
