------------------------ MODULE RefreshTokens_proofs ------------------------
(***************************************************************************)
(* Proofs about RefreshTokens, for any users, handlers and bounds.         *)
(*                                                                         *)
(* The three safety properties are inductive once three facts about the    *)
(* table and the handlers are added: a row belongs to a family founded by  *)
(* a row of the same owner (FamiliesFounded), a history variable only      *)
(* names families and users it can speak of (HistoryOK), and a handler     *)
(* that is past its read holds a row that exists (RequestsOK).             *)
(***************************************************************************)
EXTENDS RefreshTokens, FiniteSetTheorems, WellFoundedInduction, TLAPS

FamiliesFounded ==
  \A t \in Issued :
    /\ rows[t].family \in 1..t
    /\ rows[t].owner = rows[rows[t].family].owner

HistoryOK ==
  /\ closed \subseteq Issued
  /\ \A u \in swept : account[u] = "blocked"

RequestsOK ==
  \A p \in Proc :
    /\ req[p].pc \in {"rotate", "recheck", "burn"} => req[p].tok \in Issued
    /\ req[p].pc \in {"scan", "evict", "sweep"} => req[p].user \in User
    /\ req[p].evict \subseteq Issued

IInv ==
  /\ TypeOK
  /\ FamiliesFounded
  /\ HistoryOK
  /\ RequestsOK
  /\ OneLivePerFamily
  /\ ClosedIsFinal
  /\ BlockedSessionsAreLogins

-----------------------------------------------------------------------------
(* Appending a row of the right shape keeps every older row where it was. *)
LEMMA AppendRow ==
  ASSUME TypeOK, Len(rows) + 1 <= MaxTokens, NEW r \in Row,
         rows' = Append(rows, r)
  PROVE  /\ rows' \in Seq(Row)
         /\ Len(rows') = Len(rows) + 1
         /\ \A t \in 1..Len(rows) : rows'[t] = rows[t]
         /\ rows'[Len(rows) + 1] = r
         /\ Issued' = Issued \cup {Len(rows) + 1}
         /\ Len(rows) \in Nat
<1>1. rows \in Seq(Row) /\ Len(rows) \in Nat
  BY DEF TypeOK
<1>2. /\ rows' \in Seq(Row)
      /\ Len(rows') = Len(rows) + 1
      /\ \A t \in 1..Len(rows) : rows'[t] = rows[t]
      /\ rows'[Len(rows) + 1] = r
  BY <1>1
<1>. QED  BY <1>1, <1>2 DEF Issued

(* What the types say of the rows and of the handlers. *)
LEMMA RowTypes ==
  ASSUME TypeOK
  PROVE  /\ Len(rows) \in Nat /\ Issued \subseteq Token
         /\ \A t \in Issued : /\ rows[t] \in Row
                              /\ rows[t].owner \in User
                              /\ rows[t].family \in Token
                              /\ rows[t].parent \in 0..MaxTokens
<1>1. Len(rows) \in Nat /\ Issued \subseteq Token
  BY ConstantsAssumption DEF TypeOK, Issued, Token
<1>2. \A t \in Issued : rows[t] \in Row
  BY DEF TypeOK, Issued
<1>. QED  BY <1>1, <1>2 DEF Row

LEMMA IdleIsRequest == Idle \in Request /\ Idle.pc = "idle" /\ Idle.evict = {}
BY ConstantsAssumption DEF Idle, Serving, Request

LEMMA ServingType ==
  ASSUME NEW pc \in {"scan", "rotate", "recheck", "burn", "sweep"},
         NEW u \in User \cup {NoUser}, NEW t \in 0..MaxTokens
  PROVE  Serving(pc, u, t) \in Request
BY DEF Serving, Request

LEMMA ReturnType ==
  ASSUME TypeOK, NEW p \in Proc, Return(p)
  PROVE  req' \in [Proc -> Request]
BY IdleIsRequest DEF TypeOK, Return

LEMMA InitIInv == Init => IInv
<1>. SUFFICES ASSUME Init PROVE IInv
  OBVIOUS
<1>1. TypeOK
  BY ConstantsAssumption, IdleIsRequest DEF Init, TypeOK
<1>2. Issued = {} /\ swept = {} /\ closed = {}
  BY DEF Init, Issued
<1>3. RequestsOK
  BY IdleIsRequest DEF Init, RequestsOK
<1>. QED
  BY <1>1, <1>2, <1>3
     DEF IInv, FamiliesFounded, HistoryOK, OneLivePerFamily, ClosedIsFinal,
         BlockedSessionsAreLogins, Live

(* The types: every step keeps them, given that handlers hold existing rows. *)
LEMMA TypeOKStep ==
  ASSUME IInv, [Next]_vars
  PROVE  TypeOK'
<1>0. TypeOK /\ RequestsOK
  BY DEF IInv
<1>1. ASSUME NEW p \in Proc, NEW u \in User, Login(p, u) \/ LogoutAll(p, u) \/ Block(p, u)
      PROVE  TypeOK'
  <2>1. Serving("scan", u, 0) \in Request /\ Serving("sweep", u, 0) \in Request
    BY ServingType, ConstantsAssumption
  <2>2. req' \in [Proc -> Request]
    BY <1>0, <1>1, <2>1 DEF Login, Usable, LogoutAll, Block, Begin, TypeOK
  <2>. QED  BY <1>0, <1>1, <2>2 DEF Login, Usable, LogoutAll, Block, TypeOK, Issued
<1>2. ASSUME NEW p \in Proc, NEW t \in Token, Present(p, t) \/ LogoutToken(p, t)
      PROVE  TypeOK'
  <2>1. Serving("burn", NoUser, t) \in Request /\ Serving("rotate", NoUser, t) \in Request
    BY ServingType DEF Token
  <2>2. req' \in [Proc -> Request]
    BY <1>0, <1>2, <2>1 DEF Present, LogoutToken, Begin, TypeOK
  <2>. QED  BY <1>0, <1>2, <2>2 DEF Present, LogoutToken, TypeOK, Issued
<1>3. ASSUME NEW p \in Proc, Scan(p)
      PROVE  TypeOK'
  <2>1. OverCap(req[p].user) \subseteq Token
    BY <1>0, RowTypes DEF OverCap, ActiveFamilies, LiveOf, Live
  <2>2. req' \in [Proc -> Request]
    BY <1>0, <1>3, <2>1 DEF Scan, TypeOK, Request
  <2>. QED  BY <1>0, <1>3, <2>2 DEF Scan, TypeOK, Issued
<1>4. ASSUME NEW p \in Proc, Evict(p)
      PROVE  TypeOK'
  <2>1. PICK t \in req[p].evict :
          RevokeFamily(rows[t].family) /\ req' = [req EXCEPT ![p].evict = @ \ {t}]
    BY <1>4 DEF Evict
  <2>2. t \in Issued
    BY <1>0, <2>1 DEF RequestsOK
  <2>3. req' \in [Proc -> Request]
    BY <1>0, <2>1 DEF TypeOK, Request
  <2>4. revoked' \subseteq Issued' /\ closed' \subseteq Token
    BY <1>0, <1>4, <2>1, <2>2, RowTypes DEF Evict, RevokeFamily, FamilyOf, TypeOK, Issued
  <2>. QED  BY <1>0, <1>4, <2>3, <2>4 DEF Evict, TypeOK, Issued
<1>5. ASSUME NEW p \in Proc, Create(p)
      PROVE  TypeOK'
  <2>. DEFINE new == [owner |-> req[p].user, family |-> Len(rows) + 1, parent |-> 0]
  <2>1. new \in Row
    BY <1>0, <1>5, RowTypes, ConstantsAssumption DEF Create, At, RequestsOK, Row, Token
  <2>2. Len(rows) + 1 <= MaxTokens /\ rows' = Append(rows, new)
    BY <1>5 DEF Create
  <2>3. /\ rows' \in Seq(Row) /\ Len(rows') = Len(rows) + 1 /\ Len(rows) \in Nat
        /\ Issued' = Issued \cup {Len(rows) + 1}
    BY <1>0, <2>1, <2>2, AppendRow
  <2>4. req' \in [Proc -> Request]
    BY <1>0, <1>5, ReturnType DEF Create
  <2>5. held' \subseteq Issued'
    BY <1>0, <1>5, <2>3 DEF Create, TypeOK
  <2>6. revoked' \subseteq Issued' /\ lapsed' \in 0..Len(rows')
    BY <1>0, <1>5, <2>3 DEF Create, TypeOK
  <2>. QED  BY <1>0, <1>5, <2>2, <2>3, <2>4, <2>5, <2>6 DEF Create, TypeOK
<1>6. ASSUME NEW p \in Proc, Rotate(p)
      PROVE  TypeOK'
  <2>. DEFINE old == req[p].tok
              new == [owner |-> rows[old].owner, family |-> rows[old].family, parent |-> old]
  <2>1. old \in Issued
    BY <1>0, <1>6 DEF Rotate, RevokeRow, At, RequestsOK
  <2>2. new \in Row /\ rows[old].family \in Token /\ Len(rows) \in Nat
    BY <1>0, <2>1, RowTypes, ConstantsAssumption DEF Row, Token
  <2>3. Len(rows) + 1 <= MaxTokens /\ rows' = Append(rows, new)
    BY <1>6 DEF Rotate, RevokeRow
  <2>4. /\ rows' \in Seq(Row) /\ Len(rows') = Len(rows) + 1
        /\ Issued' = Issued \cup {Len(rows) + 1}
    BY <1>0, <2>2, <2>3, AppendRow
  <2>5. stale' \subseteq Token /\ revoked' \subseteq Issued'
    BY <1>0, <1>6, <2>1, <2>2, <2>4 DEF Rotate, RevokeRow, TypeOK
  <2>6. req' \in [Proc -> Request]
    <3>1. Serving("recheck", NoUser, Len(rows) + 1) \in Request
      BY <2>2, <2>3, ServingType, ConstantsAssumption
    <3>. QED  BY <1>0, <1>6, <3>1 DEF Rotate, RevokeRow, TypeOK
  <2>. QED  BY <1>0, <1>6, <2>2, <2>3, <2>4, <2>5, <2>6 DEF Rotate, RevokeRow, TypeOK
<1>7. ASSUME NEW p \in Proc, Recheck(p)
      PROVE  TypeOK'
  <2>1. req[p].tok \in Issued
    BY <1>0, <1>7 DEF Recheck, Usable, At, RequestsOK
  <2>2. held' \subseteq Issued'
    BY <1>0, <1>7, <2>1 DEF Recheck, Usable, TypeOK, Issued
  <2>3. req' \in [Proc -> Request]
    <3>0. Serving("burn", NoUser, req[p].tok) \in Request
      <4>1. req[p].tok \in 0..MaxTokens
        BY <1>0, <2>1, RowTypes, ConstantsAssumption DEF Token
      <4>. QED  BY <4>1, ServingType
    <3>1. CASE Return(p)
      BY <1>0, <3>1, ReturnType
    <3>2. CASE req' = [req EXCEPT ![p] = Serving("burn", NoUser, req[p].tok)]
      BY <1>0, <3>0, <3>2 DEF TypeOK
    <3>. QED  BY <1>7, <3>1, <3>2 DEF Recheck, Usable
  <2>. QED  BY <1>0, <1>7, <2>2, <2>3 DEF Recheck, Usable, TypeOK, Issued
<1>8. ASSUME NEW p \in Proc, Burn(p)
      PROVE  TypeOK'
  <2>1. req[p].tok \in Issued
    BY <1>0, <1>8 DEF Burn, At, RequestsOK
  <2>2. revoked' \subseteq Issued' /\ closed' \subseteq Token
    BY <1>0, <1>8, <2>1, RowTypes DEF Burn, RevokeFamily, FamilyOf, TypeOK, Issued
  <2>3. req' \in [Proc -> Request]
    BY <1>0, <1>8, ReturnType DEF Burn
  <2>. QED  BY <1>0, <1>8, <2>2, <2>3 DEF Burn, TypeOK, Issued
<1>9. ASSUME NEW p \in Proc, Sweep(p)
      PROVE  TypeOK'
  <2>1. req[p].user \in User
    BY <1>0, <1>9 DEF Sweep, At, RequestsOK
  <2>2. revoked' \subseteq Issued' /\ closed' \subseteq Token /\ swept' \subseteq User
    BY <1>0, <1>9, <2>1, RowTypes DEF Sweep, RevokeAllForUser, OwnedBy, TypeOK, Issued
  <2>3. req' \in [Proc -> Request]
    BY <1>0, <1>9, ReturnType DEF Sweep
  <2>. QED  BY <1>0, <1>9, <2>2, <2>3 DEF Sweep, TypeOK, Issued
<1>10. ASSUME NEW p \in Proc, Crash(p)
       PROVE  TypeOK'
  BY <1>0, <1>10, ReturnType DEF Crash, TypeOK, Issued
<1>11. ASSUME NEW u \in User, Reactivate(u)
       PROVE  TypeOK'
  BY <1>0, <1>11 DEF Reactivate, TypeOK, Issued
<1>12. ASSUME Lapse PROVE TypeOK'
  BY <1>0, <1>12, RowTypes DEF Lapse, TypeOK, Issued
<1>13. ASSUME UNCHANGED vars PROVE TypeOK'
  BY <1>0, <1>13 DEF vars, TypeOK, Issued
<1>. QED
  BY <1>1, <1>2, <1>3, <1>4, <1>5, <1>6, <1>7, <1>8, <1>9, <1>10, <1>11, <1>12, <1>13 DEF Next

-----------------------------------------------------------------------------
(* A family is named by a row. *)
LEMMA FamilyIssued ==
  ASSUME IInv
  PROVE  \A t \in Issued : rows[t].family \in Issued
<1>. SUFFICES ASSUME NEW t \in Issued PROVE rows[t].family \in Issued
  OBVIOUS
<1>1. rows[t].family \in 1..t /\ Len(rows) \in Nat
  BY RowTypes DEF IInv, FamiliesFounded
<1>. QED  BY <1>1 DEF Issued

(* What a step may do to the table: grow it by a Create or a Rotate, or      *)
(* revoke rows that are already there.                                       *)
LEMMA TableStep ==
  ASSUME [Next]_vars
  PROVE  \/ \E p \in Proc : Create(p) \/ Rotate(p)
         \/ rows' = rows /\ revoked \subseteq revoked' /\ stale' = stale
BY DEF Next, vars, Login, LogoutAll, Block, Present, LogoutToken, Scan, Evict, Recheck,
       Burn, Sweep, Crash, Reactivate, Lapse, RevokeRow, RevokeFamily, RevokeAllForUser

(* What the two steps that insert a row do to it. *)
LEMMA CreateAppends ==
  ASSUME IInv, NEW p \in Proc, Create(p)
  PROVE  /\ Issued' = Issued \cup {Len(rows) + 1} /\ Len(rows) + 1 \notin Issued
         /\ \A t \in Issued : rows'[t] = rows[t] /\ t < Len(rows) + 1
         /\ rows'[Len(rows) + 1] =
               [owner |-> req[p].user, family |-> Len(rows) + 1, parent |-> 0]
         /\ Len(rows) \in Nat
<1>. DEFINE new == [owner |-> req[p].user, family |-> Len(rows) + 1, parent |-> 0]
<1>0. TypeOK /\ RequestsOK
  BY DEF IInv
<1>1. new \in Row
  BY <1>0, RowTypes, ConstantsAssumption DEF Create, At, RequestsOK, Row, Token
<1>2. Len(rows) + 1 <= MaxTokens /\ rows' = Append(rows, new)
  BY DEF Create
<1>3. /\ \A t \in 1..Len(rows) : rows'[t] = rows[t]
      /\ rows'[Len(rows) + 1] = new
      /\ Issued' = Issued \cup {Len(rows) + 1}
      /\ Len(rows) \in Nat
  BY <1>0, <1>1, <1>2, AppendRow
<1>. QED  BY <1>3 DEF Issued

LEMMA RotateAppends ==
  ASSUME IInv, NEW p \in Proc, Rotate(p)
  PROVE  /\ Issued' = Issued \cup {Len(rows) + 1} /\ Len(rows) + 1 \notin Issued
         /\ \A t \in Issued : rows'[t] = rows[t] /\ t < Len(rows) + 1
         /\ req[p].tok \in Issued
         /\ rows'[Len(rows) + 1] =
               [owner |-> rows[req[p].tok].owner, family |-> rows[req[p].tok].family,
                parent |-> req[p].tok]
         /\ Len(rows) \in Nat
<1>. DEFINE old == req[p].tok
            new == [owner |-> rows[old].owner, family |-> rows[old].family, parent |-> old]
<1>0. TypeOK /\ RequestsOK
  BY DEF IInv
<1>1. old \in Issued
  BY <1>0 DEF Rotate, RevokeRow, At, RequestsOK
<1>2. new \in Row
  BY <1>0, <1>1, RowTypes, ConstantsAssumption DEF Row, Token
<1>3. Len(rows) + 1 <= MaxTokens /\ rows' = Append(rows, new)
  BY DEF Rotate, RevokeRow
<1>4. /\ \A t \in 1..Len(rows) : rows'[t] = rows[t]
      /\ rows'[Len(rows) + 1] = new
      /\ Issued' = Issued \cup {Len(rows) + 1}
      /\ Len(rows) \in Nat
  BY <1>0, <1>2, <1>3, AppendRow
<1>. QED  BY <1>1, <1>4 DEF Issued

LEMMA FamiliesFoundedStep ==
  ASSUME IInv, [Next]_vars
  PROVE  FamiliesFounded'
<1>0. FamiliesFounded /\ TypeOK
  BY DEF IInv
<1>1. ASSUME NEW p \in Proc, Create(p) \/ Rotate(p)
      PROVE  FamiliesFounded'
  <2>0. PICK n \in Nat \ {0} : n = Len(rows) + 1
    <3>. Len(rows) \in Nat
      BY <1>0 DEF TypeOK
    <3>. QED  OBVIOUS
  <2>1. /\ Issued' = Issued \cup {n}
        /\ \A t \in Issued : rows'[t] = rows[t]
    BY <1>1, <2>0, CreateAppends, RotateAppends
  <2>5. \A t \in Issued : t < n /\ t \in Nat /\ 1..t \subseteq 1..n
    <3>. Len(rows) \in Nat
      BY <1>0 DEF TypeOK
    <3>. QED  BY <2>0 DEF Issued
  <2>2. ASSUME NEW t \in Issued
        PROVE  rows[t].family \in Issued /\ rows[t].family \in 1..t
    <3>1. rows[t].family \in 1..t
      BY <1>0 DEF FamiliesFounded
    <3>. QED  BY <2>0, <3>1 DEF Issued
  <2>3. ASSUME NEW t \in Issued
        PROVE  rows'[t].family \in 1..t /\ rows'[t].owner = rows'[rows'[t].family].owner
    BY <1>0, <2>1, <2>2 DEF FamiliesFounded
  <2>4. rows'[n].family \in 1..n /\ rows'[n].owner = rows'[rows'[n].family].owner
    <3>1. CASE Create(p)
      <4>0. rows'[n] = [owner |-> req[p].user, family |-> n, parent |-> 0]
        BY <2>0, <3>1, CreateAppends, Zenon
      <4>1. rows'[n].family = n
        BY <4>0
      <4>2. n \in 1..n
        BY <2>0
      <4>. QED  BY <4>1, <4>2
    <3>2. CASE Rotate(p)
      <4>0. PICK old \in Issued :
              rows'[n] = [owner |-> rows[old].owner, family |-> rows[old].family, parent |-> old]
        BY <2>0, <3>2, RotateAppends, Zenon
      <4>1. rows'[n].family = rows[old].family /\ rows'[n].owner = rows[old].owner
        BY <4>0
      <4>2. rows[old].family \in 1..n
        BY <2>5, <2>2
      <4>3. rows'[rows[old].family].owner = rows[old].owner
        BY <1>0, <2>1, <2>2 DEF FamiliesFounded
      <4>. QED  BY <4>1, <4>2, <4>3
    <3>. QED  BY <1>1, <3>1, <3>2
  <2>. QED  BY <2>1, <2>3, <2>4 DEF FamiliesFounded
<1>3. CASE rows' = rows
  BY <1>0, <1>3 DEF FamiliesFounded, Issued
<1>. QED  BY <1>1, <1>3, TableStep

(* Rows that existed keep their owner, family and parent. *)
LEMMA RowsKept ==
  ASSUME IInv, [Next]_vars
  PROVE  Issued \subseteq Issued' /\ \A t \in Issued : rows'[t] = rows[t]
<1>1. ASSUME NEW p \in Proc, Create(p) \/ Rotate(p)
      PROVE  Issued \subseteq Issued' /\ \A t \in Issued : rows'[t] = rows[t]
  BY <1>1, CreateAppends, RotateAppends
<1>2. CASE rows' = rows
  BY <1>2 DEF Issued
<1>. QED  BY <1>1, <1>2, TableStep

(* The families and users the history variables name. *)
LEMMA HistoryOKStep ==
  ASSUME IInv, [Next]_vars
  PROVE  HistoryOK'
<1>0. TypeOK /\ HistoryOK /\ RequestsOK /\ Issued \subseteq Issued'
  BY RowsKept DEF IInv
<1>1. \A t \in Issued : rows[t].family \in Issued
  BY FamilyIssued
<1>2. closed' \subseteq Issued'
  <2>1. ASSUME NEW f \in Issued, RevokeFamily(f) PROVE closed' \subseteq Issued'
    BY <1>0, <2>1 DEF RevokeFamily, HistoryOK
  <2>2. ASSUME NEW u \in User, RevokeAllForUser(u) PROVE closed' \subseteq Issued'
    BY <1>0, <1>1, <2>2 DEF RevokeAllForUser, OwnedBy, HistoryOK
  <2>3. CASE closed' = closed
    BY <1>0, <2>3 DEF HistoryOK
  <2>4. ASSUME NEW p \in Proc, Evict(p) PROVE closed' \subseteq Issued'
    <3>1. PICK t \in req[p].evict : RevokeFamily(rows[t].family)
      BY <2>4 DEF Evict
    <3>. QED  BY <1>0, <1>1, <2>1, <3>1 DEF RequestsOK
  <2>5. ASSUME NEW p \in Proc, Burn(p) PROVE closed' \subseteq Issued'
    BY <1>0, <1>1, <2>1, <2>5 DEF Burn, At, RequestsOK
  <2>6. ASSUME NEW p \in Proc, Sweep(p) PROVE closed' \subseteq Issued'
    BY <1>0, <2>2, <2>6 DEF Sweep, At, RequestsOK
  <2>. QED
    BY <2>3, <2>4, <2>5, <2>6
       DEF Next, vars, Login, LogoutAll, Block, Present, LogoutToken, Scan, Create, Rotate,
           Recheck, Crash, Reactivate, Lapse
<1>3. \A u \in swept' : account'[u] = "blocked"
  <2>1. ASSUME NEW p \in Proc, NEW u \in User, Block(p, u)
        PROVE  \A v \in swept' : account'[v] = "blocked"
    BY <1>0, <2>1 DEF Block, HistoryOK, TypeOK
  <2>2. ASSUME NEW p \in Proc, Sweep(p)
        PROVE  \A v \in swept' : account'[v] = "blocked"
    BY <1>0, <2>2 DEF Sweep, RevokeAllForUser, HistoryOK
  <2>3. ASSUME NEW u \in User, Reactivate(u)
        PROVE  \A v \in swept' : account'[v] = "blocked"
    BY <1>0, <2>3 DEF Reactivate, HistoryOK, TypeOK
  <2>4. CASE swept' = swept /\ account' = account
    BY <1>0, <2>4 DEF HistoryOK
  <2>. QED
    BY <2>1, <2>2, <2>3, <2>4
       DEF Next, vars, Login, LogoutAll, Present, LogoutToken, Scan, Evict, Create, Rotate,
           Recheck, Burn, Crash, Lapse
<1>. QED  BY <1>2, <1>3 DEF HistoryOK

(* The handlers' rows and users. *)
LEMMA RequestsOKStep ==
  ASSUME IInv, [Next]_vars
  PROVE  RequestsOK'
<1>. DEFINE Sound(r) == /\ r.pc \in {"rotate", "recheck", "burn"} => r.tok \in Issued'
                        /\ r.pc \in {"scan", "evict", "sweep"} => r.user \in User
                        /\ r.evict \subseteq Issued'
<1>0. TypeOK /\ RequestsOK /\ Issued \subseteq Issued'
  BY RowsKept DEF IInv
<1>1. \A p \in Proc : Sound(req[p])
  BY <1>0 DEF RequestsOK
<1>2. Sound(Idle)
  BY IdleIsRequest
<1>3. \A u \in User : Sound(Serving("scan", u, 0)) /\ Sound(Serving("sweep", u, 0))
  BY DEF Serving
<1>4. \A t \in Issued' : /\ Sound(Serving("rotate", NoUser, t))
                        /\ Sound(Serving("recheck", NoUser, t))
                        /\ Sound(Serving("burn", NoUser, t))
  BY DEF Serving
<1>5. \A p \in Proc : Sound(req'[p])
  <2>1. ASSUME NEW p \in Proc, NEW r, Sound(r), req' = [req EXCEPT ![p] = r]
        PROVE  \A q \in Proc : Sound(req'[q])
    BY <1>0, <1>1, <2>1 DEF TypeOK
  <2>2. ASSUME NEW p \in Proc, Return(p)
        PROVE  \A q \in Proc : Sound(req'[q])
    BY <1>2, <2>1, <2>2 DEF Return
  <2>3. ASSUME NEW p \in Proc, NEW u \in User, Login(p, u) \/ LogoutAll(p, u) \/ Block(p, u)
        PROVE  \A q \in Proc : Sound(req'[q])
    BY <1>3, <2>1, <2>3 DEF Login, Usable, LogoutAll, Block, Begin
  <2>4. ASSUME NEW p \in Proc, NEW t \in Token, Present(p, t) \/ LogoutToken(p, t)
        PROVE  \A q \in Proc : Sound(req'[q])
    <3>1. t \in Issued'
      BY <1>0, <2>4 DEF Present, LogoutToken, TypeOK
    <3>. QED  BY <1>4, <2>1, <2>4, <3>1 DEF Present, LogoutToken, Begin
  <2>5. ASSUME NEW p \in Proc, Scan(p)
        PROVE  \A q \in Proc : Sound(req'[q])
    <3>1. OverCap(req[p].user) \subseteq Issued'
      BY <1>0 DEF OverCap, ActiveFamilies, LiveOf, Live
    <3>2. req[p].user \in User
      BY <1>0, <2>5 DEF Scan, At, RequestsOK
    <3>. QED  BY <1>0, <1>1, <2>5, <3>1, <3>2 DEF Scan, TypeOK, Request
  <2>6. ASSUME NEW p \in Proc, Evict(p)
        PROVE  \A q \in Proc : Sound(req'[q])
    BY <1>0, <1>1, <2>6 DEF Evict, TypeOK, Request
  <2>7. ASSUME NEW p \in Proc, Rotate(p)
        PROVE  \A q \in Proc : Sound(req'[q])
    <3>1. Len(rows) + 1 \in Issued'
      BY <2>7, RotateAppends
    <3>. QED  BY <1>4, <2>1, <2>7, <3>1 DEF Rotate, RevokeRow
  <2>8. ASSUME NEW p \in Proc, Recheck(p)
        PROVE  \A q \in Proc : Sound(req'[q])
    <3>1. req[p].tok \in Issued'
      BY <1>0, <2>8 DEF Recheck, Usable, At, RequestsOK
    <3>. QED  BY <1>4, <2>1, <2>2, <2>8, <3>1 DEF Recheck, Usable
  <2>9. CASE req' = req
    BY <1>1, <2>9
  <2>. QED
    BY <2>2, <2>3, <2>4, <2>5, <2>6, <2>7, <2>8, <2>9
       DEF Next, vars, Create, Burn, Sweep, Crash, Reactivate, Lapse
<1>. QED  BY <1>5 DEF RequestsOK

-----------------------------------------------------------------------------
(* One usable row per family: a rotation that is not stale trades one for    *)
(* another, a new family starts with one, and nothing else adds a row.       *)
LEMMA OneLiveStep ==
  ASSUME IInv, [Next]_vars
  PROVE  OneLivePerFamily'
<1>0. OneLivePerFamily /\ TypeOK /\ FamiliesFounded
  BY DEF IInv
<1>. SUFFICES ASSUME NEW s \in Live', NEW t \in Live',
                     rows'[s].family = rows'[t].family, rows'[s].family \notin stale'
              PROVE  s = t
  BY DEF OneLivePerFamily
<1>1. CASE rows' = rows /\ revoked \subseteq revoked' /\ stale' = stale
  BY <1>0, <1>1 DEF OneLivePerFamily, Live, Issued
<1>2. ASSUME NEW p \in Proc, Create(p)
      PROVE  s = t
  <2>0. PICK n : n = Len(rows) + 1
    OBVIOUS
  <2>1. /\ Issued' = Issued \cup {n} /\ n \notin Issued
        /\ \A r \in Issued : rows'[r] = rows[r]
        /\ rows'[n] = [owner |-> req[p].user, family |-> n, parent |-> 0]
    BY <1>2, <2>0, CreateAppends, Zenon
  <2>2. rows'[n].family = n /\ revoked' = revoked /\ stale' = stale
    <3>1. rows'[n].family = n
      BY <2>1
    <3>. QED  BY <1>2, <3>1 DEF Create
  <2>3. \A r \in Issued : rows'[r].family \in Issued
    BY <2>1, FamilyIssued
  <2>. QED  BY <1>0, <2>1, <2>2, <2>3 DEF OneLivePerFamily, Live
<1>3. ASSUME NEW p \in Proc, Rotate(p)
      PROVE  s = t
  <2>0. PICK n : n = Len(rows) + 1
    OBVIOUS
  <2>1. PICK old \in Issued :
          /\ old = req[p].tok
          /\ Issued' = Issued \cup {n} /\ n \notin Issued
          /\ \A r \in Issued : rows'[r] = rows[r]
          /\ rows'[n] = [owner |-> rows[old].owner, family |-> rows[old].family,
                         parent |-> old]
    BY <1>3, <2>0, RotateAppends, Zenon
  <2>2. rows'[n].family = rows[old].family
    BY <2>1
  <2>3. /\ revoked' = revoked \cup {old}
        /\ stale' = IF old \in revoked THEN stale \cup {rows[old].family} ELSE stale
    BY <1>3, <2>1 DEF Rotate, RevokeRow
  <2>4. stale \subseteq stale'
    BY <2>3
  <2>5. ASSUME NEW r \in Live', r # n
        PROVE  r \in Live /\ r # old /\ rows'[r] = rows[r]
    BY <2>1, <2>3, <2>5 DEF Live
  <2>6. ASSUME NEW r \in Live', r # n, rows'[r].family = rows[old].family
        PROVE  rows[old].family \in stale'
    <3>1. CASE old \in revoked
      BY <2>3, <3>1
    <3>2. CASE old \notin revoked
      BY <1>0, <2>1, <2>4, <2>5, <2>6, <3>2 DEF OneLivePerFamily, Live
    <3>. QED  BY <3>1, <3>2
  <2>7. CASE s # n /\ t # n
    BY <1>0, <2>4, <2>5, <2>7 DEF OneLivePerFamily
  <2>8. CASE s = n \/ t = n
    BY <2>2, <2>6, <2>8
  <2>. QED  BY <2>7, <2>8
<1>. QED  BY <1>1, <1>2, <1>3, TableStep

(* A family revoked as a whole stays so: the statement that revokes it        *)
(* leaves none of its rows, a new family has a fresh name, and a rotation     *)
(* that finds its row revoked is stale.                                       *)
LEMMA ClosedStep ==
  ASSUME IInv, [Next]_vars
  PROVE  ClosedIsFinal'
<1>0. ClosedIsFinal /\ TypeOK /\ FamiliesFounded /\ HistoryOK /\ RequestsOK
  BY DEF IInv
<1>. SUFFICES ASSUME NEW t \in Live', rows'[t].family \in closed'
              PROVE  rows'[t].family \in stale'
  BY DEF ClosedIsFinal
<1>1. ASSUME NEW f, RevokeFamily(f), rows' = rows, stale' = stale
      PROVE  rows'[t].family \in stale'
  BY <1>0, <1>1 DEF RevokeFamily, FamilyOf, ClosedIsFinal, Live, Issued
<1>2. ASSUME NEW p \in Proc, Evict(p) \/ Burn(p)
      PROVE  rows'[t].family \in stale'
  BY <1>1, <1>2 DEF Evict, Burn
<1>3. ASSUME NEW p \in Proc, Sweep(p)
      PROVE  rows'[t].family \in stale'
  <2>1. PICK u : RevokeAllForUser(u) /\ rows' = rows /\ stale' = stale
    BY <1>3 DEF Sweep
  <2>4. Issued' = Issued /\ revoked' = revoked \cup OwnedBy(u)
    BY <2>1 DEF RevokeAllForUser, Issued
  <2>5. t \in Issued /\ t \notin revoked /\ t \notin OwnedBy(u)
    BY <2>4 DEF Live
  <2>2. t \in Live /\ rows[t].owner # u
    BY <2>5 DEF OwnedBy, Live
  <2>3. rows[t].family \notin {rows[s].family : s \in OwnedBy(u)}
    <3>1. ASSUME NEW s \in Issued, rows[s].family = rows[t].family
          PROVE  rows[s].owner = rows[t].owner
      BY <1>0, <2>5, <3>1 DEF FamiliesFounded
    <3>. QED  BY <2>2, <3>1 DEF OwnedBy
  <2>. QED  BY <1>0, <2>1, <2>2, <2>3 DEF RevokeAllForUser, ClosedIsFinal
<1>4. ASSUME NEW p \in Proc, Create(p)
      PROVE  rows'[t].family \in stale'
  <2>0. PICK n : n = Len(rows) + 1
    OBVIOUS
  <2>1. /\ Issued' = Issued \cup {n} /\ n \notin Issued
        /\ \A r \in Issued : rows'[r] = rows[r]
        /\ rows'[n] = [owner |-> req[p].user, family |-> n, parent |-> 0]
    BY <1>4, <2>0, CreateAppends, Zenon
  <2>2. /\ rows'[n].family = n
        /\ revoked' = revoked /\ stale' = stale /\ closed' = closed
    <3>1. rows'[n].family = n
      BY <2>1
    <3>. QED  BY <1>4, <3>1 DEF Create
  <2>3. n \notin closed'
    BY <1>0, <2>1, <2>2 DEF HistoryOK
  <2>. QED  BY <1>0, <2>1, <2>2, <2>3 DEF ClosedIsFinal, Live
<1>5. ASSUME NEW p \in Proc, Rotate(p)
      PROVE  rows'[t].family \in stale'
  <2>0. PICK n : n = Len(rows) + 1
    OBVIOUS
  <2>1. PICK old \in Issued :
          /\ old = req[p].tok
          /\ Issued' = Issued \cup {n} /\ n \notin Issued
          /\ \A r \in Issued : rows'[r] = rows[r]
          /\ rows'[n] = [owner |-> rows[old].owner, family |-> rows[old].family,
                         parent |-> old]
    BY <1>5, <2>0, RotateAppends, Zenon
  <2>2. rows'[n].family = rows[old].family
    BY <2>1
  <2>3. /\ revoked' = revoked \cup {old} /\ closed' = closed
        /\ stale' = IF old \in revoked THEN stale \cup {rows[old].family} ELSE stale
    BY <1>5, <2>1 DEF Rotate, RevokeRow
  <2>4. CASE t = n
    BY <1>0, <2>1, <2>2, <2>3, <2>4 DEF ClosedIsFinal, Live
  <2>5. CASE t # n
    BY <1>0, <2>1, <2>3, <2>5 DEF ClosedIsFinal, Live
  <2>. QED  BY <2>4, <2>5
<1>6. CASE rows' = rows /\ revoked' = revoked /\ stale' = stale /\ closed' = closed
  BY <1>0, <1>6 DEF ClosedIsFinal, Live, Issued
<1>. QED
  BY <1>2, <1>3, <1>4, <1>5, <1>6
     DEF Next, vars, Login, LogoutAll, Block, Present, LogoutToken, Scan, Recheck, Crash,
         Reactivate, Lapse

(* A swept account gets a usable secret into a client's hands only by a      *)
(* Create: a Rotate does not hand its row out, and a Recheck that does looks *)
(* at the account.                                                           *)
LEMMA BlockedStep ==
  ASSUME IInv, [Next]_vars
  PROVE  BlockedSessionsAreLogins'
<1>0. BlockedSessionsAreLogins /\ TypeOK /\ HistoryOK /\ RequestsOK
  BY DEF IInv
<1>. SUFFICES ASSUME NEW u \in swept', NEW t \in (Live \cap held)', rows'[t].owner = u
              PROVE  rows'[t].parent = 0
  BY DEF BlockedSessionsAreLogins, LiveOf
<1>1. ASSUME NEW p \in Proc, Create(p)
      PROVE  rows'[t].parent = 0
  <2>0. PICK n : n = Len(rows) + 1
    OBVIOUS
  <2>1. /\ Issued' = Issued \cup {n}
        /\ \A r \in Issued : rows'[r] = rows[r]
        /\ rows'[n] = [owner |-> req[p].user, family |-> n, parent |-> 0]
    BY <1>1, <2>0, CreateAppends, Zenon
  <2>2. rows'[n].parent = 0 /\ held' = held \cup {n} /\ revoked' = revoked /\ swept' = swept
    BY <1>1, <2>0, <2>1 DEF Create
  <2>. QED  BY <1>0, <2>1, <2>2 DEF BlockedSessionsAreLogins, LiveOf, Live, TypeOK
<1>2. ASSUME NEW p \in Proc, Rotate(p)
      PROVE  rows'[t].parent = 0
  <2>1. /\ held' = held /\ revoked \subseteq revoked' /\ swept' = swept
    BY <1>2 DEF Rotate, RevokeRow
  <2>2. t \in Issued /\ rows'[t] = rows[t] /\ t \in Live /\ t \in held
    BY <1>0, <2>1, RowsKept DEF Live, TypeOK
  <2>. QED  BY <1>0, <2>1, <2>2 DEF BlockedSessionsAreLogins, LiveOf
<1>3. ASSUME NEW p \in Proc, Recheck(p)
      PROVE  rows'[t].parent = 0
  <2>1. rows' = rows /\ revoked' = revoked /\ swept' = swept /\ account[u] = "blocked"
    BY <1>0, <1>3 DEF Recheck, Usable, HistoryOK
  <2>2. t \in held
    BY <1>0, <1>3, <2>1 DEF Recheck, Usable
  <2>. QED  BY <1>0, <2>1, <2>2 DEF BlockedSessionsAreLogins, LiveOf, Live, Issued
<1>4. ASSUME NEW p \in Proc, Sweep(p)
      PROVE  rows'[t].parent = 0
  <2>1. PICK v : RevokeAllForUser(v) /\ rows' = rows /\ held' = held
    BY <1>4 DEF Sweep
  <2>4. Issued' = Issued /\ revoked' = revoked \cup OwnedBy(v)
    BY <2>1 DEF RevokeAllForUser, Issued
  <2>5. t \in Issued /\ t \notin revoked /\ t \notin OwnedBy(v)
    BY <2>4 DEF Live
  <2>2. t \in Live /\ u # v
    BY <2>1, <2>5 DEF OwnedBy, Live
  <2>. QED  BY <1>0, <2>1, <2>2 DEF RevokeAllForUser, BlockedSessionsAreLogins, LiveOf
<1>5. CASE rows' = rows /\ revoked \subseteq revoked' /\ held' = held /\ swept' \subseteq swept
  BY <1>0, <1>5 DEF BlockedSessionsAreLogins, LiveOf, Live, Issued
<1>. QED
  BY <1>1, <1>2, <1>3, <1>4, <1>5
     DEF Next, vars, Login, LogoutAll, Block, Present, LogoutToken, Scan, Evict, Burn, Crash,
         Reactivate, Lapse, RevokeFamily

-----------------------------------------------------------------------------
(* The cap on families.  A handler past its scan spares the families that it *)
(* is not going to evict, and others may add to them before it inserts its   *)
(* own.  Handlers are ranked by their last scan: whoever scanned later has    *)
(* seen what those before him had inserted by then.  So what a handler spares *)
(* exceeds the cap by no more than the handlers that scanned after it.        *)
FreshFamilies(u) == {rows[t].family : t \in LiveOf(u)} \ stale
Before(rank, p) == {q \in Proc : At(q, "evict") /\ req[q].user = req[p].user /\ rank[q] <= rank[p]}
Spared(p) == FreshFamilies(req[p].user) \ {rows[t].family : t \in req[p].evict}
Bound == (MaxFamilies - 1) + Cardinality(Proc)

Within(rank) ==
  \A p \in Proc : At(p, "evict") =>
    Cardinality(Spared(p)) + Cardinality(Before(rank, p)) <= Bound

Ranked == \E rank \in [Proc -> Nat], n \in Nat : (\A p \in Proc : rank[p] < n) /\ Within(rank)
Capped == \A u \in User : Cardinality(FreshFamilies(u)) <= Bound
CapInv == Ranked /\ Capped

LEMMA BoundType == Bound \in Nat /\ Cardinality(Proc) \in Nat /\ Cardinality(Proc) <= Bound
BY ConstantsAssumption, FS_CardinalityType DEF Bound

LEMMA TokensFinite ==
  ASSUME NEW S, S \subseteq Token
  PROVE  IsFiniteSet(S) /\ Cardinality(S) \in Nat
<1>1. IsFiniteSet(Token)
  BY ConstantsAssumption, FS_Interval DEF Token
<1> QED
  BY <1>1, FS_Subset, FS_CardinalityType

LEMMA ProcFinite ==
  ASSUME NEW S, S \subseteq Proc
  PROVE  IsFiniteSet(S) /\ Cardinality(S) \in Nat /\ Cardinality(S) <= Cardinality(Proc)
BY ConstantsAssumption, FS_Subset, FS_CardinalityType

LEMMA FewerFamilies ==
  ASSUME NEW S, NEW T, IsFiniteSet(T), S \subseteq T
  PROVE  IsFiniteSet(S) /\ Cardinality(S) <= Cardinality(T)
         /\ Cardinality(S) \in Nat /\ Cardinality(T) \in Nat
BY FS_Subset, FS_CardinalityType

(* A set of numbers that is not empty has a least one. *)
LEMMA Least ==
  ASSUME NEW S, S \subseteq Nat, S # {}
  PROVE  \E m \in S : \A k \in S : m <= k
<1>1. PICK m \in S : \A k \in S : ~ (<<k, m>> \in OpToRel(<, Nat))
  BY NatLessThanWellFounded, WFMin
<1>2. \A k \in S : ~ (k < m)
  BY <1>1 DEF OpToRel
<1>3. \A k \in S : k \in Nat
  OBVIOUS
<1> QED
  BY <1>2, <1>3

(* Of every family with a live row, the scan has one row: the first.          *)
LEMMA Represented ==
  ASSUME IInv, NEW u, NEW t \in LiveOf(u)
  PROVE  \E s \in ActiveFamilies(u) : rows[s].family = rows[t].family
<1> DEFINE S == {s \in LiveOf(u) : rows[s].family = rows[t].family}
<1>1. S \subseteq Nat /\ t \in S
  BY DEF LiveOf, Live, Issued
<1>2. PICK m \in S : \A k \in S : m <= k
  <2> HIDE DEF S
  <2> QED
    BY <1>1, Least
<1>3. m \in ActiveFamilies(u)
  BY <1>2 DEF ActiveFamilies
<1> QED
  BY <1>2, <1>3

(* What the scan leaves alone is less than the cap. *)
LEMMA OverCapLeaves ==
  ASSUME IInv, NEW u
  PROVE  Cardinality(ActiveFamilies(u) \ OverCap(u)) <= MaxFamilies - 1
<1> DEFINE F == ActiveFamilies(u)
           K == F \ OverCap(u)
<1>1. F \subseteq Token /\ F \subseteq Nat /\ K \subseteq Token
  BY RowTypes DEF IInv, ActiveFamilies, LiveOf, Live, Token, Issued
<1>2. IsFiniteSet(F) /\ IsFiniteSet(K) /\ Cardinality(F) \in Nat /\ Cardinality(K) \in Nat
  <2> HIDE DEF F, K
  <2> QED
    BY <1>1, TokensFinite
<1>3. CASE K = {}
  <2>1. Cardinality(K) = 0
    BY <1>3, FS_EmptySet
  <2> HIDE DEF K
  <2> QED
    BY <2>1, ConstantsAssumption DEF K
<1>4. CASE K # {}
  <2>1. K \subseteq Nat
    BY <1>1
  <2>2. PICK m \in K : \A k \in K : m <= k
    <3> HIDE DEF K
    <3> QED
      BY <2>1, <1>4, Least
  <2> DEFINE B == {s \in F : s < m}
  <2>3. IsFiniteSet(B) /\ Cardinality(B) \in Nat
    BY <1>2, FS_Subset, FS_CardinalityType
  <2>4. Cardinality(B) + (MaxFamilies - 1) >= Cardinality(F)
    <3>1. ~ (Cardinality(B) + (MaxFamilies - 1) < Cardinality(F))
      BY <2>2 DEF OverCap
    <3> HIDE DEF B, F
    <3> QED
      BY <3>1, <2>3, <1>2, ConstantsAssumption
  <2>5. B \cap K = {}
    BY <2>2, <1>1
  <2>6. Cardinality(B \cup K) = Cardinality(B) + Cardinality(K) /\ B \cup K \subseteq F
    <3>1. Cardinality(B \cap K) = 0
      BY <2>5, FS_EmptySet
    <3> HIDE DEF B, K
    <3>2. Cardinality(B \cup K) = Cardinality(B) + Cardinality(K) - Cardinality(B \cap K)
      BY <2>3, <1>2, FS_Union
    <3>3. Cardinality(B \cup K) = Cardinality(B) + Cardinality(K)
      BY <3>1, <3>2, <2>3, <1>2
    <3> QED
      BY <3>3 DEF B, K
  <2>7. Cardinality(B \cup K) <= Cardinality(F)
    BY <2>6, <1>2, FS_Subset
  <2> HIDE DEF B, K, F
  <2> QED
    BY <2>3, <2>4, <2>6, <2>7, <1>2, ConstantsAssumption DEF K, F
<1> QED
  BY <1>3, <1>4

(* No set of distinct families is larger than the set of their first rows.    *)
LEMMA FamiliesByRows ==
  ASSUME IInv, NEW u, NEW R, R \subseteq ActiveFamilies(u), NEW N,
         \A f \in N : \E t \in R : rows[t].family = f
  PROVE  IsFiniteSet(N) /\ Cardinality(N) <= Cardinality(R)
<1> DEFINE g == [f \in N |-> CHOOSE t \in R : rows[t].family = f]
<1>1. \A f \in N : g[f] \in R /\ rows[g[f]].family = f
  OBVIOUS
<1>2. g \in [N -> R]
  BY <1>1
<1>3. g \in Injection(N, R)
  <2> HIDE DEF g
  <2> QED
    BY <1>1, <1>2 DEF Injection, IsInjective
<1>4. IsFiniteSet(R)
  <2>1. R \subseteq Token
    BY RowTypes DEF IInv, ActiveFamilies, LiveOf, Live
  <2> QED
    BY <2>1, TokensFinite
<1> HIDE DEF g
<1> QED
  BY <1>3, <1>4, FS_Injection

LEMMA RowsByFamilies ==
  ASSUME IInv, NEW u, NEW R, R \subseteq ActiveFamilies(u), NEW N, IsFiniteSet(N),
         \A t \in R : rows[t].family \in N
  PROVE  Cardinality(R) <= Cardinality(N)
<1> DEFINE g == [t \in R |-> rows[t].family]
<1>1. \A s, t \in R : rows[s].family = rows[t].family => s = t
  BY DEF ActiveFamilies, LiveOf, Live, Issued
<1>2. g \in Injection(R, N)
  BY <1>1 DEF Injection, IsInjective
<1> HIDE DEF g
<1> QED
  BY <1>2, FS_Injection

-----------------------------------------------------------------------------
(* Only a handler that inserts a row for a user gives him a new family. *)
LEMMA FreshStep ==
  ASSUME IInv, [Next]_vars, NEW u
  PROVE  \/ FreshFamilies(u)' \subseteq FreshFamilies(u)
         \/ \E p \in Proc : /\ Create(p) /\ req[p].user = u
                            /\ FreshFamilies(u)' \subseteq FreshFamilies(u) \cup {Len(rows) + 1}
<1>1. CASE rows' = rows /\ revoked \subseteq revoked' /\ stale' = stale
  BY <1>1 DEF FreshFamilies, LiveOf, Live, Issued
<1>2. ASSUME NEW p \in Proc, Create(p)
      PROVE  /\ req[p].user # u => FreshFamilies(u)' \subseteq FreshFamilies(u)
             /\ FreshFamilies(u)' \subseteq FreshFamilies(u) \cup {Len(rows) + 1}
  <2>0. PICK n : n = Len(rows) + 1
    OBVIOUS
  <2>1. /\ Issued' = Issued \cup {n} /\ n \notin Issued
        /\ \A r \in Issued : rows'[r] = rows[r]
        /\ rows'[n] = [owner |-> req[p].user, family |-> n, parent |-> 0]
    BY <1>2, <2>0, CreateAppends, Zenon
  <2>2. rows'[n].family = n /\ rows'[n].owner = req[p].user
    BY <2>1
  <2>3. revoked' = revoked /\ stale' = stale
    BY <1>2 DEF Create
  <2>4. \A t \in LiveOf(u)' : (t = n /\ req[p].user = u) \/ (t \in LiveOf(u) /\ rows'[t] = rows[t])
    BY <2>1, <2>2, <2>3 DEF LiveOf, Live
  <2> QED
    BY <2>0, <2>2, <2>3, <2>4 DEF FreshFamilies
<1>3. ASSUME NEW p \in Proc, Rotate(p)
      PROVE  FreshFamilies(u)' \subseteq FreshFamilies(u)
  <2>0. PICK n : n = Len(rows) + 1
    OBVIOUS
  <2>1. PICK old \in Issued :
          /\ old = req[p].tok
          /\ Issued' = Issued \cup {n} /\ n \notin Issued
          /\ \A r \in Issued : rows'[r] = rows[r]
          /\ rows'[n] = [owner |-> rows[old].owner, family |-> rows[old].family,
                         parent |-> old]
    BY <1>3, <2>0, RotateAppends, Zenon
  <2>2. rows'[n].family = rows[old].family /\ rows'[n].owner = rows[old].owner
    BY <2>1
  <2>3. /\ revoked' = revoked \cup {old}
        /\ stale' = IF old \in revoked THEN stale \cup {rows[old].family} ELSE stale
    BY <1>3, <2>1 DEF Rotate, RevokeRow
  <2>4. ASSUME NEW t \in LiveOf(u)', rows'[t].family \notin stale'
        PROVE  rows'[t].family \in FreshFamilies(u)
    <3>1. CASE t = n
      <4>1. old \notin revoked /\ rows[old].owner = u /\ rows[old].family \notin stale
        BY <2>2, <2>3, <2>4, <3>1 DEF LiveOf
      <4>2. old \in LiveOf(u)
        BY <4>1 DEF LiveOf, Live
      <4> QED
        BY <4>1, <4>2, <2>2, <3>1 DEF FreshFamilies
    <3>2. CASE t # n
      <4>1. t \in LiveOf(u) /\ rows'[t] = rows[t]
        BY <2>1, <2>3, <3>2 DEF LiveOf, Live
      <4> QED
        BY <4>1, <2>3, <2>4 DEF FreshFamilies
    <3> QED
      BY <3>1, <3>2
  <2> QED
    BY <2>4 DEF FreshFamilies
<1> QED
  BY <1>1, <1>2, <1>3, TableStep

LEMMA CapTypes ==
  ASSUME IInv, NEW u
  PROVE  IsFiniteSet(FreshFamilies(u)) /\ Cardinality(FreshFamilies(u)) \in Nat
<1>1. FreshFamilies(u) \subseteq Token
  BY RowTypes DEF IInv, FreshFamilies, LiveOf, Live
<1> QED
  BY <1>1, TokensFinite

(* A step in which nothing that is counted grows. *)
LEMMA NothingGrows ==
  ASSUME IInv, CapInv,
         \A u \in User : FreshFamilies(u)' \subseteq FreshFamilies(u),
         \A p \in Proc : At(p, "evict")' =>
           At(p, "evict") /\ req'[p].user = req[p].user /\ Spared(p)' \subseteq Spared(p)
  PROVE  CapInv'
<1>1. PICK rank \in [Proc -> Nat], n \in Nat : (\A p \in Proc : rank[p] < n) /\ Within(rank)
  BY DEF CapInv, Ranked
<1>2. ASSUME NEW p \in Proc, At(p, "evict")'
      PROVE  Cardinality(Spared(p)') + Cardinality(Before(rank, p)') <= Bound
  <2>1. At(p, "evict") /\ req'[p].user = req[p].user /\ Spared(p)' \subseteq Spared(p)
    BY <1>2
  <2>2. Cardinality(Spared(p)) + Cardinality(Before(rank, p)) <= Bound
    BY <1>1, <2>1 DEF Within
  <2>3. Before(rank, p)' \subseteq Before(rank, p) /\ Before(rank, p) \subseteq Proc
    BY <2>1 DEF Before, At
  <2>4. IsFiniteSet(Spared(p))
    BY CapTypes, FS_Subset DEF Spared
  <2>5. /\ Cardinality(Spared(p)') <= Cardinality(Spared(p))
        /\ Cardinality(Spared(p)') \in Nat /\ Cardinality(Spared(p)) \in Nat
    BY <2>1, <2>4, FewerFamilies
  <2>6. /\ Cardinality(Before(rank, p)') <= Cardinality(Before(rank, p))
        /\ Cardinality(Before(rank, p)') \in Nat /\ Cardinality(Before(rank, p)) \in Nat
    BY <2>3, ProcFinite, FewerFamilies
  <2> QED
    BY <2>2, <2>5, <2>6, BoundType
<1>3. Within(rank)'
  BY <1>2 DEF Within, Bound
<1>4. Ranked'
  BY <1>1, <1>3 DEF Ranked
<1>5. ASSUME NEW u \in User
      PROVE  Cardinality(FreshFamilies(u)') <= Bound
  <2>1. Cardinality(FreshFamilies(u)) <= Bound
    BY DEF CapInv, Capped
  <2> QED
    BY <2>1, CapTypes, FewerFamilies, BoundType
<1> QED
  BY <1>4, <1>5 DEF CapInv, Capped, Bound

LEMMA Exchanged ==
  ASSUME NEW S, IsFiniteSet(S), NEW T, NEW n, T \subseteq S \cup {n},
         NEW A, A \subseteq Proc, NEW c \in A, NEW B, B \subseteq A \ {c},
         Cardinality(S) + Cardinality(A) <= Bound
  PROVE  Cardinality(T) + Cardinality(B) <= Bound
<1>1. /\ IsFiniteSet(S \cup {n})
      /\ Cardinality(S \cup {n}) <= Cardinality(S) + 1
      /\ Cardinality(S) \in Nat
  <2>1. Cardinality(S) \in Nat
    BY FS_CardinalityType
  <2>2. /\ IsFiniteSet(S \cup {n})
        /\ Cardinality(S \cup {n}) = IF n \in S THEN Cardinality(S) ELSE Cardinality(S) + 1
    BY FS_AddElement
  <2> QED
    BY <2>1, <2>2
<1>2. Cardinality(T) <= Cardinality(S \cup {n}) /\ Cardinality(T) \in Nat /\ Cardinality(S \cup {n}) \in Nat
  BY <1>1, FewerFamilies
<1>3. IsFiniteSet(A) /\ Cardinality(A) \in Nat
  BY ProcFinite
<1>4. IsFiniteSet(A \ {c}) /\ Cardinality(A \ {c}) = Cardinality(A) - 1
  BY <1>3, FS_RemoveElement
<1>5. Cardinality(B) <= Cardinality(A \ {c}) /\ Cardinality(B) \in Nat
  BY <1>4, FewerFamilies
<1> QED
  BY <1>1, <1>2, <1>3, <1>4, <1>5, BoundType

(* An insertion: the new family is in what some handlers spare, and the one  *)
(* that inserted it is before them no longer.                                *)
LEMMA CreateCap ==
  ASSUME IInv, CapInv, [Next]_vars, NEW c \in Proc, Create(c)
  PROVE  CapInv'
<1>1. PICK rank \in [Proc -> Nat], n \in Nat : (\A p \in Proc : rank[p] < n) /\ Within(rank)
  BY DEF CapInv, Ranked
<1>0. PICK u0, new : u0 = req[c].user /\ new = Len(rows) + 1
  OBVIOUS
<1>2. /\ At(c, "evict") /\ req[c].evict = {} /\ u0 \in User
      /\ req' = [req EXCEPT ![c] = Idle] /\ req \in [Proc -> Request]
  BY <1>0 DEF Create, Return, IInv, TypeOK, RequestsOK, At
<1>3. \A u : FreshFamilies(u)' \subseteq FreshFamilies(u) \cup {new}
  BY <1>0, FreshStep
<1>4. \A u : u # u0 => FreshFamilies(u)' \subseteq FreshFamilies(u)
  <2>1. ASSUME NEW u, u # u0, NEW p \in Proc, Create(p), req[p].user = u PROVE FALSE
    <3>1. req'[c] = Idle /\ req'[p] = Idle /\ At(p, "evict") /\ Idle.pc = "idle"
      BY <1>2, <2>1, IdleIsRequest DEF Create, Return
    <3>2. c = p
      BY <1>2, <3>1 DEF At
    <3> QED
      BY <1>0, <2>1, <3>2
  <2> QED
    BY <2>1, FreshStep
<1>5. Spared(c) = FreshFamilies(u0)
  BY <1>0, <1>2 DEF Spared
<1>6. c \in Before(rank, c) /\ \A p \in Proc : Before(rank, p) \subseteq Proc
  BY <1>1, <1>2 DEF Before
<1>7. Cardinality(FreshFamilies(u0)) + Cardinality(Before(rank, c)) <= Bound
  BY <1>0, <1>1, <1>2, <1>5 DEF Within
<1>8. ASSUME NEW p \in Proc, At(p, "evict")'
      PROVE  /\ p # c /\ At(p, "evict") /\ req'[p] = req[p]
             /\ Before(rank, p)' \subseteq Before(rank, p) \ {c}
             /\ {rows'[t].family : t \in req'[p].evict} = {rows[t].family : t \in req[p].evict}
  <2>1. Idle.pc = "idle"
    BY IdleIsRequest
  <2>2. p # c /\ req'[p] = req[p] /\ \A q \in Proc : At(q, "evict")' => q # c /\ At(q, "evict") /\ req'[q] = req[q]
    BY <1>2, <1>8, <2>1 DEF At
  <2>3. req[p].evict \subseteq Issued
    BY DEF IInv, RequestsOK
  <2> QED
    BY <1>8, <2>2, <2>3, RowsKept DEF Before
<1>9. ASSUME NEW p \in Proc, At(p, "evict")'
      PROVE  Cardinality(Spared(p)') + Cardinality(Before(rank, p)') <= Bound
  <2> DEFINE Evicting == {rows[t].family : t \in req[p].evict}
  <2>0. PICK u, E : u = req[p].user /\ E = Evicting
    OBVIOUS
  <2>8. Spared(p) = FreshFamilies(u) \ E /\ Spared(p)' = FreshFamilies(u)' \ E
    BY <1>8, <1>9, <2>0 DEF Spared
  <2>1. At(p, "evict") /\ Before(rank, p)' \subseteq Before(rank, p) \ {c}
    BY <1>8, <1>9
  <2>2. Cardinality(Spared(p)) + Cardinality(Before(rank, p)) <= Bound
    BY <1>1, <2>1 DEF Within
  <2>3. IsFiniteSet(Spared(p)) /\ IsFiniteSet(FreshFamilies(u0))
    BY CapTypes, FS_Subset DEF Spared
  <2>4. Spared(p)' \subseteq Spared(p) \cup {new} /\ Spared(p)' \subseteq FreshFamilies(u) \cup {new}
    BY <2>8, <1>3
  <2>5. CASE c \in Before(rank, p)
    BY <1>6, <2>1, <2>2, <2>3, <2>4, <2>5, Exchanged
  <2>6. CASE c \notin Before(rank, p) /\ u = u0
    <3>1. rank[p] <= rank[c]
      BY <1>0, <1>1, <1>2, <2>0, <2>6 DEF Before
    <3>2. Before(rank, p) \subseteq Before(rank, c)
      BY <1>0, <1>1, <2>0, <2>6, <3>1 DEF Before
    <3>3. Spared(p)' \subseteq FreshFamilies(u0) \cup {new} /\ Before(rank, p)' \subseteq Before(rank, c) \ {c}
      BY <2>1, <2>4, <2>6, <3>2
    <3> QED
      BY <1>6, <1>7, <2>3, <3>3, Exchanged
  <2>7. CASE u # u0
    <3>1. Spared(p)' \subseteq Spared(p)
      BY <2>8, <2>7, <1>4
    <3>2. /\ Cardinality(Spared(p)') <= Cardinality(Spared(p))
          /\ Cardinality(Spared(p)') \in Nat /\ Cardinality(Spared(p)) \in Nat
      BY <2>3, <3>1, FewerFamilies
    <3>3. /\ Cardinality(Before(rank, p)') <= Cardinality(Before(rank, p))
          /\ Cardinality(Before(rank, p)') \in Nat /\ Cardinality(Before(rank, p)) \in Nat
      BY <1>6, <2>1, ProcFinite, FewerFamilies
    <3> QED
      BY <2>2, <3>2, <3>3, BoundType
  <2> QED
    BY <2>5, <2>6, <2>7
<1>10. Ranked'
  <2>1. Within(rank)'
    BY <1>9 DEF Within, Bound
  <2> QED
    BY <1>1, <2>1 DEF Ranked
<1>11. ASSUME NEW u \in User
       PROVE  Cardinality(FreshFamilies(u)') <= Bound
  <2>1. Cardinality(FreshFamilies(u)) <= Bound /\ IsFiniteSet(FreshFamilies(u))
    BY CapTypes DEF CapInv, Capped
  <2>2. CASE u # u0
    BY <1>4, <2>1, <2>2, FewerFamilies, BoundType
  <2>3. CASE u = u0
    <3>1. Cardinality(FreshFamilies(u)') + Cardinality({}) <= Bound
      BY <1>3, <1>6, <1>7, <2>1, <2>3, Exchanged
    <3>2. IsFiniteSet(FreshFamilies(u) \cup {new})
      BY <2>1, FS_AddElement
    <3>3. Cardinality(FreshFamilies(u)') \in Nat
      BY <1>3, <3>2, FewerFamilies
    <3> QED
      BY <3>1, <3>3, FS_EmptySet
  <2> QED
    BY <2>2, <2>3
<1> QED
  BY <1>10, <1>11 DEF CapInv, Capped, Bound

(* A scan ranks its handler after all others. *)
LEMMA ScanCap ==
  ASSUME IInv, CapInv, NEW c \in Proc, Scan(c)
  PROVE  CapInv'
<1>1. PICK rank \in [Proc -> Nat], n \in Nat : (\A p \in Proc : rank[p] < n) /\ Within(rank)
  BY DEF CapInv, Ranked
<1> DEFINE later == [rank EXCEPT ![c] = n]
           u0 == req[c].user
<1>2. /\ rows' = rows /\ revoked' = revoked /\ stale' = stale
      /\ req' = [req EXCEPT ![c].pc = "evict", ![c].evict = OverCap(req[c].user)]
      /\ req \in [Proc -> Request]
  BY DEF Scan, IInv, TypeOK
<1>3. \A u : FreshFamilies(u)' = FreshFamilies(u)
  BY <1>2 DEF FreshFamilies, LiveOf, Live, Issued
<1>4. later \in [Proc -> Nat] /\ \A p \in Proc : later[p] < n + 1
  BY <1>1
<1>5. /\ req'[c].user = u0 /\ req'[c].evict = OverCap(u0)
      /\ \A p \in Proc : p # c => req'[p] = req[p]
  BY <1>2 DEF Request
<1>6. Cardinality(Spared(c)') + Cardinality(Before(later, c)') <= Bound
  <2>1. Spared(c)' = FreshFamilies(u0) \ {rows[t].family : t \in OverCap(u0)}
    BY <1>2, <1>3, <1>5 DEF Spared
  <2>2. \A f \in Spared(c)' : \E t \in ActiveFamilies(u0) \ OverCap(u0) : rows[t].family = f
    BY <2>1, Represented DEF FreshFamilies
  <2>3. /\ IsFiniteSet(Spared(c)')
        /\ Cardinality(Spared(c)') <= Cardinality(ActiveFamilies(u0) \ OverCap(u0))
    BY <2>2, FamiliesByRows
  <2>4. Cardinality(ActiveFamilies(u0) \ OverCap(u0)) <= MaxFamilies - 1
    BY OverCapLeaves
  <2>5. Cardinality(ActiveFamilies(u0) \ OverCap(u0)) \in Nat /\ Cardinality(Spared(c)') \in Nat
    <3>1. ActiveFamilies(u0) \subseteq Token
      BY RowTypes DEF IInv, ActiveFamilies, LiveOf, Live
    <3> QED
      BY <2>3, <3>1, TokensFinite, FS_CardinalityType
  <2>6. Cardinality(Before(later, c)') <= Cardinality(Proc) /\ Cardinality(Before(later, c)') \in Nat
    BY ProcFinite DEF Before
  <2> QED
    BY <2>3, <2>4, <2>5, <2>6, BoundType, ConstantsAssumption DEF Bound
<1>7. ASSUME NEW p \in Proc, p # c, At(p, "evict")'
      PROVE  Cardinality(Spared(p)') + Cardinality(Before(later, p)') <= Bound
  <2>1. At(p, "evict") /\ req'[p] = req[p]
    BY <1>5, <1>7 DEF At
  <2>2. Spared(p)' = Spared(p)
    BY <1>2, <1>3, <2>1 DEF Spared
  <2>3. Before(later, p)' \subseteq Before(rank, p)
    <3>1. later[p] = rank[p] /\ later[c] = n /\ rank[p] < n
      BY <1>1, <1>7
    <3>2. ASSUME NEW q \in Before(later, p)' PROVE q \in Before(rank, p)
      <4>1. q # c
        BY <1>1, <3>1, <3>2 DEF Before
      <4>2. req'[q] = req[q] /\ later[q] = rank[q]
        BY <1>1, <1>5, <3>2, <4>1 DEF Before
      <4> QED
        BY <2>1, <3>1, <3>2, <4>2 DEF Before, At
    <3> QED
      BY <3>2
  <2>4. /\ Cardinality(Before(later, p)') <= Cardinality(Before(rank, p))
        /\ Cardinality(Before(later, p)') \in Nat /\ Cardinality(Before(rank, p)) \in Nat
    <3>1. Before(rank, p) \subseteq Proc
      BY DEF Before
    <3> QED
      BY <2>3, <3>1, ProcFinite, FewerFamilies
  <2>5. Cardinality(Spared(p)) + Cardinality(Before(rank, p)) <= Bound
    BY <1>1, <2>1 DEF Within
  <2>6. Cardinality(Spared(p)) \in Nat
    BY CapTypes, FS_Subset, FS_CardinalityType DEF Spared
  <2> QED
    BY <2>2, <2>4, <2>5, <2>6, BoundType
<1>8. Ranked'
  <2> HIDE DEF later
  <2>1. Within(later)'
    BY <1>6, <1>7 DEF Within, Bound
  <2>2. n + 1 \in Nat
    OBVIOUS
  <2> QED
    BY <1>4, <2>1, <2>2 DEF Ranked
<1>9. Capped'
  BY <1>3 DEF CapInv, Capped, Bound
<1> QED
  BY <1>8, <1>9 DEF CapInv

(* Any other step: an eviction takes the family from what is there, too.      *)
LEMMA OtherCap ==
  ASSUME IInv, CapInv, [Next]_vars, \A p \in Proc : ~ Create(p) /\ ~ Scan(p)
  PROVE  CapInv'
<1>1. \A u : FreshFamilies(u)' \subseteq FreshFamilies(u)
  BY FreshStep
<1>2. TypeOK /\ RequestsOK /\ req \in [Proc -> Request]
  BY DEF IInv, TypeOK
<1>3. ASSUME NEW p \in Proc, At(p, "evict")', req'[p] = req[p]
      PROVE  At(p, "evict") /\ req'[p].user = req[p].user /\ Spared(p)' \subseteq Spared(p)
  <2>1. req[p].evict \subseteq Issued
    BY <1>2 DEF RequestsOK
  <2>2. {rows'[t].family : t \in req'[p].evict} = {rows[t].family : t \in req[p].evict}
    BY <1>3, <2>1, RowsKept
  <2> QED
    BY <1>1, <1>3, <2>2 DEF Spared, At
<1>4. ASSUME NEW c \in Proc, Evict(c), NEW p \in Proc, At(p, "evict")'
      PROVE  At(p, "evict") /\ req'[p].user = req[p].user /\ Spared(p)' \subseteq Spared(p)
  <2>1. PICK t \in req[c].evict :
          RevokeFamily(rows[t].family) /\ req' = [req EXCEPT ![c].evict = @ \ {t}]
    BY <1>4 DEF Evict
  <2>2. CASE p # c
    BY <1>2, <1>3, <1>4, <2>1, <2>2
  <2>3. CASE p = c
    <3>1. /\ req'[c].user = req[c].user /\ req'[c].evict = req[c].evict \ {t}
          /\ At(c, "evict") /\ rows' = rows /\ stale' = stale
      BY <1>2, <1>4, <2>1 DEF Evict, Request
    <3>2. rows[t].family \notin FreshFamilies(req[c].user)'
      BY <2>1, <3>1 DEF RevokeFamily, FamilyOf, FreshFamilies, LiveOf, Live, Issued
    <3>3. Spared(c)' = FreshFamilies(req[c].user)' \ {rows[s].family : s \in req[c].evict \ {t}}
      BY <3>1 DEF Spared, FreshFamilies, LiveOf
    <3> QED
      BY <1>1, <2>3, <3>1, <3>2, <3>3 DEF Spared
  <2> QED
    BY <2>2, <2>3
<1>5. ASSUME NEW c \in Proc, NEW r, r.pc # "evict", req' = [req EXCEPT ![c] = r], NEW p \in Proc, At(p, "evict")'
      PROVE  At(p, "evict") /\ req'[p].user = req[p].user /\ Spared(p)' \subseteq Spared(p)
  BY <1>2, <1>3, <1>5 DEF At
<1>6. \A u, t : /\ Idle.pc # "evict"
                /\ \A pc \in {"scan", "rotate", "recheck", "burn", "sweep"} : Serving(pc, u, t).pc # "evict"
  BY DEF Idle, Serving
<1>7. ASSUME NEW p \in Proc, At(p, "evict")'
      PROVE  At(p, "evict") /\ req'[p].user = req[p].user /\ Spared(p)' \subseteq Spared(p)
  <2> DEFINE Kept == At(p, "evict") /\ req'[p].user = req[p].user /\ Spared(p)' \subseteq Spared(p)
  <2> HIDE DEF Kept
  <2>1. ASSUME NEW c \in Proc, NEW r, r.pc # "evict", req' = [req EXCEPT ![c] = r] PROVE Kept
    BY <1>5, <1>7, <2>1 DEF Kept
  <2>2. ASSUME NEW c \in Proc, Return(c) PROVE Kept
    BY <1>6, <2>1, <2>2 DEF Return
  <2>3. ASSUME NEW c \in Proc, NEW u \in User, Login(c, u) \/ LogoutAll(c, u) \/ Block(c, u) PROVE Kept
    BY <1>6, <2>1, <2>3 DEF Login, LogoutAll, Block, Begin
  <2>4. ASSUME NEW c \in Proc, NEW t \in Token, Present(c, t) \/ LogoutToken(c, t) PROVE Kept
    BY <1>6, <2>1, <2>4 DEF Present, LogoutToken, Begin
  <2>5. ASSUME NEW c \in Proc, Rotate(c) PROVE Kept
    BY <1>6, <2>1, <2>5 DEF Rotate
  <2>6. ASSUME NEW c \in Proc, Recheck(c) PROVE Kept
    BY <1>6, <2>1, <2>2, <2>6 DEF Recheck
  <2>7. ASSUME NEW c \in Proc, Evict(c) PROVE Kept
    BY <1>4, <1>7, <2>7 DEF Kept
  <2>8. ASSUME req' = req PROVE Kept
    BY <1>3, <1>7, <2>8 DEF Kept
  <2>9. ASSUME NEW c \in Proc, Burn(c) \/ Sweep(c) \/ Crash(c) PROVE Kept
    BY <2>2, <2>9 DEF Burn, Sweep, Crash
  <2>10. Kept
    BY <2>2, <2>3, <2>4, <2>5, <2>6, <2>7, <2>8, <2>9 DEF Next, vars, Reactivate, Lapse
  <2> QED
    BY <2>10 DEF Kept
<1> QED
  BY <1>1, <1>7, NothingGrows

LEMMA InitCap == Init => CapInv
<1> SUFFICES ASSUME Init PROVE CapInv
  OBVIOUS
<1>1. \A u : FreshFamilies(u) = {}
  BY DEF Init, FreshFamilies, LiveOf, Live, Issued
<1>2. Capped
  BY <1>1, FS_EmptySet, BoundType DEF Capped
<1> DEFINE rank == [p \in Proc |-> 0]
<1>3. rank \in [Proc -> Nat] /\ (\A p \in Proc : rank[p] < 1) /\ 1 \in Nat
  OBVIOUS
<1>4. Within(rank)
  BY IdleIsRequest DEF Init, Within, At
<1>5. Ranked
  BY <1>3, <1>4 DEF Ranked
<1> QED
  BY <1>2, <1>5 DEF CapInv

LEMMA CapStep == IInv /\ CapInv /\ [Next]_vars => CapInv'
BY CreateCap, ScanCap, OtherCap

LEMMA CapFollows == IInv /\ CapInv => CapUnderConcurrency
<1> SUFFICES ASSUME IInv, CapInv, NEW u \in User
             PROVE  Cardinality({t \in ActiveFamilies(u) : rows[t].family \notin stale}) <= Bound
  BY DEF CapUnderConcurrency, Bound
<1> DEFINE R == {t \in ActiveFamilies(u) : rows[t].family \notin stale}
<1>1. \A t \in R : rows[t].family \in FreshFamilies(u)
  BY DEF ActiveFamilies, FreshFamilies
<1>2. Cardinality(R) <= Cardinality(FreshFamilies(u))
  BY <1>1, CapTypes, RowsByFamilies
<1>3. Cardinality(FreshFamilies(u)) <= Bound
  BY DEF CapInv, Capped
<1>4. Cardinality(R) \in Nat
  <2>1. R \subseteq Token
    BY RowTypes DEF IInv, ActiveFamilies, LiveOf, Live
  <2> QED
    BY <2>1, TokensFinite
<1> QED
  BY <1>2, <1>3, <1>4, CapTypes, BoundType

-----------------------------------------------------------------------------
LEMMA Inductive == IInv /\ [Next]_vars => IInv'
BY TypeOKStep, FamiliesFoundedStep, HistoryOKStep, RequestsOKStep, OneLiveStep, ClosedStep,
   BlockedStep DEF IInv

LEMMA SpecIInv == Spec => []IInv
BY InitIInv, Inductive, PTL DEF Spec

(* The rows, the history and the handlers' locals keep their types. *)
THEOREM TypeCorrect == Spec => []TypeOK
<1>1. IInv => TypeOK
  BY DEF IInv
<1>. QED  BY <1>1, SpecIInv, PTL

(* However many handlers run, a family has at most one usable token unless a *)
(* rotation consumed a token that had been revoked under it.                 *)
THEOREM OneLiveTheorem == Spec => []OneLivePerFamily
<1>1. IInv => OneLivePerFamily
  BY DEF IInv
<1>. QED  BY <1>1, SpecIInv, PTL

(* Reuse detection, eviction, logout and sweeps are final, with the same     *)
(* single exception.                                                         *)
THEOREM ClosedIsFinalTheorem == Spec => []ClosedIsFinal
<1>1. IInv => ClosedIsFinal
  BY DEF IInv
<1>. QED  BY <1>1, SpecIInv, PTL

(* No refresh in flight puts a usable token into a client's hands once the   *)
(* account was blocked and swept.                                            *)
THEOREM BlockedTheorem == Spec => []BlockedSessionsAreLogins
<1>1. IInv => BlockedSessionsAreLogins
  BY DEF IInv
<1>. QED  BY <1>1, SpecIInv, PTL

(* Logins of one user that race never leave him with more usable families    *)
(* than the cap and one for every other handler.                             *)
THEOREM CapTheorem == Spec => []CapUnderConcurrency
<1>1. IInv /\ CapInv /\ [Next]_vars => CapInv'
  BY CapStep
<1>2. Init => CapInv
  BY InitCap
<1>3. IInv /\ CapInv => CapUnderConcurrency
  BY CapFollows
<1>. QED  BY <1>1, <1>2, <1>3, SpecIInv, PTL DEF Spec
=============================================================================
