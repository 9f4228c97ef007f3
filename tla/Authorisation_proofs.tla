------------------------ MODULE Authorisation_proofs ------------------------
(***************************************************************************)
(* Proofs about who may do what: roles, the tokens that carry them and the *)
(* one operation that changes them (Access), and what every endpoint       *)
(* demands before it changes anything and answers after it (Requests).     *)
(***************************************************************************)
EXTENDS Access, Requests, TLAPS

-----------------------------------------------------------------------------
(***************************************************************************)
(* Role administration, for any users, roles, requests and bounds.         *)
(*                                                                         *)
(* A role passes from the column to a login or a refresh, from there to a  *)
(* token, and from the token to a role change.  Remembered says of each of *)
(* the three that the role was held, and how long ago at most; a role that *)
(* was held in a period has been held in it whatever is appended to the    *)
(* history later (HeldOn), and AuthorityIsRecent adds the three up.        *)
(***************************************************************************)

(* No session of u from before version n is usable, but for stale rotations. *)
SweptBefore(u, n) ==
  \A s \in 1..Len(session) :
    session[s].user = u /\ session[s].live /\ session[s].born < n => session[s].stale

(* Where a request is in time and in the tables.                             *)
InHand(p) ==
  /\ task[p] # Idle => task[p].since <= now /\ now - task[p].since <= MaxFlight
  /\ At(p, "rotate") \/ At(p, "recheck") \/ At(p, "sign") => task[p].s \in 1..Len(session)
  /\ At(p, "sweep") \/ At(p, "audit") => task[p].n <= Version(task[p].user)
  /\ At(p, "audit") => SweptBefore(task[p].user, task[p].n)

(* What each copy of a role says of the column.                              *)
Remembered(p) ==
  /\ At(p, "issue") => HeldBetween(task[p].user, task[p].role, task[p].since - 1, now)
  /\ At(p, "sign") => HeldBetween(session[task[p].s].user, task[p].role, task[p].since - 1, now)
  /\ At(p, "load") \/ At(p, "write") =>
       HeldBetween(task[p].by, "ADMIN", task[p].since - TTL - MaxFlight, now)
TokensRemember ==
  \A t \in token :
    /\ now < t.exp /\ t.exp <= now + TTL
    /\ HeldBetween(t.user, t.role, t.exp - TTL - MaxFlight - 1, now)

History ==
  /\ \A u \in User : Version(u) >= 1 /\ \A k \in 1..Version(u) : hist[u][k].at <= now
  /\ \A e \in audit : e[2] <= Version(e[1])

IInv ==
  /\ AccessTypeOK /\ History /\ TokensRemember /\ AuthorityIsRecent /\ RecordedIsSwept
  /\ \A p \in Proc : InHand(p) /\ Remembered(p)

-----------------------------------------------------------------------------
LEMMA Constants == TTL \in Nat /\ TTL >= 1 /\ MaxFlight \in Nat /\ "ADMIN" \in Role /\ "USER" \in Role
BY ConstantsAssumption

(* The request of a handler, by where it is. *)
LEMMA TaskTypes ==
  ASSUME AccessTypeOK, NEW p \in Proc
  PROVE  /\ task[p] \in LoginRequest \cup RefreshRequest \cup ChangeRequest \cup {Idle}
         /\ At(p, "issue") => task[p] \in LoginRequest
         /\ At(p, "rotate") \/ At(p, "recheck") \/ At(p, "sign") => task[p] \in RefreshRequest
         /\ At(p, "load") \/ At(p, "write") \/ At(p, "sweep") \/ At(p, "audit") => task[p] \in ChangeRequest
         /\ task[p] # Idle => task[p].since \in Nat
BY DEF AccessTypeOK, LoginRequest, RefreshRequest, ChangeRequest, Idle, At

LEMMA IdleIsNoRequest == Idle.pc = "idle"
BY DEF Idle

LEMMA SeqElements == ASSUME NEW S, NEW q \in Seq(S)
                     PROVE  Len(q) \in Nat /\ \A k \in 1..Len(q) : q[k] \in S
OBVIOUS

LEMMA HistTypes ==
  ASSUME AccessTypeOK, NEW u \in User
  PROVE  /\ hist[u] \in Seq([role : Role, at : Nat, by : User]) /\ Version(u) \in Nat
         /\ \A k \in 1..Version(u) : hist[u][k].role \in Role /\ hist[u][k].at \in Nat /\ hist[u][k].by \in User
<1>1. hist[u] \in Seq([role : Role, at : Nat, by : User])
  BY DEF AccessTypeOK
<1>2. Version(u) \in Nat /\ \A k \in 1..Version(u) : hist[u][k] \in [role : Role, at : Nat, by : User]
  BY <1>1, SeqElements DEF Version
<1> QED
  BY <1>1, <1>2

LEMMA SessionTypes ==
  ASSUME AccessTypeOK
  PROVE  /\ session \in Seq([user : User, born : Nat, live : BOOLEAN, stale : BOOLEAN]) /\ Len(session) \in Nat
         /\ \A s \in 1..Len(session) :
              session[s] \in [user : User, born : Nat, live : BOOLEAN, stale : BOOLEAN]
<1>1. session \in Seq([user : User, born : Nat, live : BOOLEAN, stale : BOOLEAN])
  BY DEF AccessTypeOK
<1> QED
  BY <1>1, SeqElements

LEMMA RoleTypes ==
  ASSUME AccessTypeOK, History, NEW u \in User
  PROVE  RoleOf(u) \in Role
<1>1. Version(u) \in 1..Version(u)
  BY HistTypes DEF History
<1> QED
  BY <1>1, HistTypes DEF RoleOf

-----------------------------------------------------------------------------
(* HeldBetween is about a longer period, if it is about a shorter one.       *)
LEMMA HeldWider ==
  ASSUME AccessTypeOK, NEW u \in User, NEW r, NEW t \in Int, NEW t2 \in Int, NEW w \in Int, NEW w2 \in Int,
         HeldBetween(u, r, t, t2), w <= t, t2 <= w2
  PROVE  HeldBetween(u, r, w, w2)
<1>1. PICK k \in 1..Version(u) :
        /\ hist[u][k].role = r /\ hist[u][k].at <= t2
        /\ k = Version(u) \/ hist[u][k + 1].at > t
  BY DEF HeldBetween
<1>2. Version(u) \in Nat /\ hist[u][k].at \in Nat /\ (k # Version(u) => hist[u][k + 1].at \in Nat)
  BY HistTypes
<1> QED
  BY <1>1, <1>2 DEF HeldBetween

(* The role of the column is held now. *)
LEMMA HeldNow ==
  ASSUME AccessTypeOK, History, NEW u \in User, NEW t \in Int
  PROVE  HeldBetween(u, RoleOf(u), t, now)
<1>1. Version(u) \in 1..Version(u)
  BY HistTypes DEF History
<1> QED
  BY <1>1 DEF HeldBetween, RoleOf, History

(* The history only grows, by entries of now. *)
Grows ==
  \A u \in User :
    /\ Version(u)' \in {Version(u), Version(u) + 1}
    /\ \A k \in 1..Version(u) : hist'[u][k] = hist[u][k]
    /\ Version(u)' # Version(u) => hist'[u][Version(u) + 1].at = now

LEMMA GrowsStep == AccessTypeOK /\ [AccessNext]_accesses => Grows
<1> SUFFICES ASSUME AccessTypeOK, [AccessNext]_accesses PROVE Grows
  OBVIOUS
<1>1. ASSUME hist' = hist PROVE Grows
  BY <1>1, HistTypes DEF Grows, Version
<1>2. ASSUME NEW p \in Proc, UpdateRole(p) PROVE Grows
  <2>1. task[p] \in ChangeRequest
    BY <1>2, TaskTypes DEF UpdateRole
  <2> DEFINE v == task[p].user
             e == [role |-> task[p].role, at |-> now, by |-> task[p].by]
  <2>2. v \in User /\ e \in [role : Role, at : Nat, by : User] /\ e.at = now
    BY <2>1 DEF ChangeRequest, AccessTypeOK
  <2>3. hist' = [hist EXCEPT ![v] = Append(@, e)]
    BY <1>2 DEF UpdateRole
  <2> HIDE DEF v, e
  <2>4. ASSUME NEW u \in User
        PROVE  /\ Version(u)' \in {Version(u), Version(u) + 1}
               /\ \A k \in 1..Version(u) : hist'[u][k] = hist[u][k]
               /\ Version(u)' # Version(u) => hist'[u][Version(u) + 1].at = now
    <3>1. hist[u] \in Seq([role : Role, at : Nat, by : User])
      BY HistTypes
    <3>2. CASE u = v
      <4>1. hist'[u] = Append(hist[u], e)
        BY <2>2, <2>3, <3>2 DEF AccessTypeOK
      <4> QED
        BY <4>1, <3>1, <2>2 DEF Version
    <3>3. CASE u # v
      <4>1. hist'[u] = hist[u]
        BY <2>2, <2>3, <3>3 DEF AccessTypeOK
      <4> QED
        BY <4>1, <3>1 DEF Version
    <3> QED
      BY <3>2, <3>3
  <2> QED
    BY <2>4 DEF Grows
<1> QED
  BY <1>1, <1>2 DEF AccessNext, accesses, Load, Present, AskSetRole, OpenSession, Rotate, Recheck, SignRefreshed,
     ReadTarget, Sweep, Record, Fail, Revoke, Tick

(* A period that ends before now, or with it, is settled.                    *)
LEMMA HeldOn ==
  ASSUME AccessTypeOK, Grows, NEW u \in User, NEW r, NEW t \in Int, NEW t2 \in Int,
         HeldBetween(u, r, t, t2), t < now
  PROVE  HeldBetween(u, r, t, t2)'
<1>1. PICK k \in 1..Version(u) :
        /\ hist[u][k].role = r /\ hist[u][k].at <= t2
        /\ k = Version(u) \/ hist[u][k + 1].at > t
  BY DEF HeldBetween
<1>2. Version(u) \in Nat /\ k \in 1..Version(u)'
  BY HistTypes DEF Grows
<1>3. hist'[u][k] = hist[u][k]
  BY DEF Grows
<1>4. k = Version(u)' \/ hist'[u][k + 1].at > t
  <2>1. CASE k = Version(u)
    BY <2>1, <1>2 DEF Grows
  <2>2. CASE k # Version(u)
    <3>1. k + 1 \in 1..Version(u)
      BY <1>2, <2>2
    <3> QED
      BY <3>1, <2>2, <1>1 DEF Grows
  <2> QED
    BY <2>1, <2>2
<1> QED
  BY <1>1, <1>2, <1>3, <1>4 DEF HeldBetween

(* The same of a period that lasts until now. *)
LEMMA HeldStill ==
  ASSUME AccessTypeOK, Grows, now' \in Nat, now' >= now, NEW u \in User, NEW r, NEW t \in Int,
         HeldBetween(u, r, t, now), t < now
  PROVE  HeldBetween(u, r, t, now)'
<1>1. PICK t2 \in Int : t2 = now
  BY DEF AccessTypeOK
<1>2. HeldBetween(u, r, t, t2)'
  BY <1>1, HeldOn
<1>3. \A k \in 1..Version(u)' : hist'[u][k].at <= t2 => hist'[u][k].at <= now'
  <2>1. ASSUME NEW k \in 1..Version(u)', hist'[u][k].at <= t2 PROVE hist'[u][k].at \in Nat
    <3>1. CASE k \in 1..Version(u)
      BY <3>1, HistTypes DEF Grows
    <3>2. CASE k \notin 1..Version(u)
      <4>1. k = Version(u) + 1 /\ Version(u)' # Version(u)
        BY <3>2, HistTypes DEF Grows
      <4> QED
        BY <4>1 DEF Grows, AccessTypeOK
    <3> QED
      BY <3>1, <3>2
  <2> QED
    BY <2>1, <1>1
<1> QED
  BY <1>2, <1>3 DEF HeldBetween

(* Sessions keep their user and their origin, and none becomes usable again  *)
(* but by a stale rotation.                                                  *)
SessionsGrow ==
  /\ Len(session)' \in {Len(session), Len(session) + 1}
  /\ \A s \in 1..Len(session) :
       /\ session'[s].user = session[s].user /\ session'[s].born = session[s].born
       /\ session'[s].live /\ ~ session'[s].stale => session[s].live /\ ~ session[s].stale
  /\ Len(session)' # Len(session) =>
       LET f == session'[Len(session) + 1] IN f.born = Version(f.user)

LEMMA SessionsStep ==
  ASSUME AccessTypeOK, \A p \in Proc : InHand(p), [AccessNext]_accesses
  PROVE  SessionsGrow /\ session' \in Seq([user : User, born : Nat, live : BOOLEAN, stale : BOOLEAN])
<1> DEFINE S == [user : User, born : Nat, live : BOOLEAN, stale : BOOLEAN]
           Good == SessionsGrow /\ session' \in Seq(S)
<1>0. session \in Seq(S) /\ Len(session) \in Nat /\ \A s \in 1..Len(session) : session[s] \in S
  BY SessionTypes
<1>1. ASSUME session' = session PROVE Good
  BY <1>0, <1>1 DEF SessionsGrow
<1>2. ASSUME NEW p \in Proc, OpenSession(p) PROVE Good
  <2> DEFINE f == [user |-> task[p].user, born |-> Version(task[p].user), live |-> TRUE, stale |-> FALSE]
  <2>1. task[p].user \in User
    BY <1>2, TaskTypes DEF OpenSession, LoginRequest
  <2>2. f \in S /\ f.born = Version(f.user)
    BY <2>1, HistTypes
  <2>3. session' = Append(session, f)
    BY <1>2 DEF OpenSession
  <2> HIDE DEF f, S
  <2>4. Len(session') = Len(session) + 1 /\ session'[Len(session) + 1] = f /\ session' \in Seq(S)
        /\ \A s \in 1..Len(session) : session'[s] = session[s]
    BY <1>0, <2>2, <2>3
  <2>5. f.born = Version(f.user)
    BY <2>2
  <2> QED
    BY <1>0, <2>4, <2>5, <1>2, HistTypes DEF SessionsGrow, OpenSession, Version
<1>3. ASSUME NEW s0 \in 1..Len(session), NEW f \in S, session' = [session EXCEPT ![s0] = f],
             f.user = session[s0].user, f.born = session[s0].born,
             f.live /\ ~ f.stale => session[s0].live /\ ~ session[s0].stale
      PROVE  Good
  <2> HIDE DEF S
  <2>1. Len(session') = Len(session) /\ session' \in Seq(S)
        /\ \A s \in 1..Len(session) : session'[s] = IF s = s0 THEN f ELSE session[s]
    BY <1>0, <1>3
  <2> QED
    BY <2>1, <1>0, <1>3 DEF SessionsGrow
<1>4. ASSUME NEW p \in Proc, Rotate(p) PROVE Good
  <2>1. task[p].s \in 1..Len(session)
    BY <1>4 DEF InHand, Rotate
  <2> DEFINE o == session[task[p].s]
             f == [o EXCEPT !.stale = o.stale \/ ~ o.live, !.live = TRUE]
  <2>2. o \in S
    BY <1>0, <2>1
  <2>3. f \in S /\ f.user = o.user /\ f.born = o.born /\ (f.live /\ ~ f.stale => o.live /\ ~ o.stale)
    BY <2>2
  <2>4. session' = [session EXCEPT ![task[p].s] = f]
    BY <1>4 DEF Rotate
  <2> HIDE DEF f, S, Good
  <2> QED
    BY <2>1, <2>3, <2>4, <1>3
<1>5. ASSUME NEW s \in 1..Len(session), Revoke(s) PROVE Good
  <2> DEFINE f == [session[s] EXCEPT !.live = FALSE]
  <2>1. f \in S /\ f.user = session[s].user /\ f.born = session[s].born /\ ~ f.live
    BY <1>0
  <2>2. session' = [session EXCEPT ![s] = f]
    BY <1>5 DEF Revoke
  <2> HIDE DEF f, S, Good
  <2> QED
    BY <2>1, <2>2, <1>3
<1>6. ASSUME NEW p \in Proc, Sweep(p) PROVE Good
  <2>1. session' = [s \in 1..Len(session) |->
          IF session[s].user = task[p].user THEN [session[s] EXCEPT !.live = FALSE] ELSE session[s]]
    BY <1>6 DEF Sweep, Swept
  <2>2. ASSUME NEW s \in 1..Len(session)
        PROVE  /\ session'[s] \in S
               /\ session'[s].user = session[s].user /\ session'[s].born = session[s].born
               /\ session'[s].live /\ ~ session'[s].stale => session[s].live /\ ~ session[s].stale
    <3>1. session[s] \in S
      BY <1>0
    <3>2. session'[s] = IF session[s].user = task[p].user THEN [session[s] EXCEPT !.live = FALSE] ELSE session[s]
      BY <2>1
    <3> QED
      BY <3>1, <3>2
  <2> HIDE DEF S
  <2>3. session' \in [1..Len(session) -> S]
    BY <2>1, <2>2
  <2>4. session' \in Seq(S) /\ Len(session') = Len(session)
    BY <2>3, <1>0
  <2> QED
    BY <2>2, <2>4 DEF SessionsGrow
<1> HIDE DEF Good
<1>7. Good
  BY <1>1, <1>2, <1>4, <1>5, <1>6 DEF AccessNext, accesses, Load, Present, AskSetRole, Recheck, SignRefreshed,
     ReadTarget, UpdateRole, Record, Fail, Tick
<1> QED
  BY <1>7 DEF Good

(* What a sweep has achieved lasts: sessions that are issued after it are    *)
(* from the version it was for, or a later one.                              *)
LEMMA SweptOn ==
  ASSUME AccessTypeOK, SessionsGrow, NEW u \in User, NEW n \in Nat, n <= Version(u), SweptBefore(u, n),
         session' \in Seq([user : User, born : Nat, live : BOOLEAN, stale : BOOLEAN])
  PROVE  SweptBefore(u, n)'
<1> SUFFICES ASSUME NEW s \in 1..Len(session'), session'[s].user = u, session'[s].live, session'[s].born < n
             PROVE  session'[s].stale
  BY DEF SweptBefore
<1>1. Len(session) \in Nat /\ Version(u) \in Nat
  BY SessionTypes, HistTypes
<1>2. session'[s] \in [user : User, born : Nat, live : BOOLEAN, stale : BOOLEAN]
  BY SeqElements
<1>3. CASE s \in 1..Len(session)
  <2>1. session[s] \in [user : User, born : Nat, live : BOOLEAN, stale : BOOLEAN]
    BY <1>3, SessionTypes
  <2> QED
    BY <1>2, <1>3, <2>1 DEF SessionsGrow, SweptBefore
<1>4. CASE s \notin 1..Len(session)
  <2>1. s = Len(session) + 1 /\ Len(session)' # Len(session)
    BY <1>1, <1>4 DEF SessionsGrow
  <2>2. session'[s].born = Version(u)
    BY <2>1 DEF SessionsGrow
  <2> QED
    BY <1>1, <2>2
<1> QED
  BY <1>3, <1>4

-----------------------------------------------------------------------------
(* Requests that a step leaves alone. *)
LEMMA KeptHand ==
  ASSUME IInv, Grows, SessionsGrow, now' \in Nat, now' >= now, NEW q \in Proc, task'[q] = task[q],
         task[q] # Idle => now' - task[q].since <= MaxFlight,
         session' \in Seq([user : User, born : Nat, live : BOOLEAN, stale : BOOLEAN])
  PROVE  InHand(q)' /\ Remembered(q)'
<1>1. AccessTypeOK /\ InHand(q) /\ Remembered(q) /\ now \in Nat
  BY DEF IInv, AccessTypeOK
<1>2. /\ At(q, "issue") => task[q] \in LoginRequest
      /\ At(q, "rotate") \/ At(q, "recheck") \/ At(q, "sign") => task[q] \in RefreshRequest
      /\ At(q, "load") \/ At(q, "write") \/ At(q, "sweep") \/ At(q, "audit") => task[q] \in ChangeRequest
      /\ task[q] # Idle => task[q].since \in Nat
  BY <1>1, TaskTypes
<1>3. Len(session) \in Nat /\ Len(session)' \in {Len(session), Len(session) + 1}
  BY <1>1, SessionTypes DEF SessionsGrow
<1>4. InHand(q)'
  <2>1. ASSUME At(q, "sweep") \/ At(q, "audit") PROVE task[q].n <= Version(task[q].user)'
    <3>1. PICK u \in User, n \in Nat : u = task[q].user /\ n = task[q].n
      BY <1>2, <2>1 DEF ChangeRequest
    <3>2. n <= Version(u) /\ Version(u) \in Nat
      BY <1>1, <2>1, <3>1, HistTypes DEF InHand
    <3>3. n <= Version(u)'
      BY <3>2 DEF Grows
    <3> QED
      BY <3>1, <3>3 DEF Version
  <2>2. ASSUME At(q, "audit") PROVE SweptBefore(task[q].user, task[q].n)'
    <3>1. PICK u \in User, n \in Nat : u = task[q].user /\ n = task[q].n
      BY <1>2, <2>2 DEF ChangeRequest
    <3>2. SweptBefore(u, n)'
      BY <1>1, <2>2, <3>1, SweptOn DEF InHand
    <3> QED
      BY <3>1, <3>2, <2>2 DEF SweptBefore
  <2>3. task[q] # Idle => task[q].since <= now' /\ now' - task[q].since <= MaxFlight
    BY <1>1, <1>2 DEF InHand
  <2>4. At(q, "rotate") \/ At(q, "recheck") \/ At(q, "sign") => task[q].s \in 1..Len(session')
    BY <1>1, <1>3 DEF InHand
  <2> QED
    BY <2>1, <2>2, <2>3, <2>4 DEF InHand, At
<1>5. Remembered(q)'
  <2>0. TTL \in Nat /\ TTL >= 1 /\ MaxFlight \in Nat
    BY Constants
  <2>1. ASSUME At(q, "issue") PROVE HeldBetween(task[q].user, task[q].role, task[q].since - 1, now)'
    <3>0. task[q] \in LoginRequest /\ task[q] # Idle /\ task[q].since \in Nat /\ task[q].since <= now
      BY <1>1, <1>2, <2>1 DEF InHand, At, Idle
    <3>1. PICK u \in User, r \in Role, x \in Int :
            u = task[q].user /\ r = task[q].role /\ x = task[q].since - 1 /\ x < now
      <4>1. task[q].user \in User /\ task[q].role \in Role
        BY <3>0 DEF LoginRequest
      <4>2. task[q].since - 1 \in Int /\ task[q].since - 1 < now
        BY <1>1, <3>0
      <4> QED
        BY <4>1, <4>2
    <3>2. HeldBetween(u, r, x, now)'
      BY <1>1, <2>1, <3>1, HeldStill DEF Remembered
    <3> QED
      BY <3>1, <3>2 DEF HeldBetween, Version
  <2>2. ASSUME At(q, "sign")
        PROVE  HeldBetween(session[task[q].s].user, task[q].role, task[q].since - 1, now)'
    <3>1. task[q].s \in 1..Len(session) /\ session'[task[q].s].user = session[task[q].s].user
      BY <1>1, <2>2 DEF InHand, SessionsGrow
    <3>2. session[task[q].s].user \in User
      BY <1>1, <3>1, SessionTypes
    <3>3. PICK u \in User, r \in Role, x \in Int :
            u = session[task[q].s].user /\ r = task[q].role /\ x = task[q].since - 1 /\ x < now
      <4>1. task[q] \in RefreshRequest /\ task[q] # Idle /\ task[q].since \in Nat /\ task[q].since <= now
        BY <1>1, <1>2, <2>2 DEF InHand, At, Idle
      <4>2. task[q].role \in Role
        BY <4>1 DEF RefreshRequest
      <4>3. task[q].since - 1 \in Int /\ task[q].since - 1 < now
        BY <1>1, <4>1
      <4> QED
        BY <3>2, <4>2, <4>3
    <3>4. HeldBetween(u, r, x, now)'
      BY <1>1, <2>2, <3>3, HeldStill DEF Remembered
    <3> QED
      BY <3>1, <3>3, <3>4 DEF HeldBetween, Version
  <2>3. ASSUME At(q, "load") \/ At(q, "write")
        PROVE  HeldBetween(task[q].by, "ADMIN", task[q].since - TTL - MaxFlight, now)'
    <3>1. PICK u \in User, x \in Int :
            u = task[q].by /\ x = task[q].since - TTL - MaxFlight /\ x < now
      <4>1. task[q] \in ChangeRequest /\ task[q] # Idle /\ task[q].since \in Nat /\ task[q].since <= now
        BY <1>1, <1>2, <2>3 DEF InHand, At, Idle
      <4>2. task[q].by \in User
        BY <4>1 DEF ChangeRequest
      <4>3. task[q].since - TTL - MaxFlight \in Int /\ task[q].since - TTL - MaxFlight < now
        BY <1>1, <2>0, <4>1
      <4> QED
        BY <4>2, <4>3
    <3>2. HeldBetween(u, "ADMIN", x, now)'
      BY <1>1, <2>3, <3>1, HeldStill DEF Remembered
    <3> QED
      BY <3>1, <3>2 DEF HeldBetween, Version
  <2> QED
    BY <2>1, <2>2, <2>3 DEF Remembered, At
<1> QED
  BY <1>4, <1>5

(* A step of p leaves the other requests alone. *)
LEMMA ActingHand ==
  ASSUME IInv, Grows, SessionsGrow, now' = now, NEW p \in Proc, NEW r, Put(p, r),
         r = Idle \/ (InHand(p)' /\ Remembered(p)'),
         session' \in Seq([user : User, born : Nat, live : BOOLEAN, stale : BOOLEAN])
  PROVE  \A q \in Proc : InHand(q)' /\ Remembered(q)'
<1> SUFFICES ASSUME NEW q \in Proc PROVE InHand(q)' /\ Remembered(q)'
  OBVIOUS
<1>1. now \in Nat /\ now' \in Nat /\ now' >= now /\ task'[p] = r /\ (q # p => task'[q] = task[q])
  BY DEF IInv, AccessTypeOK, Put
<1>2. CASE q # p
  <2>1. task[q] # Idle => now' - task[q].since <= MaxFlight
    BY DEF IInv, InHand
  <2> QED
    BY <1>1, <1>2, <2>1, KeptHand
<1>3. ASSUME r = Idle, q = p PROVE InHand(q)' /\ Remembered(q)'
  <2>1. task'[q] = Idle
    BY <1>1, <1>3
  <2> QED
    BY <2>1 DEF InHand, Remembered, At, Idle
<1> QED
  BY <1>2, <1>3

-----------------------------------------------------------------------------
(* The types, by action. *)
LEMMA SignTypes ==
  ASSUME AccessTypeOK, NEW u \in User, NEW r \in Role, Sign(u, r)
  PROVE  token' \subseteq [user : User, role : Role, exp : Nat]
<1>1. [user |-> u, role |-> r, exp |-> now + TTL] \in [user : User, role : Role, exp : Nat]
  BY Constants DEF AccessTypeOK
<1> QED
  BY <1>1 DEF AccessTypeOK, Sign

LEMMA ReqTypes ==
  ASSUME AccessTypeOK, NEW p \in Proc, NEW r \in LoginRequest \cup RefreshRequest \cup ChangeRequest \cup {Idle}, Put(p, r)
  PROVE  task' \in [Proc -> LoginRequest \cup RefreshRequest \cup ChangeRequest \cup {Idle}]
BY DEF AccessTypeOK, Put

LEMMA TypesStep == IInv /\ [AccessNext]_accesses => AccessTypeOK'
<1> SUFFICES ASSUME IInv, [AccessNext]_accesses PROVE AccessTypeOK'
  OBVIOUS
<1> DEFINE R == LoginRequest \cup RefreshRequest \cup ChangeRequest \cup {Idle}
<1>0. AccessTypeOK /\ now \in Nat /\ \A p \in Proc : InHand(p)
  BY DEF IInv, AccessTypeOK
<1>1. session' \in Seq([user : User, born : Nat, live : BOOLEAN, stale : BOOLEAN])
  BY <1>0, SessionsStep
<1>2. ASSUME NEW p \in Proc, NEW u \in User, Load(p, u) PROVE AccessTypeOK'
  <2>1. RoleOf(u) \in Role
    BY <1>0, RoleTypes DEF IInv
  <2>2. [pc |-> "issue", user |-> u, role |-> RoleOf(u), since |-> now] \in R
    BY <1>0, <2>1 DEF LoginRequest
  <2>3. task' \in [Proc -> R]
    BY <1>0, <1>2, <2>2, ReqTypes DEF Load
  <2> QED
    BY <1>0, <1>2, <2>3 DEF AccessTypeOK, Load
<1>3. ASSUME NEW p \in Proc, OpenSession(p) PROVE AccessTypeOK'
  <2>1. task[p].user \in User /\ task[p].role \in Role
    BY <1>0, <1>3, TaskTypes DEF OpenSession, LoginRequest
  <2>2. token' \subseteq [user : User, role : Role, exp : Nat]
    BY <1>0, <1>3, <2>1, SignTypes DEF OpenSession
  <2>3. task' \in [Proc -> R]
    BY <1>0, <1>3, ReqTypes DEF OpenSession
  <2> QED
    BY <1>0, <1>1, <1>3, <2>2, <2>3 DEF AccessTypeOK, OpenSession
<1>4. ASSUME NEW p \in Proc, NEW s \in 1..Len(session), Present(p, s) PROVE AccessTypeOK'
  <2>1. [pc |-> "rotate", s |-> s, role |-> "USER", since |-> now] \in R
    BY <1>0, SessionTypes, Constants DEF RefreshRequest
  <2>2. task' \in [Proc -> R]
    BY <1>0, <1>4, <2>1, ReqTypes DEF Present
  <2> QED
    BY <1>0, <1>4, <2>2 DEF AccessTypeOK, Present
<1>5. ASSUME NEW p \in Proc, Rotate(p) PROVE AccessTypeOK'
  <2>1. [pc |-> "recheck", s |-> task[p].s, role |-> "USER", since |-> task[p].since] \in R
    BY <1>0, <1>5, TaskTypes, Constants DEF RefreshRequest, Rotate
  <2>2. task' \in [Proc -> R]
    BY <1>0, <1>5, <2>1, ReqTypes DEF Rotate, Refreshing
  <2> QED
    BY <1>0, <1>1, <1>5, <2>2 DEF AccessTypeOK, Rotate
<1>6. ASSUME NEW p \in Proc, Recheck(p) PROVE AccessTypeOK'
  <2>1. task[p].s \in 1..Len(session) /\ task[p] \in RefreshRequest
    BY <1>0, <1>6, TaskTypes DEF Recheck, InHand
  <2>2. RoleOf(session[task[p].s].user) \in Role
    <3>1. session[task[p].s].user \in User
      BY <1>0, <2>1, SessionTypes
    <3> QED
      BY <1>0, <3>1, RoleTypes DEF IInv
  <2>3. [pc |-> "sign", s |-> task[p].s, role |-> RoleOf(session[task[p].s].user), since |-> task[p].since] \in R
    BY <2>1, <2>2 DEF RefreshRequest
  <2>4. task' \in [Proc -> R]
    BY <1>0, <1>6, <2>3, ReqTypes DEF Recheck, Refreshing
  <2> QED
    BY <1>0, <1>6, <2>4 DEF AccessTypeOK, Recheck
<1>7. ASSUME NEW p \in Proc, SignRefreshed(p) PROVE AccessTypeOK'
  <2>1. task[p].s \in 1..Len(session) /\ task[p].role \in Role
    BY <1>0, <1>7, TaskTypes DEF SignRefreshed, InHand, RefreshRequest
  <2>2. session[task[p].s].user \in User
    BY <1>0, <2>1, SessionTypes
  <2>3. token' \subseteq [user : User, role : Role, exp : Nat]
    BY <1>0, <1>7, <2>1, <2>2, SignTypes DEF SignRefreshed
  <2>4. task' \in [Proc -> R]
    BY <1>0, <1>7, ReqTypes DEF SignRefreshed
  <2> QED
    BY <1>0, <1>7, <2>3, <2>4 DEF AccessTypeOK, SignRefreshed
<1>8. ASSUME NEW p \in Proc, NEW t \in token, NEW u \in User, NEW r \in Input, AskSetRole(p, t, u, r)
      PROVE  AccessTypeOK'
  <2>1. [pc |-> "load", user |-> u, role |-> r, by |-> t.user, n |-> 0, since |-> now] \in R
    BY <1>0, <1>8 DEF AccessTypeOK, AskSetRole, ChangeRequest
  <2>2. task' \in [Proc -> R]
    BY <1>0, <1>8, <2>1, ReqTypes DEF AskSetRole
  <2> QED
    BY <1>0, <1>8, <2>2 DEF AccessTypeOK, AskSetRole
<1>9. ASSUME NEW p \in Proc, NEW pc \in {"write", "sweep", "audit"}, NEW n \in Nat, task[p] \in ChangeRequest,
             Changing(p, pc, n)
      PROVE  task' \in [Proc -> R]
  <2> DEFINE r == [pc |-> pc, user |-> task[p].user, role |-> task[p].role, by |-> task[p].by,
                   n |-> n, since |-> task[p].since]
  <2>1. r \in R
    BY <1>9 DEF ChangeRequest
  <2>2. Put(p, r)
    BY <1>9 DEF Changing
  <2> QED
    BY <1>0, <2>1, <2>2, ReqTypes
<1>10. ASSUME NEW p \in Proc, ReadTarget(p) PROVE AccessTypeOK'
  <2>1. task' \in [Proc -> R]
    BY <1>0, <1>9, <1>10, TaskTypes, ReqTypes DEF ReadTarget
  <2> QED
    BY <1>0, <1>10, <2>1 DEF AccessTypeOK, ReadTarget
<1>11. ASSUME NEW p \in Proc, UpdateRole(p) PROVE AccessTypeOK'
  <2>1. task[p] \in ChangeRequest
    BY <1>0, <1>11, TaskTypes DEF UpdateRole
  <2> DEFINE v == task[p].user
             e == [role |-> task[p].role, at |-> now, by |-> task[p].by]
             Versions == [role : Role, at : Nat, by : User]
  <2>2. v \in User /\ e \in Versions /\ Version(v) + 1 \in Nat
    BY <1>0, <2>1, HistTypes DEF ChangeRequest
  <2>3. hist' = [hist EXCEPT ![v] = Append(@, e)] /\ hist \in [User -> Seq(Versions)]
    BY <1>0, <1>11 DEF UpdateRole, AccessTypeOK
  <2>4. task' \in [Proc -> R]
    BY <1>9, <1>11, <2>1, <2>2 DEF UpdateRole
  <2> HIDE DEF v, e, Versions
  <2>5. hist' \in [User -> Seq(Versions)]
    BY <2>2, <2>3
  <2> QED
    BY <1>0, <1>11, <2>4, <2>5 DEF AccessTypeOK, UpdateRole, Versions
<1>12. ASSUME NEW p \in Proc, Sweep(p) PROVE AccessTypeOK'
  <2>1. task[p] \in ChangeRequest
    BY <1>0, <1>12, TaskTypes DEF Sweep
  <2>2. task' \in [Proc -> R]
    BY <1>9, <1>12, <2>1 DEF Sweep, ChangeRequest
  <2> QED
    BY <1>0, <1>1, <1>12, <2>2 DEF AccessTypeOK, Sweep
<1>13. ASSUME NEW p \in Proc, Record(p) PROVE AccessTypeOK'
  <2>1. task[p].user \in User /\ task[p].n \in Nat
    BY <1>0, <1>13, TaskTypes DEF Record, ChangeRequest
  <2>2. task' \in [Proc -> R]
    BY <1>0, <1>13, ReqTypes DEF Record
  <2>3. <<task[p].user, task[p].n>> \in User \X Nat
    BY <2>1
  <2>4. audit' \subseteq User \X Nat
    BY <1>0, <1>13, <2>3 DEF AccessTypeOK, Record
  <2> QED
    BY <1>0, <1>13, <2>2, <2>4 DEF AccessTypeOK, Record
<1>14. ASSUME NEW p \in Proc, Fail(p) PROVE AccessTypeOK'
  <2>1. task' \in [Proc -> R]
    BY <1>0, <1>14, ReqTypes DEF Fail
  <2> QED
    BY <1>0, <1>14, <2>1 DEF AccessTypeOK, Fail
<1>15. ASSUME NEW s \in 1..Len(session), Revoke(s) PROVE AccessTypeOK'
  BY <1>0, <1>1, <1>15 DEF AccessTypeOK, Revoke
<1>16. CASE Tick
  <2>1. token' \subseteq [user : User, role : Role, exp : Nat] /\ now' \in Nat
    BY <1>0, <1>16 DEF AccessTypeOK, Tick
  <2> QED
    BY <1>0, <1>1, <1>16, <2>1 DEF AccessTypeOK, Tick
<1>17. CASE UNCHANGED accesses
  BY <1>0, <1>17 DEF AccessTypeOK, accesses
<1> QED
  BY <1>2, <1>3, <1>4, <1>5, <1>6, <1>7, <1>8, <1>10, <1>11, <1>12, <1>13, <1>14, <1>15, <1>16, <1>17 DEF AccessNext

-----------------------------------------------------------------------------
(* The requests, by action: what the request has in hand after its own step. *)
LEMMA HandStep ==
  ASSUME IInv, [AccessNext]_accesses, Grows, SessionsGrow, AccessTypeOK'
  PROVE  \A q \in Proc : InHand(q)' /\ Remembered(q)'
<1> DEFINE All == \A q \in Proc : InHand(q)' /\ Remembered(q)'
<1>0. /\ AccessTypeOK /\ History /\ now \in Nat /\ TTL \in Nat /\ TTL >= 1 /\ MaxFlight \in Nat
      /\ task \in [Proc -> LoginRequest \cup RefreshRequest \cup ChangeRequest \cup {Idle}]
      /\ session' \in Seq([user : User, born : Nat, live : BOOLEAN, stale : BOOLEAN])
  BY Constants DEF IInv, AccessTypeOK
<1>h. \A p \in Proc : InHand(p) /\ Remembered(p)
  BY DEF IInv
<1>1. ASSUME NEW p \in Proc, task[p] # Idle
      PROVE  task[p].since \in Nat /\ task[p].since <= now /\ now - task[p].since <= MaxFlight
  BY <1>0, <1>h, <1>1, TaskTypes DEF InHand
<1>2. ASSUME NEW p \in Proc, ~ At(p, "idle") PROVE task[p] # Idle
  BY <1>2, IdleIsNoRequest DEF At
<1>3. ASSUME NEW p \in Proc, NEW u \in User, Load(p, u) PROVE All
  <2> DEFINE r == [pc |-> "issue", user |-> u, role |-> RoleOf(u), since |-> now]
  <2>1. Put(p, r) /\ task'[p] = r /\ now' = now /\ hist' = hist
    BY <1>0, <1>3 DEF Load, Put
  <2>2. InHand(p)'
    BY <1>0, <2>1 DEF InHand, At
  <2>3. HeldBetween(u, RoleOf(u), now - 1, now)
    BY <1>0, HeldNow
  <2>4. Remembered(p)'
    BY <2>1, <2>3 DEF Remembered, At, HeldBetween, Version, RoleOf
  <2> HIDE DEF r
  <2> QED
    BY <1>0, <2>1, <2>2, <2>4, ActingHand
<1>4. ASSUME NEW p \in Proc, NEW s \in 1..Len(session), Present(p, s) PROVE All
  <2> DEFINE r == [pc |-> "rotate", s |-> s, role |-> "USER", since |-> now]
  <2>1. Put(p, r) /\ task'[p] = r /\ now' = now /\ session' = session
    BY <1>0, <1>4 DEF Present, Put
  <2>2. InHand(p)' /\ Remembered(p)'
    BY <1>0, <2>1 DEF InHand, Remembered, At
  <2> HIDE DEF r
  <2> QED
    BY <1>0, <2>1, <2>2, ActingHand
<1>5. ASSUME NEW p \in Proc, Rotate(p) PROVE All
  <2> DEFINE r == [pc |-> "recheck", s |-> task[p].s, role |-> "USER", since |-> task[p].since]
  <2>1. Put(p, r) /\ task'[p] = r /\ now' = now
    BY <1>0, <1>5 DEF Rotate, Refreshing, Put
  <2>2. task[p].s \in 1..Len(session') /\ task[p] # Idle
    BY <1>0, <1>h, <1>2, <1>5, SessionTypes DEF Rotate, InHand, At, SessionsGrow
  <2>3. InHand(p)' /\ Remembered(p)'
    BY <1>0, <1>1, <2>1, <2>2 DEF InHand, Remembered, At
  <2> HIDE DEF r
  <2> QED
    BY <1>0, <2>1, <2>3, ActingHand
<1>6. ASSUME NEW p \in Proc, Recheck(p) PROVE All
  <2> DEFINE v == session[task[p].s].user
             r == [pc |-> "sign", s |-> task[p].s, role |-> RoleOf(v), since |-> task[p].since]
  <2>1. Put(p, r) /\ task'[p] = r /\ now' = now /\ session' = session /\ hist' = hist
    BY <1>0, <1>6 DEF Recheck, Refreshing, Put
  <2>2. task[p].s \in 1..Len(session) /\ task[p] # Idle
    BY <1>h, <1>2, <1>6 DEF Recheck, InHand, At
  <2>3. InHand(p)'
    BY <1>0, <1>1, <2>1, <2>2 DEF InHand, At
  <2>4. v \in User /\ task[p].since - 1 \in Int
    BY <1>0, <1>1, <2>2, SessionTypes
  <2>5. PICK u \in User, x \in Int, o \in Role :
          u = v /\ x = task[p].since - 1 /\ o = RoleOf(u) /\ o = RoleOf(v)
    BY <1>0, <2>4, RoleTypes
  <2>6. HeldBetween(u, o, x, now)
    BY <1>0, <2>5, HeldNow
  <2>7. HeldBetween(u, o, x, now)'
    BY <2>1, <2>6 DEF HeldBetween, Version
  <2>8. task'[p].pc = "sign" /\ session'[task'[p].s].user = u /\ task'[p].role = o /\ task'[p].since - 1 = x
    BY <2>1, <2>5
  <2>9. Remembered(p)'
    BY <2>7, <2>8 DEF Remembered, At, HeldBetween, Version
  <2> HIDE DEF r
  <2> QED
    BY <1>0, <2>1, <2>3, <2>9, ActingHand
<1>7. ASSUME NEW p \in Proc, NEW t \in token, NEW u \in User, NEW x \in Input, AskSetRole(p, t, u, x)
      PROVE  All
  <2> DEFINE r == [pc |-> "load", user |-> u, role |-> x, by |-> t.user, n |-> 0, since |-> now]
  <2>1. Put(p, r) /\ task'[p] = r /\ now' = now /\ hist' = hist
    BY <1>0, <1>7 DEF AskSetRole, Put
  <2>2. InHand(p)'
    BY <1>0, <2>1 DEF InHand, At
  <2>3. t \in [user : User, role : Role, exp : Nat] /\ t.role = "ADMIN"
    BY <1>0, <1>7 DEF AccessTypeOK, AskSetRole, Admitted, RoleSatisfies
  <2>4. now < t.exp /\ HeldBetween(t.user, t.role, t.exp - TTL - MaxFlight - 1, now)
    BY DEF IInv, TokensRemember
  <2>5. PICK w \in Int, w2 \in Int : w = t.exp - TTL - MaxFlight - 1 /\ w2 = now - TTL - MaxFlight
    BY <1>0, <2>3
  <2>6. w2 <= w
    BY <1>0, <2>3, <2>4, <2>5
  <2>7. HeldBetween(t.user, "ADMIN", w2, now)
    BY <1>0, <2>3, <2>4, <2>5, <2>6, HeldWider
  <2>8. Remembered(p)'
    BY <2>1, <2>5, <2>7 DEF Remembered, At, HeldBetween, Version
  <2> HIDE DEF r
  <2> QED
    BY <1>0, <2>1, <2>2, <2>8, ActingHand
<1>8. ASSUME NEW p \in Proc, NEW pc \in {"write", "sweep", "audit"}, NEW n \in Nat, NEW v \in User,
             ~ At(p, "idle"), v = task[p].user, Changing(p, pc, n), now' = now,
             pc = "write" => At(p, "load"),
             pc # "write" => n <= Version(v)',
             pc = "audit" => SweptBefore(v, n)'
      PROVE  All
  <2>1. PICK r : r = [pc |-> pc, user |-> v, role |-> task[p].role, by |-> task[p].by,
                      n |-> n, since |-> task[p].since]
    OBVIOUS
  <2>2. Put(p, r) /\ task'[p] = r
    BY <1>0, <1>8, <2>1 DEF Changing, Put
  <2>3. r.pc = pc /\ r.user = v /\ r.by = task[p].by /\ r.n = n /\ r.since = task[p].since
    BY <2>1
  <2>4. task[p].since \in Nat /\ task[p].since <= now /\ now - task[p].since <= MaxFlight
    BY <1>1, <1>2, <1>8
  <2>5. task'[p].pc = pc /\ task'[p].user = v /\ task'[p].n = n /\ task'[p].by = task[p].by
        /\ task'[p].since = task[p].since
    BY <2>2, <2>3
  <2>6. InHand(p)'
    BY <1>8, <2>4, <2>5 DEF InHand, At, SweptBefore, Version
  <2>7. Remembered(p)'
    <3>1. CASE pc # "write"
      BY <1>8, <2>5, <3>1 DEF Remembered, At
    <3>2. CASE pc = "write"
      <4>1. PICK u \in User, x \in Int : u = task[p].by /\ x = task[p].since - TTL - MaxFlight
        BY <1>0, <1>8, <2>4, <3>2, TaskTypes DEF ChangeRequest
      <4>2. x < now /\ HeldBetween(u, "ADMIN", x, now)
        BY <1>0, <1>h, <1>8, <2>4, <3>2, <4>1 DEF Remembered
      <4>3. HeldBetween(u, "ADMIN", x, now)'
        BY <1>0, <1>8, <4>1, <4>2, HeldStill
      <4> QED
        BY <3>2, <2>5, <4>1, <4>3 DEF Remembered, At, HeldBetween, Version
    <3> QED
      BY <3>1, <3>2
  <2> QED
    BY <1>0, <1>8, <2>2, <2>6, <2>7, ActingHand
<1>9. ASSUME NEW p \in Proc, Put(p, Idle), now' = now PROVE All
  BY <1>0, <1>9, ActingHand
<1>10. ASSUME NEW p \in Proc, ReadTarget(p) PROVE All
  <2>1. ~ At(p, "idle") /\ At(p, "load") /\ now' = now /\ 0 \in Nat /\ task[p].user \in User
    BY <1>0, <1>10, TaskTypes DEF ReadTarget, At, ChangeRequest
  <2>2. CASE Put(p, Idle)
    BY <1>9, <2>1, <2>2
  <2>3. CASE Changing(p, "write", 0)
    BY <1>8, <2>1, <2>3
  <2> QED
    BY <1>10, <2>2, <2>3 DEF ReadTarget
<1>11. ASSUME NEW p \in Proc, UpdateRole(p) PROVE All
  <2>1. PICK v \in User : v = task[p].user
    BY <1>0, <1>11, TaskTypes DEF UpdateRole, ChangeRequest
  <2>2. PICK n \in Nat : n = Version(v) + 1
    BY <1>0, HistTypes
  <2>3. ~ At(p, "idle") /\ now' = now /\ Changing(p, "sweep", n)
    BY <1>11, <2>1, <2>2 DEF UpdateRole, At
  <2> DEFINE e == [role |-> task[p].role, at |-> now, by |-> task[p].by]
  <2>4. hist'[v] = Append(hist[v], e)
    BY <1>0, <1>11, <2>1 DEF UpdateRole, AccessTypeOK
  <2> HIDE DEF e
  <2>5. n <= Version(v)'
    BY <1>0, <2>2, <2>4, HistTypes DEF Version
  <2> QED
    BY <1>8, <2>1, <2>3, <2>5
<1>12. ASSUME NEW p \in Proc, Sweep(p) PROVE All
  <2>1. task[p] \in ChangeRequest /\ ~ At(p, "idle") /\ now' = now /\ hist' = hist
    BY <1>0, <1>12, TaskTypes DEF Sweep, At
  <2>2. PICK v \in User, n \in Nat : v = task[p].user /\ n = task[p].n
    BY <2>1 DEF ChangeRequest
  <2>3. n <= Version(v)'
    BY <1>h, <1>12, <2>1, <2>2 DEF Sweep, InHand, Version
  <2>4. session' = [s \in 1..Len(session) |->
          IF session[s].user = v THEN [session[s] EXCEPT !.live = FALSE] ELSE session[s]]
    BY <1>12, <2>2 DEF Sweep, Swept
  <2>5. ASSUME NEW s \in 1..Len(session'), session'[s].user = v PROVE ~ session'[s].live
    <3>1. Len(session) \in Nat /\ Len(session') = Len(session)
      BY <1>0, <2>4, SessionTypes
    <3>2. s \in 1..Len(session)
      BY <3>1
    <3>3. session[s] \in [user : User, born : Nat, live : BOOLEAN, stale : BOOLEAN]
      BY <1>0, <3>2, SessionTypes
    <3>4. session'[s] = IF session[s].user = v THEN [session[s] EXCEPT !.live = FALSE] ELSE session[s]
      BY <2>4, <3>2
    <3> QED
      BY <2>5, <3>3, <3>4
  <2>6. SweptBefore(v, n)'
    BY <2>5 DEF SweptBefore
  <2>7. Changing(p, "audit", n)
    BY <1>12, <2>2 DEF Sweep
  <2> QED
    BY <1>8, <2>1, <2>2, <2>3, <2>6, <2>7
<1>13. ASSUME hist' = hist, task' = task, now' \in Nat, now' >= now,
              \A p \in Proc : task[p] # Idle => now' - task[p].since <= MaxFlight
       PROVE  All
  BY <1>0, <1>13, KeptHand
<1>14. ASSUME Tick PROVE All
  <2>1. ASSUME NEW p \in Proc, task[p] # Idle PROVE now' - task[p].since <= MaxFlight
    BY <1>0, <1>1, <1>14, <2>1 DEF Tick
  <2> QED
    BY <1>0, <1>13, <1>14, <2>1 DEF Tick
<1>15. ASSUME NEW s \in 1..Len(session), Revoke(s) PROVE All
  <2>1. hist' = hist /\ task' = task /\ now' = now
    BY <1>15 DEF Revoke
  <2> HIDE DEF All
  <2> QED
    BY <1>0, <1>1, <1>13, <2>1
<1>16. ASSUME UNCHANGED accesses PROVE All
  <2>1. hist' = hist /\ task' = task /\ now' = now
    BY <1>16 DEF accesses
  <2> HIDE DEF All
  <2> QED
    BY <1>0, <1>1, <1>13, <2>1
<1>17. ASSUME NEW p \in Proc, OpenSession(p) \/ SignRefreshed(p) \/ Record(p) \/ Fail(p) PROVE All
  <2>1. Put(p, Idle) /\ now' = now
    BY <1>17 DEF OpenSession, SignRefreshed, Record, Fail
  <2> QED
    BY <1>9, <2>1
<1> HIDE DEF All
<1>18. All
  BY <1>3, <1>4, <1>5, <1>6, <1>7, <1>10, <1>11, <1>12, <1>14, <1>15, <1>16, <1>17 DEF AccessNext
<1> QED
  BY <1>18 DEF All

-----------------------------------------------------------------------------
(* A token carries a role that its user had when the request began.          *)
LEMMA TokensStep ==
  ASSUME IInv, [AccessNext]_accesses, Grows, AccessTypeOK'
  PROVE  TokensRemember'
<1> DEFINE Good(t) == /\ now' < t.exp /\ t.exp <= now' + TTL
                      /\ HeldBetween(t.user, t.role, t.exp - TTL - MaxFlight - 1, now)'
<1>0. /\ AccessTypeOK /\ now \in Nat /\ TTL \in Nat /\ TTL >= 1 /\ MaxFlight \in Nat
      /\ token \subseteq [user : User, role : Role, exp : Nat]
  BY Constants DEF IInv, AccessTypeOK
<1>1. ASSUME NEW t \in token, now' \in Nat, now' >= now, now' < t.exp PROVE Good(t)
  <2>1. t.user \in User /\ t.role \in Role /\ t.exp \in Nat /\ t.exp <= now + TTL
        /\ HeldBetween(t.user, t.role, t.exp - TTL - MaxFlight - 1, now)
    BY <1>0 DEF IInv, TokensRemember
  <2>2. PICK x \in Int : x = t.exp - TTL - MaxFlight - 1
    BY <1>0, <2>1
  <2>3. x < now /\ t.exp <= now' + TTL
    BY <1>0, <1>1, <2>1, <2>2
  <2>4. HeldBetween(t.user, t.role, x, now)'
    BY <1>0, <1>1, <2>1, <2>2, <2>3, HeldStill
  <2> QED
    BY <1>1, <2>2, <2>3, <2>4
<1>2. ASSUME NEW u \in User, NEW r \in Role, NEW x \in Nat, x <= now, now - x <= MaxFlight, now' = now,
             HeldBetween(u, r, x - 1, now), Sign(u, r)
      PROVE  \A t \in token' : Good(t)
  <2>1. PICK n : n = [user |-> u, role |-> r, exp |-> now + TTL]
    OBVIOUS
  <2>2. n.user = u /\ n.role = r /\ n.exp = now + TTL
    BY <2>1
  <2>3. token' = token \cup {n}
    BY <1>2, <2>1 DEF Sign
  <2>4. PICK y \in Int, z \in Int : y = x - 1 /\ z = n.exp - TTL - MaxFlight - 1
    BY <1>0, <2>2
  <2>5. z <= y /\ z < now
    BY <1>0, <1>2, <2>2, <2>4
  <2>6. HeldBetween(u, r, z, now)
    BY <1>0, <1>2, <2>4, <2>5, HeldWider
  <2>7. HeldBetween(u, r, z, now)'
    BY <1>0, <1>2, <2>5, <2>6, HeldStill
  <2>8. Good(n)
    BY <1>0, <1>2, <2>2, <2>4, <2>7
  <2>9. ASSUME NEW t \in token PROVE Good(t)
    <3>1. now' < t.exp
      BY <1>2 DEF IInv, TokensRemember
    <3> QED
      BY <1>0, <1>1, <1>2, <3>1
  <2> HIDE DEF Good
  <2> QED
    BY <2>3, <2>8, <2>9
<1>3. ASSUME NEW p \in Proc, OpenSession(p) PROVE \A t \in token' : Good(t)
  <2>1. At(p, "issue") /\ task[p] # Idle /\ task[p] \in LoginRequest /\ now' = now
        /\ Sign(task[p].user, task[p].role)
    BY <1>0, <1>3, TaskTypes, IdleIsNoRequest DEF OpenSession, At
  <2>2. PICK u \in User, r \in Role, x \in Nat : u = task[p].user /\ r = task[p].role /\ x = task[p].since
    BY <2>1 DEF LoginRequest
  <2>3. x <= now /\ now - x <= MaxFlight /\ HeldBetween(u, r, x - 1, now)
    BY <2>1, <2>2 DEF IInv, InHand, Remembered
  <2> HIDE DEF Good
  <2> QED
    BY <1>2, <2>1, <2>2, <2>3
<1>4. ASSUME NEW p \in Proc, SignRefreshed(p) PROVE \A t \in token' : Good(t)
  <2>1. At(p, "sign") /\ task[p] # Idle /\ task[p] \in RefreshRequest /\ now' = now
        /\ Sign(session[task[p].s].user, task[p].role) /\ task[p].s \in 1..Len(session)
    BY <1>0, <1>4, TaskTypes, IdleIsNoRequest DEF SignRefreshed, At, IInv, InHand
  <2>2. session[task[p].s].user \in User
    BY <1>0, <2>1, SessionTypes
  <2>3. PICK u \in User, r \in Role, x \in Nat :
          u = session[task[p].s].user /\ r = task[p].role /\ x = task[p].since
    BY <2>1, <2>2 DEF RefreshRequest
  <2>4. x <= now /\ now - x <= MaxFlight /\ HeldBetween(u, r, x - 1, now)
    BY <2>1, <2>3 DEF IInv, InHand, Remembered
  <2> HIDE DEF Good
  <2> QED
    BY <1>2, <2>1, <2>3, <2>4
<1>5. ASSUME token' = token, now' = now PROVE \A t \in token' : Good(t)
  <2> HIDE DEF Good
  <2>1. \A t \in token : now < t.exp
    BY DEF IInv, TokensRemember
  <2> QED
    BY <1>0, <1>1, <1>5, <2>1
<1>6. ASSUME Tick PROVE \A t \in token' : Good(t)
  <2> HIDE DEF Good
  <2>1. \A t \in token' : t \in token /\ now' < t.exp
    BY <1>6 DEF Tick, Usable
  <2>2. now' \in Nat /\ now' >= now
    BY <1>0, <1>6 DEF Tick
  <2> QED
    BY <1>1, <2>1, <2>2
<1>7. \A t \in token' : Good(t)
  <2> HIDE DEF Good
  <2> QED
    BY <1>3, <1>4, <1>5, <1>6 DEF AccessNext, accesses, Load, Present, Rotate, Recheck, AskSetRole, ReadTarget,
       UpdateRole, Sweep, Record, Fail, Revoke
<1> QED
  <2>1. \A t \in token' : /\ now' < t.exp /\ t.exp <= now' + TTL
                         /\ HeldBetween(t.user, t.role, t.exp - TTL - MaxFlight - 1, now)'
    BY <1>7
  <2> QED
    BY <2>1 DEF TokensRemember

(* The history is of the past, and the audit rows are of the history. *)
LEMMA HistoryStep ==
  ASSUME IInv, [AccessNext]_accesses, Grows, AccessTypeOK'
  PROVE  History'
<1>0. AccessTypeOK /\ History /\ now \in Nat /\ now' \in Nat /\ audit \subseteq User \X Nat
  BY DEF IInv, AccessTypeOK
<1>1. now' >= now
  <2>1. now' = now \/ now' = now + 1
    BY DEF AccessNext, accesses, Load, Present, Rotate, Recheck, AskSetRole, ReadTarget, OpenSession, SignRefreshed,
       UpdateRole, Sweep, Record, Fail, Revoke, Tick
  <2> QED
    BY <1>0, <2>1
<1>2. ASSUME NEW u \in User
      PROVE  Version(u)' >= 1 /\ Version(u) <= Version(u)' /\ \A k \in 1..Version(u)' : hist'[u][k].at <= now'
  <2>1. Version(u) \in Nat /\ Version(u) >= 1 /\ Version(u)' \in {Version(u), Version(u) + 1}
    BY <1>0, HistTypes DEF History, Grows
  <2>2. ASSUME NEW k \in 1..Version(u)' PROVE hist'[u][k].at <= now'
    <3>1. CASE k \in 1..Version(u)
      <4>1. hist'[u][k] = hist[u][k] /\ hist[u][k].at <= now /\ hist[u][k].at \in Nat
        BY <1>0, <3>1, HistTypes DEF History, Grows
      <4> QED
        BY <1>0, <1>1, <4>1
    <3>2. CASE k \notin 1..Version(u)
      <4>1. k = Version(u) + 1 /\ Version(u)' # Version(u)
        BY <2>1, <3>2
      <4> QED
        BY <1>0, <1>1, <4>1 DEF Grows
    <3> QED
      BY <3>1, <3>2
  <2> QED
    BY <2>1, <2>2
<1>3. ASSUME NEW e \in audit PROVE e[2] <= Version(e[1])'
  <2>1. PICK u \in User, n \in Nat : u = e[1] /\ n = e[2]
    BY <1>0
  <2>2. n <= Version(u) /\ Version(u) \in Nat
    BY <1>0, <2>1, HistTypes DEF History
  <2>3. n <= Version(u)'
    BY <2>2 DEF Grows
  <2> QED
    BY <2>1, <2>3 DEF Version
<1>4. ASSUME NEW p \in Proc, Record(p) PROVE \A e \in audit' : e[2] <= Version(e[1])'
  <2>1. PICK u \in User, n \in Nat : u = task[p].user /\ n = task[p].n
    BY <1>0, <1>4, TaskTypes DEF Record, ChangeRequest
  <2>2. n <= Version(u)' /\ audit' = audit \cup {<<u, n>>}
    BY <1>4, <2>1 DEF Record, IInv, InHand, At, Version
  <2> QED
    BY <1>3, <2>2 DEF Version
<1>5. \A e \in audit' : e[2] <= Version(e[1])'
  BY <1>3, <1>4 DEF AccessNext, accesses, Load, Present, Rotate, Recheck, AskSetRole, ReadTarget, OpenSession,
     SignRefreshed, UpdateRole, Sweep, Fail, Revoke, Tick
<1> QED
  BY <1>2, <1>5 DEF History, Version

-----------------------------------------------------------------------------
(* A role change is made by a request that remembers its authority. *)
LEMMA AuthorityStep ==
  ASSUME IInv, [AccessNext]_accesses, Grows, AccessTypeOK'
  PROVE  AuthorityIsRecent'
<1>0. /\ AccessTypeOK /\ History /\ now \in Nat /\ TTL \in Nat /\ TTL >= 1 /\ MaxFlight \in Nat
      /\ now' \in Nat
  BY Constants DEF IInv, AccessTypeOK
<1> SUFFICES ASSUME NEW u \in User, NEW n \in 2..Version(u)', NEW h, h = hist'[u][n]
             PROVE  HeldBetween(h.by, "ADMIN", h.at - TTL - 2 * MaxFlight, h.at)'
  BY DEF AuthorityIsRecent
<1>1. Version(u) \in Nat /\ Version(u)' \in {Version(u), Version(u) + 1}
  BY <1>0, HistTypes DEF Grows
<1>2. CASE n \in 1..Version(u)
  <2>1. h = hist[u][n] /\ h.by \in User /\ h.at \in Nat /\ h.at <= now
    BY <1>0, <1>2, HistTypes DEF Grows, History
  <2>2. HeldBetween(h.by, "ADMIN", h.at - TTL - 2 * MaxFlight, h.at)
    BY <1>1, <1>2, <2>1 DEF IInv, AuthorityIsRecent
  <2>3. PICK x \in Int : x = h.at - TTL - 2 * MaxFlight
    BY <1>0, <2>1
  <2>4. x < now
    BY <1>0, <2>1, <2>3
  <2>5. HeldBetween(h.by, "ADMIN", x, h.at)'
    BY <1>0, <2>1, <2>2, <2>3, <2>4, HeldOn
  <2> QED
    BY <2>3, <2>5
<1>3. CASE n \notin 1..Version(u)
  <2>1. n = Version(u) + 1 /\ Version(u)' # Version(u)
    BY <1>1, <1>3
  <2>2. PICK p \in Proc : UpdateRole(p)
    BY <2>1 DEF Version, AccessNext, accesses, Load, Present, Rotate, Recheck, AskSetRole, ReadTarget, OpenSession,
       SignRefreshed, Sweep, Record, Fail, Revoke, Tick
  <2>3. task[p] \in ChangeRequest /\ task[p] # Idle /\ At(p, "write")
    BY <1>0, <2>2, TaskTypes, IdleIsNoRequest DEF UpdateRole, At
  <2>4. PICK b \in User, x \in Nat : b = task[p].by /\ x = task[p].since
    BY <2>3 DEF ChangeRequest
  <2>5. x <= now /\ now - x <= MaxFlight /\ HeldBetween(b, "ADMIN", x - TTL - MaxFlight, now)
    BY <2>3, <2>4 DEF IInv, InHand, Remembered
  <2>6. PICK y \in Int, z \in Int : y = x - TTL - MaxFlight /\ z = now - TTL - 2 * MaxFlight
    BY <1>0
  <2>7. z <= y /\ z < now
    BY <1>0, <2>5, <2>6
  <2>8. HeldBetween(b, "ADMIN", z, now)
    BY <1>0, <2>5, <2>6, <2>7, HeldWider
  <2>9. PICK t \in Int : t = now
    BY <1>0
  <2>10. HeldBetween(b, "ADMIN", z, t)'
    BY <1>0, <2>7, <2>8, <2>9, HeldOn
  <2>11. h.by = b /\ h.at = t
    <3>1. task[p].user = u
      BY <1>0, <2>1, <2>2 DEF UpdateRole, AccessTypeOK, Version
    <3>2. hist'[u] = Append(hist[u], [role |-> task[p].role, at |-> now, by |-> task[p].by])
      BY <1>0, <2>2, <3>1 DEF UpdateRole, AccessTypeOK
    <3> QED
      BY <1>0, <2>1, <2>4, <2>9, <3>2, HistTypes DEF Version
  <2> QED
    BY <2>6, <2>9, <2>10, <2>11
<1> QED
  BY <1>2, <1>3

(* A role change is on record when its sweep is done. *)
LEMMA RecordStep ==
  ASSUME IInv, [AccessNext]_accesses, SessionsGrow, AccessTypeOK'
  PROVE  RecordedIsSwept'
<1>0. AccessTypeOK /\ History /\ audit \subseteq User \X Nat
      /\ session' \in Seq([user : User, born : Nat, live : BOOLEAN, stale : BOOLEAN])
  BY DEF IInv, AccessTypeOK
<1>1. ASSUME NEW e \in audit PROVE SweptBefore(e[1], e[2])'
  <2>1. PICK u \in User, n \in Nat : u = e[1] /\ n = e[2]
    BY <1>0
  <2>2. n <= Version(u) /\ SweptBefore(u, n)
    BY <1>0, <2>1 DEF IInv, RecordedIsSwept, SweptBefore, History
  <2>3. SweptBefore(u, n)'
    BY <1>0, <2>2, SweptOn
  <2> QED
    BY <2>1, <2>3
<1>2. ASSUME NEW p \in Proc, Record(p) PROVE \A e \in audit' : SweptBefore(e[1], e[2])'
  <2>1. PICK u \in User, n \in Nat : u = task[p].user /\ n = task[p].n
    BY <1>0, <1>2, TaskTypes DEF Record, ChangeRequest
  <2>2. SweptBefore(u, n)' /\ audit' = audit \cup {<<u, n>>}
    BY <1>2, <2>1 DEF Record, IInv, InHand, At, SweptBefore
  <2> QED
    BY <1>1, <2>2
<1>3. \A e \in audit' : SweptBefore(e[1], e[2])'
  BY <1>1, <1>2 DEF AccessNext, accesses, Load, Present, Rotate, Recheck, AskSetRole, ReadTarget, OpenSession,
     SignRefreshed, UpdateRole, Sweep, Fail, Revoke, Tick
<1> QED
  BY <1>3 DEF RecordedIsSwept, SweptBefore

-----------------------------------------------------------------------------
LEMMA Initially == AccessInit => IInv
<1> SUFFICES ASSUME AccessInit PROVE IInv
  OBVIOUS
<1> DEFINE Versions == [role : Role, at : Nat, by : User]
           e(u) == [role |-> IF u \in Admin THEN "ADMIN" ELSE "USER", at |-> 0, by |-> u]
<1>1. \A u \in User : e(u) \in Versions /\ e(u).at = 0 /\ hist[u] = <<e(u)>>
  BY Constants DEF AccessInit
<1>2. hist = [u \in User |-> <<e(u)>>]
  BY DEF AccessInit
<1> HIDE DEF Versions, e
<1>3. ASSUME NEW u \in User PROVE hist[u] \in Seq(Versions) /\ Version(u) = 1 /\ hist[u][1].at = 0
  <2>1. PICK x \in Versions : hist[u] = <<x>> /\ x.at = 0
    BY <1>1
  <2> QED
    BY <2>1 DEF Version
<1>4. hist \in [User -> Seq(Versions)]
  BY <1>2, <1>3
<1>5. AccessTypeOK
  BY <1>4 DEF AccessInit, AccessTypeOK, Versions
<1>6. History /\ AuthorityIsRecent
  BY <1>3 DEF AccessInit, History, AuthorityIsRecent
<1>7. ASSUME NEW p \in Proc PROVE InHand(p) /\ Remembered(p)
  BY DEF AccessInit, InHand, Remembered, At, Idle
<1> QED
  BY <1>5, <1>6, <1>7 DEF IInv, AccessInit, TokensRemember, RecordedIsSwept

LEMMA Inductive == IInv /\ [AccessNext]_accesses => IInv'
<1> SUFFICES ASSUME IInv, [AccessNext]_accesses PROVE IInv'
  OBVIOUS
<1>1. AccessTypeOK /\ \A p \in Proc : InHand(p)
  BY DEF IInv
<1>2. AccessTypeOK' /\ Grows /\ SessionsGrow
  BY <1>1, TypesStep, GrowsStep, SessionsStep
<1>3. \A q \in Proc : InHand(q)' /\ Remembered(q)'
  BY <1>2, HandStep
<1>4. History' /\ TokensRemember' /\ AuthorityIsRecent' /\ RecordedIsSwept'
  BY <1>2, HistoryStep, TokensStep, AuthorityStep, RecordStep
<1> QED
  BY <1>2, <1>3, <1>4 DEF IInv

LEMMA Always == AccessSpec => []IInv
BY Initially, Inductive, PTL DEF AccessSpec

(* The types of the tables, the tokens and the requests. *)
THEOREM AccessTypes == AccessSpec => []AccessTypeOK
<1>1. IInv => AccessTypeOK
  BY DEF IInv
<1> QED
  BY <1>1, Always, PTL

(* Whoever changes a role has been ADMIN no longer ago than the life of a    *)
(* token and two requests: the copy of the role in a token that setRole's    *)
(* guard trusts is never older than that, whichever login, refresh and       *)
(* change of roles ran between.                                              *)
THEOREM AuthorityTheorem == AccessSpec => []AuthorityIsRecent
<1>1. IInv => AuthorityIsRecent
  BY DEF IInv
<1> QED
  BY <1>1, Always, PTL

(* A role change that is in the audit log has revoked every session from     *)
(* before it, but those that a rotation under way made usable again.         *)
THEOREM SweptTheorem == AccessSpec => []RecordedIsSwept
<1>1. IInv => RecordedIsSwept
  BY DEF IInv
<1> QED
  BY <1>1, Always, PTL

-----------------------------------------------------------------------------
(***************************************************************************)
(* Endpoints, for any set of routes and roles.                             *)
(*                                                                         *)
(* A request does what some path of its route says, up to the step where a *)
(* statement fails.  So what is to be shown of a request is shown of its   *)
(* paths: a class of them is defined by what a path may contain and in     *)
(* which order, is closed under ** (a path followed by another), and holds *)
(* of every handler, one lemma for all of them.                            *)
(*   Paths    changes and errors only of the kinds the caller may cause    *)
(*   Finish   there is an answer at the end                                *)
(*   Vetted   in production, a session comes after a code that was spent   *)
(*            or an identity that was proven                               *)
(*   Fair     a refusal comes after effects that the conventions tolerate  *)
(*   Neat     a success comes after the audit of every change              *)
(* The state invariant RInv says which of this holds of what a request has *)
(* done and has still to do; a statement that fails makes a 500 of it, and *)
(* is its cause.                                                           *)
(***************************************************************************)
End == {"return", "throw", "provider", "error"}
Work == Effect \cup Proof \cup {"read"}
Success == {200, 201, 202, 204, 304}
Proper(n, c) ==
  \/ n = 400 /\ c \in {"none", "VALIDATION_ERROR", "INVALID_OTP"}
  \/ n = 401 /\ c = "UNAUTHENTICATED"
  \/ n = 403 /\ c = "FORBIDDEN"
  \/ n = 404 /\ c = "NOT_FOUND"
  \/ n = 409 /\ c = "CONFLICT"
  \/ n = 412 /\ c = "STALE_RESOURCE"
  \/ n = 422 /\ c = "IDEMPOTENCY_KEY_REUSED"
  \/ n = 428 /\ c = "PRECONDITION_REQUIRED"
  \/ n = 429 /\ c \in {"none", "RATE_LIMITED"}
  \/ n = 503 /\ c \in {"none", "UPSTREAM_UNAVAILABLE"}
Codes == {"none", "VALIDATION_ERROR", "INVALID_OTP", "UNAUTHENTICATED", "FORBIDDEN", "NOT_FOUND", "CONFLICT",
          "STALE_RESOURCE", "IDEMPOTENCY_KEY_REUSED", "PRECONDITION_REQUIRED", "RATE_LIMITED",
          "UPSTREAM_UNAVAILABLE"}
Steps == [do : Work \cup End, status : Nat, code : Codes]
Guarded == {"role", "identifier", "erasure", "entry", "profile", "error"}

(* What a step may be, of a request that may do what is in can: a change that only some may make, or an error that has
   a cause. *)
Fits(can) ==
  {e \in Steps :
     /\ e.do = "return" => e.status \in Success
     /\ e.do = "throw" => Proper(e.status, e.code)
     /\ e.do \in Guarded => e.do \in can}
Paths(can) == Seq(Fits(can))

LEMMA Ends == ASSUME NEW S, NEW p \in Seq(S)
              PROVE  Ended(p) <=> p # <<>> /\ p[Len(p)].do \in End
BY DEF Ended, Last, End

LEMMA Composed == ASSUME NEW A, NEW B, NEW p \in A ** B
                  PROVE  \E a \in A, b \in B : p = IF Ended(a) THEN a ELSE a \o b
BY DEF **

(* What every step of two sets of paths has, every step of their composition has. *)
LEMMA Joined == ASSUME NEW S, NEW A, NEW B, A \subseteq Seq(S), B \subseteq Seq(S)
                PROVE  A ** B \subseteq Seq(S)
<1> SUFFICES ASSUME NEW p \in A ** B PROVE p \in Seq(S)
  OBVIOUS
<1>1. PICK a \in A, b \in B : p = IF Ended(a) THEN a ELSE a \o b
  BY Composed
<1> QED
  BY <1>1

LEMMA Lone == ASSUME NEW S, NEW e \in S PROVE {<<e>>} \subseteq Seq(S)
OBVIOUS

LEMMA Nothing == ASSUME NEW S PROVE Skip \subseteq Seq(S)
BY DEF Skip

LEMMA FitOne ==
  ASSUME NEW can, NEW d \in Work \cup End, NEW n \in Nat, NEW c \in Codes,
         d = "return" => n \in Success,
         d = "throw" => Proper(n, c),
         d \in Guarded => d \in can
  PROVE  {<<Step(d, n, c)>>} \subseteq Paths(can)
<1>1. Step(d, n, c) \in Steps /\ Step(d, n, c).do = d /\ Step(d, n, c).status = n /\ Step(d, n, c).code = c
  BY DEF Step, Steps
<1>2. Step(d, n, c) \in Fits(can)
  BY <1>1 DEF Fits
<1> QED
  BY <1>2, Lone DEF Paths

LEMMA FitDo ==
  ASSUME NEW can, NEW d \in Work, d \in Guarded => d \in can
  PROVE  Do(d) \subseteq Paths(can)
<1>1. d \notin End /\ "none" \in Codes /\ 0 \in Nat
  BY DEF Work, End, Effect, Change, Proof, Codes
<1>2. d # "return" /\ d # "throw"
  BY <1>1 DEF End
<1> QED
  BY <1>1, <1>2, FitOne DEF Do

LEMMA FitReply == ASSUME NEW can, NEW n \in Success PROVE Reply(n) \subseteq Paths(can)
<1>1. "return" \in End /\ "return" \notin Guarded /\ "none" \in Codes /\ n \in Nat
  BY DEF End, Guarded, Codes, Success
<1> QED
  BY <1>1, FitOne DEF Reply

LEMMA FitRefuse == ASSUME NEW can, NEW n \in Nat, NEW c \in Codes, Proper(n, c)
                   PROVE  Refuse(n, c) \subseteq Paths(can)
<1>1. "throw" \in End /\ "throw" \notin Guarded
  BY DEF End, Guarded
<1> QED
  BY <1>1, FitOne DEF Refuse

LEMMA FitThen == ASSUME NEW can, NEW A, NEW B, A \subseteq Paths(can), B \subseteq Paths(can)
                 PROVE  A ** B \subseteq Paths(can)
BY Joined DEF Paths

(* What holds of every step of some kinds holds of the fragments that are made of one. *)
LEMMA Made ==
  ASSUME NEW V, NEW D, D \subseteq Work \cup End, \A e \in Steps : e.do \in D => {<<e>>} \subseteq V
  PROVE  /\ \A d \in D : Do(d) \subseteq V
         /\ "return" \in D => \A n \in Success : Reply(n) \subseteq V
         /\ "throw" \in D => \A n \in Nat, c \in Codes : Refuse(n, c) \subseteq V
         /\ "provider" \in D => ProviderFails \subseteq V
         /\ "error" \in D => Broken \subseteq V
<1>1. ASSUME NEW d \in D, NEW n \in Nat, NEW c \in Codes PROVE {<<Step(d, n, c)>>} \subseteq V
  <2>1. Step(d, n, c) \in Steps /\ Step(d, n, c).do = d
    BY DEF Step, Steps
  <2> QED
    BY <2>1
<1>2. 0 \in Nat /\ "none" \in Codes /\ Success \subseteq Nat
  BY DEF Codes, Success
<1>3. ASSUME NEW d \in D PROVE Do(d) \subseteq V
  BY <1>1, <1>2 DEF Do
<1>4. ASSUME "return" \in D, NEW n \in Success PROVE Reply(n) \subseteq V
  BY <1>1, <1>2, <1>4 DEF Reply
<1>5. ASSUME "throw" \in D, NEW n \in Nat, NEW c \in Codes PROVE Refuse(n, c) \subseteq V
  BY <1>1, <1>5 DEF Refuse
<1>6. ASSUME "provider" \in D PROVE ProviderFails \subseteq V
  BY <1>1, <1>2, <1>6 DEF ProviderFails
<1>7. ASSUME "error" \in D PROVE Broken \subseteq V
  BY <1>1, <1>2, <1>7 DEF Broken
<1> QED
  BY <1>3, <1>4, <1>5, <1>6, <1>7

(* The fragments that handlers are made of. *)
Fragments(P) ==
  /\ Skip \subseteq P
  /\ Do("read") \subseteq P /\ Do("audit") \subseteq P /\ Do("revoke") \subseteq P
  /\ Do("rotate") \subseteq P /\ Do("code") \subseteq P /\ Do("guess") \subseteq P /\ Do("spent") \subseteq P
  /\ Do("message") \subseteq P /\ Do("proof") \subseteq P /\ Do("stub") \subseteq P /\ Do("pending") \subseteq P
  /\ Do("account") \subseteq P /\ Do("login") \subseteq P /\ Do("status") \subseteq P /\ Do("verification") \subseteq P
  /\ Reply(200) \subseteq P /\ Reply(201) \subseteq P /\ Reply(202) \subseteq P /\ Reply(204) \subseteq P
  /\ Reply(304) \subseteq P
  /\ Refuse(400, "VALIDATION_ERROR") \subseteq P /\ Refuse(400, "INVALID_OTP") \subseteq P
  /\ Refuse(401, "UNAUTHENTICATED") \subseteq P /\ Refuse(403, "FORBIDDEN") \subseteq P
  /\ Refuse(404, "NOT_FOUND") \subseteq P /\ Refuse(409, "CONFLICT") \subseteq P
  /\ Refuse(412, "STALE_RESOURCE") \subseteq P /\ Refuse(422, "IDEMPOTENCY_KEY_REUSED") \subseteq P
  /\ Refuse(428, "PRECONDITION_REQUIRED") \subseteq P /\ Refuse(429, "RATE_LIMITED") \subseteq P
  /\ Refuse(503, "UPSTREAM_UNAVAILABLE") \subseteq P
  /\ Refuse(400, "none") \subseteq P /\ Refuse(429, "none") \subseteq P /\ Refuse(503, "none") \subseteq P
  /\ ProviderFails \subseteq P
  /\ \A A, B : A \subseteq P /\ B \subseteq P => A ** B \subseteq P

LEMMA FitFragments == ASSUME NEW can PROVE Fragments(Paths(can))
<1>1. {"read", "audit", "session", "revoke", "rotate", "code", "guess", "spent", "message", "proof", "stub",
       "pending", "account", "login", "status", "verification"} \subseteq Work \ Guarded
  BY DEF Work, Guarded, Effect, Change, Proof
<1>2. \A d \in {"read", "audit", "session", "revoke", "rotate", "code", "guess", "spent", "message", "proof", "stub",
                "pending", "account", "login", "status", "verification"} : Do(d) \subseteq Paths(can)
  BY <1>1, FitDo
<1>3. /\ Reply(200) \subseteq Paths(can) /\ Reply(201) \subseteq Paths(can) /\ Reply(202) \subseteq Paths(can)
      /\ Reply(204) \subseteq Paths(can) /\ Reply(304) \subseteq Paths(can)
  BY FitReply DEF Success
<1>4. Refuse(400, "VALIDATION_ERROR") \subseteq Paths(can)
  BY FitRefuse DEF Proper, Codes
<1>5. Refuse(400, "INVALID_OTP") \subseteq Paths(can)
  BY FitRefuse DEF Proper, Codes
<1>6. Refuse(401, "UNAUTHENTICATED") \subseteq Paths(can)
  BY FitRefuse DEF Proper, Codes
<1>7. Refuse(403, "FORBIDDEN") \subseteq Paths(can)
  BY FitRefuse DEF Proper, Codes
<1>8. Refuse(404, "NOT_FOUND") \subseteq Paths(can)
  BY FitRefuse DEF Proper, Codes
<1>9. Refuse(409, "CONFLICT") \subseteq Paths(can)
  BY FitRefuse DEF Proper, Codes
<1>10. Refuse(412, "STALE_RESOURCE") \subseteq Paths(can)
  BY FitRefuse DEF Proper, Codes
<1>11. Refuse(422, "IDEMPOTENCY_KEY_REUSED") \subseteq Paths(can)
  BY FitRefuse DEF Proper, Codes
<1>12. Refuse(428, "PRECONDITION_REQUIRED") \subseteq Paths(can)
  BY FitRefuse DEF Proper, Codes
<1>13. Refuse(429, "RATE_LIMITED") \subseteq Paths(can)
  BY FitRefuse DEF Proper, Codes
<1>14. Refuse(503, "UPSTREAM_UNAVAILABLE") \subseteq Paths(can)
  BY FitRefuse DEF Proper, Codes
<1>15. Refuse(400, "none") \subseteq Paths(can)
  BY FitRefuse DEF Proper, Codes
<1>16. Refuse(429, "none") \subseteq Paths(can)
  BY FitRefuse DEF Proper, Codes
<1>17. Refuse(503, "none") \subseteq Paths(can)
  BY FitRefuse DEF Proper, Codes
<1>18. ProviderFails \subseteq Paths(can)
  <2>1. "provider" \in End /\ "provider" \notin Guarded /\ "none" \in Codes /\ 0 \in Nat
    BY DEF End, Guarded, Codes
  <2> QED
    BY <2>1, FitOne DEF ProviderFails
<1>19. Skip \subseteq Paths(can)
  BY Nothing DEF Paths
<1>20. \A A, B : A \subseteq Paths(can) /\ B \subseteq Paths(can) => A ** B \subseteq Paths(can)
  BY FitThen
<1> QED
  BY <1>2, <1>3, <1>20, <1>4, <1>5, <1>6, <1>7, <1>8, <1>9, <1>10, <1>11, <1>12, <1>13, <1>14, <1>15, <1>16, <1>17, <1>18, <1>19 DEF Fragments

-----------------------------------------------------------------------------
(* What may end in an error though no statement fails. *)
CausedBy(r, class, subject) ==
  \/ class \in {"unreadable", "unexpected"}
  \/ class = "null" /\ r \in {"updateMe", "rebind", "create", "update"}
  \/ r = "oauth"
  \/ r = "update" /\ subject \in {"health_certifications", "genetic_markers"}

(* What a request may do, if it has come to its handler. *)
Licensed(r, b, can) ==
  /\ CausedBy(r, b.class, b.subject) => "error" \in can
  /\ r \in {"setRole", "rebind", "eraseUser"} => "role" \in can /\ "identifier" \in can /\ "erasure" \in can
  /\ r \in {"create", "update", "toggleActive"} => "entry" \in can
  /\ r = "updateMe" => "profile" \in can

(* The same of a set of paths: what the handler needs besides the fragments. *)
Open(r, b, P) ==
  /\ CausedBy(r, b.class, b.subject) => Broken \subseteq P
  /\ r \in {"setRole", "rebind", "eraseUser"} =>
       Do("role") \subseteq P /\ Do("identifier") \subseteq P /\ Do("erasure") \subseteq P
  /\ r \in {"create", "update", "toggleActive"} => Do("entry") \subseteq P
  /\ r = "updateMe" => Do("profile") \subseteq P

(* The handlers that issue sessions. *)
Issuers(r, b, P) ==
  /\ r = "verifyPhone" => VerifyPhone \subseteq P
  /\ r = "oauth" => OAuth(b) \subseteq P
  /\ r = "recoverEmailVerify" => RecoverEmailVerify \subseteq P
  /\ r = "devToken" => DevToken \subseteq P

Shared(P) ==
  /\ Read \subseteq P /\ Audit \subseteq P /\ Invalid \subseteq P /\ Logout \subseteq P
  /\ IssueCode \subseteq P /\ Guess \subseteq P /\ LockedOut \subseteq P /\ SpendCode \subseteq P
  /\ SendSms \subseteq P /\ SendEmail \subseteq P /\ IfMatch \subseteq P

LEMMA SharedIn == ASSUME NEW P, Fragments(P) PROVE Shared(P)
<1>1. Read \subseteq P /\ Audit \subseteq P /\ Invalid \subseteq P /\ Logout \subseteq P /\ Guess \subseteq P /\ SpendCode \subseteq P
  BY DEF Fragments, Read, Audit, Invalid, Logout, Guess, SpendCode
<1>2. IssueCode \subseteq P /\ LockedOut \subseteq P
  BY <1>1 DEF Fragments, IssueCode, LockedOut
<1>3. SendSms \subseteq P /\ SendEmail \subseteq P /\ IfMatch \subseteq P
  BY <1>1 DEF Fragments, SendSms, SendEmail, FetchJson, IfMatch
<1> QED
  BY <1>1, <1>2, <1>3 DEF Shared

(* A handler has the paths that its fragments and its statements have. *)
LEMMA HandlerIn ==
  ASSUME NEW P, NEW r, NEW b, Fragments(P), Open(r, b, P), Issuers(r, b, P)
  PROVE  Handler(r, b) \subseteq P
<1>1. Shared(P)
  BY SharedIn
<1>2. \A f : Null(b, f) /\ r \in {"updateMe", "rebind", "create", "update"} => Broken \subseteq P
  BY DEF Null, Open, CausedBy
<1>3. b.class = "unexpected" => Broken \subseteq P
  BY DEF Open, CausedBy
<1>4. \A kind, given : Do(kind) \subseteq P => InsertAccount(kind, b, given) \subseteq P
  BY <1>1, <1>3 DEF Shared, InsertAccount, When
<1>5. \A f : Unexpected(b, f) => Broken \subseteq P
  BY <1>3 DEF Unexpected
<1>20. RegisterPhone(b) \subseteq P
  BY <1>1, <1>4 DEF Shared, Fragments, RegisterPhone
<1>22. RecoverEmailRequest \subseteq P
  BY <1>1 DEF Shared, Fragments, RecoverEmailRequest
<1>23. IdentityController(r, b) \subseteq P
  BY <1>20, <1>22 DEF Issuers, IdentityController, When
<1>24. Refresh \subseteq P /\ LogoutRoute(b) \subseteq P
  BY <1>1 DEF Shared, Fragments, Refresh, LogoutRoute
<1>25. AuthController(r, b) \subseteq P
  BY <1>24 DEF Fragments, Issuers, AuthController, When
<1>26. LoadMe \subseteq P /\ GetMe \subseteq P /\ Deactivate \subseteq P /\ Reactivate \subseteq P /\ EraseMe \subseteq P
  BY <1>1 DEF Shared, Fragments, LoadMe, GetMe, Conditional, Deactivate, Reactivate, EraseMe
<1>27. r = "updateMe" => UpdateMe(b) \subseteq P
  BY <1>1, <1>2, <1>3, <1>26 DEF Shared, Fragments, Open, UpdateMe, When
<1>28. MeController(r, b) \subseteq P
  BY <1>26, <1>27 DEF MeController, When
<1>29. LoadTarget \subseteq P
  BY <1>1 DEF Shared, Fragments, LoadTarget
<1>30. r \in {"setRole", "rebind", "eraseUser"} => SetRole \subseteq P /\ EraseUser \subseteq P
  BY <1>1, <1>29 DEF Shared, Fragments, Open, SetRole, EraseUser
<1>31. r = "rebind" => Rebind(b) \subseteq P
  BY <1>1, <1>2, <1>5, <1>29 DEF Shared, Fragments, Open, Rebind, When
<1>32. AdminUserController(r, b) \subseteq P
  BY <1>30, <1>31 DEF AdminUserController, When
<1>33. List(b) \subseteq P /\ Form \subseteq P /\ Entry(b) \subseteq P
  BY <1>1, <1>3, <1>5 DEF Shared, Fragments, Open, List, Form, Entry
<1>34. r = "create" => Create(b) \subseteq P
  BY <1>1, <1>2, <1>5 DEF Shared, Fragments, Open, Create
<1>35. r = "update" => Update(b) \subseteq P
  BY <1>1, <1>2, <1>3, <1>33 DEF Shared, Fragments, Open, CausedBy, Update, When
<1>36. r = "toggleActive" => ToggleActive(b) \subseteq P
  BY <1>1, <1>33 DEF Shared, Fragments, Open, ToggleActive
<1>37. ReferenceDataController(r, b) \subseteq P
  BY <1>33, <1>34, <1>35, <1>36 DEF Fragments, ReferenceDataController, When
<1>38. HealthController(r) \subseteq P /\ MetricsController(r) \subseteq P
  BY DEF Fragments, HealthController, MetricsController, Ready, PrismaHealthy, RedisHealthy, Bare, When
<1> QED
  BY <1>23, <1>25, <1>28, <1>32, <1>37, <1>38 DEF Handler

LEMMA FitOpen ==
  ASSUME NEW r, NEW b, NEW can, Licensed(r, b, can)
  PROVE  Open(r, b, Paths(can))
<1>1. {"role", "identifier", "erasure", "entry", "profile"} \subseteq Work
  BY DEF Work, Effect, Change
<1>2. \A d \in {"role", "identifier", "erasure", "entry", "profile"} : d \in can => Do(d) \subseteq Paths(can)
  BY <1>1, FitDo
<1>3. "error" \in can => Broken \subseteq Paths(can)
  <2>1. "error" \in End /\ "none" \in Codes /\ 0 \in Nat
    BY DEF End, Codes
  <2> QED
    BY <2>1, FitOne DEF Broken
<1> QED
  BY <1>2, <1>3 DEF Licensed, Open

LEMMA FitHandler ==
  ASSUME NEW r, NEW b, NEW can, Licensed(r, b, can)
  PROVE  Handler(r, b) \subseteq Paths(can)
<1> DEFINE P == Paths(can)
<1>1. Fragments(P)
  BY FitFragments
<1>2. Open(r, b, P)
  BY FitOpen
<1>3. Do("session") \subseteq P
  <2>1. "session" \in Work \ Guarded
    BY DEF Work, Effect, Change, Guarded
  <2> QED
    BY <2>1, FitDo
<1> HIDE DEF P
<1>4. Shared(P)
  BY <1>1, SharedIn
<1>5. IssueSession \subseteq P
  BY <1>1, <1>3, <1>4 DEF Shared, Fragments, IssueSession
<1>6. VerifyPhone \subseteq P /\ RecoverEmailVerify \subseteq P /\ DevToken \subseteq P
  BY <1>1, <1>4, <1>5 DEF Shared, Fragments, VerifyPhone, RecoverEmailVerify, DevToken
<1>7. r = "oauth" => OAuth(b) \subseteq P
  <2> SUFFICES ASSUME r = "oauth" PROVE OAuth(b) \subseteq P
    OBVIOUS
  <2>1. Broken \subseteq P
    BY <1>2 DEF Open, CausedBy
  <2>2. Resolve(b) \subseteq P
    BY <1>1, <1>4, <2>1 DEF Shared, Fragments, Resolve, TelegramVerify, StubVerify
  <2>3. InsertAccount("account", b, {"cityId"}) \subseteq P
    BY <1>1, <1>4, <2>1 DEF Shared, Fragments, InsertAccount, When
  <2> QED
    BY <1>1, <1>4, <1>5, <2>1, <2>2, <2>3 DEF Shared, Fragments, OAuth
<1>8. Issuers(r, b, P)
  BY <1>6, <1>7 DEF Issuers
<1>9. Handler(r, b) \subseteq P
  BY <1>1, <1>2, <1>8, HandlerIn
<1> QED
  BY <1>9 DEF P

-----------------------------------------------------------------------------
(* Before the handler a request reads, and at most the last step answers it. *)
Plain == {e \in Fits({}) : e.do \in {"read", "return", "throw"}}
Gate == {p \in Seq(Plain) : \A i \in 1 .. Len(p) : i < Len(p) => p[i].do = "read"}

LEMMA GateOne == ASSUME NEW d \in {"read", "return", "throw"}, NEW n \in Nat, NEW c \in Codes,
                        d = "return" => n \in Success, d = "throw" => Proper(n, c)
                 PROVE  {<<Step(d, n, c)>>} \subseteq Gate
<1>1. d \in Work \cup End /\ d \notin Guarded
  BY DEF Work, End, Guarded
<1>2. Step(d, n, c) \in Plain
  BY <1>1 DEF Plain, Fits, Steps, Step
<1>3. <<Step(d, n, c)>> \in Seq(Plain)
  BY <1>2
<1> QED
  BY <1>3 DEF Gate

LEMMA GateRefuse == ASSUME NEW n \in Nat, NEW c \in Codes, Proper(n, c) PROVE Refuse(n, c) \subseteq Gate
<1>1. "throw" \in {"read", "return", "throw"} /\ "throw" # "return"
  OBVIOUS
<1> QED
  BY <1>1, GateOne DEF Refuse

LEMMA GateThen == ASSUME NEW A, NEW B, A \subseteq Gate, B \subseteq Gate
                  PROVE  A ** B \subseteq Gate
<1> SUFFICES ASSUME NEW p \in A ** B PROVE p \in Gate
  OBVIOUS
<1>1. PICK a \in A, b \in B : p = IF Ended(a) THEN a ELSE a \o b
  BY Composed
<1>2. a \in Gate /\ b \in Gate
  OBVIOUS
<1>3. CASE Ended(a)
  BY <1>1, <1>2, <1>3
<1>4. CASE ~Ended(a)
  <2>1. p = a \o b
    BY <1>1, <1>4
  <2>2. a \in Seq(Plain) /\ b \in Seq(Plain)
    BY <1>2 DEF Gate
  <2>3. p \in Seq(Plain) /\ Len(p) = Len(a) + Len(b)
    BY <2>1, <2>2
  <2>4. \A i \in 1 .. Len(a) : a[i].do = "read"
    <3> SUFFICES ASSUME NEW i \in 1 .. Len(a) PROVE a[i].do = "read"
      OBVIOUS
    <3>1. CASE i < Len(a)
      BY <1>2, <3>1 DEF Gate
    <3>2. CASE i = Len(a)
      <4>1. a # <<>> /\ a[i] \in Plain
        BY <2>2
      <4>2. a[i].do \notin End
        BY <1>4, <2>2, <3>2, <4>1, Ends
      <4> QED
        BY <4>1, <4>2 DEF Plain, End
    <3> QED
      BY <2>2, <3>1, <3>2
  <2>5. ASSUME NEW i \in 1 .. Len(p), i < Len(p) PROVE p[i].do = "read"
    <3>1. CASE i \in 1 .. Len(a)
      BY <2>1, <2>2, <2>4, <3>1
    <3>2. CASE i \notin 1 .. Len(a)
      <4>1. i - Len(a) \in 1 .. Len(b) /\ i - Len(a) < Len(b)
        BY <2>2, <2>3, <2>5, <3>2
      <4>2. p[i] = b[i - Len(a)]
        BY <2>1, <2>2, <4>1
      <4> QED
        BY <1>2, <4>1, <4>2 DEF Gate
    <3> QED
      BY <3>1, <3>2
  <2> QED
    BY <2>3, <2>5 DEF Gate
<1> QED
  BY <1>3, <1>4

LEMMA GateAdmission == ASSUME NEW r, NEW cred PROVE Admission(r, cred) \subseteq Gate
<1>1. Skip \subseteq Gate
  BY DEF Skip, Gate
<1>2. Read \subseteq Gate
  <2>1. 0 \in Nat /\ "none" \in Codes
    BY DEF Codes
  <2> QED
    BY <2>1, GateOne DEF Read, Do
<1>3. Refuse(429, "none") \subseteq Gate
  BY GateRefuse DEF Codes, Proper
<1>4. Refuse(401, "UNAUTHENTICATED") \subseteq Gate
  BY GateRefuse DEF Codes, Proper
<1>5. Refuse(403, "FORBIDDEN") \subseteq Gate
  BY GateRefuse DEF Codes, Proper
<1>6. Refuse(422, "IDEMPOTENCY_KEY_REUSED") \subseteq Gate
  BY GateRefuse DEF Codes, Proper
<1>7. Reply(201) \subseteq Gate
  <2>1. 201 \in Nat /\ "none" \in Codes /\ 201 \in Success
    BY DEF Codes, Success
  <2> QED
    BY <2>1, GateOne DEF Reply
<1>8. \A A, B : A \subseteq Gate /\ B \subseteq Gate => A ** B \subseteq Gate
  BY GateThen
<1> HIDE DEF Gate
<1> DEFINE user == Principal(r, cred)
<1> HIDE DEF user
<1>9. Throttle(r) \subseteq Gate /\ Authenticate(r, cred) \subseteq Gate /\ Replay(r) \subseteq Gate
  BY <1>1, <1>2, <1>3, <1>4, <1>6, <1>7, <1>8 DEF Throttle, Authenticate, Replay, Bare
<1>10. CheckRole(r, user) \subseteq Gate /\ CheckPolicy(r, user) \subseteq Gate
  BY <1>1, <1>5 DEF CheckRole, CheckPolicy
<1> QED
  BY <1>8, <1>9, <1>10 DEF Admission, user

(* Paths that come to an end. *)
Finish == {p \in Seq(Steps) : Ended(p)}

LEMMA FinishEarly == ASSUME NEW A, NEW B, A \subseteq Finish PROVE A ** B \subseteq Finish
<1> SUFFICES ASSUME NEW p \in A ** B PROVE p \in Finish
  OBVIOUS
<1>1. PICK a \in A, b \in B : p = IF Ended(a) THEN a ELSE a \o b
  BY Composed
<1> QED
  BY <1>1 DEF Finish

LEMMA FinishLate == ASSUME NEW A, NEW B, A \subseteq Seq(Steps), B \subseteq Finish PROVE A ** B \subseteq Finish
<1> SUFFICES ASSUME NEW p \in A ** B PROVE p \in Finish
  OBVIOUS
<1>1. PICK a \in A, b \in B : p = IF Ended(a) THEN a ELSE a \o b
  BY Composed
<1>2. a \in Seq(Steps) /\ b \in Seq(Steps) /\ Ended(b)
  BY DEF Finish
<1>3. CASE Ended(a)
  BY <1>1, <1>2, <1>3 DEF Finish
<1>4. CASE ~Ended(a)
  <2>1. p = a \o b
    BY <1>1, <1>4
  <2>2. b # <<>> /\ b[Len(b)].do \in End
    BY <1>2, Ends
  <2>3. p \in Seq(Steps) /\ Len(p) = Len(a) + Len(b) /\ Len(b) \in 1 .. Len(b)
    BY <1>2, <2>1, <2>2
  <2>4. p[Len(p)] = b[Len(b)] /\ p # <<>>
    BY <1>2, <2>1, <2>3
  <2>5. Ended(p)
    BY <2>2, <2>3, <2>4, Ends
  <2> QED
    BY <2>3, <2>5 DEF Finish
<1> QED
  BY <1>3, <1>4

(* The guards: what only some may do is refused to the others before the handler. *)
Cleared(r, user) ==
  /\ r \in {"setRole", "rebind", "eraseUser", "create", "update", "toggleActive"} => user = "ADMIN"
  /\ r = "updateMe" => user # "nobody"

LEMMA FinishOne == ASSUME NEW d \in End, NEW n \in Nat, NEW c \in Codes PROVE {<<Step(d, n, c)>>} \subseteq Finish
<1> DEFINE e == Step(d, n, c)
<1>1. e \in Steps /\ e.do \in End
  BY DEF Steps, Step
<1> HIDE DEF e
<1>2. <<e>> \in Seq(Steps) /\ <<e>> # <<>> /\ Len(<<e>>) = 1 /\ <<e>>[1] = e
  BY <1>1
<1>3. Ended(<<e>>)
  BY <1>1, <1>2, Ends
<1>4. {<<e>>} \subseteq Finish
  BY <1>2, <1>3 DEF Finish
<1> QED
  BY <1>4 DEF e

LEMMA GateSteps == Gate \subseteq Seq(Steps)
<1>1. Plain \subseteq Steps
  BY DEF Plain, Fits
<1>2. Seq(Plain) \subseteq Seq(Steps)
  BY <1>1
<1> QED
  BY <1>2 DEF Gate

LEMMA Refused == ASSUME NEW r, NEW cred, ~Cleared(r, Principal(r, cred))
                 PROVE  Admission(r, cred) \subseteq Finish
<1> DEFINE user == Principal(r, cred)
<1>1. Refuse(401, "UNAUTHENTICATED") \subseteq Finish /\ Refuse(403, "FORBIDDEN") \subseteq Finish
  <2>1. "throw" \in End /\ 401 \in Nat /\ 403 \in Nat /\ "UNAUTHENTICATED" \in Codes /\ "FORBIDDEN" \in Codes
    BY DEF End, Codes
  <2>2. \A n \in Nat, c \in Codes : Refuse(n, c) \subseteq Finish
    BY <2>1, FinishOne DEF Refuse
  <2> QED
    BY <2>1, <2>2
<1>2. Throttle(r) \subseteq Seq(Steps)
  <2>1. Skip \subseteq Seq(Steps)
    BY Nothing
  <2>2. Do("read") \subseteq Seq(Steps) /\ Refuse(429, "none") \subseteq Seq(Steps)
    <3>1. Do("read") \subseteq Paths({}) /\ Refuse(429, "none") \subseteq Paths({})
      BY FitFragments DEF Fragments
    <3>2. Fits({}) \subseteq Steps
      BY DEF Fits
    <3>3. Paths({}) \subseteq Seq(Steps)
      BY <3>2 DEF Paths
    <3> QED
      BY <3>1, <3>3
  <2>3. \A A, B : A \subseteq Seq(Steps) /\ B \subseteq Seq(Steps) => A ** B \subseteq Seq(Steps)
    BY Joined
  <2> DEFINE P == Seq(Steps)
  <2> HIDE DEF P
  <2>4. Throttle(r) \subseteq P
    BY <2>1, <2>2, <2>3 DEF P, Throttle, Read, Bare
  <2> QED
    BY <2>4 DEF P
<1>3. CASE r \in {"setRole", "rebind", "eraseUser", "create", "update", "toggleActive"} /\ user # "ADMIN"
  <2>1. RequiredRole(r) = {"ADMIN"}
    BY <1>3 DEF RequiredRole, AdminUserRole, ReferenceRole, OperatorRole, When
  <2>2. ~RoleSatisfies(user, "ADMIN")
    BY <1>3 DEF RoleSatisfies
  <2> HIDE DEF user
  <2>3. CheckRole(r, user) = Refuse(403, "FORBIDDEN")
    BY <2>1, <2>2 DEF CheckRole
  <2>4. Authenticate(r, cred) \subseteq Seq(Steps)
    <3>1. Skip \subseteq Seq(Steps)
      BY Nothing
    <3> QED
      BY <1>1, <3>1 DEF Authenticate, Finish
  <2>5. Throttle(r) ** Authenticate(r, cred) \subseteq Seq(Steps)
    BY <1>2, <2>4, Joined
  <2>6. Throttle(r) ** Authenticate(r, cred) ** CheckRole(r, user) \subseteq Finish
    BY <1>1, <2>3, <2>5, FinishLate
  <2>7. Throttle(r) ** Authenticate(r, cred) ** CheckRole(r, user) ** CheckPolicy(r, user) \subseteq Finish
    BY <2>6, FinishEarly
  <2>8. Throttle(r) ** Authenticate(r, cred) ** CheckRole(r, user) ** CheckPolicy(r, user) ** Replay(r) \subseteq Finish
    BY <2>7, FinishEarly
  <2> QED
    BY <2>8 DEF Admission, user
<1>4. CASE r = "updateMe" /\ user = "nobody"
  <2>1. Authenticate(r, cred) = Refuse(401, "UNAUTHENTICATED")
    BY <1>4 DEF Authenticate, Principal, Public, AuthPublic, IdentityPublic, ReferencePublic, HealthPublic,
         MetricsPublic
  <2> HIDE DEF user
  <2>2. Throttle(r) ** Authenticate(r, cred) \subseteq Finish
    BY <1>1, <1>2, <2>1, FinishLate
  <2>3. Throttle(r) ** Authenticate(r, cred) ** CheckRole(r, user) \subseteq Finish
    BY <2>2, FinishEarly
  <2>4. Throttle(r) ** Authenticate(r, cred) ** CheckRole(r, user) ** CheckPolicy(r, user) \subseteq Finish
    BY <2>3, FinishEarly
  <2>5. Throttle(r) ** Authenticate(r, cred) ** CheckRole(r, user) ** CheckPolicy(r, user) ** Replay(r) \subseteq Finish
    BY <2>4, FinishEarly
  <2> QED
    BY <2>5 DEF Admission, user
<1> QED
  BY <1>3, <1>4 DEF Cleared

(* Every handler answers, on every path. *)
Anything == Paths(Guarded)

LEMMA AnythingIn ==
  /\ Anything \subseteq Seq(Steps)
  /\ Fragments(Anything) /\ Shared(Anything)
  /\ Broken \subseteq Anything
  /\ Do("session") \subseteq Anything /\ Do("role") \subseteq Anything /\ Do("identifier") \subseteq Anything
  /\ Do("erasure") \subseteq Anything /\ Do("entry") \subseteq Anything /\ Do("profile") \subseteq Anything
<1>1. Fits(Guarded) \subseteq Steps
  BY DEF Fits
<1>2. Anything \subseteq Seq(Steps)
  BY <1>1 DEF Anything, Paths
<1>3. Fragments(Anything)
  BY FitFragments DEF Anything
<1>4. Shared(Anything)
  BY <1>3, SharedIn
<1>5. {"session", "role", "identifier", "erasure", "entry", "profile"} \subseteq Work
  BY DEF Work, Effect, Change
<1>6. \A d \in {"session", "role", "identifier", "erasure", "entry", "profile"} : Do(d) \subseteq Anything
  BY <1>5, FitDo DEF Anything
<1>7. Broken \subseteq Anything
  <2>1. "error" \in End /\ "error" \in Guarded /\ "none" \in Codes /\ 0 \in Nat
    BY DEF End, Guarded, Codes
  <2> QED
    BY <2>1, FitOne DEF Broken, Anything
<1> QED
  BY <1>2, <1>3, <1>4, <1>6, <1>7

LEMMA FinishIn ==
  /\ \A n \in Success : Reply(n) \subseteq Finish
  /\ \A n \in Nat, c \in Codes : Refuse(n, c) \subseteq Finish
  /\ Invalid \subseteq Finish
  /\ Broken \subseteq Finish
  /\ \A A, B : A \subseteq Finish => A ** B \subseteq Finish
  /\ \A A, B : A \subseteq Anything /\ B \subseteq Finish => A ** B \subseteq Finish
<1>1. {"return", "throw", "error"} \subseteq End /\ "none" \in Codes /\ Success \subseteq Nat /\ 0 \in Nat
      /\ "VALIDATION_ERROR" \in Codes /\ 400 \in Nat
  BY DEF End, Codes, Success
<1>2. \A n \in Success : Reply(n) \subseteq Finish
  BY <1>1, FinishOne DEF Reply
<1>3. \A n \in Nat, c \in Codes : Refuse(n, c) \subseteq Finish
  BY <1>1, FinishOne DEF Refuse
<1>4. Broken \subseteq Finish
  BY <1>1, FinishOne DEF Broken
<1>5. \A A, B : A \subseteq Finish => A ** B \subseteq Finish
  BY FinishEarly
<1>6. \A A, B : A \subseteq Anything /\ B \subseteq Finish => A ** B \subseteq Finish
  BY FinishLate, AnythingIn
<1> QED
  BY <1>1, <1>2, <1>3, <1>4, <1>5, <1>6 DEF Invalid

LEMMA FinishHandler == ASSUME NEW r, NEW b PROVE Handler(r, b) \subseteq Finish
<1> DEFINE F == Finish
<1> DEFINE P == Anything
<1>0. Fragments(P) /\ Shared(P) /\ Broken \subseteq P /\ Do("session") \subseteq P
      /\ Do("role") \subseteq P /\ Do("identifier") \subseteq P
      /\ Do("erasure") \subseteq P /\ Do("entry") \subseteq P /\ Do("profile") \subseteq P
  BY AnythingIn
<1>1. /\ Reply(200) \subseteq F /\ Reply(201) \subseteq F /\ Reply(202) \subseteq F /\ Reply(204) \subseteq F
      /\ Reply(304) \subseteq F
  BY FinishIn DEF Success
<1>2. /\ Refuse(400, "INVALID_OTP") \subseteq F
      /\ Refuse(401, "UNAUTHENTICATED") \subseteq F /\ Refuse(403, "FORBIDDEN") \subseteq F
      /\ Refuse(404, "NOT_FOUND") \subseteq F /\ Refuse(409, "CONFLICT") \subseteq F
      /\ Refuse(429, "RATE_LIMITED") \subseteq F /\ Invalid \subseteq F /\ Broken \subseteq F
  BY FinishIn DEF Codes
<1>3. \A A, B : A \subseteq F => A ** B \subseteq F
  BY FinishIn
<1>4. \A A, B : A \subseteq P /\ B \subseteq F => A ** B \subseteq F
  BY FinishIn
<1> HIDE DEF F, P
<1>5. IssueSession \subseteq P
  BY <1>0 DEF Shared, Fragments, IssueSession
<1>6. \A kind, given : Do(kind) \subseteq P => InsertAccount(kind, b, given) \subseteq P
  BY <1>0 DEF Shared, InsertAccount, When
<1>7. Resolve(b) \subseteq P
  BY <1>0 DEF Shared, Fragments, Resolve, TelegramVerify, StubVerify
<1>20. RegisterPhone(b) \subseteq F /\ VerifyPhone \subseteq F
  BY <1>0, <1>1, <1>2, <1>4, <1>5, <1>6 DEF Shared, Fragments, RegisterPhone, VerifyPhone
<1>21. OAuth(b) \subseteq F
  BY <1>0, <1>1, <1>2, <1>4, <1>5, <1>6, <1>7 DEF Shared, Fragments, OAuth
<1>22. RecoverEmailRequest \subseteq F /\ RecoverEmailVerify \subseteq F
  BY <1>0, <1>1, <1>2, <1>4, <1>5 DEF Shared, Fragments, RecoverEmailRequest, RecoverEmailVerify
<1>23. IdentityController(r, b) \subseteq F
  BY <1>20, <1>21, <1>22 DEF IdentityController, When
<1>24. Refresh \subseteq F /\ LogoutRoute(b) \subseteq F /\ DevToken \subseteq F
  BY <1>0, <1>1, <1>2, <1>4, <1>5 DEF Shared, Fragments, Refresh, LogoutRoute, DevToken
<1>25. AuthController(r, b) \subseteq F
  BY <1>1, <1>24 DEF AuthController, When
<1>26. LoadMe \subseteq P
  BY <1>0 DEF Shared, Fragments, LoadMe
<1>27. GetMe \subseteq F /\ Deactivate \subseteq F /\ Reactivate \subseteq F /\ EraseMe \subseteq F
  BY <1>0, <1>1, <1>2, <1>4, <1>26 DEF Shared, Fragments, GetMe, Conditional, Deactivate, Reactivate, EraseMe
<1>28. UpdateMe(b) \subseteq F
  BY <1>0, <1>1, <1>2, <1>4, <1>26 DEF Shared, Fragments, UpdateMe, When
<1>29. MeController(r, b) \subseteq F
  BY <1>27, <1>28 DEF MeController, When
<1>30. LoadTarget \subseteq P
  BY <1>0 DEF Shared, Fragments, LoadTarget
<1>31. SetRole \subseteq F /\ EraseUser \subseteq F
  BY <1>0, <1>1, <1>4, <1>30 DEF Shared, Fragments, SetRole, EraseUser
<1>32. Rebind(b) \subseteq F
  BY <1>0, <1>1, <1>2, <1>4, <1>30 DEF Shared, Fragments, Rebind, When
<1>33. AdminUserController(r, b) \subseteq F
  BY <1>31, <1>32 DEF AdminUserController, When
<1>34. List(b) \subseteq F /\ Form \subseteq F
  BY <1>0, <1>1, <1>2, <1>4 DEF Shared, Fragments, List, Form
<1>35. Entry(b) \subseteq P
  BY <1>0 DEF Shared, Fragments, Entry
<1>36. Entry(b) ** Reply(200) \subseteq F /\ ToggleActive(b) \subseteq F
  BY <1>0, <1>1, <1>4, <1>35 DEF Shared, Fragments, ToggleActive
<1>37. Create(b) \subseteq F
  BY <1>0, <1>1, <1>2, <1>4 DEF Shared, Fragments, Create
<1>38. Update(b) \subseteq F
  BY <1>0, <1>1, <1>2, <1>4, <1>35 DEF Shared, Fragments, Update, When
<1>39. ReferenceDataController(r, b) \subseteq F
  BY <1>34, <1>36, <1>37, <1>38 DEF ReferenceDataController, When
<1>40. HealthController(r) \subseteq F /\ MetricsController(r) \subseteq F
  BY <1>0, <1>1, <1>4 DEF Fragments, HealthController, MetricsController, Ready, PrismaHealthy, RedisHealthy, Bare, When
<1>41. Handler(r, b) \subseteq F
  BY <1>23, <1>25, <1>29, <1>33, <1>39, <1>40 DEF Handler
<1> QED
  BY <1>41 DEF F

-----------------------------------------------------------------------------
(* Identity.  Paths on which a code was spent or a proof was given before any session; and those that go on only if
   that has happened. *)
Ground == {"spent", "proof"}
Vetted == {p \in Seq(Steps) : \A k \in 1 .. Len(p) : p[k].do = "session" => \E j \in 1 .. k : p[j].do \in Ground}
Vouched == {p \in Vetted : Ended(p) \/ \E j \in 1 .. Len(p) : p[j].do \in Ground}

LEMMA VettedOne == ASSUME NEW e \in Steps, e.do # "session" PROVE {<<e>>} \subseteq Vetted
<1>1. <<e>> \in Seq(Steps) /\ Len(<<e>>) = 1 /\ <<e>>[1] = e
  OBVIOUS
<1> QED
  BY <1>1 DEF Vetted

LEMMA VouchedOne == ASSUME NEW e \in Steps, e.do \in End \cup Ground PROVE {<<e>>} \subseteq Vouched
<1>1. e.do # "session"
  BY DEF End, Ground
<1>2. {<<e>>} \subseteq Vetted
  BY <1>1, VettedOne
<1>3. <<e>> \in Seq(Steps) /\ Len(<<e>>) = 1 /\ <<e>>[1] = e /\ <<e>> # <<>>
  OBVIOUS
<1>4. e.do \in End => Ended(<<e>>)
  BY <1>3, Ends
<1> QED
  BY <1>2, <1>3, <1>4 DEF Vouched

LEMMA VettedThen == ASSUME NEW A, NEW B, A \subseteq Vetted, B \subseteq Vetted
                    PROVE  A ** B \subseteq Vetted
<1> SUFFICES ASSUME NEW p \in A ** B PROVE p \in Vetted
  OBVIOUS
<1>1. PICK a \in A, b \in B : p = IF Ended(a) THEN a ELSE a \o b
  BY Composed
<1>2. a \in Vetted /\ b \in Vetted
  OBVIOUS
<1>3. CASE Ended(a)
  BY <1>1, <1>2, <1>3
<1>4. CASE ~Ended(a)
  <2>1. p = a \o b /\ a \in Seq(Steps) /\ b \in Seq(Steps)
    BY <1>1, <1>2, <1>4 DEF Vetted
  <2>2. p \in Seq(Steps) /\ Len(p) = Len(a) + Len(b)
    BY <2>1
  <2>3. \A k \in 1 .. Len(a) : p[k] = a[k]
    BY <2>1
  <2>4. \A k \in 1 .. Len(b) : p[Len(a) + k] = b[k] /\ Len(a) + k \in 1 .. Len(p)
    BY <2>1
  <2>5. ASSUME NEW k \in 1 .. Len(p), p[k].do = "session" PROVE \E j \in 1 .. k : p[j].do \in Ground
    <3>1. CASE k \in 1 .. Len(a)
      <4>1. PICK j \in 1 .. k : a[j].do \in Ground
        BY <1>2, <2>3, <2>5, <3>1 DEF Vetted
      <4>2. j \in 1 .. Len(a)
        BY <3>1
      <4> QED
        BY <2>3, <4>1, <4>2
    <3>2. CASE k \notin 1 .. Len(a)
      <4>1. k - Len(a) \in 1 .. Len(b) /\ k = Len(a) + (k - Len(a))
        BY <2>1, <2>2, <3>2
      <4>2. b[k - Len(a)].do = "session"
        BY <2>4, <2>5, <4>1
      <4>3. PICK j \in 1 .. (k - Len(a)) : b[j].do \in Ground
        BY <1>2, <4>1, <4>2 DEF Vetted
      <4>4. Len(a) + j \in 1 .. k /\ j \in 1 .. Len(b)
        BY <2>1, <4>1
      <4> QED
        BY <2>4, <4>3, <4>4
    <3> QED
      BY <3>1, <3>2
  <2> QED
    BY <2>2, <2>5 DEF Vetted
<1> QED
  BY <1>3, <1>4

LEMMA VouchedThen == ASSUME NEW A, NEW B, A \subseteq Vouched, B \subseteq Seq(Steps)
                     PROVE  A ** B \subseteq Vouched
<1> SUFFICES ASSUME NEW p \in A ** B PROVE p \in Vouched
  OBVIOUS
<1>1. PICK a \in A, b \in B : p = IF Ended(a) THEN a ELSE a \o b
  BY Composed
<1>2. a \in Vouched /\ b \in Seq(Steps) /\ a \in Seq(Steps)
  BY DEF Vouched, Vetted
<1>3. CASE Ended(a)
  BY <1>1, <1>2, <1>3
<1>4. CASE ~Ended(a)
  <2>1. p = a \o b
    BY <1>1, <1>4
  <2>2. p \in Seq(Steps) /\ Len(p) = Len(a) + Len(b)
    BY <1>2, <2>1
  <2>3. \A k \in 1 .. Len(a) : p[k] = a[k]
    BY <1>2, <2>1
  <2>4. PICK g \in 1 .. Len(a) : a[g].do \in Ground
    BY <1>2, <1>4 DEF Vouched
  <2>5. p[g].do \in Ground /\ g \in 1 .. Len(p)
    BY <1>2, <2>2, <2>3, <2>4
  <2>6. ASSUME NEW k \in 1 .. Len(p), p[k].do = "session" PROVE \E j \in 1 .. k : p[j].do \in Ground
    <3>1. CASE k \in 1 .. Len(a)
      <4>1. PICK j \in 1 .. k : a[j].do \in Ground
        BY <1>2, <2>3, <2>6, <3>1 DEF Vouched, Vetted
      <4>2. j \in 1 .. Len(a)
        BY <3>1
      <4> QED
        BY <2>3, <4>1, <4>2
    <3>2. CASE k \notin 1 .. Len(a)
      <4>1. g \in 1 .. k
        BY <1>2, <2>2, <2>4, <3>2
      <4> QED
        BY <2>5, <4>1
    <3> QED
      BY <3>1, <3>2
  <2> QED
    BY <2>2, <2>5, <2>6 DEF Vouched, Vetted
<1> QED
  BY <1>3, <1>4

(* In production no handler issues a session without ground. *)
LEMMA VettedHandler == ASSUME NEW r, NEW b, conf.production PROVE Handler(r, b) \subseteq Vetted
<1> DEFINE V == Vetted
<1> DEFINE W == Vouched
<1> DEFINE P == Anything
<1>1. /\ \A d \in Work : d # "session" => Do(d) \subseteq V
      /\ \A n \in Success : Reply(n) \subseteq V
      /\ \A n \in Nat, c \in Codes : Refuse(n, c) \subseteq V
      /\ ProviderFails \subseteq V /\ Broken \subseteq V
  <2>1. \A e \in Steps : e.do \in (Work \cup End) \ {"session"} => {<<e>>} \subseteq V
    BY VettedOne
  <2>2. End \subseteq (Work \cup End) \ {"session"}
    BY DEF End
  <2>3. {"return", "throw", "provider", "error"} \subseteq (Work \cup End) \ {"session"}
    BY <2>2 DEF End
  <2> HIDE DEF V
  <2>4. \A d \in (Work \cup End) \ {"session"} : Do(d) \subseteq V
    BY <2>1, Made
  <2> QED
    BY <2>1, <2>3, <2>4, Made
<1>2. /\ Do("spent") \subseteq W /\ Do("proof") \subseteq W /\ Broken \subseteq W
      /\ \A n \in Nat, c \in Codes : Refuse(n, c) \subseteq W
  <2>1. \A e \in Steps : e.do \in End \cup Ground => {<<e>>} \subseteq W
    BY VouchedOne
  <2>2. End \cup Ground \subseteq Work \cup End
    BY DEF Work, Ground, Effect, Proof
  <2>3. {"throw", "error", "spent", "proof"} \subseteq End \cup Ground
    BY DEF End, Ground
  <2> HIDE DEF W
  <2> QED
    BY <2>1, <2>2, <2>3, Made
<1>3. \A A, B : A \subseteq V /\ B \subseteq V => A ** B \subseteq V
  BY VettedThen
<1>4. \A A, B : A \subseteq W /\ B \subseteq P => A ** B \subseteq W
  BY VouchedThen, AnythingIn
<1>5. W \subseteq V
  BY DEF Vouched
<1>6. Fragments(P) /\ Shared(P) /\ Broken \subseteq P /\ Do("session") \subseteq P
  BY AnythingIn
<1>7. Skip \subseteq V
  BY DEF Skip, Vetted
<1> HIDE DEF V, W, P
<1>8. Fragments(V)
  <2>1. {"read", "audit", "revoke", "rotate", "code", "guess", "spent", "message", "proof", "stub", "pending", "account",
         "login", "status", "verification"} \subseteq Work
    BY DEF Work, Effect, Change, Proof
  <2>2. /\ Do("read") \subseteq V /\ Do("audit") \subseteq V /\ Do("revoke") \subseteq V
        /\ Do("rotate") \subseteq V /\ Do("code") \subseteq V /\ Do("guess") \subseteq V /\ Do("spent") \subseteq V
        /\ Do("message") \subseteq V /\ Do("proof") \subseteq V /\ Do("stub") \subseteq V /\ Do("pending") \subseteq V
        /\ Do("account") \subseteq V /\ Do("login") \subseteq V /\ Do("status") \subseteq V /\ Do("verification") \subseteq V
    BY <1>1, <2>1
  <2>3. /\ Reply(200) \subseteq V /\ Reply(201) \subseteq V /\ Reply(202) \subseteq V /\ Reply(204) \subseteq V
        /\ Reply(304) \subseteq V
    BY <1>1 DEF Success
  <2>4. /\ Refuse(400, "VALIDATION_ERROR") \subseteq V /\ Refuse(400, "INVALID_OTP") \subseteq V
        /\ Refuse(401, "UNAUTHENTICATED") \subseteq V /\ Refuse(403, "FORBIDDEN") \subseteq V
        /\ Refuse(404, "NOT_FOUND") \subseteq V /\ Refuse(409, "CONFLICT") \subseteq V
        /\ Refuse(412, "STALE_RESOURCE") \subseteq V /\ Refuse(422, "IDEMPOTENCY_KEY_REUSED") \subseteq V
        /\ Refuse(428, "PRECONDITION_REQUIRED") \subseteq V /\ Refuse(429, "RATE_LIMITED") \subseteq V
        /\ Refuse(503, "UPSTREAM_UNAVAILABLE") \subseteq V
        /\ Refuse(400, "none") \subseteq V /\ Refuse(429, "none") \subseteq V /\ Refuse(503, "none") \subseteq V
    BY <1>1 DEF Codes
  <2> QED
    BY <1>1, <1>3, <1>7, <2>2, <2>3, <2>4 DEF Fragments
<1>15. Open(r, b, V)
  <2>1. {"role", "identifier", "erasure", "entry", "profile"} \subseteq Work
    BY DEF Work, Effect, Change
  <2> QED
    BY <1>1, <2>1 DEF Open
<1>18. Shared(V)
  BY <1>8, SharedIn
<1>19. IssueSession \subseteq P
  BY <1>6 DEF Shared, Fragments, IssueSession
<1>20. VerifyPhone \subseteq V
  <2>1. SpendCode ** Do("status") ** Audit ** IssueSession ** Reply(200) \subseteq W
    BY <1>4, <1>6, <1>2, <1>19 DEF SpendCode, Shared, Fragments
  <2>2. SpendCode ** Do("status") ** Audit ** IssueSession ** Reply(200) \subseteq V
    BY <1>5, <2>1
  <2> QED
    BY <1>8, <1>18, <2>2 DEF Fragments, Shared, VerifyPhone
<1>21. RecoverEmailVerify \subseteq V
  <2> DEFINE Rest == Refuse(403, "FORBIDDEN") \cup (Do("status") \cup Do("login")) ** Audit ** IssueSession ** Reply(200)
  <2>1. Rest \subseteq P
    BY <1>6, <1>19 DEF Shared, Fragments
  <2> HIDE DEF Rest
  <2>2. SpendCode ** Rest \subseteq W
    BY <1>4, <1>2, <2>1 DEF SpendCode
  <2>3. SpendCode ** Rest \subseteq V
    BY <1>5, <2>2
  <2>4. Read ** (Refuse(400, "INVALID_OTP") \cup LockedOut ** Audit ** Refuse(429, "RATE_LIMITED")
                  \cup Guess ** Refuse(400, "INVALID_OTP") \cup SpendCode ** Rest) \subseteq V
    BY <1>8, <1>18, <2>3 DEF Fragments, Shared
  <2> QED
    BY <2>4 DEF RecoverEmailVerify, Rest
<1>22. DevToken \subseteq V
  BY <1>8 DEF Fragments, DevToken
<1>23. OAuth(b) \subseteq V
  <2>1. Resolve(b) \subseteq W
    <3>1. Refuse(400, "VALIDATION_ERROR") \subseteq W /\ Refuse(503, "UPSTREAM_UNAVAILABLE") \subseteq W
          /\ Refuse(401, "UNAUTHENTICATED") \subseteq W
      BY <1>2 DEF Codes
    <3> QED
      BY <1>2, <3>1 DEF Resolve, TelegramVerify, Invalid
  <2>2. \A kind, given : Do(kind) \subseteq P => InsertAccount(kind, b, given) \subseteq P
    BY <1>6 DEF Shared, InsertAccount, When
  <2> DEFINE found == (Refuse(403, "FORBIDDEN") \cup Do("login")) ** Audit ** IssueSession ** Reply(200)
  <2> DEFINE created == InsertAccount("account", b, {"cityId"}) ** Audit ** IssueSession ** Reply(201)
  <2>3. found \subseteq P
    BY <1>6, <1>19 DEF Shared, Fragments
  <2>4. created \subseteq P
    BY <1>6, <1>19, <2>2 DEF Shared, Fragments
  <2> HIDE DEF found, created
  <2>5. found \cup created \cup Broken \cup Read ** (found \cup Broken) \subseteq P
    BY <1>6, <2>3, <2>4 DEF Shared, Fragments
  <2>6. Resolve(b) ** Read ** (found \cup created \cup Broken \cup Read ** (found \cup Broken)) \subseteq W
    <3>1. Read \subseteq P
      BY <1>6 DEF Shared
    <3> QED
      BY <1>4, <2>1, <2>5, <3>1
  <2>7. OAuth(b) \subseteq W
    BY <2>6 DEF OAuth, found, created
  <2> QED
    BY <1>5, <2>7
<1>24. Issuers(r, b, V)
  BY <1>20, <1>21, <1>22, <1>23 DEF Issuers
<1>25. Handler(r, b) \subseteq V
  BY <1>8, <1>15, <1>24, HandlerIn
<1> QED
  BY <1>25 DEF V

-----------------------------------------------------------------------------
(* Refusals.  Steps that a refused request may have made, and refusals; paths that leave no more than that behind, whose
   refusals come after no more than that, that do not refuse. *)
Spared == {"pending", "verification", "guess", "spent", "revoke", "rotate", "audit", "read"} \cup Proof \cup End
Refuses(e) == e.do = "throw" /\ e.status \in {400, 401, 403, 404, 409, 412, 422, 428, 429}
Mild == Seq({e \in Steps : e.do \in Spared})
Fair == {p \in Seq(Steps) : \A k \in 1 .. Len(p) : Refuses(p[k]) => \A j \in 1 .. k : p[j].do \in Spared}
Firm == Seq({e \in Steps : ~Refuses(e)})

LEMMA MildFair == Mild \subseteq Fair /\ Firm \subseteq Fair /\ Mild \subseteq Seq(Steps) /\ Firm \subseteq Seq(Steps)
<1>1. ASSUME NEW p \in Mild PROVE p \in Fair /\ p \in Seq(Steps)
  <2>1. p \in Seq(Steps) /\ \A k \in 1 .. Len(p) : p[k].do \in Spared
    BY DEF Mild
  <2>2. \A k \in 1 .. Len(p) : \A j \in 1 .. k : p[j].do \in Spared
    BY <2>1
  <2> QED
    BY <2>1, <2>2 DEF Fair
<1>2. ASSUME NEW p \in Firm PROVE p \in Fair /\ p \in Seq(Steps)
  <2>1. p \in Seq(Steps) /\ \A k \in 1 .. Len(p) : ~Refuses(p[k])
    BY DEF Firm
  <2> QED
    BY <2>1 DEF Fair
<1> QED
  BY <1>1, <1>2

LEMMA FairOne == ASSUME NEW e \in Steps PROVE {<<e>>} \subseteq Fair
<1>1. <<e>> \in Seq(Steps) /\ Len(<<e>>) = 1 /\ <<e>>[1] = e
  OBVIOUS
<1>2. Refuses(e) => e.do \in Spared
  BY DEF Refuses, Spared, End
<1> QED
  BY <1>1, <1>2 DEF Fair

LEMMA MildThen == ASSUME NEW A, NEW B, A \subseteq Mild, B \subseteq Mild PROVE A ** B \subseteq Mild
BY Joined DEF Mild

LEMMA FirmThen == ASSUME NEW A, NEW B, A \subseteq Firm, B \subseteq Firm PROVE A ** B \subseteq Firm
BY Joined DEF Firm

LEMMA FairThen == ASSUME NEW A, NEW B, A \subseteq Fair, B \subseteq Fair, A \subseteq Mild \/ B \subseteq Firm
                  PROVE  A ** B \subseteq Fair
<1> SUFFICES ASSUME NEW p \in A ** B PROVE p \in Fair
  OBVIOUS
<1>1. PICK a \in A, b \in B : p = IF Ended(a) THEN a ELSE a \o b
  BY Composed
<1>2. a \in Fair /\ b \in Fair /\ (a \in Mild \/ b \in Firm)
  OBVIOUS
<1>3. CASE Ended(a)
  BY <1>1, <1>2, <1>3
<1>4. CASE ~Ended(a)
  <2>1. p = a \o b /\ a \in Seq(Steps) /\ b \in Seq(Steps)
    BY <1>1, <1>2, <1>4 DEF Fair
  <2>2. p \in Seq(Steps) /\ Len(p) = Len(a) + Len(b)
    BY <2>1
  <2>3. \A k \in 1 .. Len(a) : p[k] = a[k]
    BY <2>1
  <2>4. \A k \in 1 .. Len(p) : k \notin 1 .. Len(a) => k - Len(a) \in 1 .. Len(b) /\ p[k] = b[k - Len(a)]
    BY <2>1
  <2>5. ASSUME NEW k \in 1 .. Len(p), Refuses(p[k]), NEW j \in 1 .. k PROVE p[j].do \in Spared
    <3>1. CASE k \in 1 .. Len(a)
      BY <1>2, <2>3, <2>5, <3>1 DEF Fair
    <3>2. CASE k \notin 1 .. Len(a)
      <4>1. k - Len(a) \in 1 .. Len(b) /\ Refuses(b[k - Len(a)])
        BY <2>4, <2>5, <3>2
      <4>2. a \in Mild
        BY <1>2, <4>1 DEF Firm
      <4>3. CASE j \in 1 .. Len(a)
        BY <2>3, <4>2, <4>3 DEF Mild
      <4>4. CASE j \notin 1 .. Len(a)
        <5>1. j \in 1 .. Len(p) /\ j - Len(a) \in 1 .. (k - Len(a))
          BY <2>1, <2>2, <3>2, <4>4
        <5> QED
          BY <1>2, <2>4, <4>1, <4>4, <5>1 DEF Fair
      <4> QED
        BY <4>3, <4>4
    <3> QED
      BY <3>1, <3>2
  <2> QED
    BY <2>2, <2>5 DEF Fair
<1> QED
  BY <1>3, <1>4

LEMMA FairHandler == ASSUME NEW r, NEW b PROVE Handler(r, b) \subseteq Fair
<1> DEFINE M == Mild
<1> DEFINE F == Fair
<1> DEFINE U == Firm
<1>1. /\ \A d \in Work \cap Spared : Do(d) \subseteq M
      /\ \A n \in Success : Reply(n) \subseteq M
      /\ \A n \in Nat, c \in Codes : Refuse(n, c) \subseteq M
      /\ ProviderFails \subseteq M /\ Broken \subseteq M
  <2>1. \A e \in Steps : e.do \in (Work \cap Spared) \cup End => {<<e>>} \subseteq M
    BY Lone DEF Spared, Mild
  <2>2. {"return", "throw", "provider", "error"} \subseteq (Work \cap Spared) \cup End
    BY DEF End
  <2> HIDE DEF M
  <2>3. \A d \in (Work \cap Spared) \cup End : Do(d) \subseteq M
    BY <2>1, Made
  <2> QED
    BY <2>1, <2>2, <2>3, Made
<1>2. /\ \A d \in Work : Do(d) \subseteq U
      /\ \A n \in Success : Reply(n) \subseteq U
      /\ ProviderFails \subseteq U /\ Broken \subseteq U
  <2>1. \A e \in Steps : e.do \in (Work \cup End) \ {"throw"} => {<<e>>} \subseteq U
    BY Lone DEF Firm, Refuses
  <2>2. {"return", "provider", "error"} \subseteq (Work \cup End) \ {"throw"}
    BY DEF End
  <2>3. \A d \in Work : d # "throw"
    BY DEF Work, Effect, Change, Proof
  <2> HIDE DEF U
  <2>4. \A d \in (Work \cup End) \ {"throw"} : Do(d) \subseteq U
    BY <2>1, Made
  <2> QED
    BY <2>1, <2>2, <2>3, <2>4, Made
<1>3. M \subseteq F /\ U \subseteq F
  BY MildFair
<1>4. \A A, B : A \subseteq M /\ B \subseteq M => A ** B \subseteq M
  BY MildThen
<1>5. \A A, B : A \subseteq U /\ B \subseteq U => A ** B \subseteq U
  BY FirmThen
<1>6. \A A, B : A \subseteq M /\ B \subseteq F => A ** B \subseteq F
  BY FairThen, MildFair
<1>7. \A A, B : A \subseteq F /\ B \subseteq U => A ** B \subseteq F
  BY FairThen, MildFair
<1>8. Skip \subseteq M /\ Skip \subseteq U
  BY DEF Skip, Mild, Firm
<1> HIDE DEF M, F, U
<1>9. {"read", "audit", "revoke", "rotate", "code", "guess", "spent", "message", "proof", "stub", "pending", "account", "session",
       "login", "status", "verification", "role", "identifier", "erasure", "entry", "profile"} \subseteq Work
  BY DEF Work, Effect, Change, Proof
<1>10. {"pending", "verification", "guess", "spent", "revoke", "rotate", "audit", "read", "proof", "stub"} \subseteq Work \cap Spared
  BY <1>9 DEF Spared, Proof
<1>11. /\ Do("pending") \subseteq M /\ Do("verification") \subseteq M /\ Do("guess") \subseteq M /\ Do("spent") \subseteq M
       /\ Do("revoke") \subseteq M /\ Do("rotate") \subseteq M /\ Do("audit") \subseteq M /\ Do("read") \subseteq M
       /\ Do("proof") \subseteq M /\ Do("stub") \subseteq M
  BY <1>1, <1>10
<1>12. /\ Do("read") \subseteq U /\ Do("audit") \subseteq U /\ Do("revoke") \subseteq U /\ Do("rotate") \subseteq U
       /\ Do("code") \subseteq U /\ Do("message") \subseteq U /\ Do("account") \subseteq U /\ Do("session") \subseteq U
       /\ Do("login") \subseteq U /\ Do("status") \subseteq U /\ Do("role") \subseteq U /\ Do("identifier") \subseteq U
       /\ Do("erasure") \subseteq U /\ Do("entry") \subseteq U /\ Do("profile") \subseteq U
  BY <1>2, <1>9
<1>13. /\ Reply(200) \subseteq U /\ Reply(201) \subseteq U /\ Reply(202) \subseteq U /\ Reply(204) \subseteq U
       /\ Reply(304) \subseteq U
  BY <1>2 DEF Success
<1>14. /\ Refuse(400, "VALIDATION_ERROR") \subseteq M /\ Refuse(400, "INVALID_OTP") \subseteq M
       /\ Refuse(401, "UNAUTHENTICATED") \subseteq M /\ Refuse(403, "FORBIDDEN") \subseteq M
       /\ Refuse(404, "NOT_FOUND") \subseteq M /\ Refuse(409, "CONFLICT") \subseteq M
       /\ Refuse(412, "STALE_RESOURCE") \subseteq M
       /\ Refuse(428, "PRECONDITION_REQUIRED") \subseteq M /\ Refuse(429, "RATE_LIMITED") \subseteq M
       /\ Refuse(503, "UPSTREAM_UNAVAILABLE") \subseteq M /\ Refuse(503, "none") \subseteq M
  BY <1>1 DEF Codes
<1>15. /\ Read \subseteq M /\ Read \subseteq U /\ Audit \subseteq U /\ Audit \subseteq M /\ Invalid \subseteq M
       /\ Logout \subseteq M /\ Logout \subseteq U /\ Guess \subseteq M /\ SpendCode \subseteq M
  BY <1>11, <1>12, <1>14 DEF Read, Audit, Invalid, Logout, Guess, SpendCode
<1>16. LockedOut \subseteq M /\ IfMatch \subseteq M
  BY <1>4, <1>8, <1>14, <1>15 DEF LockedOut, IfMatch
<1>17. IssueCode \subseteq F
  BY <1>3, <1>6, <1>12, <1>14, <1>15 DEF IssueCode
<1>18. SendSms \subseteq U /\ SendEmail \subseteq U /\ IssueSession \subseteq U
  BY <1>2, <1>5, <1>8, <1>12, <1>15 DEF SendSms, SendEmail, FetchJson, IssueSession
<1>19. \A kind, given : Do(kind) \subseteq F => InsertAccount(kind, b, given) \subseteq F
  BY <1>1, <1>3, <1>15 DEF InsertAccount, When
<1>20. RegisterPhone(b) \subseteq F
  <2>1. InsertAccount("pending", b, {"cityId", "fullName", "avatarUrl"}) \subseteq M
    BY <1>1, <1>11, <1>15 DEF InsertAccount, When
  <2> DEFINE rest == (Skip \cup InsertAccount("pending", b, {"cityId", "fullName", "avatarUrl"}) \cup Refuse(409, "CONFLICT"))
                        ** IssueCode ** SendSms ** Audit ** Reply(202)
  <2>2. rest \subseteq F
    BY <1>6, <1>7, <1>8, <1>13, <1>14, <1>15, <1>17, <1>18, <2>1
  <2> HIDE DEF rest
  <2>3. Read ** (Refuse(409, "CONFLICT") \cup rest) \subseteq F
    BY <1>3, <1>6, <1>14, <1>15, <2>2
  <2> QED
    BY <2>3 DEF RegisterPhone, rest
<1>21. VerifyPhone \subseteq F
  <2>1. LockedOut ** Do("verification") ** Audit ** Refuse(429, "RATE_LIMITED") \subseteq F
    BY <1>3, <1>4, <1>11, <1>14, <1>15, <1>16
  <2>2. Guess ** Read ** Do("verification") ** Audit ** Refuse(400, "INVALID_OTP") \subseteq F
    BY <1>3, <1>4, <1>11, <1>14, <1>15
  <2>3. SpendCode ** Do("status") ** Audit ** IssueSession ** Reply(200) \subseteq F
    BY <1>3, <1>7, <1>12, <1>13, <1>15, <1>18
  <2> QED
    BY <1>3, <1>6, <1>14, <1>15, <2>1, <2>2, <2>3 DEF VerifyPhone
<1>22. OAuth(b) \subseteq F
  <2> DEFINE found == (Refuse(403, "FORBIDDEN") \cup Do("login")) ** Audit ** IssueSession ** Reply(200)
  <2> DEFINE created == InsertAccount("account", b, {"cityId"}) ** Audit ** IssueSession ** Reply(201)
  <2>1. Resolve(b) \subseteq M
    BY <1>1, <1>4, <1>8, <1>11, <1>14, <1>15 DEF Resolve, TelegramVerify, StubVerify
  <2>2. found \subseteq F
    BY <1>3, <1>7, <1>12, <1>13, <1>14, <1>15, <1>18
  <2>3. Do("account") \subseteq F
    BY <1>3, <1>12
  <2>4. created \subseteq F
    BY <1>7, <1>13, <1>15, <1>18, <1>19, <2>3
  <2> HIDE DEF found, created
  <2>5. Resolve(b) ** Read \subseteq M
    BY <1>4, <1>15, <2>1
  <2>6. Resolve(b) ** Read ** (found \cup created \cup Broken \cup Read ** (found \cup Broken)) \subseteq F
    BY <1>1, <1>3, <1>6, <1>15, <2>2, <2>4, <2>5
  <2> QED
    BY <2>6 DEF OAuth, found, created
<1>23. RecoverEmailRequest \subseteq F
  <2>1. IssueCode ** SendEmail ** Audit ** Reply(202) \subseteq F
    BY <1>7, <1>13, <1>15, <1>17, <1>18
  <2> QED
    BY <1>3, <1>6, <1>13, <1>15, <2>1 DEF RecoverEmailRequest
<1>24. RecoverEmailVerify \subseteq F
  <2> DEFINE restored == (Do("status") \cup Do("login")) ** Audit ** IssueSession ** Reply(200)
  <2>1. restored \subseteq F
    BY <1>3, <1>7, <1>12, <1>13, <1>15, <1>18
  <2>2. LockedOut ** Audit ** Refuse(429, "RATE_LIMITED") \subseteq F /\ Guess ** Refuse(400, "INVALID_OTP") \subseteq F
    BY <1>3, <1>4, <1>14, <1>15, <1>16
  <2> HIDE DEF restored
  <2>3. SpendCode ** (Refuse(403, "FORBIDDEN") \cup restored) \subseteq F
    BY <1>3, <1>6, <1>14, <1>15, <2>1
  <2> DEFINE cases == Refuse(400, "INVALID_OTP") \cup LockedOut ** Audit ** Refuse(429, "RATE_LIMITED")
                        \cup Guess ** Refuse(400, "INVALID_OTP") \cup SpendCode ** (Refuse(403, "FORBIDDEN") \cup restored)
  <2>4. cases \subseteq F
    BY <1>3, <1>14, <2>2, <2>3
  <2> HIDE DEF cases
  <2>5. Read ** cases \subseteq F
    BY <1>6, <1>15, <2>4
  <2> QED
    BY <2>5 DEF RecoverEmailVerify, restored, cases
<1>25. IdentityController(r, b) \subseteq F
  BY <1>20, <1>21, <1>22, <1>23, <1>24 DEF IdentityController, When
<1>26. Refresh \subseteq F
  <2>1. Do("revoke") ** Refuse(401, "UNAUTHENTICATED") \subseteq F
    BY <1>3, <1>6, <1>11, <1>14
  <2>2. Do("rotate") ** Read ** (Reply(200) \cup Do("revoke") ** Refuse(401, "UNAUTHENTICATED")) \subseteq F
    BY <1>3, <1>4, <1>6, <1>11, <1>13, <1>15, <2>1
  <2> DEFINE cases == Refuse(401, "UNAUTHENTICATED") \cup Do("revoke") ** Refuse(401, "UNAUTHENTICATED")
                        \cup Do("rotate") ** Read ** (Reply(200) \cup Do("revoke") ** Refuse(401, "UNAUTHENTICATED"))
  <2>3. cases \subseteq F
    BY <1>3, <1>14, <2>1, <2>2
  <2> HIDE DEF cases
  <2>4. Read ** cases \subseteq F
    BY <1>6, <1>15, <2>3
  <2> QED
    BY <2>4 DEF Refresh, cases
<1>27. LogoutRoute(b) \subseteq F
  BY <1>3, <1>5, <1>8, <1>13, <1>15 DEF LogoutRoute
<1>28. DevToken \subseteq F
  BY <1>3, <1>5, <1>6, <1>13, <1>14, <1>15, <1>18 DEF DevToken
<1>29. AuthController(r, b) \subseteq F
  BY <1>3, <1>13, <1>26, <1>27, <1>28 DEF AuthController, When
<1>30. LoadMe \subseteq M
  BY <1>4, <1>8, <1>14, <1>15 DEF LoadMe
<1>31. GetMe \subseteq F
  BY <1>3, <1>6, <1>13, <1>30 DEF GetMe, Conditional
<1>32. UpdateMe(b) \subseteq F
  <2>1. Do("profile") ** Audit ** Reply(200) \subseteq F
    BY <1>3, <1>5, <1>12, <1>13, <1>15
  <2>2. LoadMe ** IfMatch \subseteq M
    BY <1>4, <1>16, <1>30
  <2> QED
    BY <1>1, <1>3, <1>6, <1>13, <1>15, <2>1, <2>2 DEF UpdateMe, When
<1>33. Deactivate \subseteq F /\ Reactivate \subseteq F /\ EraseMe \subseteq F
  <2>1. Do("status") ** Logout ** Audit ** Reply(200) \subseteq F /\ Do("status") ** Audit ** Reply(200) \subseteq F
        /\ Do("status") ** Logout \subseteq F
    BY <1>3, <1>5, <1>12, <1>13, <1>15
  <2>2. LoadMe ** (Skip \cup Do("status") ** Logout) \subseteq F
    BY <1>3, <1>6, <1>8, <1>30, <2>1
  <2>3. EraseMe \subseteq F
    BY <1>7, <1>13, <1>15, <2>2 DEF EraseMe
  <2>4. Deactivate \subseteq F
    BY <1>3, <1>6, <1>13, <1>14, <1>30, <2>1 DEF Deactivate
  <2>5. Reactivate \subseteq F
    BY <1>3, <1>6, <1>15, <1>30, <2>1 DEF Reactivate
  <2> QED
    BY <2>3, <2>4, <2>5
<1>34. MeController(r, b) \subseteq F
  BY <1>31, <1>32, <1>33 DEF MeController, When
<1>35. LoadTarget \subseteq M
  BY <1>4, <1>8, <1>14, <1>15 DEF LoadTarget
<1>36. SetRole \subseteq F /\ EraseUser \subseteq F
  <2>1. Do("role") ** Logout ** Audit ** Reply(200) \subseteq F /\ Do("erasure") ** Logout ** Audit ** Reply(200) \subseteq F
    BY <1>3, <1>5, <1>12, <1>13, <1>15
  <2> QED
    BY <1>3, <1>6, <1>13, <1>35, <2>1 DEF SetRole, EraseUser
<1>37. Rebind(b) \subseteq F
  <2> DEFINE record == IF Unexpected(b, "reason") THEN Broken ELSE Audit
             write == (Refuse(409, "CONFLICT") \cup Do("identifier")) ** Logout ** record ** Reply(200)
  <2>5. record \subseteq U
    BY <1>2, <1>15
  <2> HIDE DEF record
  <2>1. write \subseteq F
    BY <1>3, <1>7, <1>12, <1>13, <1>14, <1>15, <2>5
  <2> HIDE DEF write
  <2> DEFINE bind == IF "oauthId" \notin b.has \/ Null(b, "oauthId") THEN Invalid
                     ELSE IF Null(b, "oauthProvider") \/ Unexpected(b, "oauthId") THEN Broken ELSE Invalid \cup write
  <2>2. bind \subseteq F
    BY <1>1, <1>3, <1>15, <2>1
  <2> HIDE DEF bind
  <2> DEFINE rest == IF "newPhone" \in b.has <=> "oauthProvider" \in b.has THEN Invalid
                     ELSE IF "newPhone" \in b.has THEN (IF Null(b, "newPhone") THEN Invalid ELSE write)
                     ELSE bind \cup When("clear" \in b.has /\ ~Null(b, "clear"), IF Null(b, "oauthProvider") THEN Broken ELSE write)
  <2>3. rest \subseteq F
    BY <1>1, <1>3, <1>15, <2>1, <2>2 DEF When
  <2> HIDE DEF rest
  <2>4. LoadTarget ** rest \subseteq F
    BY <1>6, <1>35, <2>3
  <2> QED
    BY <2>4 DEF Rebind, rest, bind, write, record
<1>38. AdminUserController(r, b) \subseteq F
  BY <1>36, <1>37 DEF AdminUserController, When
<1>39. List(b) \subseteq F /\ Form \subseteq F
  BY <1>1, <1>3, <1>6, <1>13, <1>15 DEF List, Form
<1>40. Entry(b) \subseteq M
  BY <1>1, <1>4, <1>8, <1>14, <1>15 DEF Entry
<1>41. Entry(b) ** Reply(200) \subseteq F
  BY <1>3, <1>6, <1>13, <1>40
<1>42. ToggleActive(b) \subseteq F
  BY <1>3, <1>6, <1>7, <1>12, <1>13, <1>15, <1>40 DEF ToggleActive
<1>43. Create(b) \subseteq F
  <2>1. Do("entry") ** Audit ** Reply(201) \subseteq F
    BY <1>3, <1>5, <1>12, <1>13, <1>15
  <2> DEFINE species == IF "speciesId" \notin Caps(b.subject) THEN Skip
                        ELSE IF Null(b, "speciesId") \/ Unexpected(b, "speciesId") THEN Broken ELSE Read ** (Skip \cup Invalid)
  <2>2. species \subseteq M
    BY <1>1, <1>4, <1>8, <1>15
  <2> HIDE DEF species
  <2>3. (Skip \cup Invalid) ** species \subseteq M
    BY <1>4, <1>8, <1>15, <2>2
  <2> DEFINE rest == IF Null(b, "market") \/ Unexpected(b, "sortOrder") \/ Unexpected(b, "nameLocalized") THEN Broken
                     ELSE Refuse(409, "CONFLICT") \cup Do("entry") ** Audit ** Reply(201)
  <2>4. rest \subseteq F
    BY <1>1, <1>3, <1>14, <2>1
  <2> HIDE DEF rest
  <2>5. (Skip \cup Invalid) ** species ** rest \subseteq F
    BY <1>6, <2>3, <2>4
  <2> QED
    BY <1>3, <1>15, <2>5 DEF Create, species, rest
<1>44. Update(b) \subseteq F
  <2>1. Do("entry") ** Audit ** Reply(200) \subseteq F
    BY <1>3, <1>5, <1>12, <1>13, <1>15
  <2>2. Entry(b) ** IfMatch \subseteq M
    BY <1>4, <1>16, <1>40
  <2> DEFINE named == IF "nameLocalized" \in b.has \ Param /\ ~Null(b, "nameLocalized") THEN Skip \cup Invalid ELSE Skip
  <2> DEFINE write == IF b.class \in {"null", "unexpected"} THEN Broken
                      ELSE When("market" \in b.has \ Param /\ b.subject \in {"health_certifications", "genetic_markers"}, Broken)
                             \cup Do("entry") ** Audit ** Reply(200)
  <2>3. named \subseteq M
    BY <1>8, <1>15
  <2>4. write \subseteq F
    BY <1>1, <1>3, <2>1 DEF When
  <2> HIDE DEF named, write
  <2>5. named ** write \subseteq F
    BY <1>6, <2>3, <2>4
  <2> DEFINE rest == IF "market" \in b.has /\ "market" \notin Caps(b.subject) THEN Invalid
                     ELSE IF b.has \ Param = {} THEN Invalid ELSE named ** write
  <2>6. rest \subseteq F
    BY <1>3, <1>15, <2>5
  <2> HIDE DEF rest
  <2>7. Entry(b) ** IfMatch ** rest \subseteq F
    BY <1>6, <2>2, <2>6
  <2> QED
    BY <2>7 DEF Update, rest, named, write
<1>45. ReferenceDataController(r, b) \subseteq F
  BY <1>39, <1>41, <1>42, <1>43, <1>44 DEF ReferenceDataController, When
<1>46. HealthController(r) \subseteq F /\ MetricsController(r) \subseteq F
  <2>1. PrismaHealthy ** RedisHealthy \subseteq M
    BY <1>4, <1>8, <1>14 DEF PrismaHealthy, RedisHealthy, Bare
  <2>2. Ready \subseteq F
    BY <1>3, <1>6, <1>13, <2>1 DEF Ready
  <2> QED
    BY <1>3, <1>13, <2>2 DEF HealthController, MetricsController, When
<1>47. Handler(r, b) \subseteq F
  BY <1>25, <1>29, <1>34, <1>38, <1>45, <1>46 DEF Handler
<1> QED
  BY <1>47 DEF F

-----------------------------------------------------------------------------
(* Records.  Paths that return nothing; paths that return, or go on, only with every change they made recorded. *)
Recorded(p, j, k) == \E m \in j .. k : p[m].do = "audit"
Silent == Seq({e \in Steps : e.do # "return"})
Neat == {p \in Seq(Steps) :
           /\ Ended(p) \/ \A j \in 1 .. Len(p) : p[j].do \in Change => Recorded(p, j, Len(p))
           /\ \A k \in 1 .. Len(p) : p[k].do = "return" =>
                \A j \in 1 .. k : p[j].do \in Change => Recorded(p, j, k)}

LEMMA SilentThen == ASSUME NEW A, NEW B, A \subseteq Silent, B \subseteq Silent PROVE A ** B \subseteq Silent
BY Joined DEF Silent

LEMMA NeatOne == ASSUME NEW e \in Steps, e.do \notin Change PROVE {<<e>>} \subseteq Neat
<1>1. <<e>> \in Seq(Steps) /\ Len(<<e>>) = 1 /\ <<e>>[1] = e
  OBVIOUS
<1>2. \A k \in 1 .. 1 : \A j \in 1 .. k : <<e>>[j].do \notin Change
  BY <1>1
<1> QED
  BY <1>1, <1>2 DEF Neat

LEMMA NeatThen == ASSUME NEW A, NEW B, A \subseteq Neat, B \subseteq Neat PROVE A ** B \subseteq Neat
<1> SUFFICES ASSUME NEW p \in A ** B PROVE p \in Neat
  OBVIOUS
<1>1. PICK a \in A, b \in B : p = IF Ended(a) THEN a ELSE a \o b
  BY Composed
<1>2. a \in Neat /\ b \in Neat
  OBVIOUS
<1>3. CASE Ended(a)
  BY <1>1, <1>2, <1>3
<1>4. CASE ~Ended(a)
  <2>1. p = a \o b /\ a \in Seq(Steps) /\ b \in Seq(Steps)
    BY <1>1, <1>2, <1>4 DEF Neat
  <2>2. p \in Seq(Steps) /\ Len(p) = Len(a) + Len(b)
    BY <2>1
  <2>3. \A k \in 1 .. Len(a) : p[k] = a[k]
    BY <2>1
  <2>4. \A k \in 1 .. Len(b) : p[Len(a) + k] = b[k]
    BY <2>1
  <2>5. ASSUME NEW j \in 1 .. Len(a), p[j].do \in Change, NEW k \in Nat, Len(a) <= k
        PROVE  Recorded(p, j, k)
    <3>1. Recorded(a, j, Len(a))
      BY <1>2, <1>4, <2>3, <2>5 DEF Neat
    <3>2. PICK m \in j .. Len(a) : a[m].do = "audit"
      BY <3>1 DEF Recorded
    <3>3. m \in 1 .. Len(a) /\ m \in j .. k
      BY <2>1, <2>5, <3>2
    <3> QED
      BY <2>3, <3>2, <3>3 DEF Recorded
  <2>6. ASSUME NEW j \in 1 .. Len(b), NEW k \in j .. Len(b), Recorded(b, j, k)
        PROVE  Recorded(p, Len(a) + j, Len(a) + k)
    <3>1. PICK m \in j .. k : b[m].do = "audit"
      BY <2>6 DEF Recorded
    <3>2. m \in 1 .. Len(b) /\ Len(a) + m \in (Len(a) + j) .. (Len(a) + k)
      BY <2>1, <3>1
    <3> QED
      BY <2>4, <3>1, <3>2 DEF Recorded
  <2>7. ASSUME NEW k \in 1 .. Len(p), p[k].do = "return", NEW j \in 1 .. k, p[j].do \in Change
        PROVE  Recorded(p, j, k)
    <3>1. CASE k \in 1 .. Len(a)
      <4>1. Recorded(a, j, k)
        BY <1>2, <2>3, <2>7, <3>1 DEF Neat
      <4>2. PICK m \in j .. k : a[m].do = "audit"
        BY <4>1 DEF Recorded
      <4>3. m \in 1 .. Len(a)
        BY <3>1, <4>2
      <4> QED
        BY <2>3, <4>2, <4>3 DEF Recorded
    <3>2. CASE k \notin 1 .. Len(a)
      <4>1. k - Len(a) \in 1 .. Len(b) /\ k = Len(a) + (k - Len(a)) /\ k \in Nat /\ Len(a) <= k
        BY <2>1, <2>2, <3>2
      <4>2. CASE j \in 1 .. Len(a)
        BY <2>5, <2>7, <4>1, <4>2
      <4>3. CASE j \notin 1 .. Len(a)
        <5>1. j - Len(a) \in 1 .. (k - Len(a)) /\ j - Len(a) \in 1 .. Len(b) /\ j = Len(a) + (j - Len(a))
              /\ k - Len(a) \in (j - Len(a)) .. Len(b)
          BY <2>1, <2>2, <4>1, <4>3
        <5>2. b[k - Len(a)].do = "return" /\ b[j - Len(a)].do \in Change
          BY <2>4, <2>7, <4>1, <5>1
        <5>3. Recorded(b, j - Len(a), k - Len(a))
          BY <1>2, <4>1, <5>1, <5>2 DEF Neat
        <5>4. Recorded(p, Len(a) + (j - Len(a)), Len(a) + (k - Len(a)))
          BY <2>6, <5>1, <5>3
        <5> QED
          BY <4>1, <5>1, <5>4
      <4> QED
        BY <4>2, <4>3
    <3> QED
      BY <3>1, <3>2
  <2>8. CASE Ended(b)
    <3>1. b # <<>> /\ b[Len(b)].do \in End
      BY <2>1, <2>8, Ends
    <3>2. p # <<>> /\ p[Len(p)] = b[Len(b)]
      BY <2>1, <2>2, <2>4, <3>1
    <3>3. Ended(p)
      BY <2>2, <3>1, <3>2, Ends
    <3> QED
      BY <2>2, <2>7, <3>3 DEF Neat
  <2>9. CASE ~Ended(b)
    <3>1. ASSUME NEW j \in 1 .. Len(p), p[j].do \in Change PROVE Recorded(p, j, Len(p))
      <4>1. CASE j \in 1 .. Len(a)
        BY <2>1, <2>2, <2>5, <3>1, <4>1
      <4>2. CASE j \notin 1 .. Len(a)
        <5>1. j - Len(a) \in 1 .. Len(b) /\ j = Len(a) + (j - Len(a)) /\ Len(b) \in (j - Len(a)) .. Len(b)
          BY <2>1, <2>2, <4>2
        <5>2. b[j - Len(a)].do \in Change
          BY <2>4, <3>1, <5>1
        <5>3. Recorded(b, j - Len(a), Len(b))
          BY <1>2, <2>9, <5>1, <5>2 DEF Neat
        <5>4. Recorded(p, Len(a) + (j - Len(a)), Len(a) + Len(b))
          BY <2>6, <5>1, <5>3
        <5> QED
          BY <2>2, <5>1, <5>4
      <4> QED
        BY <4>1, <4>2
    <3> QED
      BY <2>2, <2>7, <3>1 DEF Neat
  <2> QED
    BY <2>8, <2>9
<1> QED
  BY <1>3, <1>4

LEMMA NeatAudit == ASSUME NEW A, A \subseteq Silent PROVE A ** Audit \subseteq Neat
<1> SUFFICES ASSUME NEW p \in A ** Audit PROVE p \in Neat
  OBVIOUS
<1>1. PICK a \in A, b \in Audit : p = IF Ended(a) THEN a ELSE a \o b
  BY Composed
<1> DEFINE e == Step("audit", 0, "none")
<1>2. e \in Steps /\ e.do = "audit" /\ b = <<e>>
  BY DEF Step, Steps, Audit, Do, Work, Effect, Codes
<1> HIDE DEF e
<1>3. a \in Seq(Steps) /\ \A k \in 1 .. Len(a) : a[k].do # "return"
  <2>1. a \in Silent
    OBVIOUS
  <2> QED
    BY <2>1 DEF Silent
<1>4. CASE Ended(a)
  BY <1>1, <1>3, <1>4 DEF Neat
<1>5. CASE ~Ended(a)
  <2>1. p = a \o <<e>>
    BY <1>1, <1>2, <1>5
  <2>2. p \in Seq(Steps) /\ Len(p) = Len(a) + 1 /\ p[Len(a) + 1] = e
    BY <1>2, <1>3, <2>1
  <2>3. \A k \in 1 .. Len(a) : p[k] = a[k]
    BY <1>2, <1>3, <2>1
  <2>4. \A k \in 1 .. Len(p) : p[k].do # "return"
    <3> TAKE k \in 1 .. Len(p)
    <3>1. k \in 1 .. Len(a) \/ k = Len(a) + 1
      BY <1>3, <2>2
    <3> QED
      BY <1>2, <1>3, <2>2, <2>3, <3>1
  <2>5. \A j \in 1 .. Len(p) : Len(p) \in j .. Len(p)
    BY <2>2, <1>3
  <2>6. \A j \in 1 .. Len(p) : Recorded(p, j, Len(p))
    BY <1>2, <2>2, <2>5 DEF Recorded
  <2> QED
    BY <2>2, <2>4, <2>6 DEF Neat
<1> QED
  BY <1>4, <1>5

(* What returns nothing, and then breaks off. *)
LEMMA NeatBroken == ASSUME NEW A, A \subseteq Silent PROVE A ** Broken \subseteq Neat
<1> SUFFICES ASSUME NEW p \in A ** Broken PROVE p \in Neat
  OBVIOUS
<1>1. PICK a \in A, b \in Broken : p = IF Ended(a) THEN a ELSE a \o b
  BY Composed
<1> DEFINE e == Step("error", 0, "none")
<1>2. e \in Steps /\ e.do = "error" /\ b = <<e>>
  BY DEF Step, Steps, Broken, End, Codes
<1> HIDE DEF e
<1>3. a \in Seq(Steps) /\ \A k \in 1 .. Len(a) : a[k].do # "return"
  <2>1. a \in Silent
    OBVIOUS
  <2> QED
    BY <2>1 DEF Silent
<1>4. CASE Ended(a)
  BY <1>1, <1>3, <1>4 DEF Neat
<1>5. CASE ~Ended(a)
  <2>1. p = a \o <<e>>
    BY <1>1, <1>2, <1>5
  <2>2. p \in Seq(Steps) /\ Len(p) = Len(a) + 1 /\ p[Len(a) + 1] = e /\ p # <<>>
    BY <1>2, <1>3, <2>1
  <2>3. \A k \in 1 .. Len(a) : p[k] = a[k]
    BY <1>2, <1>3, <2>1
  <2>4. \A k \in 1 .. Len(p) : p[k].do # "return"
    <3> TAKE k \in 1 .. Len(p)
    <3>1. k \in 1 .. Len(a) \/ k = Len(a) + 1
      BY <1>3, <2>2
    <3> QED
      BY <1>2, <1>3, <2>2, <2>3, <3>1
  <2>5. Ended(p)
    BY <1>2, <2>2, Ends DEF End
  <2> QED
    BY <2>2, <2>4, <2>5 DEF Neat
<1> QED
  BY <1>4, <1>5

LEMMA NeatHandler == ASSUME NEW r, NEW b PROVE Handler(r, b) \subseteq Neat
<1> DEFINE N == Neat
<1> DEFINE S == Silent
<1>1. /\ \A d \in Work \ Change : Do(d) \subseteq N
      /\ \A n \in Success : Reply(n) \subseteq N
      /\ \A n \in Nat, c \in Codes : Refuse(n, c) \subseteq N
      /\ ProviderFails \subseteq N /\ Broken \subseteq N
  <2>1. \A e \in Steps : e.do \in (Work \cup End) \ Change => {<<e>>} \subseteq N
    BY NeatOne
  <2>2. {"return", "throw", "provider", "error"} \subseteq (Work \cup End) \ Change
    BY DEF End, Change
  <2> HIDE DEF N
  <2>3. \A d \in (Work \cup End) \ Change : Do(d) \subseteq N
    BY <2>1, Made
  <2> QED
    BY <2>1, <2>2, <2>3, Made
<1>2. /\ \A d \in Work : Do(d) \subseteq S
      /\ \A n \in Nat, c \in Codes : Refuse(n, c) \subseteq S
      /\ ProviderFails \subseteq S /\ Broken \subseteq S
  <2>1. \A e \in Steps : e.do \in (Work \cup End) \ {"return"} => {<<e>>} \subseteq S
    BY Lone DEF Silent
  <2>2. {"throw", "provider", "error"} \subseteq (Work \cup End) \ {"return"}
    BY DEF End
  <2>3. \A d \in Work : d # "return"
    BY DEF Work, Effect, Change, Proof
  <2> HIDE DEF S
  <2>4. \A d \in (Work \cup End) \ {"return"} : Do(d) \subseteq S
    BY <2>1, Made
  <2> QED
    BY <2>1, <2>2, <2>3, <2>4, Made
<1>3. \A A, B : A \subseteq N /\ B \subseteq N => A ** B \subseteq N
  BY NeatThen
<1>4. \A A, B : A \subseteq S /\ B \subseteq S => A ** B \subseteq S
  BY SilentThen
<1>5. \A A : A \subseteq S => A ** Audit \subseteq N
  BY NeatAudit
<1>7. \A A : A \subseteq S => A ** Broken \subseteq N
  BY NeatBroken
<1>6. Skip \subseteq N /\ Skip \subseteq S
  <2>1. <<>> \in Seq(Steps) /\ Len(<<>>) = 0
    OBVIOUS
  <2> QED
    BY <2>1 DEF Skip, Neat, Silent
<1> HIDE DEF N, S
<1>9. {"read", "audit", "revoke", "rotate", "code", "guess", "spent", "message", "proof", "stub", "pending", "account", "session",
       "login", "status", "verification", "role", "identifier", "erasure", "entry", "profile"} \subseteq Work
  BY DEF Work, Effect, Change, Proof
<1>10. {"read", "audit", "revoke", "rotate", "code", "guess", "spent", "message", "proof", "stub", "session"} \subseteq Work \ Change
  BY <1>9 DEF Change
<1>11. /\ Do("read") \subseteq N /\ Do("audit") \subseteq N /\ Do("revoke") \subseteq N /\ Do("rotate") \subseteq N
       /\ Do("code") \subseteq N /\ Do("guess") \subseteq N /\ Do("spent") \subseteq N /\ Do("message") \subseteq N
       /\ Do("proof") \subseteq N /\ Do("stub") \subseteq N /\ Do("session") \subseteq N
  BY <1>1, <1>10
<1>12. /\ Do("read") \subseteq S /\ Do("audit") \subseteq S /\ Do("revoke") \subseteq S
       /\ Do("code") \subseteq S /\ Do("guess") \subseteq S /\ Do("message") \subseteq S /\ Do("pending") \subseteq S
       /\ Do("account") \subseteq S /\ Do("login") \subseteq S /\ Do("status") \subseteq S /\ Do("verification") \subseteq S
       /\ Do("role") \subseteq S /\ Do("identifier") \subseteq S /\ Do("erasure") \subseteq S /\ Do("entry") \subseteq S
       /\ Do("profile") \subseteq S
  BY <1>2, <1>9
<1>13. /\ Reply(200) \subseteq N /\ Reply(201) \subseteq N /\ Reply(202) \subseteq N /\ Reply(204) \subseteq N
       /\ Reply(304) \subseteq N
  BY <1>1 DEF Success
<1>14. /\ Refuse(400, "VALIDATION_ERROR") \subseteq N /\ Refuse(400, "INVALID_OTP") \subseteq N
       /\ Refuse(401, "UNAUTHENTICATED") \subseteq N /\ Refuse(403, "FORBIDDEN") \subseteq N
       /\ Refuse(404, "NOT_FOUND") \subseteq N /\ Refuse(409, "CONFLICT") \subseteq N
       /\ Refuse(412, "STALE_RESOURCE") \subseteq N
       /\ Refuse(428, "PRECONDITION_REQUIRED") \subseteq N /\ Refuse(429, "RATE_LIMITED") \subseteq N
       /\ Refuse(503, "UPSTREAM_UNAVAILABLE") \subseteq N /\ Refuse(503, "none") \subseteq N
  BY <1>1 DEF Codes
<1>15. /\ Refuse(400, "VALIDATION_ERROR") \subseteq S /\ Refuse(401, "UNAUTHENTICATED") \subseteq S
       /\ Refuse(403, "FORBIDDEN") \subseteq S /\ Refuse(404, "NOT_FOUND") \subseteq S
       /\ Refuse(409, "CONFLICT") \subseteq S /\ Refuse(429, "RATE_LIMITED") \subseteq S
  BY <1>2 DEF Codes
<1>16. /\ Read \subseteq N /\ Read \subseteq S /\ Audit \subseteq N /\ Audit \subseteq S /\ Invalid \subseteq N
       /\ Invalid \subseteq S /\ Logout \subseteq N /\ Logout \subseteq S /\ Guess \subseteq N /\ Guess \subseteq S
       /\ SpendCode \subseteq N
  BY <1>11, <1>12, <1>14, <1>15 DEF Read, Audit, Invalid, Logout, Guess, SpendCode
<1>17. LockedOut \subseteq N /\ LockedOut \subseteq S /\ IfMatch \subseteq N /\ IssueCode \subseteq N /\ IssueCode \subseteq S
  BY <1>3, <1>4, <1>6, <1>11, <1>12, <1>14, <1>15, <1>16 DEF LockedOut, IfMatch, IssueCode
<1>18. SendSms \subseteq S /\ SendEmail \subseteq N /\ IssueSession \subseteq N
  BY <1>1, <1>2, <1>3, <1>4, <1>6, <1>11, <1>12, <1>16 DEF SendSms, SendEmail, FetchJson, IssueSession
<1>19. \A kind, given : Do(kind) \subseteq S => InsertAccount(kind, b, given) \subseteq S
  BY <1>2, <1>16 DEF InsertAccount, When
<1>20. RegisterPhone(b) \subseteq N
  <2> DEFINE sent == (Skip \cup InsertAccount("pending", b, {"cityId", "fullName", "avatarUrl"}) \cup Refuse(409, "CONFLICT")) ** IssueCode ** SendSms
  <2>1. sent \subseteq S
    BY <1>4, <1>6, <1>12, <1>15, <1>17, <1>18, <1>19
  <2> HIDE DEF sent
  <2>2. sent ** Audit ** Reply(202) \subseteq N
    BY <1>3, <1>5, <1>13, <2>1
  <2>3. Read ** (Refuse(409, "CONFLICT") \cup sent ** Audit ** Reply(202)) \subseteq N
    BY <1>3, <1>14, <1>16, <2>2
  <2> QED
    BY <2>3 DEF RegisterPhone, sent
<1>21. VerifyPhone \subseteq N
  <2>1. LockedOut ** Do("verification") ** Audit ** Refuse(429, "RATE_LIMITED") \subseteq N
    BY <1>3, <1>4, <1>5, <1>12, <1>14, <1>17
  <2>2. Guess ** Read ** Do("verification") ** Audit ** Refuse(400, "INVALID_OTP") \subseteq N
    BY <1>3, <1>4, <1>5, <1>12, <1>14, <1>16
  <2>3. SpendCode ** Do("status") ** Audit ** IssueSession ** Reply(200) \subseteq N
    <3>1. Do("spent") \subseteq S
      BY <1>2, <1>9
    <3>2. SpendCode ** Do("status") \subseteq S
      BY <1>4, <1>12, <3>1 DEF SpendCode
    <3> QED
      BY <1>3, <1>5, <1>13, <1>18, <3>2
  <2> DEFINE cases == Invalid \cup Refuse(409, "CONFLICT")
                       \cup LockedOut ** Do("verification") ** Audit ** Refuse(429, "RATE_LIMITED")
                       \cup Guess ** Read ** Do("verification") ** Audit ** Refuse(400, "INVALID_OTP")
                       \cup SpendCode ** Do("status") ** Audit ** IssueSession ** Reply(200)
  <2>4. cases \subseteq N
    BY <1>14, <1>16, <2>1, <2>2, <2>3
  <2> HIDE DEF cases
  <2>5. Read ** cases \subseteq N
    BY <1>3, <1>16, <2>4
  <2> QED
    BY <2>5 DEF VerifyPhone, cases
<1>22. OAuth(b) \subseteq N
  <2> DEFINE found == (Refuse(403, "FORBIDDEN") \cup Do("login")) ** Audit ** IssueSession ** Reply(200)
  <2> DEFINE created == InsertAccount("account", b, {"cityId"}) ** Audit ** IssueSession ** Reply(201)
  <2>1. Resolve(b) \subseteq N
    BY <1>1, <1>3, <1>6, <1>11, <1>14, <1>16 DEF Resolve, TelegramVerify, StubVerify
  <2>2. found \subseteq N
    BY <1>3, <1>5, <1>12, <1>13, <1>15, <1>18
  <2>3. created \subseteq N
    BY <1>3, <1>5, <1>12, <1>13, <1>18, <1>19
  <2> HIDE DEF found, created
  <2>4. Resolve(b) ** Read \subseteq N
    BY <1>3, <1>16, <2>1
  <2>5. Resolve(b) ** Read ** (found \cup created \cup Broken \cup Read ** (found \cup Broken)) \subseteq N
    BY <1>1, <1>3, <1>16, <2>2, <2>3, <2>4
  <2> QED
    BY <2>5 DEF OAuth, found, created
<1>23. RecoverEmailRequest \subseteq N
  BY <1>3, <1>13, <1>16, <1>17, <1>18 DEF RecoverEmailRequest
<1>24. RecoverEmailVerify \subseteq N
  <2> DEFINE restored == (Do("status") \cup Do("login")) ** Audit ** IssueSession ** Reply(200)
  <2>1. restored \subseteq N
    BY <1>3, <1>5, <1>12, <1>13, <1>18
  <2>2. LockedOut ** Audit ** Refuse(429, "RATE_LIMITED") \subseteq N /\ Guess ** Refuse(400, "INVALID_OTP") \subseteq N
    BY <1>3, <1>14, <1>16, <1>17
  <2> HIDE DEF restored
  <2>3. SpendCode ** (Refuse(403, "FORBIDDEN") \cup restored) \subseteq N
    BY <1>3, <1>14, <1>16, <2>1
  <2> DEFINE cases == Refuse(400, "INVALID_OTP") \cup LockedOut ** Audit ** Refuse(429, "RATE_LIMITED")
                        \cup Guess ** Refuse(400, "INVALID_OTP") \cup SpendCode ** (Refuse(403, "FORBIDDEN") \cup restored)
  <2>4. cases \subseteq N
    BY <1>14, <2>2, <2>3
  <2> HIDE DEF cases
  <2>5. Read ** cases \subseteq N
    BY <1>3, <1>16, <2>4
  <2> QED
    BY <2>5 DEF RecoverEmailVerify, restored, cases
<1>25. IdentityController(r, b) \subseteq N
  BY <1>20, <1>21, <1>22, <1>23, <1>24 DEF IdentityController, When
<1>26. Refresh \subseteq N /\ LogoutRoute(b) \subseteq N /\ DevToken \subseteq N
  BY <1>3, <1>6, <1>11, <1>13, <1>14, <1>16, <1>18 DEF Refresh, LogoutRoute, DevToken
<1>29. AuthController(r, b) \subseteq N
  BY <1>13, <1>26 DEF AuthController, When
<1>30. LoadMe \subseteq N /\ LoadMe \subseteq S
  BY <1>3, <1>4, <1>6, <1>14, <1>15, <1>16 DEF LoadMe
<1>31. GetMe \subseteq N
  BY <1>3, <1>13, <1>30 DEF GetMe, Conditional
<1>32. UpdateMe(b) \subseteq N
  <2>1. Do("profile") ** Audit ** Reply(200) \subseteq N
    BY <1>3, <1>5, <1>12, <1>13
  <2>2. LoadMe ** IfMatch \subseteq N
    BY <1>3, <1>17, <1>30
  <2> QED
    BY <1>1, <1>3, <1>13, <1>16, <2>1, <2>2 DEF UpdateMe, When
<1>33. Deactivate \subseteq N /\ Reactivate \subseteq N /\ EraseMe \subseteq N
  <2>1. Do("status") ** Logout ** Audit ** Reply(200) \subseteq N /\ Do("status") ** Audit ** Reply(200) \subseteq N
    BY <1>3, <1>4, <1>5, <1>12, <1>13, <1>16
  <2>2. LoadMe ** (Skip \cup Do("status") ** Logout) \subseteq S
    BY <1>4, <1>6, <1>12, <1>16, <1>30
  <2>3. EraseMe \subseteq N
    BY <1>3, <1>5, <1>13, <2>2 DEF EraseMe
  <2>4. Deactivate \subseteq N
    BY <1>3, <1>13, <1>14, <1>30, <2>1 DEF Deactivate
  <2>5. Reactivate \subseteq N
    BY <1>3, <1>16, <1>30, <2>1 DEF Reactivate
  <2> QED
    BY <2>3, <2>4, <2>5
<1>34. MeController(r, b) \subseteq N
  BY <1>31, <1>32, <1>33 DEF MeController, When
<1>35. LoadTarget \subseteq N
  BY <1>3, <1>6, <1>14, <1>16 DEF LoadTarget
<1>36. SetRole \subseteq N /\ EraseUser \subseteq N
  <2>1. Do("role") ** Logout ** Audit ** Reply(200) \subseteq N /\ Do("erasure") ** Logout ** Audit ** Reply(200) \subseteq N
    BY <1>3, <1>4, <1>5, <1>12, <1>13, <1>16
  <2> QED
    BY <1>3, <1>13, <1>35, <2>1 DEF SetRole, EraseUser
<1>37. Rebind(b) \subseteq N
  <2> DEFINE record == IF Unexpected(b, "reason") THEN Broken ELSE Audit
             write == (Refuse(409, "CONFLICT") \cup Do("identifier")) ** Logout ** record ** Reply(200)
             made == (Refuse(409, "CONFLICT") \cup Do("identifier")) ** Logout
  <2>5. made \subseteq S
    BY <1>4, <1>12, <1>15, <1>16
  <2> HIDE DEF made
  <2>6. made ** record \subseteq N
    BY <1>5, <1>7, <2>5
  <2>1. write \subseteq N
    BY <1>3, <1>13, <2>6 DEF made
  <2> HIDE DEF write, record
  <2> DEFINE bind == IF "oauthId" \notin b.has \/ Null(b, "oauthId") THEN Invalid
                     ELSE IF Null(b, "oauthProvider") \/ Unexpected(b, "oauthId") THEN Broken ELSE Invalid \cup write
  <2>2. bind \subseteq N
    BY <1>1, <1>16, <2>1
  <2> HIDE DEF bind
  <2> DEFINE rest == IF "newPhone" \in b.has <=> "oauthProvider" \in b.has THEN Invalid
                     ELSE IF "newPhone" \in b.has THEN (IF Null(b, "newPhone") THEN Invalid ELSE write)
                     ELSE bind \cup When("clear" \in b.has /\ ~Null(b, "clear"), IF Null(b, "oauthProvider") THEN Broken ELSE write)
  <2>3. rest \subseteq N
    BY <1>1, <1>16, <2>1, <2>2 DEF When
  <2> HIDE DEF rest
  <2>4. LoadTarget ** rest \subseteq N
    BY <1>3, <1>35, <2>3
  <2> QED
    BY <2>4 DEF Rebind, rest, bind, write, record
<1>38. AdminUserController(r, b) \subseteq N
  BY <1>36, <1>37 DEF AdminUserController, When
<1>39. List(b) \subseteq N /\ Form \subseteq N
  BY <1>1, <1>3, <1>13, <1>16 DEF List, Form
<1>40. Entry(b) \subseteq N /\ Entry(b) \subseteq S
  BY <1>1, <1>2, <1>3, <1>4, <1>6, <1>14, <1>15, <1>16 DEF Entry
<1>41. Entry(b) ** Reply(200) \subseteq N
  BY <1>3, <1>13, <1>40
<1>42. ToggleActive(b) \subseteq N
  BY <1>3, <1>4, <1>5, <1>12, <1>13, <1>40 DEF ToggleActive
<1>43. Create(b) \subseteq N
  <2>1. Do("entry") ** Audit ** Reply(201) \subseteq N
    BY <1>3, <1>5, <1>12, <1>13
  <2> DEFINE species == IF "speciesId" \notin Caps(b.subject) THEN Skip
                        ELSE IF Null(b, "speciesId") \/ Unexpected(b, "speciesId") THEN Broken ELSE Read ** (Skip \cup Invalid)
  <2>2. species \subseteq N
    BY <1>1, <1>3, <1>6, <1>16
  <2> HIDE DEF species
  <2>3. (Skip \cup Invalid) ** species \subseteq N
    BY <1>3, <1>6, <1>16, <2>2
  <2> DEFINE rest == IF Null(b, "market") \/ Unexpected(b, "sortOrder") \/ Unexpected(b, "nameLocalized") THEN Broken
                     ELSE Refuse(409, "CONFLICT") \cup Do("entry") ** Audit ** Reply(201)
  <2>4. rest \subseteq N
    BY <1>1, <1>14, <2>1
  <2> HIDE DEF rest
  <2>5. (Skip \cup Invalid) ** species ** rest \subseteq N
    BY <1>3, <2>3, <2>4
  <2> QED
    BY <1>16, <2>5 DEF Create, species, rest
<1>44. Update(b) \subseteq N
  <2>1. Do("entry") ** Audit ** Reply(200) \subseteq N
    BY <1>3, <1>5, <1>12, <1>13
  <2>2. Entry(b) ** IfMatch \subseteq N
    BY <1>3, <1>17, <1>40
  <2> DEFINE named == IF "nameLocalized" \in b.has \ Param /\ ~Null(b, "nameLocalized") THEN Skip \cup Invalid ELSE Skip
  <2> DEFINE write == IF b.class \in {"null", "unexpected"} THEN Broken
                      ELSE When("market" \in b.has \ Param /\ b.subject \in {"health_certifications", "genetic_markers"}, Broken)
                             \cup Do("entry") ** Audit ** Reply(200)
  <2>3. named \subseteq N
    BY <1>6, <1>16
  <2>4. write \subseteq N
    BY <1>1, <2>1 DEF When
  <2> HIDE DEF named, write
  <2>5. named ** write \subseteq N
    BY <1>3, <2>3, <2>4
  <2> DEFINE rest == IF "market" \in b.has /\ "market" \notin Caps(b.subject) THEN Invalid
                     ELSE IF b.has \ Param = {} THEN Invalid ELSE named ** write
  <2>6. rest \subseteq N
    BY <1>16, <2>5
  <2> HIDE DEF rest
  <2>7. Entry(b) ** IfMatch ** rest \subseteq N
    BY <1>3, <2>2, <2>6
  <2> QED
    BY <2>7 DEF Update, rest, named, write
<1>45. ReferenceDataController(r, b) \subseteq N
  BY <1>39, <1>41, <1>42, <1>43, <1>44 DEF ReferenceDataController, When
<1>46. HealthController(r) \subseteq N /\ MetricsController(r) \subseteq N
  <2>1. PrismaHealthy ** RedisHealthy \subseteq N
    BY <1>3, <1>6, <1>14 DEF PrismaHealthy, RedisHealthy, Bare
  <2>2. Ready \subseteq N
    BY <1>3, <1>13, <2>1 DEF Ready
  <2> QED
    BY <1>13, <2>2 DEF HealthController, MetricsController, When
<1>47. Handler(r, b) \subseteq N
  BY <1>25, <1>29, <1>34, <1>38, <1>45, <1>46 DEF Handler
<1> QED
  BY <1>47 DEF N

-----------------------------------------------------------------------------
(* The invariant of the process. *)
Statuses == {0, 200, 201, 202, 204, 304, 400, 401, 403, 404, 409, 412, 422, 428, 429, 500, 503}
Excused ==
  \/ outage
  \/ CausedBy(req.route, req.class, req.subject)
Granted(user) == (IF user = "ADMIN" THEN {"role", "identifier", "erasure", "entry"} ELSE {})
                   \cup (IF user # "nobody" THEN {"profile"} ELSE {})
May == Granted(req.user) \cup (IF Excused THEN {"error"} ELSE {})
Doings == {d \in Effect \cup Proof : d \in Guarded => d \in Granted(req.user)}

Typed ==
  /\ conf \in [up : BOOLEAN, production : BOOLEAN, sms : BOOLEAN, mail : BOOLEAN, telegram : BOOLEAN]
  /\ req.route \in Route \cup {"none"} /\ req.user \in Role \cup {"nobody"}
  /\ req \in [route : {req.route}, user : {req.user}, class : {req.class}, subject : {req.subject}]
  /\ todo \in Paths(May)
  /\ trace \in Seq(Doings)
  /\ answer.status \in Statuses /\ (answer.status = 500 => Excused)
  /\ outage \in BOOLEAN

(* Where a request may be: none, before its handler with nothing done, on its way to an end, or answered. *)
Placed ==
  /\ req = NoRequest => todo = <<>> /\ trace = <<>> /\ answer = Unanswered
  /\ req # NoRequest => req.route \in Route
  /\ ~conf.up => req = NoRequest
  /\ answer # Unanswered => todo = <<>>
  /\ req # NoRequest /\ answer = Unanswered =>
       \/ Ended(todo)
       \/ /\ Cleared(req.route, req.user) /\ trace = <<>>
          /\ \A k \in 1 .. Len(todo) : todo[k].do = "read"

(* The session to come, and that which was issued, have their ground. *)
Grounded ==
  conf.production =>
    /\ \A k \in 1 .. Len(todo) : todo[k].do = "session" =>
         \/ \E i \in 1 .. Len(trace) : trace[i] \in Ground
         \/ \E j \in 1 .. k : todo[j].do \in Ground
    /\ \A i \in 1 .. Len(trace) : trace[i] = "session" => \E j \in 1 .. i : trace[j] \in Ground

(* The refusal to come has nothing before it that may not stay. *)
Sparing ==
  \A k \in 1 .. Len(todo) : Refuses(todo[k]) =>
    /\ \A i \in 1 .. Len(trace) : trace[i] \in Spared
    /\ \A j \in 1 .. k : todo[j].do \in Spared

(* The success to come has an audit row after every change. *)
Recording ==
  \A k \in 1 .. Len(todo) : todo[k].do = "return" =>
    /\ \A i \in 1 .. Len(trace) : trace[i] \in Change =>
         \/ \E m \in i .. Len(trace) : trace[m] = "audit"
         \/ \E m \in 1 .. k : todo[m].do = "audit"
    /\ \A j \in 1 .. k : todo[j].do \in Change => Recorded(todo, j, k)

RInv == Typed /\ Placed /\ Grounded /\ Sparing /\ Recording

LEMMA Widens == ASSUME NEW X, NEW Y, X \subseteq Y PROVE Paths(X) \subseteq Paths(Y)
<1>1. Fits(X) \subseteq Fits(Y)
  BY DEF Fits
<1> QED
  BY <1>1 DEF Paths

(* A body that the pipes refuse. *)
LEMMA Malformed == ASSUME NEW can
                   PROVE  Bare(400) \subseteq Paths(can) /\ Bare(400) \subseteq Finish /\ Bare(400) \subseteq Vetted
                          /\ Bare(400) \subseteq Fair /\ Bare(400) \subseteq Neat
<1> DEFINE e == Step("throw", 400, "none")
<1>1. e \in Steps /\ e.do = "throw" /\ e.do \in End /\ e.do \notin Change /\ e.do # "session"
  BY DEF Steps, Step, End, Codes, Change
<1>2. Bare(400) = {<<e>>}
  BY DEF Bare, Refuse
<1>3. Bare(400) \subseteq Paths(can)
  BY FitFragments DEF Fragments, Bare
<1>4. Bare(400) \subseteq Finish
  BY FinishIn DEF Bare, Codes
<1> HIDE DEF e
<1> QED
  BY <1>1, <1>2, <1>3, <1>4, VettedOne, FairOne, NeatOne

(* A body that cannot be read. *)
LEMMA BrokenOff == ASSUME NEW can, "error" \in can
                   PROVE  Broken \subseteq Paths(can) /\ Broken \subseteq Finish /\ Broken \subseteq Vetted
                          /\ Broken \subseteq Fair /\ Broken \subseteq Neat
<1> DEFINE e == Step("error", 0, "none")
<1>1. e \in Steps /\ e.do = "error" /\ e.do \in End /\ e.do \notin Change /\ e.do # "session"
  BY DEF Steps, Step, End, Codes, Change
<1>2. Broken = {<<e>>}
  BY DEF Broken
<1>3. e \in Fits(can)
  BY <1>1 DEF Fits
<1>4. Broken \subseteq Finish
  BY FinishIn
<1> HIDE DEF e
<1>5. Broken \subseteq Paths(can)
  BY <1>2, <1>3, Lone DEF Paths
<1> QED
  BY <1>1, <1>2, <1>4, <1>5, VettedOne, FairOne, NeatOne

(* What is made of a body by the pipes and the handler. *)
LEMMA Handled ==
  ASSUME NEW r, NEW b, NEW can, Licensed(r, b, can), NEW p \in Handling(r, b)
  PROVE  p \in Paths(can) /\ p \in Finish /\ p \in Fair /\ p \in Neat /\ (conf.production => p \in Vetted)
<1>1. p \in Handler(r, b) \/ p \in Bare(400) \/ ("error" \in can /\ p \in Broken)
  BY DEF Handling, When, Licensed, CausedBy
<1> QED
  BY <1>1, Malformed, BrokenOff, FitHandler, FinishHandler, FairHandler, NeatHandler, VettedHandler

(* What the steps of the process do to what is to come. *)
LEMMA Performed ==
  ASSUME Typed, Perform
  PROVE  /\ todo \in Seq(Steps) /\ 1 \in 1 .. Len(todo) /\ todo[1] \in Fits(May) /\ todo[1].do \notin End
         /\ todo' \in Paths(May) /\ Len(todo') = Len(todo) - 1
         /\ \A k \in 1 .. Len(todo') : todo'[k] = todo[k + 1] /\ k + 1 \in 1 .. Len(todo)
         /\ trace' = IF todo[1].do = "read" THEN trace ELSE Append(trace, todo[1].do)
<1>1. todo \in Seq(Fits(May)) /\ todo # <<>>
  BY DEF Typed, Perform, Paths
<1>2. Fits(May) \subseteq Steps
  BY DEF Fits
<1>3. 1 \in 1 .. Len(todo) /\ Head(todo) = todo[1] /\ todo[1] \in Fits(May)
  BY <1>1
<1>4. <<todo[1]>> \in Seq(Steps) /\ Len(<<todo[1]>>) = 1 /\ <<todo[1]>>[1] = todo[1] /\ <<todo[1]>> # <<>>
  BY <1>2, <1>3
<1>5. ~Ended(<<todo[1]>>)
  BY <1>3 DEF Perform
<1>6. todo[1].do \notin End
  BY <1>4, <1>5, Ends
<1>7. todo \in Seq(Steps)
  BY <1>1, <1>2
<1>8. todo' = Tail(todo)
  BY DEF Perform
<1>9. todo' \in Paths(May) /\ Len(todo') = Len(todo) - 1
      /\ \A k \in 1 .. Len(todo') : todo'[k] = todo[k + 1] /\ k + 1 \in 1 .. Len(todo)
  BY <1>1, <1>8 DEF Paths
<1>10. trace' = IF todo[1].do = "read" THEN trace ELSE Append(trace, todo[1].do)
  BY <1>3 DEF Perform, Traced
<1> QED
  BY <1>3, <1>6, <1>7, <1>9, <1>10

LEMMA InitInv == Init => RInv
<1> SUFFICES ASSUME Init PROVE RInv
  OBVIOUS
<1>1. Typed
  <2>1. conf \in [up : BOOLEAN, production : BOOLEAN, sms : BOOLEAN, mail : BOOLEAN, telegram : BOOLEAN]
    BY DEF Init
  <2>2. req.route = "none" /\ req.user = "nobody"
    BY DEF Init, NoRequest
  <2>3. req \in [route : {req.route}, user : {req.user}, class : {req.class}, subject : {req.subject}]
    BY DEF Init, NoRequest
  <2>4. todo \in Paths(May) /\ trace \in Seq(Doings)
    BY DEF Init, Paths
  <2>5. answer.status = 0 /\ outage \in BOOLEAN
    BY DEF Init, Unanswered
  <2> QED
    BY <2>1, <2>2, <2>3, <2>4, <2>5 DEF Typed, Statuses
<1>2. todo = <<>> /\ trace = <<>> /\ Len(todo) = 0 /\ Len(trace) = 0
  BY DEF Init
<1>3. Placed
  BY <1>2 DEF Init, Placed
<1>4. Grounded /\ Sparing /\ Recording
  BY <1>2 DEF Grounded, Sparing, Recording
<1> QED
  BY <1>1, <1>3, <1>4 DEF RInv

LEMMA BootStep == ASSUME RInv, NEW e \in Env, Boot(e) PROVE RInv'
<1>0. RInv /\ ~conf.up /\ conf' = Configured(e) /\ UNCHANGED <<req, todo, trace, answer, outage>>
  BY DEF Boot
<1>1. conf' \in [up : BOOLEAN, production : BOOLEAN, sms : BOOLEAN, mail : BOOLEAN, telegram : BOOLEAN]
  BY <1>0 DEF Configured, Env
<1>2. Typed'
  BY <1>0, <1>1 DEF RInv, Typed, Paths, Fits, May, Granted, Excused, Doings
<1>3. req = NoRequest /\ conf'.up
  BY <1>0 DEF RInv, Placed, Configured
<1>4. Placed'
  BY <1>0, <1>3 DEF RInv, Placed
<1>5. todo' = <<>> /\ trace' = <<>> /\ Len(todo') = 0 /\ Len(trace') = 0
  BY <1>0, <1>3 DEF RInv, Placed
<1>6. Grounded' /\ Sparing' /\ Recording'
  BY <1>5 DEF Grounded, Sparing, Recording
<1> QED
  BY <1>2, <1>4, <1>6 DEF RInv

LEMMA GatePaths == ASSUME NEW can PROVE Gate \subseteq Paths(can)
<1>1. Plain \subseteq Fits(can)
  BY DEF Plain, Fits
<1>2. Seq(Plain) \subseteq Seq(Fits(can))
  BY <1>1
<1> QED
  BY <1>2 DEF Gate, Paths

LEMMA ArriveStep ==
  ASSUME RInv, NEW r \in Route, NEW cred \in Role \cup {"none", "bad"}, Arrive(r, cred)
  PROVE  RInv'
<1>0. /\ conf.up /\ req = NoRequest
      /\ req' = [NoRequest EXCEPT !.route = r, !.user = Principal(r, cred)]
      /\ todo' \in Admission(r, cred)
      /\ UNCHANGED <<conf, trace, answer, outage>>
  BY DEF Arrive
<1>1. todo = <<>> /\ trace = <<>> /\ answer = Unanswered
  BY <1>0 DEF RInv, Placed
<1> DEFINE user == Principal(r, cred)
<1>2. req' = [route |-> r, user |-> user, class |-> "fit", subject |-> "other"]
  BY <1>0 DEF NoRequest
<1>3. user \in Role \cup {"nobody"}
  BY DEF Principal, TryAuthenticate, OptionalPrincipal
<1>4. todo' \in Gate
  BY <1>0, GateAdmission
<1>5. ~Cleared(r, user) => Ended(todo')
  BY <1>0, Refused DEF Finish
<1> HIDE DEF user
<1>6. req'.route = r /\ req'.user = user /\ req' # NoRequest
  BY <1>2, RouteAssumption DEF NoRequest
<1>7. Typed'
  <2>1. todo' \in Paths(May')
    BY <1>4, GatePaths
  <2>2. trace' \in Seq(Doings')
    BY <1>0, <1>1
  <2>3. answer'.status = 0
    BY <1>0, <1>1 DEF Unanswered
  <2>4. req' \in [route : {req'.route}, user : {req'.user}, class : {req'.class}, subject : {req'.subject}]
    BY <1>2
  <2> QED
    BY <1>0, <1>3, <1>6, <2>1, <2>2, <2>3, <2>4 DEF RInv, Typed, Statuses
<1>8. todo' \in Seq(Plain) /\ \A i \in 1 .. Len(todo') : i < Len(todo') => todo'[i].do = "read"
  BY <1>4 DEF Gate
<1>9. \A i \in 1 .. Len(todo') : todo'[i].do \in {"read", "return", "throw"}
  BY <1>8 DEF Plain
<1>10. Ended(todo') \/ \A k \in 1 .. Len(todo') : todo'[k].do = "read"
  <2>1. todo' \in Seq(Steps)
    BY <1>4, GateSteps
  <2>2. CASE todo' = <<>>
    BY <2>2
  <2>3. CASE todo' # <<>>
    <3>1. Len(todo') \in 1 .. Len(todo')
      BY <2>1, <2>3
    <3>2. CASE todo'[Len(todo')].do \in End
      BY <2>1, <2>3, <3>2, Ends
    <3>3. CASE todo'[Len(todo')].do \notin End
      <4>1. todo'[Len(todo')].do = "read"
        BY <1>9, <3>1, <3>3 DEF End
      <4>2. \A k \in 1 .. Len(todo') : k < Len(todo') \/ k = Len(todo')
        BY <2>1
      <4> QED
        BY <1>8, <4>1, <4>2
    <3> QED
      BY <3>2, <3>3
  <2> QED
    BY <2>2, <2>3
<1>11. Placed'
  BY <1>0, <1>1, <1>5, <1>6, <1>10 DEF Placed
<1>12. trace' = <<>> /\ Len(trace') = 0
  BY <1>0, <1>1
<1>13. Grounded'
  BY <1>9, <1>12 DEF Grounded
<1>14. {"read", "return", "throw"} \subseteq Spared /\ {"read", "return", "throw"} \cap Change = {}
  BY DEF Spared, End, Change
<1>15. \A k \in 1 .. Len(todo') : \A j \in 1 .. k : j \in 1 .. Len(todo')
  BY <1>8
<1>16. Sparing'
  BY <1>9, <1>12, <1>14, <1>15 DEF Sparing
<1>17. Recording'
  BY <1>9, <1>12, <1>14, <1>15 DEF Recording
<1> QED
  BY <1>7, <1>11, <1>13, <1>16, <1>17 DEF RInv

(* A request that ends before the guards. *)
LEMMA GarbledStep == ASSUME RInv, NEW r \in Route, Garbled(r) PROVE RInv'
<1>0. /\ conf.up /\ req = NoRequest
      /\ req' = [NoRequest EXCEPT !.route = r, !.class = "unreadable"]
      /\ todo' \in Bare(400) \cup Broken
      /\ UNCHANGED <<conf, trace, answer, outage>>
  BY DEF Garbled
<1>1. todo = <<>> /\ trace = <<>> /\ answer = Unanswered
  BY <1>0 DEF RInv, Placed
<1>2. req' = [route |-> r, user |-> "nobody", class |-> "unreadable", subject |-> "other"]
  BY <1>0 DEF NoRequest
<1>3. req'.route = r /\ req'.user = "nobody" /\ req' # NoRequest
  BY <1>2, RouteAssumption DEF NoRequest
<1>4. "error" \in May'
  BY <1>2 DEF May, Excused, CausedBy
<1>5. todo' \in Paths(May') /\ todo' \in Finish /\ todo' \in Fair /\ todo' \in Neat /\ todo' \in Vetted
  <2> DEFINE can == May'
  <2>1. "error" \in can
    BY <1>4
  <2> HIDE DEF can
  <2>2. \A p \in Bare(400) \cup Broken : p \in Paths(can) /\ p \in Finish /\ p \in Fair /\ p \in Neat /\ p \in Vetted
    BY <2>1, Malformed, BrokenOff
  <2> QED
    BY <1>0, <2>2 DEF can
<1>6. Typed'
  <2>1. trace' \in Seq(Doings')
    BY <1>0, <1>1
  <2>2. answer'.status = 0
    BY <1>0, <1>1 DEF Unanswered
  <2>3. req' \in [route : {req'.route}, user : {req'.user}, class : {req'.class}, subject : {req'.subject}]
    BY <1>2
  <2> QED
    BY <1>0, <1>3, <1>5, <2>1, <2>2, <2>3 DEF RInv, Typed, Statuses
<1>7. Placed'
  <2>1. Ended(todo')
    BY <1>5 DEF Finish
  <2> QED
    BY <1>0, <1>1, <1>3, <2>1 DEF Placed
<1>8. trace' = <<>> /\ Len(trace') = 0
  BY <1>0, <1>1
<1>9. Grounded'
  BY <1>5, <1>8 DEF Grounded, Vetted
<1>10. Sparing'
  BY <1>5, <1>8 DEF Sparing, Fair
<1>11. Recording'
  BY <1>5, <1>8 DEF Recording, Neat
<1> QED
  BY <1>6, <1>7, <1>9, <1>10, <1>11 DEF RInv

LEMMA EnterStep == ASSUME RInv, Enter PROVE RInv'
<1>1. PICK b \in Bodies(req.route) :
        /\ req' = [req EXCEPT !.class = b.class, !.subject = b.subject]
        /\ todo' \in Handling(req.route, b)
  BY DEF Enter
<1>2. req # NoRequest /\ todo = <<>> /\ answer = Unanswered /\ UNCHANGED <<conf, trace, answer, outage>>
  BY DEF Enter
<1>3. ~Ended(todo)
  BY <1>2 DEF Ended
<1>4. Cleared(req.route, req.user) /\ trace = <<>>
  BY <1>2, <1>3 DEF RInv, Placed
<1>5. req' = [route |-> req.route, user |-> req.user, class |-> b.class, subject |-> b.subject]
  BY <1>1 DEF RInv, Typed
<1>6. Licensed(req.route, b, May')
  BY <1>4, <1>5 DEF Licensed, Cleared, May, Granted, Excused
<1>7. todo' \in Paths(May') /\ todo' \in Finish /\ todo' \in Fair /\ todo' \in Neat /\ (conf.production => todo' \in Vetted)
  <2> DEFINE can == May'
  <2>1. Licensed(req.route, b, can)
    BY <1>6
  <2> HIDE DEF can
  <2>2. \A p \in Handling(req.route, b) :
          p \in Paths(can) /\ p \in Finish /\ p \in Fair /\ p \in Neat /\ (conf.production => p \in Vetted)
    BY <2>1, Handled
  <2> QED
    BY <1>1, <2>2 DEF can
<1>8. Typed'
  <2>1. req'.route = req.route /\ req'.user = req.user
    BY <1>5
  <2>2. trace' \in Seq(Doings')
    BY <1>2, <1>4
  <2>3. answer'.status = 0
    BY <1>2 DEF Unanswered
  <2>4. req' \in [route : {req'.route}, user : {req'.user}, class : {req'.class}, subject : {req'.subject}]
    BY <1>5
  <2> QED
    BY <1>2, <1>7, <2>1, <2>2, <2>3, <2>4 DEF RInv, Typed, Statuses
<1>9. Placed'
  <2>1. Ended(todo')
    BY <1>7 DEF Finish
  <2>2. req'.route = req.route
    BY <1>5
  <2>3. req' # NoRequest
    <3>1. req.route # "none"
      BY <1>2, RouteAssumption DEF RInv, Placed
    <3> QED
      BY <2>2, <3>1 DEF NoRequest
  <2> QED
    BY <1>2, <2>1, <2>2, <2>3 DEF RInv, Placed
<1>10. trace' = <<>> /\ Len(trace') = 0
  BY <1>2, <1>4
<1>11. Grounded'
  BY <1>2, <1>7, <1>10 DEF Grounded, Vetted
<1>12. Sparing'
  BY <1>7, <1>10 DEF Sparing, Fair
<1>13. Recording'
  BY <1>7, <1>10 DEF Recording, Neat
<1> QED
  BY <1>8, <1>9, <1>11, <1>12, <1>13 DEF RInv

(* What the trace becomes. *)
LEMMA Traces ==
  ASSUME NEW D, NEW t \in Seq(D), NEW d \in D, NEW u, u = Append(t, d)
  PROVE  /\ u \in Seq(D) /\ Len(u) = Len(t) + 1 /\ Len(t) \in Nat
         /\ u[Len(t) + 1] = d /\ Len(t) + 1 \in 1 .. Len(u)
         /\ \A i \in 1 .. Len(t) : u[i] = t[i] /\ i \in 1 .. Len(u)
         /\ \A i \in 1 .. Len(u) : i \in 1 .. Len(t) \/ i = Len(t) + 1
OBVIOUS

LEMMA PerformStep == ASSUME RInv, Perform PROVE RInv'
<1>0. UNCHANGED <<conf, req, answer, outage>>
  BY DEF Perform
<1> DEFINE d == todo[1].do
<1>1. Typed
  BY DEF RInv
<1>2. /\ todo \in Seq(Steps) /\ 1 \in 1 .. Len(todo) /\ todo[1] \in Fits(May) /\ d \notin End
      /\ todo' \in Paths(May) /\ Len(todo') = Len(todo) - 1
      /\ \A k \in 1 .. Len(todo') : todo'[k] = todo[k + 1] /\ k + 1 \in 1 .. Len(todo)
      /\ trace' = IF d = "read" THEN trace ELSE Append(trace, d)
  BY <1>1, Performed
<1>3. d \in Work /\ (d \in Guarded => d \in Granted(req.user))
  BY <1>2 DEF Fits, Steps, May, End
<1>4. d # "read" => d \in Doings
  BY <1>3 DEF Doings, Work
<1>5. May' = May /\ Doings' = Doings
  BY <1>0 DEF May, Doings, Granted, Excused
<1>6. trace \in Seq(Doings)
  BY <1>1 DEF Typed
<1> DEFINE n == Len(trace)
<1>7. Typed'
  <2>1. trace' \in Seq(Doings)
    BY <1>2, <1>4, <1>6
  <2>2. Excused' <=> Excused
    BY <1>0 DEF Excused
  <2> QED
    BY <1>0, <1>1, <1>2, <1>5, <2>1, <2>2 DEF Typed
<1>8. Placed'
  <2>1. todo # <<>> /\ req # NoRequest /\ answer = Unanswered
    BY <1>2 DEF RInv, Placed
  <2>2. CASE Ended(todo)
    <3>1. todo[Len(todo)].do \in End
      BY <1>2, <2>2, Ends
    <3>2. Len(todo) \in Nat /\ Len(todo) # 1
      BY <1>2, <3>1
    <3>3. todo' \in Seq(Steps)
      BY <1>2 DEF Paths, Fits
    <3>4. Len(todo') \in 1 .. Len(todo') /\ Len(todo') + 1 = Len(todo)
      BY <1>2, <3>2
    <3>5. todo'[Len(todo')].do \in End /\ todo' # <<>>
      BY <1>2, <3>1, <3>3, <3>4
    <3>6. Ended(todo')
      BY <3>3, <3>5, Ends
    <3> QED
      BY <1>0, <2>1, <3>6 DEF RInv, Placed
  <2>3. CASE /\ Cleared(req.route, req.user) /\ trace = <<>>
             /\ \A k \in 1 .. Len(todo) : todo[k].do = "read"
    <3>1. \A k \in 1 .. Len(todo') : todo'[k].do = "read"
      BY <1>2, <2>3
    <3>2. trace' = <<>>
      BY <1>2, <2>3
    <3> QED
      BY <1>0, <2>1, <2>3, <3>1, <3>2 DEF RInv, Placed
  <2> QED
    BY <2>1, <2>2, <2>3 DEF RInv, Placed
<1> HIDE DEF d
<1>9. /\ n \in Nat /\ Len(trace') \in Nat
      /\ \A i \in 1 .. n : trace'[i] = trace[i] /\ i \in 1 .. Len(trace')
      /\ d # "read" => n + 1 \in 1 .. Len(trace') /\ trace'[n + 1] = d
      /\ \A i \in 1 .. Len(trace') : i \in 1 .. n \/ (i = n + 1 /\ d # "read")
  <2>1. CASE d = "read"
    BY <1>2, <1>6, <2>1
  <2>2. CASE d # "read"
    <3>1. d \in Doings /\ trace' = Append(trace, d)
      BY <1>2, <1>4, <2>2
    <3>2. /\ trace' \in Seq(Doings) /\ Len(trace') = n + 1 /\ n \in Nat
          /\ trace'[n + 1] = d /\ n + 1 \in 1 .. Len(trace')
          /\ \A i \in 1 .. n : trace'[i] = trace[i] /\ i \in 1 .. Len(trace')
          /\ \A i \in 1 .. Len(trace') : i \in 1 .. n \/ i = n + 1
      BY <1>6, <3>1, Traces
    <3> QED
      BY <2>2, <3>2
  <2> QED
    BY <2>1, <2>2
<1>10. todo[1].do = d /\ Len(todo) \in Nat /\ \A j \in 1 .. Len(todo) : j = 1 \/ j - 1 \in 1 .. Len(todo')
  BY <1>2 DEF d
<1>11. \A k \in 1 .. Len(todo') : todo'[k] = todo[k + 1] /\ k + 1 \in 1 .. Len(todo)
  BY <1>2
<1>12. \A i \in 1 .. n : trace'[i] = trace[i] /\ i \in 1 .. Len(trace')
  BY <1>9
<1>13. Grounded'
  <2> SUFFICES ASSUME conf.production PROVE
          /\ \A k \in 1 .. Len(todo') : todo'[k].do = "session" =>
               \/ \E i \in 1 .. Len(trace') : trace'[i] \in Ground
               \/ \E j \in 1 .. k : todo'[j].do \in Ground
          /\ \A i \in 1 .. Len(trace') : trace'[i] = "session" => \E j \in 1 .. i : trace'[j] \in Ground
    BY <1>0 DEF Grounded
  <2>1. /\ \A k \in 1 .. Len(todo) : todo[k].do = "session" =>
             \/ \E i \in 1 .. n : trace[i] \in Ground
             \/ \E j \in 1 .. k : todo[j].do \in Ground
        /\ \A i \in 1 .. n : trace[i] = "session" => \E j \in 1 .. i : trace[j] \in Ground
    BY DEF RInv, Grounded
  <2>2. ASSUME NEW k \in 1 .. Len(todo'), todo'[k].do = "session"
        PROVE  \/ \E i \in 1 .. Len(trace') : trace'[i] \in Ground
               \/ \E j \in 1 .. k : todo'[j].do \in Ground
    <3>1. todo[k + 1].do = "session" /\ k + 1 \in 1 .. Len(todo)
      BY <1>11, <2>2
    <3>2. CASE \E i \in 1 .. n : trace[i] \in Ground
      BY <1>12, <3>2
    <3>3. CASE \E j \in 1 .. (k + 1) : todo[j].do \in Ground
      <4>1. PICK j \in 1 .. (k + 1) : todo[j].do \in Ground
        BY <3>3
      <4>2. j \in 1 .. Len(todo)
        BY <1>10, <3>1, <4>1
      <4>3. CASE j = 1
        <5>1. d \in Ground /\ d # "read"
          BY <1>10, <4>1, <4>3 DEF Ground
        <5> QED
          BY <1>9, <5>1
      <4>4. CASE j # 1
        <5>1. j - 1 \in 1 .. Len(todo') /\ j - 1 \in 1 .. k /\ (j - 1) + 1 = j
          BY <1>10, <3>1, <4>2, <4>4, <2>2
        <5>2. todo'[j - 1] = todo[j]
          BY <1>11, <5>1
        <5> QED
          BY <4>1, <5>1, <5>2
      <4> QED
        BY <4>3, <4>4
    <3> QED
      BY <2>1, <3>1, <3>2, <3>3
  <2>3. ASSUME NEW i \in 1 .. Len(trace'), trace'[i] = "session"
        PROVE  \E j \in 1 .. i : trace'[j] \in Ground
    <3>1. CASE i \in 1 .. n
      <4>1. PICK j \in 1 .. i : trace[j] \in Ground
        BY <1>12, <2>1, <2>3, <3>1
      <4>2. j \in 1 .. n
        BY <3>1, <4>1
      <4> QED
        BY <1>12, <4>1, <4>2
    <3>2. CASE i = n + 1 /\ d # "read"
      <4>1. d = "session" /\ d \notin Ground
        BY <1>9, <2>3, <3>2 DEF Ground
      <4>2. PICK j \in 1 .. n : trace[j] \in Ground
        <5>1. todo[1].do = "session" /\ 1 \in 1 .. Len(todo)
          BY <1>2, <1>10, <4>1
        <5>2. \A j \in 1 .. 1 : todo[j].do \notin Ground
          BY <1>10, <4>1
        <5> QED
          BY <2>1, <5>1, <5>2
      <4>3. j \in 1 .. i
        BY <1>9, <3>2, <4>2
      <4> QED
        BY <1>12, <4>2, <4>3
    <3> QED
      BY <1>9, <3>1, <3>2
  <2> QED
    BY <2>2, <2>3
<1>14. Sparing'
  <2> SUFFICES ASSUME NEW k \in 1 .. Len(todo'), Refuses(todo'[k])
               PROVE  /\ \A i \in 1 .. Len(trace') : trace'[i] \in Spared
                      /\ \A j \in 1 .. k : todo'[j].do \in Spared
    BY DEF Sparing
  <2>1. Refuses(todo[k + 1]) /\ k + 1 \in 1 .. Len(todo)
    BY <1>11
  <2>2. /\ \A i \in 1 .. n : trace[i] \in Spared
        /\ \A j \in 1 .. (k + 1) : todo[j].do \in Spared
    BY <2>1 DEF RInv, Sparing
  <2>3. d \in Spared
    BY <1>10, <2>1, <2>2
  <2>4. \A i \in 1 .. Len(trace') : trace'[i] \in Spared
    BY <1>9, <2>2, <2>3
  <2>5. \A j \in 1 .. k : j \in 1 .. Len(todo') /\ j + 1 \in 1 .. (k + 1)
    BY <1>2
  <2> QED
    BY <1>11, <2>2, <2>4, <2>5
<1>15. Recording'
  <2> SUFFICES ASSUME NEW k \in 1 .. Len(todo'), todo'[k].do = "return"
               PROVE  /\ \A i \in 1 .. Len(trace') : trace'[i] \in Change =>
                           \/ \E m \in i .. Len(trace') : trace'[m] = "audit"
                           \/ \E m \in 1 .. k : todo'[m].do = "audit"
                      /\ \A j \in 1 .. k : todo'[j].do \in Change => Recorded(todo', j, k)
    BY DEF Recording
  <2>1. todo[k + 1].do = "return" /\ k + 1 \in 1 .. Len(todo)
    BY <1>11
  <2>2. /\ \A i \in 1 .. n : trace[i] \in Change =>
             \/ \E m \in i .. n : trace[m] = "audit"
             \/ \E m \in 1 .. (k + 1) : todo[m].do = "audit"
        /\ \A j \in 1 .. (k + 1) : todo[j].do \in Change => Recorded(todo, j, k + 1)
    BY <2>1 DEF RInv, Recording
  <2>3. \A m \in 2 .. (k + 1) : m - 1 \in 1 .. k /\ m - 1 \in 1 .. Len(todo') /\ todo'[m - 1] = todo[m]
    <3>1. \A m \in 2 .. (k + 1) : m - 1 \in 1 .. k /\ m - 1 \in 1 .. Len(todo') /\ (m - 1) + 1 = m
      BY <1>2
    <3> QED
      BY <1>11, <3>1
  <2>4. ASSUME NEW i \in 1 .. Len(trace'), trace'[i] \in Change
        PROVE  \/ \E m \in i .. Len(trace') : trace'[m] = "audit"
               \/ \E m \in 1 .. k : todo'[m].do = "audit"
    <3>1. CASE i \in 1 .. n
      <4>1. trace[i] \in Change
        BY <1>12, <2>4, <3>1
      <4>2. CASE \E m \in i .. n : trace[m] = "audit"
        <5>1. PICK m \in i .. n : trace[m] = "audit"
          BY <4>2
        <5>2. m \in 1 .. n
          BY <1>9, <3>1, <5>1
        <5>3. trace'[m] = "audit" /\ m \in i .. Len(trace')
          BY <1>9, <1>12, <5>1, <5>2
        <5> QED
          BY <5>3
      <4>3. CASE \E m \in 1 .. (k + 1) : todo[m].do = "audit"
        <5>1. PICK m \in 1 .. (k + 1) : todo[m].do = "audit"
          BY <4>3
        <5>2. CASE m = 1
          <6>1. d = "audit" /\ d # "read"
            BY <1>10, <5>1, <5>2
          <6>2. n + 1 \in i .. Len(trace') /\ trace'[n + 1] = "audit"
            BY <1>9, <3>1, <6>1
          <6> QED
            BY <6>2
        <5>3. CASE m # 1
          <6>1. m \in 2 .. (k + 1)
            BY <5>1, <5>3
          <6> QED
            BY <2>3, <5>1, <6>1
        <5> QED
          BY <5>2, <5>3
      <4> QED
        BY <2>2, <3>1, <4>1, <4>2, <4>3
    <3>2. CASE i = n + 1 /\ d # "read"
      <4>1. d \in Change /\ 1 \in 1 .. (k + 1)
        BY <1>9, <2>4, <3>2
      <4>2. Recorded(todo, 1, k + 1)
        BY <1>10, <2>2, <4>1
      <4>3. PICK m \in 1 .. (k + 1) : todo[m].do = "audit"
        BY <4>2 DEF Recorded
      <4>4. m # 1
        BY <1>10, <4>1, <4>3 DEF Change
      <4>5. m \in 2 .. (k + 1)
        BY <4>3, <4>4
      <4> QED
        BY <2>3, <4>3, <4>5
    <3> QED
      BY <1>9, <3>1, <3>2
  <2>5. ASSUME NEW j \in 1 .. k, todo'[j].do \in Change PROVE Recorded(todo', j, k)
    <3>1. j \in 1 .. Len(todo') /\ j + 1 \in 1 .. (k + 1)
      BY <1>2
    <3>2. Recorded(todo, j + 1, k + 1)
      BY <1>11, <2>2, <2>5, <3>1
    <3>3. PICK m \in (j + 1) .. (k + 1) : todo[m].do = "audit"
      BY <3>2 DEF Recorded
    <3>4. m \in 2 .. (k + 1) /\ m - 1 \in j .. k
      BY <3>3
    <3>5. todo'[m - 1].do = "audit"
      BY <2>3, <3>3, <3>4
    <3> QED
      BY <3>4, <3>5 DEF Recorded
  <2> QED
    BY <2>4, <2>5
<1> QED
  BY <1>7, <1>8, <1>13, <1>14, <1>15 DEF RInv

LEMMA FailsStep == ASSUME RInv, StatementFails PROVE RInv'
<1> DEFINE d == Head(todo).do
<1> DEFINE e == Step("error", 0, "none")
<1>0. /\ todo # <<>> /\ d \in Statement
      /\ trace' \in {trace, Traced(d)}
      /\ todo' = <<e>> /\ outage' = TRUE
      /\ UNCHANGED <<conf, req, answer>>
  BY DEF StatementFails
<1>1. Excused' /\ "error" \in May'
  BY <1>0 DEF Excused, May
<1>2. e \in Fits(May') /\ e.do = "error"
  BY <1>1 DEF Fits, Steps, Step, End, Codes
<1> DEFINE can == May'
<1>3. todo' \in Paths(May')
  <2>1. e \in Fits(can)
    BY <1>2
  <2> HIDE DEF can, e
  <2>2. <<e>> \in Seq(Fits(can))
    BY <2>1
  <2> QED
    BY <1>0, <2>2 DEF Paths, can
<1>4. todo \in Seq(Fits(May)) /\ todo # <<>>
  BY <1>0 DEF RInv, Typed, Paths
<1>5. Head(todo) = todo[1] /\ todo[1] \in Fits(May) /\ 1 \in 1 .. Len(todo)
  BY <1>4
<1>6. d \in Effect \cup {"read"}
  BY <1>0 DEF Statement
<1>7. d \in Guarded => d \in Granted(req.user)
  BY <1>5, <1>6 DEF Fits, May, Effect, Change
<1>8. d # "read" => d \in Doings
  BY <1>6, <1>7 DEF Doings
<1>9. trace \in Seq(Doings) /\ Doings' = Doings
  BY <1>0 DEF RInv, Typed, Doings
<1> HIDE DEF e, d
<1>10. trace' = trace \/ (d # "read" /\ trace' = Append(trace, d))
  BY <1>0 DEF Traced
<1>11. trace' \in Seq(Doings')
  BY <1>8, <1>9, <1>10
<1>12. Typed'
  BY <1>0, <1>1, <1>3, <1>11 DEF RInv, Typed
<1>13. todo' # <<>> /\ Len(todo') = 1 /\ todo'[1] = e /\ todo' \in Seq(Steps)
  BY <1>0, <1>2 DEF Fits
<1>14. Ended(todo')
  BY <1>2, <1>13, Ends DEF End
<1>15. req # NoRequest /\ answer = Unanswered
  BY <1>0 DEF RInv, Placed
<1>16. Placed'
  BY <1>0, <1>14, <1>15 DEF RInv, Placed
<1>17. \A k \in 1 .. Len(todo') : todo'[k].do = "error"
  BY <1>2, <1>13
<1>18. Sparing' /\ Recording'
  BY <1>17 DEF Sparing, Recording, Refuses
<1>19. Grounded'
  <2> SUFFICES ASSUME conf.production, NEW i \in 1 .. Len(trace'), trace'[i] = "session"
               PROVE  \E j \in 1 .. i : trace'[j] \in Ground
    BY <1>0, <1>17 DEF Grounded
  <2>1. \A k \in 1 .. Len(trace) : trace[k] = "session" => \E j \in 1 .. k : trace[j] \in Ground
    BY DEF RInv, Grounded
  <2>2. CASE trace' = trace
    BY <2>1, <2>2
  <2>3. CASE d # "read" /\ trace' = Append(trace, d)
    <3>1. d \in Doings
      BY <1>8, <2>3
    <3>2. /\ Len(trace) \in Nat /\ Len(trace') = Len(trace) + 1 /\ trace'[Len(trace) + 1] = d
          /\ \A k \in 1 .. Len(trace) : trace'[k] = trace[k]
          /\ \A k \in 1 .. Len(trace') : k \in 1 .. Len(trace) \/ k = Len(trace) + 1
      BY <1>9, <2>3, <3>1, Traces
    <3>3. CASE i \in 1 .. Len(trace)
      <4>1. PICK j \in 1 .. i : trace[j] \in Ground
        BY <2>1, <3>2, <3>3
      <4>2. j \in 1 .. Len(trace)
        BY <3>3
      <4> QED
        BY <3>2, <4>1, <4>2
    <3>4. CASE i = Len(trace) + 1
      <4>1. d = "session"
        BY <3>2, <3>4
      <4>2. todo[1].do = "session" /\ d \notin Ground
        BY <1>5, <4>1 DEF d, Ground
      <4>3. \A j \in 1 .. 1 : todo[j].do \notin Ground
        BY <4>1, <4>2
      <4>4. PICK j \in 1 .. Len(trace) : trace[j] \in Ground
        BY <1>5, <4>2, <4>3 DEF RInv, Grounded
      <4>5. j \in 1 .. i
        BY <3>2, <3>4
      <4> QED
        BY <3>2, <4>4, <4>5
    <3> QED
      BY <3>2, <3>3, <3>4
  <2> QED
    BY <1>10, <2>2, <2>3
<1> QED
  BY <1>12, <1>16, <1>18, <1>19 DEF RInv

(* What is answered. *)
LEMMA Answered ==
  ASSUME RInv, Answer
  PROVE  /\ todo[1] \in Fits(May) /\ 1 \in 1 .. Len(todo)
         /\ \/ /\ todo[1].do = "return" /\ todo[1].status \in Success
               /\ answer' = [status |-> todo[1].status, code |-> "none"]
            \/ /\ todo[1].do = "throw" /\ Proper(todo[1].status, todo[1].code)
               /\ answer' = [status |-> todo[1].status,
                             code |-> IF todo[1].code # "none" THEN todo[1].code ELSE CodeFor(todo[1].status)]
            \/ /\ todo[1].do = "provider" /\ answer' = [status |-> 503, code |-> "UPSTREAM_UNAVAILABLE"]
            \/ /\ todo[1].do = "error" /\ Excused /\ answer' = [status |-> 500, code |-> "INTERNAL"]
<1>1. todo \in Seq(Fits(May)) /\ todo # <<>>
  BY DEF RInv, Typed, Paths, Answer
<1>2. Head(todo) = todo[1] /\ todo[1] \in Fits(May) /\ 1 \in 1 .. Len(todo)
  BY <1>1
<1>3. <<todo[1]>> \in Seq(Steps) /\ Len(<<todo[1]>>) = 1 /\ <<todo[1]>>[1] = todo[1]
  BY <1>2 DEF Fits
<1>4. Ended(<<todo[1]>>)
  BY <1>2 DEF Answer
<1>5. todo[1].do \in End
  BY <1>3, <1>4, Ends
<1>6. answer' = IF todo[1].do = "return" THEN [status |-> todo[1].status, code |-> "none"] ELSE Problem(todo[1])
  BY <1>2 DEF Answer
<1>7. CASE todo[1].do = "return"
  BY <1>2, <1>6, <1>7 DEF Fits
<1>8. CASE todo[1].do = "throw"
  BY <1>2, <1>6, <1>8 DEF Fits, Problem
<1>9. CASE todo[1].do = "provider"
  BY <1>2, <1>6, <1>9 DEF Problem, CodeFor
<1>10. CASE todo[1].do = "error"
  <2>1. "error" \in May
    BY <1>2, <1>10 DEF Fits, Guarded
  <2>2. Excused
    BY <2>1 DEF May, Granted
  <2> QED
    BY <1>2, <1>6, <1>10, <2>2 DEF Problem, CodeFor
<1> QED
  BY <1>2, <1>5, <1>7, <1>8, <1>9, <1>10 DEF End

LEMMA AnswerStep == ASSUME RInv, Answer PROVE RInv'
<1>1. todo # <<>> /\ todo' = <<>> /\ UNCHANGED <<conf, req, trace, outage>>
  BY DEF Answer
<1>2. answer'.status \in Statuses \ {0} /\ (answer'.status = 500 => Excused)
  BY Answered DEF Success, Proper, Statuses
<1>3. May' = May /\ Doings' = Doings /\ (Excused' <=> Excused)
  BY <1>1 DEF May, Granted, Doings, Excused
<1>4. todo' \in Paths(May') /\ Len(todo') = 0
  BY <1>1 DEF Paths
<1>5. Typed'
  BY <1>1, <1>2, <1>3, <1>4 DEF RInv, Typed
<1>6. req # NoRequest
  BY <1>1 DEF RInv, Placed
<1>7. answer' # Unanswered
  BY <1>2 DEF Unanswered
<1>8. Placed'
  BY <1>1, <1>6, <1>7 DEF RInv, Placed
<1>9. Grounded' /\ Sparing' /\ Recording'
  BY <1>1, <1>4 DEF RInv, Grounded, Sparing, Recording
<1> QED
  BY <1>5, <1>8, <1>9 DEF RInv

LEMMA CloseStep == ASSUME RInv, Close PROVE RInv'
<1>1. /\ answer # Unanswered /\ req' = NoRequest /\ trace' = <<>> /\ answer' = Unanswered /\ outage' = FALSE
      /\ UNCHANGED <<conf, todo>>
  BY DEF Close
<1>2. todo' = <<>> /\ Len(todo') = 0 /\ Len(trace') = 0
  BY <1>1 DEF RInv, Placed
<1>3. Typed'
  <2>1. todo' \in Paths(May') /\ trace' \in Seq(Doings')
    BY <1>1, <1>2 DEF Paths
  <2>2. req'.route = "none" /\ req'.user = "nobody" /\ answer'.status = 0
    BY <1>1 DEF NoRequest, Unanswered
  <2>3. req' \in [route : {req'.route}, user : {req'.user}, class : {req'.class}, subject : {req'.subject}]
    BY <1>1 DEF NoRequest
  <2>4. outage' \in BOOLEAN
    BY <1>1
  <2>5. conf' \in [up : BOOLEAN, production : BOOLEAN, sms : BOOLEAN, mail : BOOLEAN, telegram : BOOLEAN]
    BY <1>1 DEF RInv, Typed
  <2>6. answer'.status \in Statuses /\ answer'.status # 500
    BY <2>2 DEF Statuses
  <2> QED
    BY <2>1, <2>2, <2>3, <2>4, <2>5, <2>6 DEF Typed
<1>4. Placed'
  BY <1>1, <1>2 DEF RInv, Placed
<1>5. Grounded' /\ Sparing' /\ Recording'
  BY <1>2 DEF Grounded, Sparing, Recording
<1> QED
  BY <1>3, <1>4, <1>5 DEF RInv

LEMMA Invariance == Spec => []RInv
<1>1. Init => RInv
  BY InitInv
<1>2. RInv /\ [Next]_vars => RInv'
  <2> SUFFICES ASSUME RInv, [Next]_vars PROVE RInv'
    OBVIOUS
  <2>1. ASSUME NEW e \in Env, Boot(e) PROVE RInv'
    BY <2>1, BootStep
  <2>2. ASSUME NEW r \in Route, NEW cred \in Role \cup {"none", "bad"}, Arrive(r, cred) PROVE RInv'
    BY <2>2, ArriveStep
  <2>9. ASSUME NEW r \in Route, Garbled(r) PROVE RInv'
    BY <2>9, GarbledStep
  <2>3. CASE Enter
    BY <2>3, EnterStep
  <2>4. CASE Perform
    BY <2>4, PerformStep
  <2>5. CASE StatementFails
    BY <2>5, FailsStep
  <2>6. CASE Answer
    BY <2>6, AnswerStep
  <2>7. CASE Close
    BY <2>7, CloseStep
  <2>8. CASE UNCHANGED vars
    <3>1. UNCHANGED <<conf, req, todo, trace, answer, outage>>
      BY <2>8 DEF vars
    <3>2. Typed' /\ Placed' /\ Grounded' /\ Sparing' /\ Recording'
      <4>1. Typed'
        BY <3>1 DEF RInv, Typed, Paths, Fits, May, Granted, Excused, Doings
      <4>2. Placed'
        BY <3>1 DEF RInv, Placed
      <4>3. Grounded'
        BY <3>1 DEF RInv, Grounded
      <4>4. Sparing'
        BY <3>1 DEF RInv, Sparing, Refuses
      <4>5. Recording'
        BY <3>1 DEF RInv, Recording, Recorded
      <4> QED
        BY <4>1, <4>2, <4>3, <4>4, <4>5
    <3> QED
      BY <3>2 DEF RInv
  <2> QED
    BY <2>1, <2>2, <2>3, <2>4, <2>5, <2>6, <2>7, <2>8, <2>9 DEF Next
<1> QED
  BY <1>1, <1>2, PTL DEF Spec

-----------------------------------------------------------------------------
(* The parts of the invariant that the runs check. *)

(* The process, the request, its trace and its answer have their types, and a client meets no other status. *)
THEOREM RequestsTypes == Spec => []TypeOK
<1>1. RInv => TypeOK
  <2> SUFFICES ASSUME RInv PROVE TypeOK
    OBVIOUS
  <2>1. trace \in Seq(Doings) /\ DOMAIN trace = 1 .. Len(trace)
    BY DEF RInv, Typed
  <2>2. \A i \in DOMAIN trace : trace[i] \in Effect \cup Proof
    BY <2>1 DEF Doings
  <2> QED
    BY <2>2 DEF RInv, Typed, Statuses, TypeOK
<1> QED
  BY <1>1, Invariance, PTL

(* No endpoint issues a session in production unless a code was spent or a signature was checked before. *)
THEOREM IdentityTheorem == Spec => []IdentityIsProven
<1>1. RInv => IdentityIsProven
  <2> SUFFICES ASSUME RInv, NEW i \in DOMAIN trace, trace[i] = "session", conf.production
               PROVE  \E j \in 1 .. i : trace[j] \in {"spent", "proof"}
    BY DEF IdentityIsProven
  <2>1. trace \in Seq(Doings) /\ DOMAIN trace = 1 .. Len(trace)
    BY DEF RInv, Typed
  <2> QED
    BY <2>1 DEF RInv, Grounded, Ground
<1> QED
  BY <1>1, Invariance, PTL

(* No one but an ADMIN makes the changes of an ADMIN, and no one without a token changes a profile. *)
THEOREM AuthorisedTheorem == Spec => []ChangesAreAuthorised
<1>1. RInv => ChangesAreAuthorised
  <2> SUFFICES ASSUME RInv, NEW i \in DOMAIN trace
               PROVE  /\ trace[i] \in {"role", "identifier", "erasure", "entry"} => req.user = "ADMIN"
                      /\ trace[i] = "profile" => req.user # "nobody"
    BY DEF ChangesAreAuthorised
  <2>1. trace[i] \in Doings
    BY DEF RInv, Typed
  <2> QED
    BY <2>1 DEF Doings, Guarded, Granted
<1> QED
  BY <1>1, Invariance, PTL

(* An answer of 500 has one of the causes that are listed. *)
THEOREM CauseTheorem == Spec => []InternalHasCause
<1>1. RInv => InternalHasCause
  BY DEF RInv, Typed, Excused, CausedBy, InternalHasCause
<1> QED
  BY <1>1, Invariance, PTL

-----------------------------------------------------------------------------
(* The promises of Endpoint. *)
Done(t) == ToSet(t) \ Proof
Unrecorded(t) == {t[i] : i \in {j \in DOMAIN t : \A k \in j .. Len(t) : t[k] # "audit"}} \cap Change

LEMMA DoneAppend ==
  ASSUME NEW D, NEW t \in Seq(D), NEW d \in D
  PROVE  Done(Append(t, d)) = Done(t) \cup ({d} \ Proof)
<1> DEFINE u == Append(t, d)
<1>1. /\ u \in Seq(D) /\ Len(u) = Len(t) + 1 /\ Len(t) \in Nat
      /\ u[Len(t) + 1] = d /\ Len(t) + 1 \in 1 .. Len(u)
      /\ \A i \in 1 .. Len(t) : u[i] = t[i] /\ i \in 1 .. Len(u)
      /\ \A i \in 1 .. Len(u) : i \in 1 .. Len(t) \/ i = Len(t) + 1
  BY Traces
<1>2. DOMAIN u = 1 .. Len(u) /\ DOMAIN t = 1 .. Len(t)
  BY <1>1
<1> HIDE DEF u
<1>3. ToSet(u) = ToSet(t) \cup {d}
  BY <1>1, <1>2 DEF ToSet
<1> QED
  BY <1>3 DEF Done, u

LEMMA UnrecordedAppend ==
  ASSUME NEW D, NEW t \in Seq(D), NEW d \in D
  PROVE  Unrecorded(Append(t, d)) = IF d = "audit" THEN {} ELSE Unrecorded(t) \cup ({d} \cap Change)
<1> DEFINE u == Append(t, d)
<1> DEFINE n == Len(t)
<1>1. /\ u \in Seq(D) /\ Len(u) = n + 1 /\ n \in Nat
      /\ u[n + 1] = d /\ n + 1 \in 1 .. Len(u)
      /\ \A i \in 1 .. n : u[i] = t[i] /\ i \in 1 .. Len(u)
      /\ \A i \in 1 .. Len(u) : i \in 1 .. n \/ i = n + 1
  BY Traces
<1>2. DOMAIN u = 1 .. Len(u) /\ DOMAIN t = 1 .. n
  BY <1>1
<1> HIDE DEF u
<1>3. CASE d = "audit"
  <2>1. \A j \in DOMAIN u : n + 1 \in j .. Len(u)
    BY <1>1, <1>2
  <2>2. {j \in DOMAIN u : \A k \in j .. Len(u) : u[k] # "audit"} = {}
    BY <1>1, <1>3, <2>1
  <2>3. Unrecorded(u) = {}
    BY <2>2 DEF Unrecorded
  <2> QED
    BY <1>3, <2>3 DEF u
<1>4. CASE d # "audit"
  <2>1. ASSUME NEW j \in 1 .. n
        PROVE  (\A k \in j .. n : t[k] # "audit") <=> (\A k \in j .. Len(u) : u[k] # "audit")
    <3>1. \A k \in j .. n : k \in 1 .. n /\ k \in j .. Len(u) /\ u[k] = t[k]
      BY <1>1
    <3>2. \A k \in j .. Len(u) : k \in j .. n \/ k = n + 1
      BY <1>1
    <3> QED
      BY <1>1, <1>4, <3>1, <3>2
  <2>2. \A k \in (n + 1) .. Len(u) : u[k] # "audit"
    BY <1>1, <1>4
  <2> DEFINE I == {j \in DOMAIN t : \A k \in j .. Len(t) : t[k] # "audit"}
  <2> DEFINE J == {j \in DOMAIN u : \A k \in j .. Len(u) : u[k] # "audit"}
  <2>3. J = I \cup {n + 1}
    <3>1. ASSUME NEW j \in J PROVE j \in I \cup {n + 1}
      BY <1>1, <1>2, <2>1
    <3>2. ASSUME NEW j \in I PROVE j \in J
      BY <1>1, <1>2, <2>1
    <3>3. n + 1 \in J
      BY <1>1, <1>2, <2>2
    <3> QED
      BY <3>1, <3>2, <3>3
  <2>4. I \subseteq 1 .. n
    BY <1>2
  <2> HIDE DEF I, J
  <2>5. {u[i] : i \in J} = {t[i] : i \in I} \cup {d}
    BY <1>1, <2>3, <2>4
  <2>6. Unrecorded(u) = Unrecorded(t) \cup ({d} \cap Change)
    BY <2>5 DEF Unrecorded, I, J
  <2> QED
    BY <1>4, <2>6 DEF u
<1> QED
  BY <1>3, <1>4

LEMMA Marks ==
  ASSUME RInv, NEW d \in Doings \cup {"read"}, answer = Unanswered, UNCHANGED answer,
         trace' = trace \/ (d # "read" /\ trace' = Append(trace, d))
  PROVE  [E!Next]_E!vars
<1>1. trace \in Seq(Doings)
  BY DEF RInv, Typed
<1>2. CASE trace' = trace
  BY <1>2 DEF E!vars
<1>3. CASE d # "read" /\ trace' = Append(trace, d)
  <2>1. d \in Doings /\ d \in Effect \cup Proof
    BY <1>3 DEF Doings
  <2>2. Done(trace') = Done(trace) \cup ({d} \ Proof)
    BY <1>1, <1>3, <2>1, DoneAppend
  <2>3. Unrecorded(trace') = IF d = "audit" THEN {} ELSE Unrecorded(trace) \cup ({d} \cap Change)
    BY <1>1, <1>3, <2>1, UnrecordedAppend
  <2>4. CASE d = "audit"
    <3>1. Done(trace') = Done(trace) \cup {"audit"} /\ Unrecorded(trace') = {}
      BY <2>2, <2>3, <2>4 DEF Proof
    <3>2. E!Record
      BY <3>1 DEF E!Record, E!Pending, Unanswered, Done, Unrecorded
    <3> QED
      BY <3>2 DEF E!Next
  <2>5. CASE d \in Effect \ {"audit"}
    <3>1. Done(trace') = Done(trace) \cup {d} /\ Unrecorded(trace') = Unrecorded(trace) \cup ({d} \cap Change)
      BY <2>2, <2>3, <2>5 DEF Proof, Effect, Change
    <3>2. E!Work(d)
      BY <3>1 DEF E!Work, E!Pending, Unanswered, Done, Unrecorded
    <3> QED
      BY <2>5, <3>2 DEF E!Next
  <2>6. CASE d \in Proof
    <3>1. Done(trace') = Done(trace) /\ Unrecorded(trace') = Unrecorded(trace)
      BY <2>2, <2>3, <2>6 DEF Proof, Change
    <3>2. UNCHANGED E!vars
      BY <3>1 DEF E!vars, Done, Unrecorded
    <3> QED
      BY <3>2
  <2> QED
    BY <2>1, <2>4, <2>5, <2>6
<1> QED
  BY <1>2, <1>3

LEMMA Answers == ASSUME RInv, Answer PROVE E!Next
<1> DEFINE e == todo[1]
<1>1. todo # <<>> /\ UNCHANGED trace
  BY DEF Answer
<1>2. answer = Unanswered
  BY <1>1 DEF RInv, Placed
<1>3. UNCHANGED <<Done(trace), Unrecorded(trace)>>
  BY <1>1
<1>4. 1 \in 1 .. Len(todo) /\ trace \in Seq(Doings) /\ DOMAIN trace = 1 .. Len(trace)
  BY Answered DEF RInv, Typed
<1>5. CASE e.do = "return" /\ e.status \in Success /\ answer' = [status |-> e.status, code |-> "none"]
  <2>1. \A m \in 1 .. 1 : todo[m].do # "audit"
    BY <1>5
  <2>2. \A i \in 1 .. Len(trace) : trace[i] \in Change => \E m \in i .. Len(trace) : trace[m] = "audit"
    BY <1>4, <1>5, <2>1 DEF RInv, Recording
  <2>3. Unrecorded(trace) = {}
    BY <1>4, <2>2 DEF Unrecorded
  <2> HIDE DEF e
  <2>4. E!Succeed(e.status)
    BY <1>2, <1>3, <1>5, <2>3 DEF E!Succeed, E!Pending, Unanswered, Done, Unrecorded
  <2> QED
    BY <1>5, <2>4 DEF E!Next, E!Success, Success
<1>6. CASE /\ e.do = "throw" /\ Proper(e.status, e.code)
           /\ answer' = [status |-> e.status, code |-> IF e.code # "none" THEN e.code ELSE CodeFor(e.status)]
  <2> DEFINE c == IF e.code # "none" THEN e.code ELSE CodeFor(e.status)
  <2>1. c \in E!Code(e.status)
    BY <1>6 DEF Proper, CodeFor, E!Code
  <2>2. e.status \in {400, 401, 403, 404, 409, 412, 422, 428, 429} \/ e.status = 503
    BY <1>6 DEF Proper
  <2>3. CASE e.status \in {400, 401, 403, 404, 409, 412, 422, 428, 429}
    <3>1. Refuses(e)
      BY <1>6, <2>3 DEF Refuses
    <3>2. \A i \in 1 .. Len(trace) : trace[i] \in Spared /\ trace[i] \in Effect \cup Proof
      BY <1>4, <3>1 DEF RInv, Sparing, Doings
    <3>3. Done(trace) \subseteq {"pending", "verification", "guess", "spent", "revoke", "rotate"} \cup {"audit"}
      BY <1>4, <3>2 DEF Done, ToSet, Spared, Effect, Change, Proof, End
    <3> HIDE DEF e, c
    <3>4. E!Refuse(e.status)
      BY <1>2, <1>3, <1>6, <2>1, <3>3 DEF E!Refuse, E!Pending, Unanswered, Done, Unrecorded, c
    <3> QED
      BY <2>3, <3>4 DEF E!Next, E!Refusal
  <2>4. CASE e.status = 503
    <3> HIDE DEF e, c
    <3>1. E!Break(e.status)
      BY <1>2, <1>3, <1>6, <2>1 DEF E!Break, E!Pending, Unanswered, Done, Unrecorded, c
    <3> QED
      BY <2>4, <3>1 DEF E!Next, E!Failure
  <2> QED
    BY <2>2, <2>3, <2>4
<1>7. CASE answer' = [status |-> 503, code |-> "UPSTREAM_UNAVAILABLE"]
  <2>1. "UPSTREAM_UNAVAILABLE" \in E!Code(503)
    BY DEF E!Code
  <2>2. E!Break(503)
    BY <1>2, <1>3, <1>7, <2>1 DEF E!Break, E!Pending, Unanswered, Done, Unrecorded
  <2> QED
    BY <2>2 DEF E!Next, E!Failure
<1>8. CASE answer' = [status |-> 500, code |-> "INTERNAL"]
  <2>1. "INTERNAL" \in E!Code(500)
    BY DEF E!Code
  <2>2. E!Break(500)
    BY <1>2, <1>3, <1>8, <2>1 DEF E!Break, E!Pending, Unanswered, Done, Unrecorded
  <2> QED
    BY <2>2 DEF E!Next, E!Failure
<1> QED
  BY <1>5, <1>6, <1>7, <1>8, Answered

(* Every endpoint keeps the promises of Endpoint: each step of the process is a step of it, or none. *)
THEOREM PromiseTheorem == Spec => Promise
<1>1. Init => E!Init
  <2> SUFFICES ASSUME Init PROVE E!Init
    OBVIOUS
  <2>1. trace = <<>> /\ answer = Unanswered /\ DOMAIN trace = {}
    BY DEF Init
  <2>2. Done(trace) = {} /\ Unrecorded(trace) = {}
    BY <2>1 DEF Done, Unrecorded, ToSet
  <2> QED
    BY <2>1, <2>2 DEF E!Init, E!Pending, Unanswered, Done, Unrecorded
<1>2. RInv /\ [Next]_vars => [E!Next]_E!vars
  <2> SUFFICES ASSUME RInv, [Next]_vars PROVE [E!Next]_E!vars
    OBVIOUS
  <2>1. ASSUME UNCHANGED <<trace, answer>> PROVE [E!Next]_E!vars
    BY <2>1 DEF E!vars
  <2>2. ASSUME NEW e \in Env, Boot(e) PROVE [E!Next]_E!vars
    BY <2>1, <2>2 DEF Boot
  <2>3. ASSUME NEW r \in Route, NEW cred \in Role \cup {"none", "bad"}, Arrive(r, cred) PROVE [E!Next]_E!vars
    BY <2>1, <2>3 DEF Arrive
  <2>10. ASSUME NEW r \in Route, Garbled(r) PROVE [E!Next]_E!vars
    BY <2>1, <2>10 DEF Garbled
  <2>4. CASE Enter
    BY <2>1, <2>4 DEF Enter
  <2>5. CASE Perform
    <3> DEFINE d == todo[1].do
    <3>1. /\ todo[1] \in Fits(May) /\ d \notin End
          /\ trace' = IF d = "read" THEN trace ELSE Append(trace, d)
      BY <2>5, Performed DEF RInv
    <3>2. d \in Doings \cup {"read"}
      BY <3>1 DEF Fits, Steps, May, End, Doings, Work
    <3>3. answer = Unanswered /\ UNCHANGED answer
      BY <2>5 DEF Perform, RInv, Placed
    <3>4. trace' = trace \/ (d # "read" /\ trace' = Append(trace, d))
      BY <3>1
    <3> HIDE DEF d
    <3> QED
      BY <3>2, <3>3, <3>4, Marks
  <2>6. CASE StatementFails
    <3> DEFINE d == Head(todo).do
    <3>1. todo \in Seq(Fits(May)) /\ todo # <<>>
      BY <2>6 DEF StatementFails, RInv, Typed, Paths
    <3>2. Head(todo) \in Fits(May)
      BY <3>1
    <3>3. d \in Effect \cup {"read"}
      BY <2>6 DEF StatementFails, Statement
    <3>4. d \in Doings \cup {"read"}
      BY <3>2, <3>3 DEF Fits, May, Doings, Effect, Change
    <3>5. answer = Unanswered /\ UNCHANGED answer
      BY <2>6 DEF StatementFails, RInv, Placed
    <3>6. trace' \in {trace, Traced(d)}
      BY <2>6 DEF StatementFails
    <3> HIDE DEF d
    <3>7. trace' = trace \/ (d # "read" /\ trace' = Append(trace, d))
      BY <3>6 DEF Traced
    <3> QED
      BY <3>4, <3>5, <3>7, Marks
  <2>7. CASE Answer
    BY <2>7, Answers
  <2>8. CASE Close
    <3>1. answer # Unanswered /\ answer' = Unanswered /\ trace' = <<>> /\ DOMAIN trace' = {}
      BY <2>8 DEF Close
    <3>2. Done(trace') = {} /\ Unrecorded(trace') = {}
      BY <3>1 DEF Done, Unrecorded, ToSet
    <3>3. E!NextRequest
      BY <3>1, <3>2 DEF E!NextRequest, E!Pending, Unanswered, Done, Unrecorded
    <3> QED
      BY <3>3 DEF E!Next
  <2>9. CASE UNCHANGED vars
    BY <2>1, <2>9 DEF vars
  <2> QED
    BY <2>2, <2>3, <2>4, <2>5, <2>6, <2>7, <2>8, <2>9, <2>10 DEF Next
<1> QED
  BY <1>1, <1>2, Invariance, PTL DEF Spec, Promise, E!Spec
=============================================================================
