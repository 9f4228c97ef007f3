----------------------------- MODULE Otp_proofs -----------------------------
(***************************************************************************)
(* Proofs about Otp, for any finite set of requests, any TTLs and any      *)
(* OTP_MAX_ATTEMPTS above one.                                             *)
(***************************************************************************)
EXTENDS Otp, FiniteSetTheorems, TLAPS

(* The keys: only the counter may lack a TTL, a code lives for CodeTtl at    *)
(* most, and a value is there exactly while its key is.                      *)
KeysOK ==
  /\ \A k \in Key \ {"attempts"} : ttl[k] # Forever
  /\ ttl["code"] <= CodeTtl
  /\ code # 0 <=> Exists("code")
  /\ attempts # 0 <=> Exists("attempts")

(* The codes: those stored, compared with or spent have been issued.         *)
CodesOK ==
  /\ code <= issued
  /\ \A c \in spent : c <= issued
  /\ \A p \in Proc : req[p].on <= issued /\ (At(p, "clear") => req[p].on # 0)

(* Requests whose wrong guess is not counted, or that are about to lock.     *)
Waiting == {"count", "lock", "drop"}
Pending == {p \in Proc : req[p].pc \in Waiting}
Capped(n) == IF n < MaxAttempts THEN n ELSE MaxAttempts - 1

Counted ==
  Exists("code") /\ ~ fresh => tried <= Capped(attempts) + Cardinality(Pending) + crashes

IInv == TypeOK /\ KeysOK /\ CodesOK /\ SpentIsGone /\ CounterOutlivesCode /\ Counted

-----------------------------------------------------------------------------
LEMMA PendingFinite == IsFiniteSet(Pending) /\ Cardinality(Pending) \in Nat
                       /\ Cardinality(Pending) <= Cardinality(Proc) /\ Cardinality(Proc) \in Nat
<1>1. Pending \subseteq Proc
  BY DEF Pending
<1> QED
  BY <1>1, ConstantsAssumption, FS_Subset, FS_CardinalityType

LEMMA CappedType ==
  /\ \A n \in Nat : Capped(n) \in Nat /\ Capped(n) <= MaxAttempts - 1
  /\ \A n \in Nat : n + 1 < MaxAttempts => Capped(n + 1) = Capped(n) + 1
  /\ \A n \in Nat : n + 1 >= MaxAttempts => Capped(n + 1) = Capped(n)
  /\ MaxAttempts \in Nat /\ MaxAttempts > 1
BY ConstantsAssumption DEF Capped

(* A request goes on to its next command: types, codes, pending guesses. *)
LEMMA GotoStep ==
  ASSUME IInv, NEW p \in Proc, NEW at \in Pc, NEW c \in 0..MaxIssues, Goto(p, at, c),
         c <= issued, at = "clear" => c # 0
  PROVE  /\ req' \in [Proc -> Request]
         /\ \A q \in Proc : req'[q].on <= issued /\ (req'[q].pc = "clear" => req'[q].on # 0)
         /\ Cardinality(Pending') \in Nat
         /\ (at \in Waiting <=> req[p].pc \in Waiting) => Cardinality(Pending') = Cardinality(Pending)
         /\ at \in Waiting /\ req[p].pc \notin Waiting =>
              Cardinality(Pending') = Cardinality(Pending) + 1
         /\ at \notin Waiting /\ req[p].pc \in Waiting =>
              Cardinality(Pending') = Cardinality(Pending) - 1
<1> DEFINE r == [pc |-> at, on |-> c]
<1>1. req \in [Proc -> Request] /\ req' = [req EXCEPT ![p] = r]
  BY DEF IInv, TypeOK, Goto
<1>2. r \in Request /\ r.pc = at /\ r.on = c
  BY DEF Request
<1> HIDE DEF r
<1>3. req' \in [Proc -> Request]
  BY <1>1, <1>2
<1>4. \A q \in Proc : req'[q] = IF q = p THEN r ELSE req[q]
  BY <1>1
<1>5. \A q \in Proc : req'[q].on <= issued /\ (req'[q].pc = "clear" => req'[q].on # 0)
  BY <1>2, <1>4 DEF IInv, CodesOK, At
<1>6. at \in Waiting => Pending' = Pending \cup {p}
  BY <1>2, <1>4 DEF Pending
<1>7. at \notin Waiting => Pending' = Pending \ {p}
  BY <1>2, <1>4 DEF Pending
<1>8. p \in Pending <=> req[p].pc \in Waiting
  BY DEF Pending
<1>9. CASE at \in Waiting /\ req[p].pc \in Waiting
  <2>1. Pending' = Pending
    BY <1>6, <1>8, <1>9
  <2> QED
    BY <2>1, <1>3, <1>5, <1>9, PendingFinite
<1>10. CASE at \in Waiting /\ req[p].pc \notin Waiting
  <2>1. Cardinality(Pending') = Cardinality(Pending) + 1
    BY <1>6, <1>8, <1>10, PendingFinite, FS_AddElement
  <2> QED
    BY <2>1, <1>3, <1>5, <1>10, PendingFinite
<1>11. CASE at \notin Waiting /\ req[p].pc \in Waiting
  <2>1. IsFiniteSet(Pending') /\ Cardinality(Pending') = Cardinality(Pending) - 1
    BY <1>7, <1>8, <1>11, PendingFinite, FS_RemoveElement
  <2>2. Cardinality(Pending') \in Nat
    BY <2>1, FS_CardinalityType
  <2> QED
    BY <2>1, <2>2, <1>3, <1>5, <1>11
<1>12. CASE at \notin Waiting /\ req[p].pc \notin Waiting
  <2>1. Pending' = Pending
    BY <1>7, <1>8, <1>12
  <2> QED
    BY <2>1, <1>3, <1>5, <1>12, PendingFinite
<1> QED
  BY <1>9, <1>10, <1>11, <1>12

LEMMA ReturnStep ==
  ASSUME IInv, NEW p \in Proc, Return(p)
  PROVE  /\ req' \in [Proc -> Request]
         /\ \A q \in Proc : req'[q].on <= issued /\ (req'[q].pc = "clear" => req'[q].on # 0)
         /\ Cardinality(Pending') \in Nat
         /\ req[p].pc \notin Waiting => Cardinality(Pending') = Cardinality(Pending)
         /\ req[p].pc \in Waiting => Cardinality(Pending') = Cardinality(Pending) - 1
<1>1. Goto(p, "idle", 0)
  BY DEF Return, Goto, Idle
<1>2. 0 <= issued /\ "idle" \in Pc /\ 0 \in 0..MaxIssues /\ "idle" \notin Waiting
  BY ConstantsAssumption DEF IInv, TypeOK, Pc, Waiting
<1> QED
  BY <1>1, <1>2, GotoStep

LEMMA InitIInv == Init => IInv
<1> SUFFICES ASSUME Init PROVE IInv
  OBVIOUS
<1>1. Idle \in Request /\ Idle.pc = "idle" /\ Idle.on = 0
  BY ConstantsAssumption DEF Idle, Request, Pc
<1>2. \A p \in Proc : req[p] = Idle
  BY DEF Init
<1>3. TypeOK
  <2>1. fresh \in BOOLEAN
    BY DEF Init
  <2>2. ttl \in [Key -> Nat \cup {Forever}] /\ req \in [Proc -> Request]
    BY <1>1 DEF Init
  <2> QED
    BY <2>1, <2>2, ConstantsAssumption DEF Init, TypeOK
<1>4. \A k \in Key : ttl[k] = 0
  BY DEF Init
<1>5. KeysOK
  BY <1>4, ConstantsAssumption DEF Init, KeysOK, Exists, Key
<1>6. CodesOK /\ SpentIsGone
  BY <1>1, <1>2 DEF Init, CodesOK, At, SpentIsGone
<1>7. CounterOutlivesCode /\ Counted
  BY <1>4 DEF CounterOutlivesCode, Counted, Exists, Key
<1> QED
  BY <1>3, <1>5, <1>6, <1>7 DEF IInv

-----------------------------------------------------------------------------
(* A step that leaves the keys and the history alone, and lets no pending    *)
(* guess go uncounted. *)
LEMMA QuietStep ==
  ASSUME IInv, NEW p \in Proc,
         AskIssue(p) \/ AskVerify(p) \/ Crash(p)
  PROVE  IInv'
<1>1. UNCHANGED <<ttl, code, attempts, issued, fresh, tried, spent>>
  BY DEF AskIssue, AskVerify, Crash
<1>2. /\ req' \in [Proc -> Request]
      /\ \A q \in Proc : req'[q].on <= issued /\ (req'[q].pc = "clear" => req'[q].on # 0)
      /\ crashes' \in 0..MaxCrashes
      /\ Cardinality(Pending) + crashes <= Cardinality(Pending') + crashes'
      /\ Cardinality(Pending') \in Nat
  <2>1. /\ crashes \in 0..MaxCrashes /\ MaxCrashes \in Nat /\ Cardinality(Pending) \in Nat
        /\ 0 \in 0..MaxIssues /\ 0 <= issued
    BY PendingFinite, ConstantsAssumption DEF IInv, TypeOK
  <2>2. CASE AskIssue(p)
    <3>1. Goto(p, "store", 0) /\ req[p].pc = "idle" /\ crashes' = crashes
      BY <2>2 DEF AskIssue, At
    <3> QED
      BY <3>1, <2>1, GotoStep DEF Pc, Waiting
  <2>3. CASE AskVerify(p)
    <3>1. Goto(p, "get", 0) /\ req[p].pc = "idle" /\ crashes' = crashes
      BY <2>3 DEF AskVerify, At
    <3> QED
      BY <3>1, <2>1, GotoStep DEF Pc, Waiting
  <2>4. CASE Crash(p)
    <3>1. Return(p) /\ crashes' = crashes + 1 /\ crashes < MaxCrashes
      BY <2>4 DEF Crash
    <3> QED
      BY <3>1, <2>1, ReturnStep
  <2> QED
    BY <2>2, <2>3, <2>4
<1>3. TypeOK'
  BY <1>1, <1>2 DEF IInv, TypeOK
<1>4. KeysOK' /\ SpentIsGone' /\ CounterOutlivesCode'
  BY <1>1 DEF IInv, KeysOK, SpentIsGone, CounterOutlivesCode, Exists
<1>5. CodesOK'
  BY <1>1, <1>2 DEF IInv, CodesOK, At
<1>6. Counted'
  <2>1. tried \in Nat /\ Capped(attempts) \in Nat /\ crashes \in Nat /\ crashes' \in Nat
        /\ Capped(attempts)' = Capped(attempts) /\ Cardinality(Pending) \in Nat
    BY <1>1, <1>2, CappedType, PendingFinite, ConstantsAssumption DEF IInv, TypeOK, Capped
  <2>2. ASSUME Exists("code")', ~ fresh'
        PROVE  tried <= Capped(attempts) + Cardinality(Pending) + crashes
    BY <2>2, <1>1 DEF IInv, Counted, Exists
  <2> QED
    BY <2>1, <2>2, <1>1, <1>2 DEF Counted
<1> QED
  BY <1>3, <1>4, <1>5, <1>6 DEF IInv

(* Values of the constants and the variables, for the arithmetic below. *)
LEMMA Values ==
  ASSUME IInv
  PROVE  /\ CodeTtl \in Nat /\ CodeTtl # 0 /\ Cooldown \in Nat /\ LockTtl \in Nat
         /\ Forever \notin Nat /\ CodeTtl # Forever /\ Cooldown # Forever /\ LockTtl # Forever
         /\ 0 # Forever /\ MaxIssues \in Nat /\ 0 \in 0..MaxIssues
         /\ code \in Nat /\ issued \in Nat /\ attempts \in Nat /\ tried \in Nat /\ crashes \in Nat
         /\ ttl \in [Key -> Nat \cup {Forever}] /\ ttl["code"] \in Nat
         /\ \A k \in Key \ {"attempts"} : ttl[k] \in Nat
         /\ spent \subseteq 1..MaxIssues
BY ConstantsAssumption DEF IInv, TypeOK, KeysOK, Key

LEMMA StoreCodeIInv ==
  ASSUME IInv, NEW p \in Proc, StoreCode(p)
  PROVE  IInv'
<1>1. /\ issued' = issued + 1 /\ issued < MaxIssues /\ code' = issued + 1
      /\ ttl' = [ttl EXCEPT !["code"] = CodeTtl] /\ fresh' = TRUE /\ tried' = 0
      /\ Goto(p, "cool", 0) /\ req[p].pc = "store"
      /\ UNCHANGED <<attempts, spent, crashes>>
  BY DEF StoreCode, Set, At
<1>2. /\ req' \in [Proc -> Request]
      /\ \A q \in Proc : req'[q].on <= issued /\ (req'[q].pc = "clear" => req'[q].on # 0)
  BY <1>1, Values, GotoStep DEF Pc, Waiting
<1>3. \A k \in Key : ttl'[k] = IF k = "code" THEN CodeTtl ELSE ttl[k]
  BY <1>1, Values
<1>4. TypeOK'
  <2>1. fresh' \in BOOLEAN
    BY <1>1
  <2>2. ttl' \in [Key -> Nat \cup {Forever}]
    BY <1>1, Values
  <2>3. issued' \in 0..MaxIssues /\ code' \in 0..MaxIssues
    BY <1>1, Values
  <2> QED
    BY <2>1, <2>2, <2>3, <1>1, <1>2, Values DEF IInv, TypeOK
<1>5. KeysOK'
  BY <1>1, <1>3, Values DEF IInv, KeysOK, Exists, Key
<1>6. CodesOK'
  <2>1. \A q \in Proc : req'[q].on \in Nat
    BY <1>2 DEF Request
  <2>2. \A q \in Proc : req'[q].on <= issued'
    BY <2>1, <1>1, <1>2, Values
  <2>3. \A c \in spent : c <= issued'
    BY <1>1, Values DEF IInv, CodesOK
  <2> QED
    BY <2>2, <2>3, <1>1, <1>2, Values DEF CodesOK, At
<1>7. SpentIsGone'
  <2>1. \A c \in spent : c \in Nat /\ c <= issued
    BY Values DEF IInv, CodesOK
  <2> QED
    BY <2>1, <1>1, Values DEF SpentIsGone
<1>8. CounterOutlivesCode' /\ Counted'
  BY <1>1 DEF CounterOutlivesCode, Counted
<1> QED
  BY <1>4, <1>5, <1>6, <1>7, <1>8 DEF IInv

(* A key that neither holds the code nor counts is set. *)
LEMMA SideKeyIInv ==
  ASSUME IInv, NEW p \in Proc, SetCooldown(p) \/ LockSubject(p)
  PROVE  IInv'
<1>1. PICK k \in {"cooldown", "lock"}, n \in Nat : n # Forever /\ ttl' = [ttl EXCEPT ![k] = n]
  BY Values DEF SetCooldown, LockSubject, Set
<1>2. UNCHANGED <<code, attempts, issued, fresh, tried, spent, crashes>>
  BY DEF SetCooldown, LockSubject
<1>3. /\ req' \in [Proc -> Request]
      /\ \A q \in Proc : req'[q].on <= issued /\ (req'[q].pc = "clear" => req'[q].on # 0)
      /\ Cardinality(Pending') = Cardinality(Pending)
  <2>1. CASE SetCooldown(p)
    <3>1. Goto(p, "forgive", 0) /\ req[p].pc = "cool" /\ 0 <= issued
      BY <2>1, Values DEF SetCooldown, At
    <3> QED
      BY <3>1, Values, GotoStep DEF Pc, Waiting
  <2>2. CASE LockSubject(p)
    <3>1. Goto(p, "drop", 0) /\ req[p].pc = "lock" /\ 0 <= issued
      BY <2>2, Values DEF LockSubject, At
    <3> QED
      BY <3>1, Values, GotoStep DEF Pc, Waiting
  <2> QED
    BY <2>1, <2>2
<1>4. \A j \in Key : ttl'[j] = IF j = k THEN n ELSE ttl[j]
  BY <1>1, Values
<1>5. ttl'["code"] = ttl["code"] /\ ttl'["attempts"] = ttl["attempts"]
  BY <1>1, <1>4 DEF Key
<1>6. TypeOK'
  <2>1. ttl' \in [Key -> Nat \cup {Forever}]
    BY <1>1, Values
  <2> QED
    BY <2>1, <1>2, <1>3 DEF IInv, TypeOK
<1>7. KeysOK'
  BY <1>1, <1>2, <1>4, <1>5 DEF IInv, KeysOK, Exists
<1>8. CodesOK' /\ SpentIsGone'
  BY <1>2, <1>3 DEF IInv, CodesOK, At, SpentIsGone
<1>9. CounterOutlivesCode' /\ Counted'
  BY <1>2, <1>3, <1>5 DEF IInv, CounterOutlivesCode, Counted, Exists, Capped
<1> QED
  BY <1>6, <1>7, <1>8, <1>9 DEF IInv

(* A step that deletes keys: what is left of the values. *)
LEMMA DelStep ==
  ASSUME IInv, NEW K \in SUBSET Key, Del(K)
  PROVE  /\ ttl' \in [Key -> Nat \cup {Forever}] /\ code' \in 0..MaxIssues /\ attempts' \in Nat
         /\ KeysOK'
         /\ code' \in {0, code}
         /\ "code" \in K => code' = 0 /\ ~ Exists("code")'
         /\ "attempts" \in K => attempts' = 0
<1>1. /\ ttl' = [k \in Key |-> IF k \in K THEN 0 ELSE ttl[k]]
      /\ code' = IF "code" \in K THEN 0 ELSE code
      /\ attempts' = IF "attempts" \in K THEN 0 ELSE attempts
  BY DEF Del
<1>2. \A k \in Key : ttl'[k] = IF k \in K THEN 0 ELSE ttl[k]
  BY <1>1
<1>3. ttl' \in [Key -> Nat \cup {Forever}] /\ code' \in 0..MaxIssues /\ attempts' \in Nat
  BY <1>1, Values DEF IInv, TypeOK
<1>4. KeysOK'
  <2>1. \A k \in Key \ {"attempts"} : ttl'[k] # Forever
    BY <1>2, Values DEF IInv, KeysOK
  <2>2. ttl'["code"] <= CodeTtl
    BY <1>2, Values DEF IInv, KeysOK, Key
  <2>3. (code' # 0 <=> Exists("code")') /\ (attempts' # 0 <=> Exists("attempts")')
    BY <1>1, <1>2 DEF IInv, KeysOK, Exists, Key
  <2> QED
    BY <2>1, <2>2, <2>3 DEF KeysOK
<1> QED
  BY <1>1, <1>2, <1>3, <1>4 DEF Exists, Key

LEMMA ForgetIInv ==
  ASSUME IInv, NEW p \in Proc, ForgetAttempts(p)
  PROVE  IInv'
<1>1. /\ Del({"attempts"}) /\ fresh' = FALSE /\ tried' = 0 /\ Return(p)
      /\ UNCHANGED <<issued, spent, crashes>>
  BY DEF ForgetAttempts
<1>2. /\ ttl' \in [Key -> Nat \cup {Forever}] /\ code' \in 0..MaxIssues /\ attempts' \in Nat
      /\ KeysOK' /\ code' \in {0, code} /\ attempts' = 0
  <2>1. {"attempts"} \in SUBSET Key
    BY DEF Key
  <2> QED
    BY <2>1, <1>1, DelStep
<1>3. /\ req' \in [Proc -> Request]
      /\ \A q \in Proc : req'[q].on <= issued /\ (req'[q].pc = "clear" => req'[q].on # 0)
      /\ Cardinality(Pending') \in Nat
  BY <1>1, ReturnStep
<1>4. TypeOK'
  <2>1. fresh' \in BOOLEAN
    BY <1>1
  <2> QED
    BY <2>1, <1>1, <1>2, <1>3 DEF IInv, TypeOK
<1>5. CodesOK' /\ SpentIsGone'
  BY <1>1, <1>2, <1>3, Values DEF IInv, CodesOK, At, SpentIsGone
<1>6. CounterOutlivesCode'
  BY <1>2 DEF CounterOutlivesCode
<1>7. Counted'
  <2>1. Capped(attempts)' \in Nat /\ crashes' \in Nat
    BY <1>1, <1>2, CappedType, Values DEF Capped
  <2> QED
    BY <2>1, <1>1, <1>3 DEF Counted
<1> QED
  BY <1>2, <1>4, <1>5, <1>6, <1>7 DEF IInv

(* The code and its counter are deleted. *)
LEMMA DropIInv ==
  ASSUME IInv, NEW p \in Proc, Drop(p) \/ Clear(p)
  PROVE  IInv'
<1>1. PICK K \in SUBSET Key : "code" \in K /\ "attempts" \in K /\ Del(K)
  BY DEF Drop, Clear, Key
<1>2. Return(p) /\ UNCHANGED <<issued, fresh, tried, crashes>>
      /\ spent' \subseteq spent \cup {req[p].on}
      /\ (spent' # spent => At(p, "clear"))
  BY DEF Drop, Clear
<1>3. /\ ttl' \in [Key -> Nat \cup {Forever}] /\ code' \in 0..MaxIssues /\ attempts' \in Nat
      /\ KeysOK' /\ code' = 0 /\ ~ Exists("code")'
  BY <1>1, DelStep
<1>4. /\ req' \in [Proc -> Request]
      /\ \A q \in Proc : req'[q].on <= issued /\ (req'[q].pc = "clear" => req'[q].on # 0)
  BY <1>2, ReturnStep
<1>5. \A c \in spent' : c \in 1..MaxIssues /\ c <= issued
  <2>1. At(p, "clear") => req[p].on \in 1..MaxIssues /\ req[p].on <= issued
    BY Values DEF IInv, TypeOK, CodesOK, Request
  <2>2. \A c \in spent : c \in 1..MaxIssues /\ c <= issued
    BY Values DEF IInv, CodesOK
  <2> QED
    BY <2>1, <2>2, <1>2
<1>6. TypeOK'
  BY <1>2, <1>3, <1>4, <1>5 DEF IInv, TypeOK
<1>7. CodesOK' /\ SpentIsGone'
  <2>1. 0 \notin spent' /\ 0 <= issued
    BY <1>5, Values
  <2> QED
    BY <2>1, <1>2, <1>3, <1>4, <1>5 DEF CodesOK, At, SpentIsGone
<1>8. CounterOutlivesCode' /\ Counted'
  BY <1>3 DEF CounterOutlivesCode, Counted
<1> QED
  BY <1>3, <1>6, <1>7, <1>8 DEF IInv

LEMMA CompareIInv ==
  ASSUME IInv, NEW p \in Proc, Compare(p)
  PROVE  IInv'
<1>1. UNCHANGED <<ttl, code, attempts, issued, fresh, spent, crashes>> /\ req[p].pc = "get"
  BY DEF Compare, At
<1>2. KeysOK' /\ SpentIsGone' /\ CounterOutlivesCode'
  BY <1>1 DEF IInv, KeysOK, SpentIsGone, CounterOutlivesCode, Exists
<1>3. tried \in Nat /\ crashes \in Nat /\ Capped(attempts) \in Nat /\ Cardinality(Pending) \in Nat
      /\ Capped(attempts)' = Capped(attempts)
  BY <1>1, Values, PendingFinite, CappedType DEF Capped
<1>4. CASE Exists("code") /\ Goto(p, "clear", code) /\ UNCHANGED tried
  <2>1. code # 0 /\ code <= issued /\ code \in 0..MaxIssues
    BY <1>4 DEF IInv, KeysOK, CodesOK, TypeOK
  <2>2. /\ req' \in [Proc -> Request]
        /\ \A q \in Proc : req'[q].on <= issued /\ (req'[q].pc = "clear" => req'[q].on # 0)
        /\ Cardinality(Pending') = Cardinality(Pending)
    BY <2>1, <1>1, <1>4, GotoStep DEF Pc, Waiting
  <2>3. TypeOK' /\ CodesOK'
    BY <2>2, <1>1, <1>4 DEF IInv, TypeOK, CodesOK, At
  <2>4. Counted'
    BY <2>2, <1>1, <1>3, <1>4 DEF IInv, Counted, Exists
  <2> QED
    BY <2>3, <2>4, <1>2 DEF IInv
<1>5. CASE Goto(p, "count", 0) /\ tried' = IF Exists("code") THEN tried + 1 ELSE tried
  <2>1. /\ req' \in [Proc -> Request]
        /\ \A q \in Proc : req'[q].on <= issued /\ (req'[q].pc = "clear" => req'[q].on # 0)
        /\ Cardinality(Pending') = Cardinality(Pending) + 1
    BY <1>1, <1>5, GotoStep, Values DEF Pc, Waiting
  <2>2. TypeOK' /\ CodesOK'
    <3>1. tried' \in Nat
      BY <1>3, <1>5
    <3> QED
      BY <3>1, <2>1, <1>1 DEF IInv, TypeOK, CodesOK, At
  <2>3. Counted'
    <3>1. ASSUME Exists("code")', ~ fresh'
          PROVE  tried' <= Capped(attempts)' + Cardinality(Pending') + crashes'
      <4>1. Exists("code") /\ tried <= Capped(attempts) + Cardinality(Pending) + crashes
        BY <3>1, <1>1 DEF IInv, Counted, Exists
      <4>2. tried' = tried + 1
        BY <4>1, <1>5
      <4> QED
        BY <4>1, <4>2, <2>1, <1>1, <1>3
    <3> QED
      BY <3>1 DEF Counted
  <2> QED
    BY <2>2, <2>3, <1>2 DEF IInv
<1> QED
  BY <1>4, <1>5 DEF Compare

LEMMA CountIInv ==
  ASSUME IInv, NEW p \in Proc, Count(p)
  PROVE  IInv'
<1> DEFINE n == attempts + 1
<1>1. /\ attempts' = n /\ req[p].pc = "count"
      /\ ttl' = IF n = 1 THEN [ttl EXCEPT !["attempts"] = Forever] ELSE ttl
      /\ UNCHANGED <<code, issued, fresh, tried, spent, crashes>>
  BY DEF Count, At
<1>2. n \in Nat /\ n # 0 /\ MaxAttempts \in Nat /\ MaxAttempts > 1
  BY Values, CappedType
<1>3. /\ req' \in [Proc -> Request]
      /\ \A q \in Proc : req'[q].on <= issued /\ (req'[q].pc = "clear" => req'[q].on # 0)
      /\ Cardinality(Pending') \in Nat
      /\ n < MaxAttempts => Cardinality(Pending') = Cardinality(Pending) - 1
      /\ n >= MaxAttempts => Cardinality(Pending') = Cardinality(Pending)
  <2>1. CASE Goto(p, "expire", 0) /\ n = 1
    BY <2>1, <1>1, <1>2, Values, GotoStep DEF Pc, Waiting
  <2>2. CASE Return(p) /\ n < MaxAttempts
    BY <2>2, <1>1, <1>2, ReturnStep DEF Waiting
  <2>3. CASE Goto(p, "lock", 0) /\ n >= MaxAttempts
    BY <2>3, <1>1, <1>2, Values, GotoStep DEF Pc, Waiting
  <2> QED
    BY <2>1, <2>2, <2>3 DEF Count
<1>4. /\ \A k \in Key \ {"attempts"} : ttl'[k] = ttl[k]
      /\ n = 1 => ttl'["attempts"] = Forever
      /\ n # 1 => ttl'["attempts"] = ttl["attempts"]
      /\ ttl' \in [Key -> Nat \cup {Forever}]
  BY <1>1, Values DEF Key
<1>5. TypeOK'
  BY <1>1, <1>2, <1>3, <1>4 DEF IInv, TypeOK
<1>6. KeysOK'
  <2>1. attempts # 0 => ttl["attempts"] # 0
    BY DEF IInv, KeysOK, Exists
  <2>2. ttl'["attempts"] # 0
    BY <2>1, <1>2, <1>4, Values
  <2>3. ttl'["code"] = ttl["code"]
    BY <1>4 DEF Key
  <2> QED
    BY <2>2, <2>3, <1>1, <1>2, <1>4 DEF IInv, KeysOK, Exists
<1>7. CodesOK' /\ SpentIsGone'
  BY <1>1, <1>3 DEF IInv, CodesOK, At, SpentIsGone
<1>8. CounterOutlivesCode'
  <2>1. ttl'["code"] = ttl["code"]
    BY <1>4 DEF Key
  <2>2. n # 1 => attempts > 0
    BY Values
  <2> QED
    BY <2>1, <2>2, <1>1, <1>4 DEF IInv, CounterOutlivesCode, Exists
<1>9. Counted'
  <2> SUFFICES ASSUME Exists("code")', ~ fresh'
               PROVE  tried' <= Capped(attempts)' + Cardinality(Pending') + crashes'
    BY DEF Counted
  <2>1. Exists("code") /\ ~ fresh
    BY <1>1, <1>4 DEF Exists, Key
  <2>2. tried <= Capped(attempts) + Cardinality(Pending) + crashes
    BY <2>1 DEF IInv, Counted
  <2>3. Capped(attempts)' = Capped(n)
    BY <1>1 DEF Capped
  <2>4. /\ n < MaxAttempts => Capped(n) = Capped(attempts) + 1
        /\ n >= MaxAttempts => Capped(n) = Capped(attempts)
        /\ Capped(attempts) \in Nat
    BY Values, CappedType
  <2>5. Cardinality(Pending) \in Nat /\ tried \in Nat /\ crashes \in Nat
    BY Values, PendingFinite
  <2> HIDE DEF n
  <2> QED
    BY <2>2, <2>3, <2>4, <2>5, <1>1, <1>2, <1>3
<1> QED
  BY <1>5, <1>6, <1>7, <1>8, <1>9 DEF IInv

LEMMA ExpireIInv ==
  ASSUME IInv, NEW p \in Proc, Expire(p)
  PROVE  IInv'
<1>1. /\ req[p].pc = "expire" /\ Return(p)
      /\ ttl' = IF Exists("attempts") THEN [ttl EXCEPT !["attempts"] = CodeTtl] ELSE ttl
      /\ UNCHANGED <<code, attempts, issued, fresh, tried, spent, crashes>>
  BY DEF Expire, At, Set
<1>2. /\ req' \in [Proc -> Request]
      /\ \A q \in Proc : req'[q].on <= issued /\ (req'[q].pc = "clear" => req'[q].on # 0)
      /\ Cardinality(Pending') = Cardinality(Pending)
  BY <1>1, ReturnStep DEF Waiting
<1>3. /\ \A k \in Key \ {"attempts"} : ttl'[k] = ttl[k]
      /\ ttl' \in [Key -> Nat \cup {Forever}]
      /\ ttl["attempts"] # 0 => ttl'["attempts"] = CodeTtl
      /\ ttl["attempts"] = 0 => ttl'["attempts"] = 0
      /\ ttl'["code"] = ttl["code"]
  BY <1>1, Values DEF Key, Exists
<1>4. TypeOK'
  BY <1>1, <1>2, <1>3 DEF IInv, TypeOK
<1>5. KeysOK'
  BY <1>1, <1>3, Values DEF IInv, KeysOK, Exists
<1>6. CodesOK' /\ SpentIsGone'
  BY <1>1, <1>2 DEF IInv, CodesOK, At, SpentIsGone
<1>7. CounterOutlivesCode'
  BY <1>1, <1>3, Values DEF IInv, KeysOK, CounterOutlivesCode, Exists
<1>8. Counted'
  BY <1>1, <1>2, <1>3 DEF IInv, Counted, Exists, Capped
<1> QED
  BY <1>4, <1>5, <1>6, <1>7, <1>8 DEF IInv

(* Time: the counter never lapses while it counts. *)
LEMMA TickIInv ==
  ASSUME IInv, Tick
  PROVE  IInv'
<1>1. /\ \A k \in Key : ttl'[k] = Less(ttl[k])
      /\ code' = IF ttl'["code"] = 0 THEN 0 ELSE code
      /\ attempts' = IF ttl'["attempts"] = 0 THEN 0 ELSE attempts
      /\ UNCHANGED <<req, issued, fresh, tried, spent, crashes>>
      /\ ttl' = [k \in Key |-> Less(ttl[k])]
  BY DEF Tick
<1>2. \A t \in Nat \cup {Forever} :
        /\ Less(t) \in Nat \cup {Forever}
        /\ t \in Nat => Less(t) \in Nat /\ Less(t) <= t
        /\ t = Forever => Less(t) = Forever
        /\ Less(t) # 0 => t # 0
        /\ t \in Nat /\ Less(t) # 0 => Less(t) = t - 1 /\ t > 1
  BY Values DEF Less
<1>3. ttl' \in [Key -> Nat \cup {Forever}]
  BY <1>1, <1>2, Values
<1>4. code' \in 0..MaxIssues /\ attempts' \in Nat
  BY <1>1, Values DEF IInv, TypeOK
<1>5. TypeOK'
  BY <1>1, <1>3, <1>4 DEF IInv, TypeOK
<1>6. ttl["attempts"] \in Nat \cup {Forever} /\ ttl["code"] \in Nat
      /\ ttl'["attempts"] = Less(ttl["attempts"]) /\ ttl'["code"] = Less(ttl["code"])
  BY <1>1, Values DEF Key
<1>7. KeysOK'
  <2>1. \A k \in Key \ {"attempts"} : ttl'[k] # Forever
    BY <1>1, <1>2, Values
  <2>2. ttl'["code"] <= CodeTtl
    BY <1>2, <1>6, Values DEF IInv, KeysOK
  <2>3. code' # 0 <=> ttl'["code"] # 0
    BY <1>1, <1>2, <1>6 DEF IInv, KeysOK, Exists
  <2>4. attempts' # 0 <=> ttl'["attempts"] # 0
    BY <1>1, <1>2, <1>6 DEF IInv, KeysOK, Exists
  <2> QED
    BY <2>1, <2>2, <2>3, <2>4 DEF KeysOK, Exists
<1>8. CodesOK' /\ SpentIsGone'
  <2>1. code' \in {0, code} /\ 0 \notin spent
    BY <1>1, Values
  <2> QED
    BY <2>1, <1>1, Values DEF IInv, CodesOK, At, SpentIsGone
<1>9. ASSUME ttl'["code"] # 0, ~ fresh, attempts # 0
      PROVE  ttl'["attempts"] = Forever \/ ttl'["attempts"] >= ttl'["code"]
  <2>1. ttl["code"] # 0 /\ ttl["code"] > 1 /\ ttl'["code"] = ttl["code"] - 1
    BY <1>2, <1>6, <1>9
  <2>2. ttl["attempts"] = Forever \/ ttl["attempts"] >= ttl["code"]
    BY <2>1, <1>9, Values DEF IInv, CounterOutlivesCode, Exists
  <2>3. CASE ttl["attempts"] = Forever
    BY <2>3, <1>2, <1>6
  <2>4. CASE ttl["attempts"] # Forever
    <3>1. ttl["attempts"] \in Nat /\ ttl["attempts"] >= ttl["code"]
      BY <2>2, <2>4, <1>6
    <3>2. Less(ttl["attempts"]) = ttl["attempts"] - 1
      BY <3>1, <2>1, <1>6, Values DEF Less
    <3> QED
      BY <3>1, <3>2, <2>1, <1>6
  <2> QED
    BY <2>3, <2>4
<1>10. CounterOutlivesCode'
  BY <1>1, <1>9, Values DEF CounterOutlivesCode, Exists
<1>11. Counted'
  <2> SUFFICES ASSUME ttl'["code"] # 0, ~ fresh
               PROVE  tried <= Capped(attempts)' + Cardinality(Pending') + crashes
    BY <1>1 DEF Counted, Exists
  <2>1. Pending' = Pending
    BY <1>1 DEF Pending
  <2>2. attempts' = attempts
    <3>1. CASE attempts # 0
      <4>1. ttl'["attempts"] # 0
        BY <3>1, <1>6, <1>7, <1>9, <1>2, Values
      <4> QED
        BY <4>1, <1>1
    <3>2. CASE attempts = 0
      BY <3>2, <1>1
    <3> QED
      BY <3>1, <3>2
  <2>3. Exists("code")
    BY <1>2, <1>6 DEF Exists
  <2>4. Capped(attempts)' = Capped(attempts)
    BY <2>2 DEF Capped
  <2> QED
    BY <2>1, <2>3, <2>4 DEF IInv, Counted
<1> QED
  BY <1>5, <1>7, <1>8, <1>10, <1>11 DEF IInv

LEMMA StutterIInv ==
  ASSUME IInv, UNCHANGED vars
  PROVE  IInv'
<1>1. UNCHANGED <<ttl, code, attempts, req, issued, fresh, tried, spent, crashes>>
  BY DEF vars
<1>2. TypeOK' /\ KeysOK' /\ CodesOK' /\ SpentIsGone' /\ CounterOutlivesCode'
  BY <1>1 DEF IInv, TypeOK, KeysOK, CodesOK, At, SpentIsGone, CounterOutlivesCode, Exists
<1>3. Counted'
  BY <1>1 DEF IInv, Counted, Exists, Pending, Capped
<1> QED
  BY <1>2, <1>3 DEF IInv

LEMMA StepIInv == IInv /\ [Next]_vars => IInv'
BY QuietStep, StoreCodeIInv, SideKeyIInv, ForgetIInv, DropIInv, CompareIInv, CountIInv,
   ExpireIInv, TickIInv, StutterIInv DEF Next, Step

LEMMA Invariance == Spec => []IInv
BY InitIInv, StepIInv, PTL DEF Spec

-----------------------------------------------------------------------------
(* Type correctness of the keys and the requests. *)
THEOREM TypeCorrect == Spec => []TypeOK
<1>1. IInv => TypeOK
  BY DEF IInv
<1> QED
  BY <1>1, Invariance, PTL

(* A code answers OK once: what was spent is never stored again. *)
THEOREM SpentTheorem == Spec => []SpentIsGone
<1>1. IInv => SpentIsGone
  BY DEF IInv
<1> QED
  BY <1>1, Invariance, PTL

(* The EXPIRE of the counter, sent once when it is made, is enough: it does  *)
(* not lapse before the code it counts against.                              *)
THEOREM CounterTheorem == Spec => []CounterOutlivesCode
<1>1. IInv => CounterOutlivesCode
  BY DEF IInv
<1> QED
  BY <1>1, Invariance, PTL

(* OTP_MAX_ATTEMPTS bounds the guesses at a code up to one for each request  *)
(* in flight and each one that died before its INCR.                         *)
THEOREM GuessTheorem == Spec => []GuessBound
<1>1. IInv => GuessBound
  <2> SUFFICES ASSUME IInv, Exists("code"), ~ fresh
               PROVE  tried <= (MaxAttempts - 1) + Cardinality(Proc) + crashes
    BY DEF GuessBound
  <2>1. tried <= Capped(attempts) + Cardinality(Pending) + crashes
    BY DEF IInv, Counted
  <2>2. Capped(attempts) \in Nat /\ Capped(attempts) <= MaxAttempts - 1 /\ MaxAttempts \in Nat
    BY Values, CappedType
  <2> QED
    BY <2>1, <2>2, PendingFinite, Values
<1> QED
  BY <1>1, Invariance, PTL
=============================================================================
