--------------------------------- MODULE Otp ---------------------------------
(***************************************************************************)
(* One-time passwords in Redis (OtpService): the four keys of one subject  *)
(* in one namespace, and the requests that issue and verify codes.  Every  *)
(* Redis command is awaited on its own, so every command is one action.    *)
(*                                                                         *)
(* A key is kept as the time it has left: 0 when it is absent.  Codes are  *)
(* numbered as they are issued; two issued codes never collide here.       *)
(***************************************************************************)
EXTENDS Naturals, FiniteSets

CONSTANTS
  Proc,         \* concurrent requests
  CodeTtl,      \* OTP_TTL_SECONDS
  Cooldown,     \* OTP_COOLDOWN_SECONDS
  LockTtl,      \* OTP_LOCK_SECONDS
  MaxAttempts,  \* OTP_MAX_ATTEMPTS
  Forever,      \* the time left of a key without a TTL
  MaxIssues,    \* bound on the codes issued
  MaxCrashes    \* bound on the requests that die half-way

ASSUME ConstantsAssumption ==
  /\ CodeTtl \in Nat \ {0} /\ Cooldown \in Nat \ {0} /\ LockTtl \in Nat \ {0}
  /\ MaxAttempts \in Nat \ {0, 1}
  /\ Forever \notin Nat
  /\ MaxIssues \in Nat /\ MaxCrashes \in Nat
  /\ IsFiniteSet(Proc)

VARIABLES
  ttl,       \* the time each key has left
  code,      \* the code the code key holds, 0 when it is absent
  attempts,  \* the value of the attempts key, 0 when it is absent
  req,       \* where each request is, and the code it compared with
  issued,    \* codes issued so far
  fresh,     \* history: no issue has deleted the counter since the code was stored
  tried,     \* history: wrong guesses at the code since it was stored or forgiven
  spent,     \* history: codes that were answered OK
  crashes

vars == <<ttl, code, attempts, req, issued, fresh, tried, spent, crashes>>

Key == {"code", "cooldown", "attempts", "lock"}
Pc == {"idle", "store", "cool", "forgive", "get", "count", "expire", "lock", "drop", "clear"}
Request == [pc : Pc, on : 0..MaxIssues]
Idle == [pc |-> "idle", on |-> 0]

TypeOK ==
  /\ ttl \in [Key -> Nat \cup {Forever}]
  /\ code \in 0..MaxIssues /\ issued \in 0..MaxIssues
  /\ attempts \in Nat /\ fresh \in BOOLEAN /\ tried \in Nat
  /\ req \in [Proc -> Request]
  /\ spent \subseteq 1..MaxIssues
  /\ crashes \in 0..MaxCrashes

Init ==
  /\ ttl = [k \in Key |-> 0]
  /\ code = 0 /\ attempts = 0 /\ issued = 0 /\ fresh = FALSE /\ tried = 0 /\ crashes = 0
  /\ req = [p \in Proc |-> Idle]
  /\ spent = {}

-----------------------------------------------------------------------------
Exists(k) == ttl[k] # 0
At(p, pc) == req[p].pc = pc
Goto(p, pc, c) == req' = [req EXCEPT ![p] = [pc |-> pc, on |-> c]]
Return(p) == req' = [req EXCEPT ![p] = Idle]

Set(k, n) == ttl' = [ttl EXCEPT ![k] = n]
Del(K) ==
  /\ ttl' = [k \in Key |-> IF k \in K THEN 0 ELSE ttl[k]]
  /\ code' = IF "code" \in K THEN 0 ELSE code
  /\ attempts' = IF "attempts" \in K THEN 0 ELSE attempts

(* issue: refused while the cooldown key has time left.                      *)
AskIssue(p) ==
  /\ At(p, "idle")
  /\ ~ Exists("cooldown")
  /\ Goto(p, "store", 0)
  /\ UNCHANGED <<ttl, code, attempts, issued, fresh, tried, spent, crashes>>

StoreCode(p) ==
  /\ At(p, "store")
  /\ issued < MaxIssues
  /\ issued' = issued + 1
  /\ code' = issued + 1 /\ Set("code", CodeTtl)
  /\ fresh' = TRUE /\ tried' = 0
  /\ Goto(p, "cool", 0)
  /\ UNCHANGED <<attempts, spent, crashes>>

SetCooldown(p) ==
  /\ At(p, "cool")
  /\ Set("cooldown", Cooldown)
  /\ Goto(p, "forgive", 0)
  /\ UNCHANGED <<code, attempts, issued, fresh, tried, spent, crashes>>

ForgetAttempts(p) ==
  /\ At(p, "forgive")
  /\ Del({"attempts"})
  /\ fresh' = FALSE /\ tried' = 0
  /\ Return(p)
  /\ UNCHANGED <<issued, spent, crashes>>

(* verify: LOCKED while the lock key exists.                                 *)
AskVerify(p) ==
  /\ At(p, "idle")
  /\ ~ Exists("lock")
  /\ Goto(p, "get", 0)
  /\ UNCHANGED <<ttl, code, attempts, issued, fresh, tried, spent, crashes>>

(* The stored digest is read and compared with the guess.                    *)
Compare(p) ==
  /\ At(p, "get")
  /\ \/ /\ Exists("code")                        \* the right code
        /\ Goto(p, "clear", code)
        /\ UNCHANGED tried
     \/ /\ Goto(p, "count", 0)                   \* a wrong one, or none is stored
        /\ tried' = IF Exists("code") THEN tried + 1 ELSE tried
  /\ UNCHANGED <<ttl, code, attempts, issued, fresh, spent, crashes>>

CountOffByOne(p) ==  \* seeded fault
  LET n == attempts + 1 IN
  /\ At(p, "count")
  /\ attempts' = n
  /\ ttl' = IF n = 1 THEN [ttl EXCEPT !["attempts"] = Forever] ELSE ttl
  /\ \/ n = 1 /\ Goto(p, "expire", 0)
     \/ n # 1 /\ n <= MaxAttempts /\ Return(p)
     \/ n # 1 /\ n > MaxAttempts /\ Goto(p, "lock", 0)
  /\ UNCHANGED <<code, issued, fresh, tried, spent, crashes>>

(* INCR makes the key when it is absent, without a TTL.                      *)
Count(p) ==
  LET n == attempts + 1 IN
  /\ At(p, "count")
  /\ attempts' = n
  /\ ttl' = IF n = 1 THEN [ttl EXCEPT !["attempts"] = Forever] ELSE ttl
  /\ \/ n = 1 /\ Goto(p, "expire", 0)
     \/ n # 1 /\ n < MaxAttempts /\ Return(p)
     \/ n # 1 /\ n >= MaxAttempts /\ Goto(p, "lock", 0)
  /\ UNCHANGED <<code, issued, fresh, tried, spent, crashes>>

ExpireWithCooldown(p) ==  \* seeded fault
  /\ At(p, "expire")
  /\ IF Exists("attempts") THEN Set("attempts", Cooldown) ELSE UNCHANGED ttl
  /\ Return(p)
  /\ UNCHANGED <<code, attempts, issued, fresh, tried, spent, crashes>>

Expire(p) ==
  /\ At(p, "expire")
  /\ IF Exists("attempts") THEN Set("attempts", CodeTtl) ELSE UNCHANGED ttl
  /\ Return(p)
  /\ UNCHANGED <<code, attempts, issued, fresh, tried, spent, crashes>>

LockSubject(p) ==
  /\ At(p, "lock")
  /\ Set("lock", LockTtl)
  /\ Goto(p, "drop", 0)
  /\ UNCHANGED <<code, attempts, issued, fresh, tried, spent, crashes>>

Drop(p) ==
  /\ At(p, "drop")
  /\ Del({"code", "attempts"})
  /\ Return(p)
  /\ UNCHANGED <<issued, fresh, tried, spent, crashes>>

ClearKeepingCode(p) ==  \* seeded fault
  /\ At(p, "clear")
  /\ Del({"attempts", "lock"})
  /\ spent' = spent \cup {req[p].on}
  /\ Return(p)
  /\ UNCHANGED <<issued, fresh, tried, crashes>>

(* OK.                                                                       *)
Clear(p) ==
  /\ At(p, "clear")
  /\ Del({"code", "attempts", "lock"})
  /\ spent' = spent \cup {req[p].on}
  /\ Return(p)
  /\ UNCHANGED <<issued, fresh, tried, crashes>>

-----------------------------------------------------------------------------
(* The process dies or a command throws between two awaits. *)
Crash(p) ==
  /\ ~ At(p, "idle") /\ crashes < MaxCrashes
  /\ crashes' = crashes + 1
  /\ Return(p)
  /\ UNCHANGED <<ttl, code, attempts, issued, fresh, tried, spent>>

Less(n) == IF n \in {0, Forever} THEN n ELSE n - 1

Tick ==
  /\ \E k \in Key : ttl[k] \notin {0, Forever}
  /\ ttl' = [k \in Key |-> Less(ttl[k])]
  /\ code' = IF ttl'["code"] = 0 THEN 0 ELSE code
  /\ attempts' = IF ttl'["attempts"] = 0 THEN 0 ELSE attempts
  /\ UNCHANGED <<req, issued, fresh, tried, spent, crashes>>

Step(p) ==
  \/ StoreCode(p) \/ SetCooldown(p) \/ ForgetAttempts(p)
  \/ Compare(p) \/ Count(p) \/ Expire(p) \/ LockSubject(p) \/ Drop(p) \/ Clear(p)

Next ==
  \/ \E p \in Proc : AskIssue(p) \/ AskVerify(p) \/ Step(p) \/ Crash(p)
  \/ Tick

Spec == Init /\ [][Next]_vars

-----------------------------------------------------------------------------
(* A code that was answered OK is no longer stored. *)
SpentIsGone == code \notin spent

(* The counter does not lapse before the code it counts against, or the      *)
(* guesses would start from zero.                                            *)
CounterOutlivesCode ==
  Exists("code") /\ attempts > 0 /\ ~ fresh =>
    ttl["attempts"] = Forever \/ ttl["attempts"] >= ttl["code"]

(* The guesses at one code are bounded: the comparison comes before the      *)
(* INCR, so every other request in flight, and every one that dies, may add  *)
(* one to what OTP_MAX_ATTEMPTS allows, and no more than one.  An issue that *)
(* has stored its code and not yet deleted the counter starts the count anew.*)
GuessBound ==
  Exists("code") /\ ~ fresh => tried <= (MaxAttempts - 1) + Cardinality(Proc) + crashes

=============================================================================
