---------------------------- MODULE AdvisoryLock ----------------------------
(***************************************************************************)
(* The scheduler's single-instance guard: AdvisoryLockService.runExclusive *)
(* around each tick of RetentionExpireJob, in several worker instances.    *)
(*                                                                         *)
(* The lock is one of PostgreSQL's session-level advisory locks: it        *)
(* belongs to a connection, the session that holds it may take it again,   *)
(* and only that session can give it back.  Prisma runs each statement on  *)
(* whichever pooled connection is free, so the SELECT that takes the lock  *)
(* and the one that gives it back may use different sessions.              *)
(***************************************************************************)
EXTENDS Naturals, FiniteSets

CONSTANTS
  Instance,   \* worker processes
  Conn,       \* pooled connections, PoolOf[c] the instance of each
  Job,        \* ticks that can be under way at once, HomeOf[j] the instance of each
  PoolOf, HomeOf,
  Nobody,     \* the holder of a free lock
  MaxDepth,   \* bound on how often the holder takes the lock again
  MaxDrops    \* bound on the sessions that end under a running instance

ASSUME ConstantsAssumption ==
  /\ PoolOf \in [Conn -> Instance] /\ HomeOf \in [Job -> Instance]
  /\ Nobody \notin Conn
  /\ MaxDepth \in Nat /\ MaxDrops \in Nat
  /\ IsFiniteSet(Job)

VARIABLES
  holder,  \* the session that holds the lock
  depth,   \* how often it has taken it
  pc,      \* where each tick is: idle, work (in the callback), unlock
  drops

vars == <<holder, depth, pc, drops>>

TypeOK ==
  /\ holder \in Conn \cup {Nobody}
  /\ depth \in 0..MaxDepth
  /\ depth = 0 <=> holder = Nobody
  /\ pc \in [Job -> {"idle", "work", "unlock"}]
  /\ drops \in 0..MaxDrops

Init ==
  /\ holder = Nobody /\ depth = 0 /\ drops = 0
  /\ pc = [j \in Job |-> "idle"]

-----------------------------------------------------------------------------
(* The connections a statement of the tick may run on. *)
PoolFor(j) == {c \in Conn : PoolOf[c] = HomeOf[j]}
Goto(j, at) == pc' = [pc EXCEPT ![j] = at]

(* pg_advisory_unlock on session c: a warning and FALSE unless c holds it. *)
UnlockBlindly(c) ==  \* seeded fault
  /\ depth' = IF depth = 1 \/ holder = c THEN depth - 1 ELSE depth
  /\ UNCHANGED holder
UnlockAll(c) ==  \* seeded fault
  IF holder = c THEN holder' = Nobody /\ depth' = 0 ELSE UNCHANGED <<holder, depth>>
Unlock(c) ==
  IF holder = c
  THEN /\ depth' = depth - 1
       /\ holder' = IF depth = 1 THEN Nobody ELSE c
  ELSE UNCHANGED <<holder, depth>>

(* The cron fires, whether or not the last tick has ended, and               *)
(* pg_try_advisory_lock answers true.                                        *)
Acquire(j) ==
  /\ pc[j] = "idle"
  /\ depth < MaxDepth
  /\ \E c \in PoolFor(j) :
       /\ holder \in {Nobody, c}
       /\ holder' = c
  /\ depth' = depth + 1
  /\ Goto(j, "work")
  /\ UNCHANGED drops

(* The lock is taken and the answer lost: runExclusive throws before its     *)
(* try, and nobody is left to give the lock back.                            *)
AcquireLost(j) ==
  /\ pc[j] = "idle"
  /\ depth < MaxDepth
  /\ \E c \in PoolFor(j) :
       /\ holder \in {Nobody, c}
       /\ holder' = c
  /\ depth' = depth + 1
  /\ UNCHANGED <<pc, drops>>

(* It answers false: the tick is skipped. *)
Skip(j) ==
  /\ pc[j] = "idle"
  /\ \E c \in PoolFor(j) : holder \notin {Nobody, c}
  /\ UNCHANGED vars

(* work() resolves or throws: finally. *)
Finish(j) ==
  /\ pc[j] = "work"
  /\ Goto(j, "unlock")
  /\ UNCHANGED <<holder, depth, drops>>

Release(j) ==
  /\ pc[j] = "unlock"
  /\ \E c \in PoolFor(j) : Unlock(c)
  /\ Goto(j, "idle")
  /\ UNCHANGED drops

-----------------------------------------------------------------------------
(* An instance dies: its sessions end, and a lock they held is free. *)
Crash(i) ==
  /\ IF holder # Nobody /\ PoolOf[holder] = i
     THEN holder' = Nobody /\ depth' = 0
     ELSE UNCHANGED <<holder, depth>>
  /\ pc' = [j \in Job |-> IF HomeOf[j] = i THEN "idle" ELSE pc[j]]
  /\ UNCHANGED drops

(* The session that holds the lock ends while its instance lives on: a lost  *)
(* connection, or one the pool has recycled.                                 *)
DropSession ==
  /\ holder # Nobody /\ drops < MaxDrops
  /\ drops' = drops + 1
  /\ holder' = Nobody /\ depth' = 0
  /\ UNCHANGED pc

Next ==
  \/ \E j \in Job : Acquire(j) \/ AcquireLost(j) \/ Skip(j) \/ Finish(j) \/ Release(j)
  \/ \E i \in Instance : Crash(i)
  \/ DropSession

Spec == Init /\ [][Next]_vars

-----------------------------------------------------------------------------
Busy == {j \in Job : pc[j] # "idle"}
Working == {j \in Job : pc[j] = "work"}

(* Two instances are never in the callback at once, wherever the pool runs   *)
(* the statements, whatever crashes, and although the answer that took the   *)
(* lock may be lost and an unlock may hit another session or an overlapping  *)
(* tick of the same instance: the lock can leak, never be given away.  A     *)
(* session lost under a running tick ends that.                              *)
OneInstanceWorks ==
  drops = 0 => \A i, j \in Working : HomeOf[i] = HomeOf[j]
=============================================================================
