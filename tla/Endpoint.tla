------------------------------ MODULE Endpoint ------------------------------
(***************************************************************************)
(* What the API conventions promise of one endpoint, whatever it is for    *)
(* (API_CONVENTIONS.md, section 4 and section 10, and the audit rule of    *)
(* the services): a request is answered once; it succeeds only when the    *)
(* changes it made are in the audit log; when it is refused, nothing of    *)
(* what it asked for has been done; a problem has a code that belongs to   *)
(* its status.  Of a request that breaks (5xx) nothing is promised.        *)
(***************************************************************************)
CONSTANTS
  Effect,     \* what a request may do to the stored state
  Change,     \* effects that are to be audited
  Tolerated   \* effects that a refused request may leave: counters, burnt codes and sessions, a pending account

VARIABLES
  done,        \* the effects of the request so far
  unrecorded,  \* the changes among them that have no audit row yet
  reply

vars == <<done, unrecorded, reply>>

Pending == [status |-> 0, code |-> "none"]

Success == {200, 201, 202, 204, 304}
Refusal == {400, 401, 403, 404, 409, 412, 422, 428, 429}
Failure == {500, 503}

\* The codes by which a client may tell why: those of section 4, and the domain codes that extend them.
Code(status) ==
  CASE status = 400 -> {"VALIDATION_ERROR", "INVALID_OTP"}
    [] status = 401 -> {"UNAUTHENTICATED"}
    [] status = 403 -> {"FORBIDDEN"}
    [] status = 404 -> {"NOT_FOUND"}
    [] status = 409 -> {"CONFLICT"}
    [] status = 412 -> {"STALE_RESOURCE"}
    [] status = 422 -> {"IDEMPOTENCY_KEY_REUSED"}
    [] status = 428 -> {"PRECONDITION_REQUIRED"}
    [] status = 429 -> {"RATE_LIMITED"}
    [] status = 500 -> {"INTERNAL"}
    [] status = 503 -> {"UPSTREAM_UNAVAILABLE"}

Init == done = {} /\ unrecorded = {} /\ reply = Pending

Work(e) ==
  /\ reply = Pending
  /\ done' = done \cup {e}
  /\ unrecorded' = unrecorded \cup ({e} \cap Change)
  /\ UNCHANGED reply

Record ==
  /\ reply = Pending
  /\ done' = done \cup {"audit"}
  /\ unrecorded' = {}
  /\ UNCHANGED reply

Succeed(status) ==
  /\ reply = Pending /\ unrecorded = {}
  /\ reply' = [status |-> status, code |-> "none"]
  /\ UNCHANGED <<done, unrecorded>>

Refuse(status) ==
  /\ reply = Pending /\ done \subseteq Tolerated \cup {"audit"}
  /\ \E c \in Code(status) : reply' = [status |-> status, code |-> c]
  /\ UNCHANGED <<done, unrecorded>>

Break(status) ==
  /\ reply = Pending
  /\ \E c \in Code(status) : reply' = [status |-> status, code |-> c]
  /\ UNCHANGED <<done, unrecorded>>

NextRequest ==
  /\ reply # Pending
  /\ done' = {} /\ unrecorded' = {} /\ reply' = Pending

Next ==
  \/ \E e \in Effect \ {"audit"} : Work(e)
  \/ Record
  \/ \E s \in Success : Succeed(s)
  \/ \E s \in Refusal : Refuse(s)
  \/ \E s \in Failure : Break(s)
  \/ NextRequest

Spec == Init /\ [][Next]_vars
=============================================================================
