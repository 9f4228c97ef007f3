\* A token and a request last one unit of time; the clock, the sessions and the
\* role changes of a user are bounded; of two sessions, the first can be ended
\* by something else.
SPECIFICATION AccessSpec
CONSTANTS
  User = {a, b}
  Admin = {a}
  Role = {"ADMIN", "USER"}
  Input = {"ADMIN", "USER", "OWNER"}
  Proc = {p, q}
  TTL = 1
  MaxFlight = 1
  MaxSessions = 2
  Ending = {1}
  MaxChanges = 1
  MaxTime = 2
CHECK_DEADLOCK FALSE
SYMMETRY Symmetry
INVARIANTS AccessTypeOK AuthorityIsRecent RecordedIsSwept
