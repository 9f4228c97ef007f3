SPECIFICATION Spec
CONSTANTS
  Proc = {p1, p2}
  CodeTtl = 2
  Cooldown = 1
  LockTtl = 3
  MaxAttempts = 3
  Forever = Forever
  MaxIssues = 2
  MaxCrashes = 1
SYMMETRY Symmetry
CHECK_DEADLOCK FALSE
INVARIANTS
  SpentIsGone
  CounterOutlivesCode
  GuessBound
