SPECIFICATION Spec
CONSTANTS
  User = {u1}
  Phone = {ph}
  OAuth = {oa}
  Mail = {ml}
  Proc = {p1, p2}
  Worker = {w1}
  Nobody = Nobody
  Null = Null
  Grace = 0
  RetentionGrace = 0
  MaxTime = 1
  MaxCrashes = 0
SYMMETRY Symmetry
CHECK_DEADLOCK FALSE
INVARIANTS
  DeactivatedIsDated
PROPERTIES
  IllegalOnlyByLostRace
  OutOfReachStays
