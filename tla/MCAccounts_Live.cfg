SPECIFICATION FairSpec
CONSTANTS
  User = {u1, u2}
  Phone = {ph}
  OAuth = {}
  Mail = {}
  Proc = {p1}
  Worker = {w1}
  Nobody = Nobody
  Null = Null
  Grace = 0
  RetentionGrace = 0
  MaxTime = 1
  MaxCrashes = 1
CHECK_DEADLOCK FALSE
PROPERTIES
  OverdueIsErased
  ErasureIsAudited
