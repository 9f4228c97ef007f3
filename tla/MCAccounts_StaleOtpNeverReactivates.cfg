SPECIFICATION FairSpec
CONSTANTS
  User = {u1}
  Phone = {ph}
  OAuth = {oa}
  Mail = {ml}
  Proc = {p1, p2}
  Worker = {w1}
  Nobody = Nobody
  Null = Null
  Grace = 0
  RetentionGrace = 0
  MaxTime = 1
  MaxCrashes = 1
CHECK_DEADLOCK FALSE
PROPERTY StaleOtpNeverReactivates
