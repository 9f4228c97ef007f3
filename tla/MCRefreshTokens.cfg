SPECIFICATION Spec
CONSTANTS
  User = {u1}
  NoUser = NoUser
  Proc = {p1, p2}
  MaxTokens = 4
  MaxFamilies = 2
SYMMETRY Symmetry
INVARIANTS
  OneLivePerFamily
  ClosedIsFinal
  CapUnderConcurrency
  BlockedSessionsAreLogins
