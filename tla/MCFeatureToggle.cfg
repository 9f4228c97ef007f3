\* The TTL is one unit and a fetch takes at most one; the clock and the number
\* of flips are bounded, so that the system stops.
SPECIFICATION Spec
CONSTANTS
  Instance = {i, j}
  Proc = {p, q}
  Rollout = {0, 50}
  Input <- MCInput
  TTL = 1
  MaxFetch = 1
  Unset = Unset
  NoEntry = NoEntry
  MaxFlips = 2
  MaxTime = 2
CHECK_DEADLOCK FALSE
SYMMETRY Symmetry
INVARIANTS StaleBound OwnFlipIsSeen NoFieldIsLost TrailChains
