\* Two administrators, one Idempotency-Key, one code; three versions of
\* entries at most, two milliseconds, one fault.
SPECIFICATION Spec
CONSTANTS
  Admin = {a1, a2}
  Key = {k}
  Code = {"c"}
  None = None
  Bodies <- MCBodies
  MaxVersions = 3
  MaxClock = 1
  MaxFaults = 1
SYMMETRY Symmetry
INVARIANTS CreatedOnce StoredIsDone TrailComplete TrailAlternates SilentOverwriteNeedsARace
