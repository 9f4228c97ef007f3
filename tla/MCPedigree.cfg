\* Three animals, two statements side by side; the trigger follows one level
\* of ancestors, so that a cycle of two is beyond what it sees in time.
SPECIFICATION PedigreeSpec
CONSTANTS
  Id = {a, b, c}
  Species = {sp}
  Writer = {s, t}
  None = None
  MaxDate = 1
  WalkDepth = 1
CHECK_DEADLOCK FALSE
SYMMETRY Symmetry
INVARIANTS ParentsFit Acyclic
