SPECIFICATION Spec
CONSTANTS
  Entries = {e1, e2, e3, e4, e5, e6}
  C = 2
  Root = root
  None = none
SYMMETRY Symmetry
INVARIANTS OnePlace WithinBounds PointersGood
PROPERTY FoundIsLive
CHECK_DEADLOCK FALSE
