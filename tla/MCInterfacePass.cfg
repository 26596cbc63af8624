SPECIFICATION Spec
CONSTANTS
  None = None
  Module <- MCModule
  PassObject = {p1, p2}
  Kernel = {"k1", "k2"}
  MaxRuns = 2
INVARIANTS TypeOK NamedAfterModule HeadersAreLatest
SYMMETRY MCSymmetry
CHECK_DEADLOCK FALSE
