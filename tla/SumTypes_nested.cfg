CONSTANTS
  int = int
  bool = bool
  str = str
  A = A
  Anon = Anon
  W = W
  P = P
  Q = Q
  v = v
  n = n
  None = None
  Vars = {x, y, z}
  Base <- MCBase
  Sums <- MCSums
  Structs = {}
  Declares <- MCNoDeclares
  Paths <- MCNoPaths
  Sorted <- MCSorted
  Cases <- MCNestedCases
SPECIFICATION Spec
INVARIANTS TagNamesData
CHECK_DEADLOCK FALSE
