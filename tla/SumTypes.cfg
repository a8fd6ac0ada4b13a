CONSTANTS
  int = int
  bool = bool
  str = str
  A = A
  Anon = Anon
  W = W
  P = P
  Q = Q
  v = v
  n = n
  None = None
  Vars = {x, y}
  Base <- MCBase
  Sums <- MCSums
  Structs = {P, Q}
  Declares <- MCDeclares
  Paths <- MCPaths
  Sorted <- MCSortedAll
  Cases <- MCCases
SPECIFICATION Spec
INVARIANTS ContentsTyped MeaningKept
CHECK_DEADLOCK FALSE
