CONSTANTS
  Names = {x, y}
  Cells = {c1, c2}
  None = None
  int = int
  str = str
  sum = sum
  Types <- MCSumTypes
  Subtype <- MCSumSubtype
SPECIFICATION Spec
INVARIANTS UsesAreSubtypes
CHECK_DEADLOCK FALSE
