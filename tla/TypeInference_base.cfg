CONSTANTS
  Names = {x, y, z}
  Cells = {c1, c2, c3}
  None = None
  int = int
  str = str
  sum = sum
  Types <- MCBaseTypes
  Subtype <- MCBaseSubtype
SPECIFICATION Spec
SYMMETRY Symmetric
INVARIANTS TypeOK LinksAgree FlowsHold
PROPERTIES InferredOnce
CHECK_DEADLOCK FALSE
