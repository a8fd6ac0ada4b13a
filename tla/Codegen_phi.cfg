CONSTANTS
  MaxBlocks = 6
  MaxFunctions = 1
  MaxDepth = 3
  MaxContent = 2
  Constructs = {"logic"}
SPECIFICATION Spec
INVARIANTS PhiMergesSides
CHECK_DEADLOCK FALSE
