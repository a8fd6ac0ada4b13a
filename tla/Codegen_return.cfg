CONSTANTS
  MaxBlocks = 4
  MaxFunctions = 1
  MaxDepth = 3
  MaxContent = 2
  Constructs = {"while", "block"}
SPECIFICATION Spec
INVARIANTS NothingFollowsReturn
CHECK_DEADLOCK FALSE
