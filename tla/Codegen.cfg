CONSTANTS
  MaxBlocks = 6
  MaxFunctions = 2
  MaxDepth = 4
  MaxContent = 1
  Constructs = {"if", "while", "select", "match", "block", "nested", "logic"}
SPECIFICATION Spec
INVARIANTS TypeOK InsertsInFunction FinishedFunctionsEnd CodeFollowsSource OneTerminator PhiFollowsOperands
CHECK_DEADLOCK FALSE
