CONSTANTS
  p = p
  x = x
  Return = Return
  Main = Main
  Program = p
  Absent = Absent
  Names <- MCNames
  Headings <- MCHeadings
  Declarators <- MCDeclarators
  Units <- MCUnits
  NoRuntime = TRUE
  SumCases = {}
  Denoted = {}
  Shared = {}
  MaxScopes = 4
  MaxDepth = 3
  MaxTree = 6
SPECIFICATION NamingSpec
INVARIANTS NamingTypeOK TopLevelKeepsNames CallsReachTheirFunction StorageIsOwn BodiesOnce
CHECK_DEADLOCK FALSE
