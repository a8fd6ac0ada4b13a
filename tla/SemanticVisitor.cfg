CONSTANTS
  f = f
  x = x
  int = int
  arr = arr
  Return = Return
  Main = Main
  Program = Program
  Absent = Absent
  Names <- MCNames
  Headings <- MCHeadings
  Declarators <- MCDeclarators
  Units <- MCUnits
  NoRuntime = FALSE
  SumCases = {int, arr}
  Denoted = {int, arr}
  Shared = {int}
  MaxScopes = 4
  MaxDepth = 4
SPECIFICATION Spec
INVARIANTS TypeOK ScopesFollowHandlers BodiesEnd ReturnsAgree DefinitionsAreOwn MatchCovers
CHECK_DEADLOCK FALSE
