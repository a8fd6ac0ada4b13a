CONSTANTS
  Ids = {x}
  Flags <- MCFlags
  Absent = Absent
  MaxScopes = 4
SPECIFICATION FairSpec
INVARIANTS TypeOK ChainMatchesVector StopsAreLive WalkInStep
PROPERTIES DeclarationsPersist LookupReturns ImplementsLexicalScoping
