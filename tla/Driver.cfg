CONSTANTS
  Paths = {p, q}
  OutName = OutName
  NoOut = NoOut
  MaxFiles = 3
SPECIFICATION Spec
INVARIANTS TypeOK OutputsAreValid LinksWhatItCompiled LinksNewest EveryInputDealtWith
CHECK_DEADLOCK FALSE
