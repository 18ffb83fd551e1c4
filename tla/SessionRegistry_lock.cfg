SPECIFICATION Spec
CONSTANTS
  Name = {work, play}
  Token = {ta}
  MaxClients = 4
  MaxPanes = 2
  Faults = {}
SYMMETRY Symmetry
INVARIANTS
  MetadataMatches
  FinishedTemporaryIsGone
PROPERTIES
  ImplementsLock
  NoReturn
CHECK_DEADLOCK FALSE
