SPECIFICATION Spec
CONSTANTS
  Name = {work, play}
  Token = {ta}
  MaxClients = 3
  MaxPanes = 2
  Faults = {"send", "disk", "pty"}
SYMMETRY Symmetry
INVARIANTS
  TypeOK
  SearchFollowsHolder
  PanesHaveOneSession
CHECK_DEADLOCK FALSE
