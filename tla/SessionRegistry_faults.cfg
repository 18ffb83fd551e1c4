SPECIFICATION Spec
CONSTANTS
  Name = {work, play}
  Token = {ta, tb}
  MaxClients = 4
  MaxPanes = 2
  Faults = {"send", "pty"}
SYMMETRY Symmetry
INVARIANTS
  HoldersAreLive
  OneHolder
  PendingIsCurrent
  ExitsOnRecord
PROPERTIES
  NoSilentDisplacement
CHECK_DEADLOCK FALSE
