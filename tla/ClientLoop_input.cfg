SPECIFICATION Spec
CONSTANTS
  MaxTyped = 3
  MaxRead = 2
  MaxConns = 2
  Kinds = {"key", "esc", "enter", "paste", "start", "end", "detach"}
  Transports = {TRUE, FALSE}
  InputBurst = 2
INVARIANTS
  AtMostOnce
  NothingLost
  NothingStale
  WrittenInOrder
  ViewIsCurrent
CHECK_DEADLOCK FALSE
