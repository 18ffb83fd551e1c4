SPECIFICATION SelectionSpec
CONSTANTS
  Typed <- SomeTyped
  MaxRead = 1
  Gestures <- SomeGestures
  Sizes <- SomeSizes
  Screens <- NoScreens
  MaxQuery = 0
  MaxDrift = 2
  HistoryLimit = 2
  MaxLines = 3
  MaxRequests = 2
  MaxWaiting = 2
  MaxSnapshots = 1
  MaxCuts = 1
INVARIANTS
  SelectionOnItsLine
  CopiedIsHighlighted
CHECK_DEADLOCK FALSE
