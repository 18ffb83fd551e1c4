SPECIFICATION Spec
CONSTANTS
  Sizes <- SomeSizes
  Deltas <- SomeDeltas
  MaxPanes = 3
  MaxAdjusts = 1
  MaxFailures = 1
INVARIANTS
  ScreenIsTiled
  LayoutFitsPanes
  FocusMoves
PROPERTIES
  SplitDividesFocused
CHECK_DEADLOCK FALSE
