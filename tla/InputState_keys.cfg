SPECIFICATION Spec
CONSTANTS
  Typed <- SomeTyped
  MaxRead = 1
  Sizes <- SomeSizes
  Screens <- SomeScreens
  MaxQuery = 1
  MaxDrift = 0
INVARIANTS
  ReadBoundariesDoNotMatter
CHECK_DEADLOCK FALSE
