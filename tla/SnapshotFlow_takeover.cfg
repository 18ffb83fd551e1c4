SPECIFICATION Spec
CONSTANTS
  MaxConns = 2
  MaxOutput = 1
  MaxMessages = 1
  Request = {"heartbeat"}
  MayStall = FALSE
  QueueCapacity = 2
  ControlCapacity = 1
  PaneCapacity = 1
INVARIANTS
  ChangesApply
PROPERTIES
  ImplementsDelivery
CHECK_DEADLOCK FALSE
