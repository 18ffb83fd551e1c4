SPECIFICATION FairSpec
CONSTANTS
  MaxConns = 1
  MaxOutput = 0
  MaxMessages = 0
  Request = {}
  MayStall = TRUE
  QueueCapacity = 2
  ControlCapacity = 4
  PaneCapacity = 1
PROPERTIES
  StopEnds
CHECK_DEADLOCK FALSE
