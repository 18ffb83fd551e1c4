SPECIFICATION FairSpec
CONSTANTS
  MaxConns = 1
  MaxOutput = 2
  MaxMessages = 1
  Request = {"scroll", "resize", "heartbeat", "detach"}
  MayStall = TRUE
  QueueCapacity = 2
  ControlCapacity = 2
  PaneCapacity = 2
INVARIANTS
  OneInFlight
  ExitComesLast
  NothingOwed
PROPERTIES
  OutputIsSeen
  ExitIsSeen
CHECK_DEADLOCK FALSE
