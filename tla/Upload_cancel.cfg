SPECIFICATION FairSpec
CONSTANTS
  Batches <- SomeBatches
  MaxItems = 3
  MaxTotal = 3
  Capacity = 3
INVARIANTS
  EndsAgree
  CancelledChildIsKilled
PROPERTIES
  UploadEnds
CHECK_DEADLOCK FALSE
