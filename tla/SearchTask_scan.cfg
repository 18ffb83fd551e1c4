SPECIFICATION FairSpec
CONSTANTS
  Rows = 2
  HistoryLimit = 3
  SearchStep = 2
  MaxLines = 6
  MaxSearches = 2
INVARIANTS
  TypeOK
  ScanFollowsReference
PROPERTIES
  FoundIsShown
  NothingMissed
  ViewIsKept
  SearchEnds
CHECK_DEADLOCK FALSE
