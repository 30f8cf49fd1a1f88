CONSTANTS
  NPages = 5
  MaxReq = 3
  MaxRef = 2
SPECIFICATION FairSpec
INVARIANTS
  BlockListOK
PROPERTIES
  ImplementsPageAllocator
  SearchEnds
CHECK_DEADLOCK FALSE
