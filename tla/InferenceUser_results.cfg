SPECIFICATION FairSpec
CONSTANTS
  AsyncDepth = 2
  BatchNum = 2
  MayFail = TRUE
  Found = {1, 2}
  MaxImages = 7
INVARIANTS TypeOK ResultsInOrder
PROPERTY AllHandedOver
CHECK_DEADLOCK FALSE
