SPECIFICATION Spec
CONSTANTS
  AsyncDepth = 1
  BatchNum = 1
  MayFail = FALSE
  Found = {0, 1}
  MaxImages = 3
INVARIANTS FreeMeansAll
CHECK_DEADLOCK FALSE
