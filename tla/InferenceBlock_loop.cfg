SPECIFICATION FairSpec
CONSTANTS
  AsyncDepth = 2
  BatchNum = 2
  MayFail = TRUE
  MostImages = 3
  MaxPackets = 6
  Networks <- DetectorAndClassifier
INVARIANTS TypeOK SentInOrder HeldPackets SentComplete RecordedIsInside
PROPERTIES PassEnds StageSpec
CHECK_DEADLOCK FALSE
