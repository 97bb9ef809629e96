SPECIFICATION FairSpec
CONSTANTS
  MaxLength = 4
  ChunkSize = 4
  FileLens = {0, 9}
  MaxRead = 22
INVARIANTS TypeOK StreamInOrder EndIsReal
PROPERTY ReadReturns
CHECK_DEADLOCK FALSE
