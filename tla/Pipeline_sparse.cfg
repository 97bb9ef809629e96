SPECIFICATION FairSpec
CONSTANTS
  Apps <- SampleSparse
  CropBuffers = 3
  Hold = 2
  BatchNum = 2
PROPERTY PoolsSuffice
CHECK_DEADLOCK FALSE
