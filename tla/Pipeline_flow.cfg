SPECIFICATION FairSpec
CONSTANTS
  Apps <- AllApps
  CropBuffers = 3
  Hold = 2
  BatchNum = 2
INVARIANTS TypeOK InOrder PacketsConserved SurfacesConserved
PROPERTIES Flows StopEnds
CHECK_DEADLOCK FALSE
