SPECIFICATION FairSpec
CONSTANTS
  Apps <- AllApps
  Suggested = 2
  MaxSteps = 2
  Sessions = {1, 2}
  Holders <- BlocksAndRuntime
  Mids = {1, 2, 3, 4, 5, 6}
  MaxFrames = 10
  Wrap = 4
  NULL = NULL
INVARIANTS TypeOK RefCounts WholeArrays ArraysExclusive SameSurfaces StepsCounted CountdownEnds
PROPERTY ProgramEnds
CHECK_DEADLOCK FALSE
