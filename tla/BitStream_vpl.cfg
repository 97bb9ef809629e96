SPECIFICATION SpecVpl
CONSTANTS
  MaxLength = 4
  ChunkSize = 4
  FileLens = {13}
  MaxRead = 13
INVARIANT RemainingIsKept
CHECK_DEADLOCK FALSE
