SPECIFICATION PowerSpec
CONSTANTS
  Keys <- MCIds
  Word = 4
  BucketSize = 1
  Sizes = {1}
  Size = 1
  BlockId = 1
  MaxNodes = 3
  MapLimit = 1
  MaxVersion = 4
  MaxCrashes = 1
  MaxFaults = 0
  MaxRuns = 3
  main_blocksize = 1
  RecordsPerPage = 2
CHECK_DEADLOCK FALSE
INVARIANT ClosedFilesSurvive
