SPECIFICATION BlockSpec
CONSTANTS
  Keys <- MCIds
  Word = 4
  BucketSize = 2
  Sizes = {1}
  Size = 1
  BlockId = 1
  MaxNodes = 3
  MapLimit = 3
  MaxVersion = 3
  MaxCrashes = 1
  MaxFaults = 0
  MaxRuns = 2
  main_blocksize = 4
INVARIANT NextIdIsFree
