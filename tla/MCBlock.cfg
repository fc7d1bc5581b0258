SPECIFICATION BlockSpec
CONSTANTS
  Keys <- MCIds
  Word = 4
  BucketSize = 2
  Sizes = {2}
  Size = 2
  BlockId = 1
  MaxNodes = 3
  MapLimit = 2
  MaxVersion = 4
  MaxCrashes = 1
  MaxFaults = 1
  MaxRuns = 4
  main_blocksize = 4
INVARIANTS
  BlockTypeOK
  RefusedOnlyAfterDeath
  OrphansAccounted
PROPERTY ImplementsBlockStore
