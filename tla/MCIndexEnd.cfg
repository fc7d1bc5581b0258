SPECIFICATION Spec
CONSTANTS
  Keys <- MCKeysOneBucket
  Word = 4
  BucketSize = 2
  Sizes = {1}
  BlockId = 1
  MaxNodes = 3
  MapLimit = 1
  MaxVersion = 6
  MaxCrashes = 0
  MaxFaults = 1
INVARIANT EndIsUnused
