SPECIFICATION FairSpec
CONSTANTS
  Keys <- MCKeysOneBucket
  Word = 4
  BucketSize = 2
  Sizes = {1}
  BlockId = 1
  MaxNodes = 3
  MapLimit = 1
  MaxVersion = 5
  MaxCrashes = 1
  MaxFaults = 2
INVARIANT IndexInv
PROPERTIES
  ImplementsStore
  CallReturns
