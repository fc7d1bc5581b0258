SPECIFICATION Spec
CONSTANTS
  Keys <- MCKeysTwoBuckets
  Word = 4
  BucketSize = 2
  Sizes = {1, 2}
  BlockId = 1
  MaxNodes = 3
  MapLimit = 3
  MaxVersion = 5
  MaxCrashes = 1
  MaxFaults = 0
INVARIANTS
  TypeOK
  ListsIntact
  RecordsBelowEnd
  KeysPlaced
  NothingLeaks
  Accounts
  DataDisjoint
PROPERTY LiveRecordsKept
