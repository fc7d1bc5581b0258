SPECIFICATION FairSharedSpec
CONSTANTS
  w = w
  r = r
  Writers <- MCWriter
  Deleters <- MCWriter
  Readers <- MCReader
  Keys <- MCIds
  Word = 2
  BucketSize = 2
  Sizes = {1}
  BlockId = 1
  MaxNodes = 3
  MapLimit = 3
  MaxVersion = 5
  MaxCrashes = 1
  MaxFaults = 0
INVARIANTS
  ReadOwnRecord
  NotFoundMeansAbsent
PROPERTY ReadEnds
