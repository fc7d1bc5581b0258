SPECIFICATION LifeSpec
CONSTANTS
  p1 = p1
  p2 = p2
  Procs <- MCTwoProcs
  first_map_size_ = 5
  per_map_size_ = 2
  max_map_size_ = 7
  MaxHandles = 3
  MaxInodes = 2
  MaxFiles = 4
  MaxFaults = 1
SYMMETRY MCProcsAlike
CHECK_DEADLOCK FALSE
INVARIANTS
  LifeTypeOK
  ReportedIsStored
  RefusedOnlyIfBegun
  IncompleteIsRefused
PROPERTY FilesStay
