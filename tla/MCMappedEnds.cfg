SPECIFICATION FairSpec
CONSTANTS
  p1 = p1
  p2 = p2
  Procs <- MCTwoProcs
  max_map_size_ = 2
  first_map_size_ = 1
  per_map_size_ = 1
  Bytes = {1}
  MaxLength = 1
  MaxEnd = 3
  MaxFaults = 0
PROPERTY TransferEnds
