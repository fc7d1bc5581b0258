SPECIFICATION Spec
CONSTANTS
  p1 = p1
  p2 = p2
  Procs <- MCOneProc
  max_map_size_ = 3
  first_map_size_ = 1
  per_map_size_ = 2
  Bytes = {1}
  MaxLength = 2
  MaxEnd = 4
  MaxFaults = 2
INVARIANTS
  TypeOK
  MappedWithinFile
PROPERTIES
  FileNeverShrinks
  ImplementsByteFile
