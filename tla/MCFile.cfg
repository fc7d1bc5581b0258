SPECIFICATION FairSpec
CONSTANTS
  MAX_DISK_TIMES = 5
  CREAT = TRUE
  FirstDescriptor = 0
  Descriptors <- MCDescriptors
  MaxBytes = 3
  MaxFileSize = 3
  MaxCloses = 1
INVARIANTS
  TypeOK
  PwriteInPlace
  WriteInPlace
  PreadInPlace
  OneDescriptor
PROPERTIES
  SuccessIsComplete
  TransferReturns
