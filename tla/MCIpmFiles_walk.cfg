SPECIFICATION Spec
CONSTANTS
  Files <- SixFiles
  ftypes_max = 4
  HashOf <- FourHashes
  passwd <- Users
  group <- Groups
  Commands <- SomeCommands
  files_start_t = 20000
  ByteUnits <- FourUnits
  IntLimit = 32768
  BlockSize = 512
  HalfUp = {10}
INVARIANTS
  TableExact
  OrderRight
  TotalsRight
CHECK_DEADLOCK FALSE
