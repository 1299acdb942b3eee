SPECIFICATION RingsSpec
CONSTANTS
  mpi_size = 4
  Hosts = {1, 2, 3, 4}
INVARIANTS
  TopologyRight
  Synchronizing
  OneAppends
  TmpfsComplete
PROPERTIES
  Terminates
CHECK_DEADLOCK FALSE
