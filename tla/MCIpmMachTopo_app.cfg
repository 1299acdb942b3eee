SPECIFICATION AppSpec
CONSTANTS
  mpi_size = 4
  Hosts = {h1, h2}
INVARIANT LocalRanksKnown
CHECK_DEADLOCK FALSE
