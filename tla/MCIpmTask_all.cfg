SPECIFICATION TaskSpec
CONSTANTS
  noregion = noregion
  solver = solver
  other = other
  Labels <- ThreeLabels
  NoRegion = noregion
  MAXSIZE_REGION = 2
  IPM_CHECKPOINT = TRUE
  CHKPT_INTERVAL = 1
  KnownExits = TRUE
  MaxTime = 4
  MaxSwitches = 2
  Calls = {"MPI_Send", "MPI_Bcast"}
  MAXSIZE_NEVENTSETS = 2
  TRACE_DEFAULT = 4
  Environments <- AllEnvironments
  MaxCalls = 2
  Garbage = {0, 5}
INVARIANTS
  TaskTypeOK
  AllTimeCharged
  TracedAsSelected
  TracePrefix
  HpmFollowsWall
  SnapshotExact
  SharedInStep
  LogWellFormed
CHECK_DEADLOCK FALSE
