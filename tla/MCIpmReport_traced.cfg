SPECIFICATION FairSpec
CONSTANTS
  mpi_size = 3
  noregion = ipm_noregion
  a = a
  b = b
  Labels = {ipm_noregion, a, b}
  NoRegion = ipm_noregion
  SameRegions = TRUE
  SameTracing = FALSE
  None = None
  All = All
  MAXSIZE_REGION = 4
  Profiles <- OneProfile
  Settings <- Default
PROPERTY AllReachLog
CHECK_DEADLOCK FALSE
