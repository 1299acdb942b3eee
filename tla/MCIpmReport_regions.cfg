SPECIFICATION FairSpec
CONSTANTS
  mpi_size = 3
  noregion = ipm_noregion
  a = a
  b = b
  Labels = {ipm_noregion, a, b}
  NoRegion = ipm_noregion
  SameRegions = TRUE
  SameTracing = TRUE
  None = None
  All = All
  MAXSIZE_REGION = 4
  Profiles <- SomeProfiles
  Settings <- AllSettings
INVARIANTS
  CollectivesMatch
  RegionReduction
  EachRegionOnce
  CallsRanked
PROPERTIES
  Terminates
CHECK_DEADLOCK FALSE
