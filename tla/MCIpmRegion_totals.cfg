SPECIFICATION Spec
CONSTANTS
  ipm_noregion = ipm_noregion
  a = a
  b = b
  c = c
  Labels <- ThreeRegions
  NoRegion = ipm_noregion
  MAXSIZE_REGION = 3
  IPM_CHECKPOINT = FALSE
  CHKPT_INTERVAL = 1
  KnownExits = TRUE
  MaxTime = 4
  MaxSwitches = 4
INVARIANTS
  MpiWithinWall
  EventsInAppRegion
  FinalTotals
  LabelsDistinct
PROPERTIES
  ImplementsStopwatch
CHECK_DEADLOCK FALSE
