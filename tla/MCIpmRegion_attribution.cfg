SPECIFICATION Spec
CONSTANTS
  ipm_noregion = ipm_noregion
  a = a
  b = b
  c = c
  Labels <- ThreeRegions
  NoRegion = ipm_noregion
  MAXSIZE_REGION = 4
  IPM_CHECKPOINT = TRUE
  CHKPT_INTERVAL = 2
  KnownExits = TRUE
  MaxTime = 5
  MaxSwitches = 4
INVARIANT EventsInAppRegion
CHECK_DEADLOCK FALSE
