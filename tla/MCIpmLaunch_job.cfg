SPECIFICATION FairSpec
CONSTANTS
  N = 2
  Commands = {"run", "usage"}
  Leftovers <- OldFiles
INVARIANTS
  RegistrationComplete
  InitSeparates
  BarrierSeparates
PROPERTIES
  Terminates
CHECK_DEADLOCK FALSE
