INIT Init
NEXT Next
CONSTANTS
  N = 2
  Commands = {"run"}
  Leftovers <- NoFile
INVARIANTS
  ArrivalsCounted
CHECK_DEADLOCK FALSE
