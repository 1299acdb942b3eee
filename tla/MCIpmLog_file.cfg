SPECIFICATION FairSpec
CONSTANTS
  mpi_size = 3
  Sizes = {1, 2}
INVARIANTS
  CollectivesMatch
  SectionsAdjoin
  LogComplete
  OneAnswerAtATime
PROPERTIES
  Terminates
CHECK_DEADLOCK FALSE
