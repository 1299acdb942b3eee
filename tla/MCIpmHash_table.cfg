SPECIFICATION FairSpec
CONSTANTS
  M = 5
  Limit = 2
  MaskRange = 8
  SizeSpan = 4
  CallRadix = 3
  RankRadix = 2
  Regions = {1}
  Calls = {1, 2}
  Ranks = {1}
  Sizes = {1, 2, 3}
  Walls = {1, 3}
  TMinInit = 9
  NoKey = NoKey
  MaxEvents = 4
INVARIANTS
  NkeyExact
  FindableUntilResumed
  EventsConserved
PROPERTIES
  ProbeEnds
  ImplementsProfile
CHECK_DEADLOCK FALSE
