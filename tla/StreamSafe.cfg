SPECIFICATION FairSpec
CONSTANTS
  NumEvents = 2
  Opening = {1}
  QueueMax = 1
  MaxConns = 2
  MaxOthers = 1
  MaxFails = 1
CHECK_DEADLOCK FALSE
INVARIANTS
  NothingMissed
PROPERTIES
  ShownStays
  TimelineSettles
