SPECIFICATION FairSpec
CONSTANTS
  Tracks = {t1, t2}
  NoJob = NoJob
  MaxCalls = 2
  MaxAttempts = 2
  MaxStops = 1
INVARIANTS
  RecordsMatchQueue
  ResultIsStable
PROPERTIES
  CallsEnd
CHECK_DEADLOCK FALSE
