SPECIFICATION Spec
CONSTANTS
  Tracks = {t1}
  NoJob = NoJob
  MaxCalls = 1
  MaxAttempts = 1
  MaxStops = 0
INVARIANTS
  NeverIdleWithWork
CHECK_DEADLOCK FALSE
