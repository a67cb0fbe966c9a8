SPECIFICATION Spec
CONSTANTS
  Toggles = {t1}
  Panics = {p1}
  NoRequest = NoRequest
  Slots = {morning}
  Videos = {}
  MaxLost = 0
  MaxCrashes = 0
CHECK_DEADLOCK FALSE
INVARIANTS
  PanicLeavesNoJobs
