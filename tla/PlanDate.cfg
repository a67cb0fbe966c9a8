SPECIFICATION Spec
CONSTANTS
  Requests = {r1}
  Genres = {g1}
  Dates = {d1, d2}
  Supported <- MCSupported
  Default <- MCDefault
  NoRow = NoRow
  Env <- MCEnv
  EnvKeys = {"anthropic"}
  Stored <- MCStored
  MaxAttempts = 1
  MaxPlans = 1
INVARIANTS
  PlanIsForItsDay
