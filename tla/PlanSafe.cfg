SPECIFICATION FairSpec
CONSTANTS
  Requests = {r1}
  Genres = {g1, g2}
  Dates = {d1}
  Supported <- MCSupported
  Default <- MCDefault
  NoRow = NoRow
  Env <- MCEnv
  EnvKeys = {"anthropic"}
  Stored <- MCStored
  MaxAttempts = 3
  MaxPlans = 2
INVARIANTS
  SwitchRepairs
PROPERTIES
  GenreWasAllowed
  RequestEnds
