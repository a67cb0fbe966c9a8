SPECIFICATION FairSpec
CONSTANTS
  Toggles = {t1, t2}
  Panics = {p1}
  NoRequest = NoRequest
  Slots = {morning}
  Videos = {v1, v2}
  MaxLost = 1
  MaxCrashes = 1
CHECK_DEADLOCK FALSE
INVARIANTS
  FlagIsAudited
  PrivacyAgrees
  
PROPERTIES
  RequestsEnd
