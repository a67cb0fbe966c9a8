SPECIFICATION FairSpec
CONSTANTS
  Outputs = {o1, o2}
  Reviews = {r1, r2}
  NoOutput = NoOutput
  MaxFaults = 1
  MaxCrashes = 1
INVARIANTS
  DecisionHasEffect
  CalmOutputAgrees

  
