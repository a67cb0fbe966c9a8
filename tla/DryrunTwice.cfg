SPECIFICATION Spec
CONSTANTS
  Outputs = {o1}
  Reviews = {r1, r2}
  NoOutput = NoOutput
  MaxFaults = 0
  MaxCrashes = 0
INVARIANTS
  UploadedOnce
