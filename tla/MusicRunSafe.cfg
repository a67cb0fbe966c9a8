SPECIFICATION FairSpec
CONSTANTS
  Plans = {p1, p2}
  NoPlan = NoPlan
  Runs = {r1, r2}
  Approvals = {a1}
  NumPosts = 2
  MaxFaults = 1
  MaxCrashes = 1
CHECK_DEADLOCK FALSE
INVARIANTS
  OneGenerator
  SlotNotLeaked
  ReportedMusicExists
  
  FinishedRunHasNoOpenStep
PROPERTIES
  RunEnds
  TerminalIsFinal
  GeneratedPostIsKept
  ImplementsRunSlot
