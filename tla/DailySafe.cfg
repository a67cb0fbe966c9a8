SPECIFICATION FairSpec
CONSTANTS
  Genres = {g1}
  NoGenre = NoGenre
  Tracks = {0, 1}
  MaxCycles = 2
  MaxPosts = 2
  HitLimit = 2
  MaxLoops = 3
  MaxRegen = 2
  MaxFaults = 1
INVARIANTS
  
  SuspendedBeforeUsedUp
  
  CycleAddsUp
  DeadCycleIsClosed
PROPERTIES
  CycleEnds
CHECK_DEADLOCK FALSE
