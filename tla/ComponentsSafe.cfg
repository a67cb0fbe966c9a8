SPECIFICATION Spec
CONSTANTS
  h1 = h1
  h2 = h2
  Names = {h1, h2}
  Seed <- MCSeed
  OddRole = "pilot"
  NoGenreRow = NoGenreRow
  Keep = Keep
  WeekPlans <- MCWeekPlans
  Callers = {c1, c2}
  Prices <- MCPrices
  NoPrice = NoPrice
  CallTokens <- MCCallTokens
  Budget = 10
  FirstMonth = 24
  MaxMonths = 3
  MaxRows = 3
  Writers = {w1, w2}
  Clips = {"m", "e1", "e2"}
  MainClips = {"m"}
  TrialGenres = {"ambient"}
  TrialOf <- MCTrialOf
  Retentions = {20, 50}
  MinClips = 2
  MinDays = 1
  Window = 1
  LastDay = 3
  MaxFetches = 2
  NoFigure = NoFigure
  Unmeasured = Unmeasured
  Words = {"genre", "disclosure"}
  Titled = {"genre"}
  Shared = {"disclosure"}
  Fields = {"genre"}
  MaxTokens = 6
  TitleMax = 3
  EmojiMax = 1
  TrackCount = 2
  WorkerMin = 5
  WorkerMax = 20
  Fallback = 8
  NoLimit = NoLimit
  Bpms = {3, 5, 8, 11, 20, 22}
  Subthemes = {"rain", "dusk"}
  Extras = {"", "piano"}
  Keys = {"C major"}
  BadKey = "H major"
  Chapters = 6
  Lengths = {300, 1500}
  Fades = {2, 3, 4, 5, 6}
  FadeMin = 3
  FadeMax = 5
  MaxText = 5
  MaxWidth = 3
  MaxLines = 2
  QualityStart = 90
  QualityMin = 60
  QualityStep = 15
CHECK_DEADLOCK FALSE
INVARIANTS
  
  
  AlertMatchesReport
  RendersByGrammar
  
  ChapterIsInItsTrack
  
  AdviceIsMeasured
PROPERTIES
  RotationAddsUp
