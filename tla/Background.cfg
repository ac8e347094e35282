SPECIFICATION BackgroundSpec
CONSTANTS
  likes = likes
  lives = lives
  ACME = ACME
  tea = tea
  coffee = coffee
  plain = plain
  fancy = fancy
  NoJob = NoJob
  NoText = NoText
  NoDecision = NoDecision
  DM = DM
  Capacity = 1
  Drains = FALSE
  Users = {u1, u2}
  Authors = {u1}
  OptedIn = {u1, u2}
  Guilds = {g1}
  Predicates = {likes, lives}
  Tickers = {ACME}
  Values = {tea, coffee}
  Wordings = {plain, fancy}
  MaxRows = 5
  MinMemories = 3
  Extractions <- MCExtractions
  MaxJobs = 2
  MaxDisturbances = 1
  OverviewTexts <- MCOverviewTexts

  Commands = {"s1", "s2"}
  Manifest <- MCManifest
  Repeats = 2
  NoScenario = "none"
  MaxCancels = 2
  MaxRequests = 1

  Readers = {"v1", "v2"}
  Symbols = {"x", "y"}
  CacheTtl = 2
  CacheSize = 1
  CacheHorizon = 3
INVARIANTS
  BehindInv
  NobodyElseReads
PROPERTIES
  EmbeddingFits
  OptOutRespected
  OverviewIsGrounded
  ForgottenFades
  SuiteLockIsFreed
  EveryReaderEnds
CHECK_DEADLOCK FALSE
