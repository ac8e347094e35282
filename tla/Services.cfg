\* Bounds: two of everything that can collide; every timeout of a stage is the
\* whole deadline; two attempts per case; caches of one entry.
CONSTANTS
  Urls = {"a", "b"}
  SearchResults <- MCResults
  Rooms <- MCRooms
  WholeOutcomes = 1
  MinQueries = 2
  MaxQueries = 2
  MaxSources = 2
  MaxExtracts = 1
  ModelLimit = 1
  SearchLimit = 1
  ExtractLimit = 1
  OverallLimit = 1

  Sources = {"a", "b"}
  Limit = 1
  GuildSlots = 3
  MaxUploads = 3
  MaxAdmin = 1
  MaxTrouble = 1
  MaxImports = 1

  Procedures = {"p", "q"}
  Requests = {"r1", "r2"}
  Reports = {"d1"}
  PoolSizes = {1, 2}
  ProcedureTtl = 2
  MaxJobs = 1
  MaxReviews = 1
  MaxPrunes = 1
  LearningHorizon = 2

  Inferences = {"i1", "i2"}
  Main = "main"
  Backup = "backup"
  Other = "other"
  Kinds = {"deployment", "rate_limit", "invalid_request"}
  CoolsFor <- MCCoolsFor
  ClientHorizon = 2

  Replies = {1, 2}
  AskedBy <- MCAskedBy
  Complaints = {"b1", "b2"}
  KeptEntries = 1
  KeptFor = 1
  MaxMishaps = 1
  FeedbackHorizon = 2

  MaxAttempts = 2
  Homes = 2
  Runs = {"t1"}
  TelemetryRoom = 1
  NoRun = "none"
  MaxBoots = 2
  MaxLapses = 1

  BackupDay = 2
  Retention = 3
  MaxForced = 1
  MaxSlips = 1
  BackupHorizon = 6

  Starters = {"n1", "n2"}
  LegacyRows <- MCLegacyRows
  Ages <- MCAges
  MaxExits = 1

  MaxId = 3
  MaxFaults = 1

  Posts = 1
  UsesNeeded = 2
  SamplesNeeded = 1
  Assessments = 2
  QueueRoom = 1
  DayHours = 1
  WeekHours = 2
  MaxSurprises = 1

  Asker = "ann"
  OtherPeople = {"bob"}
  Notes = {"k1", "k2", "k3", "k4"}
  NoteOwner <- MCNoteOwner
  NoteHere <- MCNoteHere
  NoteKind <- MCNoteKind
  NoteKey <- MCNoteKey
  KindCap <- MCKindCap
  ShownLimit = 2
  MaxRelated = 1
  MaxStirs = 1

  Earlier = {1, 2, 3, 4, 5, 6}
  Question = 7
  Home = "home"
  PlaceOf <- MCPlaceOf
  Guildmates = {"home", "there"}
  FreshMessages = {2, 3, 4, 5, 6}
  ReplyTo <- MCReplyTo
  LinksIn <- MCLinksIn
  CachedSets <- MCCachedSets
  ContextLimit = 4
  MaxDepth = 2
  MaxLinks = 2
  PerSide = 1
  MaxTurns = 1

  Watchers = {"w1", "w2"}
  LastName = 3
  MaxLosses = 1

  Cases <- MCCases
  Instruments = {"i1", "i2"}
  ChartJob = "chart"
  PagesSeen <- MCPagesSeen
  MaxChartPages = 2
  CreditRest = 2
  MaxAbandoned = 1
  MarketHorizon = 2

  Pages = {"a", "b", "c"}
  Invented = "fake"
  Begins <- MCBegins
  ToolBatches <- MCBatches
  Drafts <- MCDrafts
  Styles <- MCStyles
  LedgerLimit = 3
  GuidanceRoom = 2
  MaxBatches = 3

  Symbols = {"AMD", "SNDK", "SDNK", "BOB"}
  NameLike = {"BOB"}
  Near <- MCNear
  Tables <- MCTables
  MaxEdits = 1

  BenchCases <- MCBenchCases
  CallForms <- MCCallForms
  Quoting = {"quote"}
  Selected <- MCSelected
  ToolSets <- MCToolSets
  MaxForms = 2

SPECIFICATION ServicesSpec
INVARIANTS
  SearchInv
  ModelInv
  ReportsInv
  BotInv
  LearnersInv
  DatabaseInv
  AnswerInv
  FindingsInv
PROPERTIES
  PoolIsKept
CHECK_DEADLOCK FALSE
