SPECIFICATION MCSpec
CONSTANTS
  Worlds <- MCWorlds
  Conns = {c1, c2}
  NoConn = NoConn
  Requests <- MCRequests
  Shas = {"h"}
  MaxCalls = 3
  MaxUsers = 2
  Keys = {"a", "b", "c"}
  Policies = {"bounded", "query"}
  Sizes = {0, 1, 2}
  Ttls <- MCTtls
  NoTtl <- MCNoTtl
  DefaultTtl = 2
  MaxClock = 6
  NoTime <- MCNoTime
  Collections <- MCCollections
  Questions <- MCQuestions
  RenameGap = 10
  RecreateGap = 6
  MatchGap = 2
  Evidence <- MCEvidence
  RapidGap = 5
  MassDeletes = 2
  ManyRenames = 2
  EventRuns <- MCEventRuns
  MassThreshold = 2
  DuplicateThreshold = 2
  NormalRenames = 1
  NormalReversals = 1
  FindingRuns <- MCFindingRuns
  MaxCases = 2
  MaxOps = 5
  Artifacts = {"a"}
  Sources = {"s", "t"}
  PluginSet <- MCPluginSet
  Directories <- MCDirectories
  MaxPluginCalls = 5
  Executors = {e1, e2, e3}
  BadTasks = {e3}
  NoExecutor = NoExecutor
  MaxStarts = 2
  Sessions = {"s1", "s2"}
  Chunks = {"", "x", "y"}
  MaxAcquired = 4
  Amounts <- MCAmounts
  MaxMemory = 3
  Analyses <- MCAnalyses
  BadAnalyses = {"d"}
  Totals <- MCTotals
  Batch = 2
  Buffer = 2
  ImageEvents <- MCImageEvents
  Scripts <- MCScripts
  Rank <- MCRank
  Likes <- MCLikes
  Literals <- MCLiterals
  ScanSettings <- MCScanSettings
  HeadWindow = 1
  TailWindow = 3
  MftWindow = 4
  Chunk = 2
  MaxSignals = 3
SYMMETRY Twins
INVARIANTS
  ServicesTypeOK
  HashesRight
  IndexRight
  CachesRight
  TimelineRight
  EvidenceRight
  FindingsRight
  CasesRight
  
  CallsRight
  ThreadsRight
 
CHECK_DEADLOCK FALSE
