SPECIFICATION FairSpec
CONSTANTS
  RvDocs = {d1}
  RvUsers = {"ann", "bob", "root"}
  NoUser = "nobody"
  Uploader <- Uploads
  Editors = {"ann", "bob"}
  Reviewers = {"bob", "root"}
  SysAdmins = {"root"}
  RvCalls = {k1, k2}
  MaxReviews = 5
  LcDocs = {d1}
  LcEntries = {n1}
  ExpirationDays = 2
  IdleDays = 1
  HitCounts = {0, 1, 4}
  LastDay = 5
  MaxTouches = 1
  Entries = {n1}
  NoEntry = None
  EnRequests = {r1, r2}
  EnEmbedders = {w1}
  MaxTexts = 3
  EnMaxRequests = 3
  EnMaxFaults = 2
  TagNames = {"a", "b", "c"}
  TagRows = {1, 2}
  MaxTagOps = 3
  CoChunks = {1, 2}
  CoReindexers = {x1}
  CoRetries = 1
  CoMaxReindexes = 1
  CoMaxFaults = 1
  CrChunks = {c1}
  CrRequests = {q1, q2}
  CrEmbedders = {w1}
  CrMaxTexts = 2
  CrMaxOps = 4
  RkChunks = {1, 2, 3}
  RkBaseOf <- BaseOfResult
  RkWeights <- RouteWeights
  RkScale = 2382660
  RkScores = {1, 3}
  RkHealth = {0, 50, 1000}
  RkTops = {1, 2, 3}
  RkRates = {0, 13, 40, 49, 50, 60, 61, 100, 250}
  EaMessages = {"m"}
  EaBases = {"b1"}
  EaMetrics = {"context_precision", "hallucination"}
  EaTasks = {"t1", "t2"}
  EaRuns = {"r1"}
  EaQuestions = {"q1", "q2"}
  EaMaxOps = 3
  CvBases = {1, 2}
  CvChunks = {1, 2, 3, 4}
  CvBaseOf <- BaseOfChunk
  CvSimilar <- Alike
  CvScans = {"s1", "s2"}
  PairMin = 2
  TopicMin = 2
  SampleMin = 1
  ClusterMin = 1
  MaxChunksPerKb = 3
  MaxPairsPerKb = 2
  CvMaxOps = 3
  BhBases = {1, 2}
  BhChunks = {1, 2, 3}
  BhBaseOf <- BaseOfRow
  BhUnits = {1}
  BhUnitBase <- BaseOfUnit
  BhReaders = {"k1"}
  BhMaxOps = 2
  BhMaxFaults = 1
  CkLength = 4
  CkBlocks = 3
  CkSizes = {1, 2, 3}
  CkOverlaps = {0, 1}
  CkFloors = {0, 2}
  Concurrency = 2
  StChunks = 6
  StBuilds = {1, 2}
  StMinSeeds = 4
  StMinCluster = 2
  StLevelMin = 3
  StSingle = 3
  StDensity = 3
  StMaxLevels = 2
  StMaxOps = 1
  StNarrow = TRUE
  RuChunks = {1}
  RuTagged = {}
  RuWeak = {1}
  RuAsks = {"a1", "a2"}
  RuKinds <- CallersOf
INVARIANTS TypesOK UnapprovedHidden   
   RetrievalSound  ScansSound BaseHealthSound
  ChunkingSound HierarchySound RetrievalUseSound
PROPERTIES ArchivedAfterWarning EntriesIndexed CleanupSpares RowsSearchable
CHECK_DEADLOCK FALSE
