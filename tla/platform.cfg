SPECIFICATION Spec
CONSTANTS
  CtTurns  = {t1, t2}
  CtVoters = {v1, v2}
  CtMaxVotes = 2
  RcProcs   = {p1, p2}
  RcUpdates = {u1}
  RcSections = {s1}
  RcTTL = 1
  RcLastTime = 2
  AcUsers = {"ann", "bob", "eve"}
  AcInits = {i1, i2}
  AcDeletes = {x1, x2}
  AcMaxOps = 3
  DpDepts = {"a", "b", "c"}
  DpMembers = {"ann"}
  DpLevels = {1, 4}
  DpMaxOps = 3
  EvSubs = {w1, w2}
  EvQueue = 3
  EvOutputs = 2
  EvMaxRuns = 2
  OcRules = {"r1", "r2"}
  OcFirst <- FirstRule
  OcEdits = {e1, e2}
  OcStep = 2
  OcMaxAttempts = 2
  OcMaxOps = 2
  MrProviders = {"p1", "p2"}
  MrModels = {"m1", "m2"}
  MrEntries = {"entry"}
  MrCalls = {"c1", "c2"}
  MrMaxOps = 2
  WgGraphs <- Graphs
  WvFlows = {1, 2}
  WvEdits = {"e1", "e2"}
  WvRuns = {"x1"}
  WvDrafts = {"a", "b"}
  WvRunnable = {"a", "b"}
  WvAlerted = {"a"}
  WvKeep = 2
  WvMaxOps = 4
  McServers = {"s1"}
  McChecks = {"c1"}
  McTools = {"t1"}
  McMaxAttempts = 2
  McMaxOps = 4
INVARIANTS PlatformTypesOK  VotesNet ServedWithinTTL 
           AccessFollowsTree CriticalOnce RouteIsRecorded AnswersOfTheirModel
            VersionsSound 
CHECK_DEADLOCK FALSE
