SPECIFICATION LifecycleSpec
CONSTANTS
  LcDocs = {d1}
  LcEntries = {n1}
  ExpirationDays = 2
  IdleDays = 1
  HitCounts = {0}
  LastDay = 7
  MaxTouches = 1
PROPERTIES ClearedByEngagement
CHECK_DEADLOCK FALSE
