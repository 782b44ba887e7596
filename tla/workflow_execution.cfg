SPECIFICATION FairSpec
CONSTANTS
  Executions = {x1}
  Processes = {p1, p2}
  Drivers = {d1, d2}
  Cancels = {c1}
  None = None
  MaxRequests = 4
  MaxFaults = 2
INVARIANTS OneGraphPerExecution NodeRowsMatchOutput RowNotAheadOfCheckpoint
PROPERTIES RequestsEnd
CHECK_DEADLOCK FALSE
