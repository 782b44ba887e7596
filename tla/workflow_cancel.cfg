SPECIFICATION SlowGraphSpec
CONSTANTS
  Executions = {x1}
  Processes = {p1, p2}
  Drivers = {d1, d2}
  Cancels = {c1}
  None = None
  MaxRequests = 3
  MaxFaults = 0
PROPERTY CancelReachesRun
CHECK_DEADLOCK FALSE
