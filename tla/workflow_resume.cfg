SPECIFICATION Spec
CONSTANTS
  Executions = {x1}
  Processes = {p1, p2}
  Drivers = {d1, d2}
  Cancels = {}
  None = None
  MaxRequests = 3
  MaxFaults = 0
SYMMETRY Symmetry
INVARIANT ResumesOnlyWaiting
CHECK_DEADLOCK FALSE
