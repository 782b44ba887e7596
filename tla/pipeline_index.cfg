CONSTANTS
  Docs = {d1}
  NoDoc = NoDoc
  Workers = {w1}
  Embedders = {e1}
  Requests = {r1}
  LockReliable = TRUE
  MaxRequests = 2
  MaxFaults = 0
SPECIFICATION Spec
CHECK_DEADLOCK FALSE
INVARIANTS IndexServesLatestRows
