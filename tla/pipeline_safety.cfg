CONSTANTS
  Docs = {d1}
  NoDoc = NoDoc
  Workers = {w1, w2}
  Embedders = {e1}
  Requests = {r1, r2}
  LockReliable = TRUE
  MaxRequests = 4
  MaxFaults = 2
SPECIFICATION Spec
CHECK_DEADLOCK FALSE
SYMMETRY Symmetry
INVARIANTS TypeOK OneRunPerDocument CompletedHasLatestRows
