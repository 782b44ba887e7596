CONSTANTS
  Docs = {d1, d2}
  NoDoc = NoDoc
  Workers = {w1, w2}
  Embedders = {e1}
  Requests = {r1, r2}
  LockReliable = TRUE
  MaxRequests = 3
  MaxFaults = 1
SPECIFICATION Spec
CHECK_DEADLOCK FALSE
SYMMETRY Symmetry
INVARIANTS CountersTrackTables
PROPERTIES ImplementsContent
