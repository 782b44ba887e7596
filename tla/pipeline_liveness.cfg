CONSTANTS
  Docs = {d1}
  NoDoc = NoDoc
  Workers = {w1, w2}
  Embedders = {e1}
  Requests = {r1}
  LockReliable = FALSE
  MaxRequests = 3
  MaxFaults = 1
SPECIFICATION FairSpec
CHECK_DEADLOCK FALSE
PROPERTIES ProcessingSettles CompletedBecomesSearchable
