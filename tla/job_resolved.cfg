CONSTANTS
  Workers = {w1, w2}
  Apis = {a1}
  Jobs = {j1, j2}
  Users = {u1, u2}
  Files = {f1}
  NoJob = NoJob
  NoDoc = NoDoc
  Sessions <- MCSessions
  FaultKinds = {"timeout", "interrupt", "db", "crash", "enqueue"}
  MaxFaults = 2
SPECIFICATION FairSpec
CHECK_DEADLOCK FALSE
INVARIANTS OneAnalysisPerUpload
PROPERTY QueuedIsResolved
