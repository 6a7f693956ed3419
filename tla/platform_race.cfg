CONSTANTS
  Workers = {w1}
  Apis = {a1}
  Jobs = {j1}
  Requests = {x1}
  Users = {u1}
  Files = {f1}
  NoJob = NoJob
  NoDoc = NoDoc
  Sessions <- MCSessions
  FaultKinds = {}
  MaxFaults = 0
SPECIFICATION Spec
CHECK_DEADLOCK FALSE
INVARIANTS FailuresRecorded
