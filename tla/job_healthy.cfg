CONSTANTS
  Workers = {w1}
  Apis = {a1}
  Jobs = {j1, j2}
  Users = {u1, u2}
  Files = {f1}
  NoJob = NoJob
  NoDoc = NoDoc
  Sessions <- MCSessions
  FaultKinds = {"timeout"}
  MaxFaults = 2
SPECIFICATION FairSpec
CHECK_DEADLOCK FALSE
INVARIANTS FailuresRecorded
PROPERTY AcceptedSettles
