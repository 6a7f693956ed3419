CONSTANTS
  Workers = {w1, w2}
  Apis = {a1}
  Jobs = {j1, j2}
  Users = {u1, u2}
  Files = {f1}
  NoJob = NoJob
  NoDoc = NoDoc
  Sessions <- MCSessions
  FaultKinds = {"db", "crash", "enqueue", "queueLoss", "timeout", "interrupt", "requeue", "abandon"}
  MaxFaults = 4
SPECIFICATION Spec
CHECK_DEADLOCK FALSE
SYMMETRY MCSymmetry
INVARIANTS TypeOK DeliveredJobsExist ResultsOwned SucceededIsBacked IndInv
PROPERTY SettledStays
