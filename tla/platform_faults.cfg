CONSTANTS
  Workers = {w1}
  Apis = {a1, a2}
  Jobs = {j1, j2}
  Requests = {x1}
  Users = {u1, u2}
  Files = {f1}
  NoJob = NoJob
  NoDoc = NoDoc
  Sessions <- MCSessions
  FaultKinds = {"db", "crash", "timeout", "interrupt", "requeue"}
  MaxFaults = 2
SPECIFICATION Spec
CHECK_DEADLOCK FALSE
SYMMETRY MCSymmetry
INVARIANTS AnswersAreBacked TablesAreConsistent
