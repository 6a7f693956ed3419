CONSTANTS
  Requests = {x1, x2, x3}
  Sessions = {x1, x2, x3}
  Capacity = 2
  Users = {u1}
  Files = {f1}
  NoDoc = NoDoc
  FaultKinds = {"db", "crash"}
  MaxFaults = 2
SPECIFICATION FairSpec
CHECK_DEADLOCK FALSE
INVARIANTS ReplyMatchesRun OpenRunsAreInFlight
PROPERTIES RunsMoveForward RequestsAreAnswered
