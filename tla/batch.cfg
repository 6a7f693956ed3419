CONSTANTS
  N = 3
  SevereScans = {2}
  Modes = {"B", "D"}
  ResumeChoices = {TRUE}
  MaxLive = 2
  Budget = 2
  Costs = {0, 1, 2}
  MaxInvocations = 3
SPECIFICATION Spec
CHECK_DEADLOCK FALSE
INVARIANTS TypeOK SummaryIsBacked BudgetHolds AggregateCovers
PROPERTY NothingPaidTwice
