CONSTANTS
  RowKinds <- MCRowKinds
  MaxRows = 2
  MaxOddities = 2
SPECIFICATION Spec
CHECK_DEADLOCK FALSE
INVARIANTS TypeOK ReviewInv AcceptedIsSafe BlockedIsReviewed ClientsAgree RunIsNoBolder
PROPERTY HardReasonsStay
