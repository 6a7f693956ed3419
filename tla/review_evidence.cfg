CONSTANTS
  RowKinds <- MCRowKinds
  MaxRows = 2
  MaxOddities = 0
SPECIFICATION Spec
CHECK_DEADLOCK FALSE
INVARIANTS AcceptanceHasEvidence
