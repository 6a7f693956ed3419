SPECIFICATION Spec
CONSTANTS
  Headers <- MCHeaders
  LineItems <- MCLineItems
  Files <- MCFiles
  MaxPages = 3
  MaxEdge = 1600
  MinEdge = 900
  TargetBytes = 900000
  JpegQuality = 82
  MaxRequest = 3500000
INVARIANT
  VerifiedIsBacked
CHECK_DEADLOCK FALSE
