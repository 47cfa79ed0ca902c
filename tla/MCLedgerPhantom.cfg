SPECIFICATION Spec
CONSTANTS
  r1 = r1
  r2 = r2
  r3 = r3
  Requests <- TwoRequests
  Amounts <- OneAmount
  Dates <- TwoDates
  TieBreaker <- TieBreakerOfThree
  Start <- AnyStart
  Given <- TwoGiven
  Submitted <- AnyRequest
  Overlap <- AnyOverlap
  CatalogMayChange = FALSE
INVARIANT
  NoOversell
CHECK_DEADLOCK FALSE
