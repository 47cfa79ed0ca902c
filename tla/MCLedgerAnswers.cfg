SPECIFICATION Spec
CONSTANTS
  r1 = r1
  r2 = r2
  r3 = r3
  Requests <- ThreeRequests
  Amounts <- OneAmount
  Dates <- TwoDates
  TieBreaker <- TieBreakerOfThree
  Start <- DatedStart
  Given <- TwoGiven
  Submitted <- EditsToBuys
  Overlap <- AnyOverlap
  CatalogMayChange = FALSE
PROPERTY
  AllAnswered
CHECK_DEADLOCK FALSE
