SPECIFICATION Spec
CONSTANTS
  r1 = r1
  r2 = r2
  r3 = r3
  Requests <- ThreeRequests
  Amounts <- OneAmount
  Dates <- TwoDates
  TieBreaker <- TieBreakerOfThree
  Start <- DatedStart
  Given <- TwoGiven
  Submitted <- LateRequests
  Overlap <- SafeOverlap
  CatalogMayChange = TRUE
INVARIANTS
  TypeOK
  LockedReadIsCurrent
  NoOversell
  DeadlockNeedsAnEdit
PROPERTY
  BuysOnlyIfSeenListed
  Serializable
SYMMETRY RequestSymmetry
CHECK_DEADLOCK FALSE
