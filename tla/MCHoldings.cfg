SPECIFICATION Spec
CONSTANTS
  Amounts <- MCAmounts
  Dates <- MCDates
  TieBreaker <- MCTieBreaker
INVARIANTS
  TypeOK
  NewestBuysLeft
  HeldIsBalance
PROPERTY
  TakenToTheEnd
CHECK_DEADLOCK FALSE
