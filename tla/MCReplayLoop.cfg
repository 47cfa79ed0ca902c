SPECIFICATION LoopSpec
CONSTANTS
  Amounts <- MCAmounts
  Dates <- MCDates
  TieBreaker <- MCTieBreaker
INVARIANTS
  LoopTypeOK
  VerdictIsFeasible
  FinalBalanceIsCoinBalance
CHECK_DEADLOCK FALSE
