SPECIFICATION Spec
CONSTANTS
  Amounts <- MCAmounts
  Dates <- MCDates
  TieBreaker <- MCTieBreaker
  Start <- MCStart
INVARIANTS
  TypeOK
  NoOversell
  StandInDecides
  SellableTodayIsBalance
  HarmlessEditAccepted
PROPERTY
  BuysOnlyWhileListed
