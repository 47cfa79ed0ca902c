SPECIFICATION Spec
CONSTANTS
  c1 = c1
  c2 = c2
  NoPrice = NoPrice
  PerPage = 1
  Coins <- MCCoins
  Amounts <- MCAmounts
  Dates <- MCDates
  TieBreaker <- MCTieBreaker
  BuyPrice <- MCBuyPrice
  Prices <- MCPrices
INVARIANTS
  TypeOK
  NoZeroDivision
  HeldIsShown
  TotalsConsistent
SYMMETRY CoinSymmetry
