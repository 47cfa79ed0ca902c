----------------------------- MODULE MCOverview -----------------------------
(* Two coins of up to two rows each, market data for both, one or none of  *)
(* them, and a market price of 0.                                          *)
EXTENDS Overview, TLC

CONSTANTS c1, c2

MCCoins == {c1, c2}
CoinSymmetry == Permutations(MCCoins)
MCAmounts == {1, 2}
MCDates == {1}
MCTieBreaker == 3
MCBuyPrice == [i \in Ids |-> i]
MCPrices == {0, 3}
=============================================================================
