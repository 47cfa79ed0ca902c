----------------------------- MODULE MCHoldings -----------------------------
(* Every history of up to four rows over two amounts and two dates: enough *)
(* for a sell that spans two lots, leaves part of one or exceeds them all, *)
(* and for rows entered in another order than they were traded.            *)
EXTENDS Holdings

MCAmounts == {1, 2}
MCDates == {1, 2}
MCTieBreaker == 5
=============================================================================
