---------------------------- MODULE MCReplayLoop ----------------------------
(* Every timeline of up to four rows (three stored ids and the tie-breaker) *)
(* over two amounts and two dates.                                          *)
EXTENDS ReplayLoop

MCAmounts == {1, 2}
MCDates == {1, 2}
MCTieBreaker == 4
=============================================================================
