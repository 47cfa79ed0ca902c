------------------------------ MODULE MCLedger ------------------------------
(* Up to three stored rows, two amounts, two days: enough for a buy, a   *)
(* sell that depends on it and a row on the same or another date, and for  *)
(* a row at the last id the sequence can give.                             *)
EXTENDS Ledger

MCAmounts == {1, 2}
MCDates == {1, 2}
MCTieBreaker == 4
MCStart == {[i \in {} |-> i]}
=============================================================================
