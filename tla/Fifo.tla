-------------------------------- MODULE Fifo --------------------------------
(***************************************************************************)
(* What first in, first out leaves of the buys of a history, with no loop: *)
(* the newest of them, as much as the balance.  Holdings checks the loop   *)
(* of build_holdings against it, Overview uses it in the loop's place.     *)
(***************************************************************************)
EXTENDS LedgerReplay, FiniteSetsExt

\* The balance of the rows in S, a prefix of the history, had every sell been
\* cut to what there was to sell: an oversold history has dropped the deepest
\* shortfall of its prefixes.
Backed(entries, S) ==
  Balance(entries, S) - Min({0} \cup {Balance(entries, Upto(entries, i)) : i \in S})

Buys(entries, S) == {i \in S : entries[i].type = "buy"}

BoughtAfter(entries, S, i) ==
  Balance(entries, {j \in Buys(entries, S) : Before(entries, i, j)})

\* What is left of buy i.
Left(entries, S, i) ==
  Max({0, Min({entries[i].amount, Backed(entries, S) - BoughtAfter(entries, S, i)})})
=============================================================================
