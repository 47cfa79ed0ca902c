---------------------------- MODULE LedgerReplay ----------------------------
(***************************************************************************)
(* The feasibility replay of portfolio/ledger.py and the projections it is *)
(* applied to, as operators on one ledger: the rows of one user for one    *)
(* coin.  Every query of the ledger service filters on that pair, so the   *)
(* rows of other users and coins never enter a decision.                   *)
(*                                                                         *)
(* A ledger is a function from row ids to rows.  An amount is a whole      *)
(* number of 10^-8 units (DecimalField, 8 places, checked > 0), a date is  *)
(* a day number.  The price plays no part in any decision of the service   *)
(* and is left out.                                                        *)
(***************************************************************************)
EXTENDS Integers, Functions

CONSTANTS
  Amounts,     \* the amounts a row can have
  Dates,       \* the trade dates a row can have
  TieBreaker   \* NEW_ROW_TIEBREAKER_ID, above the id of every stored row

ASSUME AmountsAssumption == Amounts \subseteq Nat \ {0}
ASSUME DatesAssumption == Dates \subseteq Int
ASSUME TieBreakerAssumption == TieBreaker \in Nat \ {0}

Types == {"buy", "sell"}

Row == [type : Types, amount : Amounts, date : Dates]

\* The primary keys rows are stored under.
Ids == 1 .. TieBreaker - 1

IsLedger(rows) ==
  /\ DOMAIN rows \subseteq Ids
  /\ rows \in [DOMAIN rows -> Row]

-----------------------------------------------------------------------------
(* Replay order and running balance.                                       *)

\* The sort key of the replay is the pair (trade_date, id).
Before(entries, i, j) ==
  \/ entries[i].date < entries[j].date
  \/ entries[i].date = entries[j].date /\ i < j

Upto(entries, i) == {j \in DOMAIN entries : j = i \/ Before(entries, j, i)}

\* What a row adds to the position: a buy its amount, a sell minus its amount.
Signed(row) == IF row.type = "buy" THEN row.amount ELSE - row.amount

Deltas(entries) == [i \in DOMAIN entries |-> Signed(entries[i])]

Balance(entries, S) == SumFunctionOnSet(Deltas(entries), S)

\* The running balance is never negative, after whichever row it is taken.
Feasible(entries) ==
  \A i \in DOMAIN entries : Balance(entries, Upto(entries, i)) >= 0

\* PortfolioTransaction.get_coin_balance: one aggregate over all the rows.
CoinBalance(rows) == Balance(rows, DOMAIN rows)

-----------------------------------------------------------------------------
(* The ledger a mutation would produce, as the service projects it onto    *)
(* the rows it read, and the guards of a delisted coin.                    *)

Put(rows, id, row) ==
  [i \in DOMAIN rows \cup {id} |-> IF i = id THEN row ELSE rows[i]]

Without(rows, id) == Restrict(rows, DOMAIN rows \ {id})

\* Mutant: the stand-in id sorts before the rows of its date.
StandInFirst(view, row) == Put(view, 0, row)

ProjectCreate(view, row) == Put(view, TieBreaker, row)

\* The edited row is replaced where it is read; a row that is not read is
\* not added.
ProjectUpdate(view, id, row) ==
  IF id \in DOMAIN view THEN Put(view, id, row) ELSE view

ProjectDelete(view, id) == Without(view, id)

CreateDelisted(listed, row) == row.type = "buy" /\ ~ listed

\* Mutants: the guard forgets the old type; it refuses an equal amount.
UpdateDelistedAmountOnly(listed, view, id, row) ==
  row.type = "buy" /\ ~ listed /\ id \in DOMAIN view /\ row.amount > view[id].amount

UpdateDelistedNotLess(listed, view, id, row) ==
  /\ row.type = "buy" /\ ~ listed /\ id \in DOMAIN view
  /\ view[id].type # "buy" \/ row.amount >= view[id].amount

UpdateDelisted(listed, view, id, row) ==
  /\ row.type = "buy"
  /\ ~ listed
  /\ id \in DOMAIN view
  /\ \/ view[id].type # "buy"
     \/ row.amount > view[id].amount
=============================================================================
