------------------------------- MODULE Ledger -------------------------------
(***************************************************************************)
(* What the ledger of one user for one coin promises when every request is *)
(* one indivisible step: the three operations of portfolio/ledger.py with  *)
(* the form that feeds them (portfolio/forms.py), the coin's is_active     *)
(* flag, which the catalog sync and the admin site flip, and the calendar. *)
(* A refused request changes nothing and is a stuttering step.             *)
(*                                                                         *)
(* This is the abstract specification; LedgerConcurrent has the steps of   *)
(* the database transactions.                                              *)
(***************************************************************************)
EXTENDS LedgerReplay

CONSTANT Start   \* the ledgers a behaviour may begin with

ASSUME StartAssumption == \A l \in Start : IsLedger(l) /\ Feasible(l)

VARIABLES
  rows,     \* the ledger: id -> row
  active,   \* coin.is_active
  today     \* timezone.localdate()

vars == <<rows, active, today>>

\* Mutant: the form takes any date.
AnyDateRow == Row

\* The form rejects future trade dates and replaces a blank one by today's.
FormRow == {row \in Row : row.date <= today}

\* Ids come from a sequence: a new row's id is above every id in the ledger,
\* but for overlapping buys, which may commit in the other order.
NewId(id, row) ==
  /\ id \in Ids \ DOMAIN rows
  /\ \A i \in DOMAIN rows : i < id \/ (rows[i].type = "buy" /\ row.type = "buy")

Init ==
  /\ rows \in Start
  /\ active \in BOOLEAN
  /\ today \in Dates
  /\ \A i \in DOMAIN rows : rows[i].date <= today

CreateTransaction(id, row) ==
  /\ NewId(id, row)
  /\ ~ CreateDelisted(active, row)
  /\ rows' = Put(rows, id, row)
  /\ Feasible(ProjectCreate(rows, row))
  /\ UNCHANGED <<active, today>>

UpdateTransaction(id, row) ==
  /\ id \in DOMAIN rows
  /\ ~ UpdateDelisted(active, rows, id, row)
  /\ rows' = Put(rows, id, row)
  /\ Feasible(ProjectUpdate(rows, id, row))
  /\ UNCHANGED <<active, today>>

\* Mutant: a delete is not replayed.
DeleteUnchecked(id) ==
  /\ id \in DOMAIN rows
  /\ rows' = Without(rows, id)
  /\ UNCHANGED <<active, today>>

DeleteTransaction(id) ==
  /\ id \in DOMAIN rows
  /\ rows' = Without(rows, id)
  /\ Feasible(ProjectDelete(rows, id))
  /\ UNCHANGED <<active, today>>

\* The sync or an administrator flips the flag.
SetListed ==
  /\ active' = ~ active
  /\ UNCHANGED <<rows, today>>

NextDay ==
  /\ \E d \in Dates : d > today /\ today' = d
  /\ UNCHANGED <<rows, active>>

Next ==
  \/ \E id \in Ids, row \in FormRow : CreateTransaction(id, row)
  \/ \E id \in Ids, row \in FormRow : UpdateTransaction(id, row)
  \/ \E id \in Ids : DeleteTransaction(id)
  \/ SetListed
  \/ NextDay

Spec == Init /\ [][Next]_vars

-----------------------------------------------------------------------------
\* Types of the model columns; no stored trade date is in the future.
TypeOK ==
  /\ IsLedger(rows)
  /\ active \in BOOLEAN
  /\ today \in Dates
  /\ \A i \in DOMAIN rows : rows[i].date <= today

\* "No overselling at any point in the timeline": whatever creates, edits
\* that move rows between dates and deletes were accepted, every prefix of
\* the ledger in (trade_date, id) order has a balance of at least zero.
NoOversell == Feasible(rows)

\* The service decides a create before the row has an id, with a stand-in id.
\* The decision is the one it would take with whatever id the row then gets.
StandInDecides ==
  \A id \in Ids, row \in FormRow :
    NewId(id, row) =>
      (Feasible(ProjectCreate(rows, row)) <=> Feasible(Put(rows, id, row)))

\* The balance the page shows is what the user can sell today, exactly: the
\* aggregate of get_coin_balance and the replay agree at the last position.
SellableTodayIsBalance ==
  \A a \in Amounts :
    Feasible(ProjectCreate(rows, [type |-> "sell", amount |-> a, date |-> today]))
      <=> a <= CoinBalance(rows)

\* "Selling, reducing/price-only buy edits, and deletes stay allowed": an edit
\* that keeps a row's type, amount and date is accepted in every state, listed
\* or not, and so is a smaller sell (the old values do not leak into the
\* replay).
HarmlessEditAccepted ==
  \A id \in DOMAIN rows :
    /\ ~ UpdateDelisted(active, rows, id, rows[id])
    /\ Feasible(ProjectUpdate(rows, id, rows[id]))
    /\ \A a \in Amounts :
         rows[id].type = "sell" /\ a < rows[id].amount =>
           Feasible(ProjectUpdate(rows, id, [rows[id] EXCEPT !.amount = a]))

\* While the coin is delisted no accepted request buys more of it: every buy
\* in the ledger after the step was there before it, as a buy of at least
\* that amount.
BuysOnlyWhileListed ==
  [][~ active =>
       \A i \in DOMAIN rows' :
         rows'[i].type = "buy" =>
           /\ i \in DOMAIN rows
           /\ rows[i].type = "buy"
           /\ rows'[i].amount <= rows[i].amount]_rows
=============================================================================
