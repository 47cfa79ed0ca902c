------------------------------ MODULE Holdings ------------------------------
(***************************************************************************)
(* build_holdings of portfolio/services.py for one user and one coin: the  *)
(* transactions are taken in (trade_date, id) order, a buy opens a lot and *)
(* a sell consumes the oldest lots.  One action per iteration of the loop  *)
(* over the rows and of the loop over the lots.                            *)
(*                                                                         *)
(* Lots are appended in the order the rows are taken, so the deque of a    *)
(* coin is a function from the id of the buy to what is left of it, and    *)
(* its left end is the first buy in replay order.  The price of a lot is   *)
(* that of the buy.  The histories include oversold ones, which the ledger *)
(* refuses but a direct edit of the database can leave.                    *)
(***************************************************************************)
EXTENDS Fifo

VARIABLES
  entries,   \* the transactions of the query
  taken,     \* the ids of those already taken
  lots,      \* the open lots: id of the buy -> amount left
  toSell     \* amount_to_sell of the sell being matched; 0 between rows

vars == <<entries, taken, lots, toSell>>

Histories == UNION {[D -> Row] : D \in SUBSET Ids}

NotTaken == DOMAIN entries \ taken

\* Mutant: the rows are taken in the order they were entered.
NextEntered(i) == i \in NotTaken /\ \A j \in NotTaken \ {i} : i < j

IsNextRow(i) == i \in NotTaken /\ \A j \in NotTaken \ {i} : Before(entries, i, j)

\* Mutant: the lot on the right end, the newest.
IsLast(i) == i \in DOMAIN lots /\ \A j \in DOMAIN lots \ {i} : Before(entries, j, i)

IsFirst(i) == i \in DOMAIN lots /\ \A j \in DOMAIN lots \ {i} : Before(entries, i, j)

Close(i) == [j \in DOMAIN lots \ {i} |-> lots[j]]

Init ==
  /\ entries \in Histories
  /\ taken = {}
  /\ lots = [i \in {} |-> i]
  /\ toSell = 0

TakeBuy(i) ==
  /\ toSell = 0
  /\ IsNextRow(i) /\ entries[i].type = "buy"
  /\ taken' = taken \cup {i}
  /\ lots' = [j \in DOMAIN lots \cup {i} |->
                IF j = i THEN entries[i].amount ELSE lots[j]]
  /\ UNCHANGED <<entries, toSell>>

TakeSell(i) ==
  /\ toSell = 0
  /\ IsNextRow(i) /\ entries[i].type = "sell"
  /\ taken' = taken \cup {i}
  /\ toSell' = entries[i].amount
  /\ UNCHANGED <<entries, lots>>

\* Mutant: the lot that is used up stays in the queue.
EmptyLot(i) ==
  /\ toSell > 0
  /\ IsFirst(i) /\ lots[i] <= toSell
  /\ lots' = [lots EXCEPT ![i] = 0]
  /\ toSell' = toSell - lots[i]
  /\ UNCHANGED <<entries, taken>>

\* popleft: the lot is not larger than what is still to sell.
CloseLot(i) ==
  /\ toSell > 0
  /\ IsFirst(i) /\ lots[i] <= toSell
  /\ lots' = Close(i)
  /\ toSell' = toSell - lots[i]
  /\ UNCHANGED <<entries, taken>>

ReduceLot(i) ==
  /\ toSell > 0
  /\ IsFirst(i) /\ lots[i] > toSell
  /\ lots' = [lots EXCEPT ![i] = @ - toSell]
  /\ toSell' = 0
  /\ UNCHANGED <<entries, taken>>

\* Mutant: the loop on the lots does not ask whether any remain.
DropNothing == FALSE /\ UNCHANGED vars

\* No lot remains: the rest of the sell has no backing and is dropped.
DropExcess ==
  /\ toSell > 0
  /\ DOMAIN lots = {}
  /\ toSell' = 0
  /\ UNCHANGED <<entries, taken, lots>>

Next ==
  \/ \E i \in Ids : TakeBuy(i) \/ TakeSell(i) \/ CloseLot(i) \/ ReduceLot(i)
  \/ DropExcess

Spec == Init /\ [][Next]_vars /\ WF_vars(Next)

-----------------------------------------------------------------------------
Held == SumFunctionOnSet(lots, DOMAIN lots)

\* Types; a lot is what is left of a buy already taken, never empty.
TypeOK ==
  /\ IsLedger(entries)
  /\ taken \subseteq DOMAIN entries
  /\ DOMAIN lots \subseteq {i \in taken : entries[i].type = "buy"}
  /\ \A i \in DOMAIN lots : lots[i] \in 1 .. entries[i].amount
  /\ toSell \in Nat

\* "Sells consume the right lots": first in, first out means that what is left
\* is the newest buys, as much of them as the balance.  With every sell of an
\* oversold history cut to what there was to sell, and whatever the dates are.
NewestBuysLeft ==
  toSell = 0 =>
    \A i \in Buys(entries, taken) :
      Left(entries, taken, i) = IF i \in DOMAIN lots THEN lots[i] ELSE 0

\* For a ledger that the service keeps feasible the lots add up to the balance
\* at every row (so no sell runs out of lots), and in the end to the balance of
\* get_coin_balance: the overview and the transaction page agree.
HeldIsBalance ==
  Feasible(entries) => Held - toSell = Balance(entries, taken)

\* Any history, oversold or not, is taken to its end.
TakenToTheEnd == <>(NotTaken = {} /\ toSell = 0)
=============================================================================
