------------------------------ MODULE Overview ------------------------------
(***************************************************************************)
(* The portfolio overview of one user: portfolio_overview of               *)
(* portfolio/views.py and get_portfolio_overview_data of                   *)
(* portfolio/services.py.  The request reads the positive balances, then   *)
(* the transactions, then asks CoinGecko for prices, each at a time of its *)
(* own and without locks, while other requests of the user change the      *)
(* ledgers.  The loop of build_holdings is Fifo (see Holdings).            *)
(*                                                                         *)
(* A quotient is kept as numerator and denominator; a division by zero,    *)
(* which Python raises, is one whose denominator is 0.  The names, symbols *)
(* and is_active of the Coin table, which the page also reads, decide no   *)
(* number and are left out, and so is the sorting of the finished rows.    *)
(***************************************************************************)
EXTENDS Fifo, FiniteSets

CONSTANTS
  Coins,      \* the coins the user trades, with an entry in the Coin table
  BuyPrice,   \* the price of the row stored under an id
  Prices,     \* the market prices CoinGecko can report
  NoPrice,    \* a row without current_price
  PerPage     \* RESULTS_PAGE: what one page of market data holds

ASSUME CoinsAssumption == IsFiniteSet(Coins)
ASSUME BuyPriceAssumption == BuyPrice \in [Ids -> Nat \ {0}]
ASSUME PricesAssumption == Prices \subseteq Nat /\ NoPrice \notin Prices
ASSUME PerPageAssumption == PerPage \in Nat

VARIABLES
  ledger,      \* the committed rows of each coin
  pc,          \* where the request is
  held,        \* cg_to_db_id_map: the coins whose balance was positive
  positions,   \* coin -> amount and cost of its open lots
  market,      \* market_by_id: coin -> price
  page,        \* coin_list: coin -> row
  totals,      \* portfolio_metrics
  throughout   \* the coins held all the time since the request began

vars == <<ledger, pc, held, positions, market, page, totals, throughout>>

Empty == [c \in {} |-> c]

IsHeld(l) == CoinBalance(l) > 0

-----------------------------------------------------------------------------
(* The numbers of the page.                                                *)

Open(l) == Buys(l, DOMAIN l)

Position(l) ==
  [amount |-> SumFunction([i \in Open(l) |-> Left(l, DOMAIN l, i)]),
   cost |-> SumFunction([i \in Open(l) |-> Left(l, DOMAIN l, i) * BuyPrice[i]])]

Quotient(n, d) == [num |-> n, den |-> d]

Zero == Quotient(0, 1)

\* The guards "if x > 0 else 0" and "elif value == 0" of the services.
QuotientOrZero(n, d) == IF d > 0 THEN Quotient(n, d) ELSE Zero

HasPrice(c) == c \in DOMAIN market /\ market[c] # NoPrice

Value(c) == positions[c].amount * market[c]

Upl(c) == Value(c) - positions[c].cost

Priced == {c \in held : HasPrice(c)}

Invested(S) == SumFunction([c \in S |-> positions[c].cost])

\* Mutant: the profit counts what was paid for every row.
MetricsOfAll ==
  [invested |-> Invested(Priced),
   value |-> SumFunction([c \in Priced |-> Value(c)]),
   upl |-> SumFunction([c \in Priced |-> Value(c)]) - Invested(held),
   uplShare |-> Zero]

Metrics ==
  LET upl == SumFunction([c \in Priced |-> Upl(c)])
  IN  [invested |-> Invested(Priced),
       value |-> SumFunction([c \in Priced |-> Value(c)]),
       upl |-> upl,
       uplShare |-> QuotientOrZero(upl, Invested(Priced))]

\* Mutant: a holding divides by its amount without asking.
UnguardedRow(c) ==
  [amount |-> positions[c].amount,
   avgBuyPrice |-> Quotient(positions[c].cost, positions[c].amount),
   uplShare |-> Zero,
   allocation |-> Zero]

\* A row without a price keeps the ledger's facts only.
PageRow(c) ==
  [amount |-> positions[c].amount,
   avgBuyPrice |-> QuotientOrZero(positions[c].cost, positions[c].amount),
   uplShare |-> IF HasPrice(c) THEN QuotientOrZero(Upl(c), positions[c].cost) ELSE NoPrice,
   allocation |-> IF HasPrice(c) THEN QuotientOrZero(Value(c), Metrics.value) ELSE NoPrice]

-----------------------------------------------------------------------------
(* The request, and the other requests of the user.                        *)

Init ==
  /\ ledger = [c \in Coins |-> Empty]
  /\ pc = "idle"
  /\ held = {}
  /\ positions = Empty
  /\ market = Empty
  /\ page = Empty
  /\ totals = Empty
  /\ throughout = {}

\* get_positive_coin_balance_ids, evaluated by the view.
ReadBalances ==
  /\ pc = "idle"
  /\ held' = {c \in Coins : IsHeld(ledger[c])}
  /\ throughout' = held'
  /\ pc' = "balances"
  /\ UNCHANGED <<ledger, positions, market, page, totals>>

\* Mutant: the query is not limited to the coins found held.
ReadAllTransactions ==
  /\ pc = "balances"
  /\ positions' = [c \in Coins |-> Position(ledger[c])]
  /\ pc' = "transactions"
  /\ UNCHANGED <<ledger, held, market, page, totals, throughout>>

\* The query of build_holdings and its replay, for the coins found held.
ReadTransactions ==
  /\ pc = "balances"
  /\ positions' = [c \in held |-> Position(ledger[c])]
  /\ pc' = "transactions"
  /\ UNCHANGED <<ledger, held, market, page, totals, throughout>>

\* The first page of the market data of these coins; CoinGecko may leave any
\* of them out.  No coins, no request.
FetchMarket ==
  /\ pc = "transactions"
  /\ \E S \in SUBSET held :
       /\ Cardinality(S) <= PerPage
       /\ market' \in [S -> Prices \cup {NoPrice}]
  /\ pc' = "priced"
  /\ UNCHANGED <<ledger, held, positions, page, totals, throughout>>

\* A CoinGeckoError: the banner takes the place of the page.
MarketUnavailable ==
  /\ pc = "transactions" /\ held # {}
  /\ pc' = "unavailable"
  /\ UNCHANGED <<ledger, held, positions, market, page, totals, throughout>>

\* Mutant: the page iterates over what the market returned.
ShowPriced ==
  /\ pc = "priced"
  /\ page' = [c \in Priced |-> PageRow(c)]
  /\ totals' = Metrics
  /\ pc' = "shown"
  /\ UNCHANGED <<ledger, held, positions, market, throughout>>

ShowPage ==
  /\ pc = "priced"
  /\ page' = [c \in held |-> PageRow(c)]
  /\ totals' = Metrics
  /\ pc' = "shown"
  /\ UNCHANGED <<ledger, held, positions, market, throughout>>

\* The response is sent; nothing of the request remains.
Finish ==
  /\ pc \in {"shown", "unavailable"}
  /\ pc' = "idle"
  /\ held' = {} /\ throughout' = {}
  /\ positions' = Empty /\ market' = Empty /\ page' = Empty /\ totals' = Empty
  /\ UNCHANGED ledger

\* Another request of the user creates, edits or deletes a transaction; the
\* ledger service keeps every ledger feasible.
ChangeLedger(c) ==
  /\ \/ \E i \in Ids, row \in Row : ledger' = [ledger EXCEPT ![c] = Put(@, i, row)]
     \/ \E i \in DOMAIN ledger[c] : ledger' = [ledger EXCEPT ![c] = Without(@, i)]
  /\ Feasible(ledger'[c])
  /\ throughout' = {d \in throughout : IsHeld(ledger'[d])}
  /\ UNCHANGED <<pc, held, positions, market, page, totals>>

Next ==
  \/ ReadBalances \/ ReadTransactions \/ FetchMarket \/ MarketUnavailable
  \/ ShowPage \/ Finish
  \/ \E c \in Coins : ChangeLedger(c)

Spec == Init /\ [][Next]_vars

-----------------------------------------------------------------------------
\* Types; lots and market data are of the coins found held.
TypeOK ==
  /\ \A c \in Coins : IsLedger(ledger[c])
  /\ pc \in {"idle", "balances", "transactions", "priced", "shown", "unavailable"}
  /\ held \subseteq Coins /\ throughout \subseteq held
  /\ DOMAIN positions \subseteq held
  /\ \A c \in DOMAIN positions : positions[c].amount \in Nat /\ positions[c].cost \in Nat
  /\ DOMAIN market \subseteq held /\ DOMAIN page \subseteq held

\* The page never divides by zero: not for a holding that was sold out between
\* the two reads, nor for market prices of 0, nor when nothing is priced.
NoZeroDivision ==
  pc = "shown" =>
    /\ totals.uplShare.den # 0
    /\ \A c \in DOMAIN page :
         /\ page[c].avgBuyPrice.den # 0
         /\ HasPrice(c) => page[c].uplShare.den # 0 /\ page[c].allocation.den # 0

\* A holding is "shown instead of silently dropped": a coin held from the first
\* read to the answer is on the page with an amount, whatever market data is
\* missing and whatever else changes meanwhile.
HeldIsShown ==
  pc = "shown" =>
    \A c \in throughout : c \in DOMAIN page /\ page[c].amount > 0

\* "Every total covers the same set and stays internally consistent".
TotalsConsistent == pc = "shown" => totals.upl = totals.value - totals.invested
=============================================================================
