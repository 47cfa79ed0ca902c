--------------------------- MODULE OverviewProofs ---------------------------
(***************************************************************************)
(* What the overview shows, for any coins, ledgers, prices and changes     *)
(* while the request is under way.                                         *)
(***************************************************************************)
EXTENDS Overview, ReplayLemmas

\* What the other requests keep: the ledgers are feasible, and the coins held
\* throughout are held now.
LedgersInv ==
  /\ DOMAIN ledger = Coins
  /\ \A c \in Coins : Feasible(ledger[c])
  /\ \A c \in throughout : IsHeld(ledger[c])

\* A request starts with nothing; from the second read on every coin that was
\* found held has a position, and those still held had lots at that read.
PositionsInv ==
  /\ pc = "idle" => held = {}
  /\ pc \in {"transactions", "priced", "shown"} =>
       DOMAIN positions = held /\ \A c \in throughout : positions[c].amount > 0

MarketInv == \A c \in DOMAIN market : market[c] \in Prices \cup {NoPrice}

\* The page is that of the coins found held, with the numbers of its inputs.
PageInv ==
  pc = "shown" => page = [c \in held |-> PageRow(c)] /\ totals = Metrics

OverviewInv == TypeOK /\ LedgersInv /\ PositionsInv /\ MarketInv /\ PageInv

\* The lots of a feasible ledger and what was paid for them are numbers, and
\* a coin that is held has lots.
LEMMA PositionType ==
  ASSUME NEW l, IsLedger(l), Feasible(l)
  PROVE  /\ Position(l).amount \in Nat /\ Position(l).cost \in Nat
         /\ IsHeld(l) => Position(l).amount > 0
<1> DEFINE f == [i \in Open(l) |-> Left(l, DOMAIN l, i)]
           g == [i \in Open(l) |-> Left(l, DOMAIN l, i) * BuyPrice[i]]
<1>1. Timeline(l)
  BY LedgerIsTimeline
<1>2. IsFiniteSet(Open(l)) /\ Open(l) \subseteq DOMAIN l
  <2>1. Open(l) \in SUBSET DOMAIN l
    BY DEF Open, Buys
  <2> QED BY <1>1, <2>1, TimelineFinite DEF Timeline
<1>3. \A i \in Open(l) : Left(l, DOMAIN l, i) \in Nat
  BY <1>1, LeftOfFeasible DEF Open
<1>4. \A i \in Open(l) : f[i] \in Nat /\ g[i] \in Nat
  <2>1. \A i \in Open(l) : BuyPrice[i] \in Nat
    BY <1>2, BuyPriceAssumption DEF IsLedger
  <2> QED BY <1>3, <2>1
<1>5. Position(l).amount = SumFunctionOnSet(f, Open(l)) /\ Position(l).cost = SumFunctionOnSet(g, Open(l))
  BY DEF Position, SumFunction
<1>6. ASSUME IsHeld(l) PROVE SumFunctionOnSet(f, Open(l)) > 0
  <2>1. PICK i \in Open(l) : Left(l, DOMAIN l, i) > 0
    BY <1>1, <1>6, PositiveHasLot DEF IsHeld, Open
  <2>2. f[i] \in Nat /\ f[i] > 0
    BY <1>3, <2>1
  <2> HIDE DEF f
  <2>3. SumFunctionOnSet(f, Open(l)) = f[i] + SumFunctionOnSet(f, Open(l) \ {i})
    BY <1>2, <1>4, SumRemove
  <2>4. SumFunctionOnSet(f, Open(l) \ {i}) \in Nat
    <3>1. IsFiniteSet(Open(l) \ {i}) /\ \A j \in Open(l) \ {i} : f[j] \in Nat
      BY <1>2, <1>4, FS_RemoveElement
    <3> QED BY <3>1, SumSubset
  <2> QED BY <2>2, <2>3, <2>4
<1> HIDE DEF f, g
<1>7. SumFunctionOnSet(f, Open(l)) \in Nat /\ SumFunctionOnSet(g, Open(l)) \in Nat
  BY <1>2, <1>4, SumSubset
<1> QED BY <1>5, <1>6, <1>7

LEMMA OverviewInit == Init => OverviewInv
<1> SUFFICES ASSUME Init PROVE OverviewInv
  OBVIOUS
<1>1. \A c \in Coins : IsLedger(ledger[c]) /\ Feasible(ledger[c])
  BY DEF Init, Empty, IsLedger, Feasible
<1> QED BY <1>1 DEF Init, Empty, OverviewInv, TypeOK, LedgersInv, PositionsInv, MarketInv, PageInv

\* The numbers of the page are those of its inputs.
LEMMA SameInputsSamePage ==
  ASSUME held' = held, positions' = positions, market' = market
  PROVE  [c \in held |-> PageRow(c)]' = [c \in held |-> PageRow(c)] /\ Metrics' = Metrics
<1>1. /\ Priced' = Priced /\ \A S : Invested(S)' = Invested(S)
      /\ \A c : HasPrice(c)' = HasPrice(c) /\ Value(c)' = Value(c) /\ Upl(c)' = Upl(c)
  BY DEF Priced, Invested, HasPrice, Value, Upl
<1> QED BY <1>1 DEF PageRow, Metrics

LEMMA OverviewNext == OverviewInv /\ [Next]_vars => OverviewInv'
<1> SUFFICES ASSUME OverviewInv, [Next]_vars PROVE OverviewInv'
  OBVIOUS
<1> USE DEF OverviewInv
<1>1. CASE ReadBalances
  BY <1>1 DEF ReadBalances, TypeOK, LedgersInv, PositionsInv, MarketInv, PageInv
<1>2. CASE ReadTransactions
  <2>1. \A c \in held :
          /\ Position(ledger[c]).amount \in Nat /\ Position(ledger[c]).cost \in Nat
          /\ IsHeld(ledger[c]) => Position(ledger[c]).amount > 0
    BY PositionType DEF TypeOK, LedgersInv
  <2>2. /\ positions' = [c \in held |-> Position(ledger[c])] /\ pc' = "transactions"
        /\ ledger' = ledger /\ held' = held /\ market' = market /\ page' = page
        /\ throughout' = throughout
    BY <1>2 DEF ReadTransactions
  <2> QED BY <2>1, <2>2 DEF TypeOK, LedgersInv, PositionsInv, MarketInv, PageInv
<1>3. CASE FetchMarket
  <2>1. PICK S \in SUBSET held : market' \in [S -> Prices \cup {NoPrice}]
    BY <1>3 DEF FetchMarket
  <2> QED BY <1>3, <2>1 DEF FetchMarket, TypeOK, LedgersInv, PositionsInv, MarketInv, PageInv
<1>4. CASE MarketUnavailable
  BY <1>4 DEF MarketUnavailable, TypeOK, LedgersInv, PositionsInv, MarketInv, PageInv
<1>5. CASE ShowPage
  <2>1. /\ pc = "priced" /\ pc' = "shown"
        /\ page' = [c \in held |-> PageRow(c)] /\ totals' = Metrics
        /\ ledger' = ledger /\ held' = held /\ positions' = positions /\ market' = market
        /\ throughout' = throughout
    BY <1>5 DEF ShowPage
  <2>2. PageInv'
    BY <2>1, SameInputsSamePage DEF PageInv
  <2> HIDE DEF PageInv
  <2> QED BY <2>1, <2>2 DEF TypeOK, LedgersInv, PositionsInv, MarketInv
<1>6. CASE Finish
  BY <1>6 DEF Finish, Empty, TypeOK, LedgersInv, PositionsInv, MarketInv, PageInv
<1>7. ASSUME NEW c \in Coins, ChangeLedger(c) PROVE OverviewInv'
  <2>1. PICK new : ledger' = [ledger EXCEPT ![c] = new] /\ IsLedger(new)
    <3>1. CASE \E i \in Ids, row \in Row : ledger' = [ledger EXCEPT ![c] = Put(@, i, row)]
      <4>1. PICK i \in Ids, row \in Row : ledger' = [ledger EXCEPT ![c] = Put(ledger[c], i, row)]
        BY <3>1
      <4>2. IsLedger(Put(ledger[c], i, row))
        BY PutTimeline DEF TypeOK
      <4> QED BY <4>1, <4>2
    <3>2. CASE \E i \in DOMAIN ledger[c] : ledger' = [ledger EXCEPT ![c] = Without(@, i)]
      <4>1. PICK i \in DOMAIN ledger[c] : ledger' = [ledger EXCEPT ![c] = Without(ledger[c], i)]
        BY <3>2
      <4>2. IsLedger(Without(ledger[c], i))
        BY DEF TypeOK, IsLedger, Without, Restrict
      <4> QED BY <4>1, <4>2
    <3> QED BY <1>7, <3>1, <3>2 DEF ChangeLedger
  <2>2. /\ Feasible(ledger'[c])
        /\ throughout' = {d \in throughout : IsHeld(ledger'[d])}
        /\ pc' = pc /\ held' = held /\ positions' = positions /\ market' = market
        /\ page' = page /\ totals' = totals
    BY <1>7 DEF ChangeLedger
  <2>3. PageInv'
    BY <2>2, SameInputsSamePage DEF PageInv
  <2>4. /\ DOMAIN ledger' = Coins
        /\ \A d \in Coins : IsLedger(ledger'[d]) /\ Feasible(ledger'[d])
    BY <2>1, <2>2 DEF TypeOK, LedgersInv
  <2> HIDE DEF PageInv
  <2> QED BY <2>2, <2>3, <2>4 DEF TypeOK, LedgersInv, PositionsInv, MarketInv
<1>8. CASE UNCHANGED vars
  <2>1. PageInv'
    BY <1>8, SameInputsSamePage DEF vars, PageInv
  <2> HIDE DEF PageInv
  <2> QED BY <1>8, <2>1 DEF vars, TypeOK, LedgersInv, PositionsInv, MarketInv
<1> QED BY <1>1, <1>2, <1>3, <1>4, <1>5, <1>6, <1>7, <1>8 DEF Next

\* Lots and market data are of the coins found held, whatever changes between
\* the reads.
THEOREM OverviewTypeOK == Spec => []TypeOK
<1>1. OverviewInv => TypeOK
  BY DEF OverviewInv
<1> QED BY <1>1, OverviewInit, OverviewNext, PTL DEF Spec

\* The page never divides by zero: not for a holding that was sold out between
\* the reads, a coin that was free or worthless, or an unpriced portfolio.
THEOREM OverviewNoZeroDivision == Spec => []NoZeroDivision
<1>1. ASSUME NEW n, NEW d PROVE QuotientOrZero(n, d).den # 0
  BY DEF QuotientOrZero, Quotient, Zero
<1>2. ASSUME OverviewInv, pc = "shown" PROVE totals.uplShare.den # 0
  BY <1>1, <1>2 DEF OverviewInv, PageInv, Metrics
<1>3. ASSUME OverviewInv, pc = "shown", NEW c \in DOMAIN page
      PROVE  /\ page[c].avgBuyPrice.den # 0
             /\ HasPrice(c) => page[c].uplShare.den # 0 /\ page[c].allocation.den # 0
  <2>1. page[c] = PageRow(c)
    BY <1>3 DEF OverviewInv, PageInv
  <2> QED BY <1>1, <2>1 DEF PageRow
<1>4. OverviewInv => NoZeroDivision
  BY <1>2, <1>3 DEF NoZeroDivision
<1> QED BY <1>4, OverviewInit, OverviewNext, PTL DEF Spec

\* A coin held from the first read to the answer is on the page with an
\* amount: the buys of a feasible ledger with a positive balance have lots.
THEOREM OverviewHeldIsShown == Spec => []HeldIsShown
<1>1. ASSUME OverviewInv, pc = "shown", NEW c \in throughout
      PROVE  c \in DOMAIN page /\ page[c].amount > 0
  <2>1. c \in held /\ positions[c].amount > 0 /\ page = [d \in held |-> PageRow(d)]
    BY <1>1 DEF OverviewInv, TypeOK, PositionsInv, PageInv
  <2> QED BY <2>1 DEF PageRow
<1>2. OverviewInv => HeldIsShown
  BY <1>1 DEF HeldIsShown
<1> QED BY <1>2, OverviewInit, OverviewNext, PTL DEF Spec

\* The totals cover one set of coins: the profit is the value less what was
\* paid, for any market data.
THEOREM OverviewTotalsConsistent == Spec => []TotalsConsistent
<1>1. ASSUME OverviewInv, pc = "shown"
      PROVE  totals.upl = totals.value - totals.invested
  <2> DEFINE f == [c \in Priced |-> Upl(c)]
             g == [c \in Priced |-> Value(c)]
             h == [c \in Priced |-> positions[c].cost]
  <2>1. IsFiniteSet(Priced) /\ Priced \subseteq held
    <3>1. Priced \subseteq Coins
      BY <1>1 DEF OverviewInv, TypeOK, Priced
    <3> QED BY <3>1, CoinsAssumption, FS_Subset DEF Priced
  <2>2. ASSUME NEW c \in Priced
        PROVE  g[c] \in Int /\ h[c] \in Int /\ f[c] = g[c] - h[c]
    <3>1. positions[c].amount \in Nat /\ positions[c].cost \in Nat
      BY <1>1, <2>1 DEF OverviewInv, TypeOK, PositionsInv
    <3>2. market[c] \in Nat
      BY <1>1, PricesAssumption DEF OverviewInv, MarketInv, Priced, HasPrice
    <3>3. Value(c) \in Int
      BY <3>1, <3>2 DEF Value
    <3> QED BY <3>1, <3>3 DEF Upl
  <2>3. /\ totals.upl = SumFunctionOnSet(f, Priced)
        /\ totals.value = SumFunctionOnSet(g, Priced)
        /\ totals.invested = SumFunctionOnSet(h, Priced)
    BY <1>1 DEF OverviewInv, PageInv, Metrics, Invested, SumFunction
  <2> HIDE DEF f, g, h
  <2> QED BY <2>1, <2>2, <2>3, SumDifference
<1>2. OverviewInv => TotalsConsistent
  BY <1>1 DEF TotalsConsistent
<1> QED BY <1>2, OverviewInit, OverviewNext, PTL DEF Spec
=============================================================================
