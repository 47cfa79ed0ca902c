--------------------------- MODULE HoldingsProofs ---------------------------
(***************************************************************************)
(* The loop of build_holdings, for every history: it leaves the newest     *)
(* buys, and the open lots of a ledger that the service keeps feasible add *)
(* up to its balance after every row.                                      *)
(***************************************************************************)
EXTENDS Holdings, ReplayLemmas

\* The rows taken are a prefix of the query's order.
Prefix ==
  \A j \in taken : \A k \in DOMAIN entries : Before(entries, k, j) => k \in taken

\* Only the oldest lot may be less than its buy, and no later buy is missing.
NewestStay ==
  \A i \in DOMAIN lots : \A j \in Buys(entries, taken) :
    Before(entries, i, j) => j \in DOMAIN lots /\ lots[j] = entries[j].amount

\* The balances that Backed takes the least of.
Depths == {0} \cup {Balance(entries, Upto(entries, i)) : i \in taken}

IsLeast(m, S) == m \in S /\ \A y \in S : m <= y

\* The lots, less what the current sell still takes off them, are what the
\* history has left when every sell is cut to what there was.
LotsAreBacked ==
  \E m \in Depths :
    /\ IsLeast(m, Depths)
    /\ Balance(entries, taken) - m = IF Held > toSell THEN Held - toSell ELSE 0

HoldInv == TypeOK /\ Prefix /\ HeldIsBalance /\ NewestStay /\ LotsAreBacked

\* A sum with one more summand.
LEMMA SumPut ==
  ASSUME NEW S, IsFiniteSet(S), NEW f, \A y \in S : f[y] \in Int,
         NEW x, x \notin S, NEW g, g[x] \in Int, \A y \in S : g[y] = f[y]
  PROVE  /\ SumFunctionOnSet(g, S \cup {x}) = g[x] + SumFunctionOnSet(f, S)
         /\ SumFunctionOnSet(f, S) \in Int
<1>1. IsFiniteSet(S \cup {x}) /\ (S \cup {x}) \ {x} = S
  BY FS_AddElement
<1>2. \A y \in S \cup {x} : g[y] \in Int
  OBVIOUS
<1>3. SumFunctionOnSet(g, S \cup {x}) = g[x] + SumFunctionOnSet(g, S)
  BY <1>1, <1>2, SumRemove
<1>4. SumFunctionOnSet(g, S) = SumFunctionOnSet(f, S)
  BY SumAgree
<1> QED BY <1>3, <1>4, SumType

\* What the variables are, for the lemmas about timelines and sums.
LEMMA HoldingsTypes ==
  ASSUME TypeOK
  PROVE  /\ Timeline(entries)
         /\ IsFiniteSet(DOMAIN lots)
         /\ \A j \in DOMAIN lots : lots[j] \in Nat
         /\ \A i \in DOMAIN entries : entries[i].amount \in Nat /\ Signed(entries[i]) \in Int
         /\ Held \in Nat /\ toSell \in Nat
<1>1. Timeline(entries)
  BY LedgerIsTimeline DEF TypeOK
<1>2. DOMAIN lots \in SUBSET (Ids \cup {TieBreaker})
  BY DEF TypeOK, IsLedger
<1>3. \A i \in DOMAIN entries : entries[i] \in Row
  BY <1>1, TimelineIds
<1>4. \A i \in DOMAIN entries : entries[i].amount \in Nat /\ Signed(entries[i]) \in Int
  BY <1>3, SignedType
<1>5. \A j \in DOMAIN lots : lots[j] \in Nat
  BY <1>4 DEF TypeOK
<1>6. Held \in Nat
  <2>1. IsFiniteSet(DOMAIN lots)
    BY <1>2, TimelineFinite
  <2> QED BY <1>5, <2>1, SumSubset DEF Held
<1> QED BY <1>1, <1>2, <1>4, <1>5, <1>6, TimelineFinite DEF TypeOK

\* The row taken next closes the next prefix.
LEMMA NextRowCloses ==
  ASSUME TypeOK, Prefix, NEW i, IsNextRow(i)
  PROVE  /\ i \in DOMAIN entries \ taken
         /\ taken \cup {i} \subseteq DOMAIN entries
         /\ \A j \in taken \cup {i} : \A k \in DOMAIN entries :
              Before(entries, k, j) => k \in taken \cup {i}
         /\ Balance(entries, taken \cup {i}) = Signed(entries[i]) + Balance(entries, taken)
         /\ Balance(entries, taken) \in Int
         /\ Upto(entries, i) = taken \cup {i}
         /\ \A j \in taken : Before(entries, j, i)
<1>1. Timeline(entries) /\ taken \in SUBSET DOMAIN entries
  BY HoldingsTypes DEF TypeOK
<1>2. i \in DOMAIN entries \ taken
  BY DEF IsNextRow, NotTaken
<1>3. ASSUME NEW k \in DOMAIN entries, Before(entries, k, i) PROVE k \in taken
  <2>1. k # i
    BY <1>1, <1>2, <1>3, BeforeOrder
  <2>2. ~ Before(entries, i, k)
    BY <1>1, <1>2, <1>3, BeforeOrder
  <2> QED BY <2>1, <2>2 DEF IsNextRow, NotTaken
<1>4. taken \cup {i} \in SUBSET DOMAIN entries /\ (taken \cup {i}) \ {i} = taken
  BY <1>1, <1>2
<1>5. Balance(entries, taken \cup {i}) = Signed(entries[i]) + Balance(entries, taken)
  BY <1>1, <1>4, BalanceSplit
<1>6. Balance(entries, taken) \in Int
  BY <1>1, BalanceSplit
<1>7. ASSUME NEW j \in taken PROVE Before(entries, j, i)
  <2>1. ~ Before(entries, i, j)
    BY <1>1, <1>2 DEF Prefix
  <2> QED BY <1>1, <1>2, <2>1, BeforeOrder
<1>8. Upto(entries, i) = taken \cup {i}
  BY <1>1, <1>2, <1>3, <1>7 DEF Upto
<1> QED BY <1>2, <1>3, <1>4, <1>5, <1>6, <1>7, <1>8 DEF Prefix

\* What is compared with the deepest balance is an integer.
LEMMA DepthsAreNumbers ==
  ASSUME TypeOK
  PROVE  Depths \subseteq Int
<1>1. ASSUME NEW i \in taken PROVE Balance(entries, Upto(entries, i)) \in Int
  <2>1. Timeline(entries) /\ Upto(entries, i) \in SUBSET DOMAIN entries
    BY HoldingsTypes DEF Upto
  <2> QED BY <2>1, BalanceSplit
<1> QED BY <1>1 DEF Depths

\* Taking a row adds one depth, the balance with the row.
LEMMA DepthsGrow ==
  ASSUME TypeOK, Prefix, NEW i, IsNextRow(i), taken' = taken \cup {i}, entries' = entries
  PROVE  Depths' = Depths \cup {Balance(entries, taken \cup {i})}
<1>1. Upto(entries, i) = taken \cup {i}
  BY NextRowCloses
<1> QED BY <1>1 DEF Depths

LEMMA HoldInit == Init => HoldInv
<1> SUFFICES ASSUME Init PROVE HoldInv
  OBVIOUS
<1>1. PICK D \in SUBSET Ids : entries \in [D -> Row]
  BY DEF Init, Histories
<1>2. IsLedger(entries) /\ taken = {} /\ DOMAIN lots = {} /\ toSell = 0
  BY <1>1 DEF Init, IsLedger
<1>3. Balance(entries, {}) = 0 /\ Held = 0
  BY <1>2, SumEmpty DEF Balance, Held
<1>4. LotsAreBacked
  <2>1. Depths = {0}
    BY <1>2 DEF Depths
  <2>2. IsLeast(0, Depths)
    BY <2>1 DEF IsLeast
  <2> QED BY <1>2, <1>3, <2>1, <2>2 DEF LotsAreBacked
<1> QED BY <1>2, <1>3, <1>4 DEF HoldInv, TypeOK, Prefix, HeldIsBalance, NewestStay

\* The rest of a sell is dropped only when the history is oversold.
LEMMA DropNeedsOversell == HoldInv /\ DropExcess => ~ Feasible(entries)
<1> SUFFICES ASSUME HoldInv, DropExcess, Feasible(entries) PROVE FALSE
  OBVIOUS
<1>1. Held = 0
  BY SumEmpty DEF DropExcess, Held
<1>2. Balance(entries, taken) < 0
  BY <1>1 DEF DropExcess, HoldInv, HeldIsBalance, TypeOK
<1>3. Timeline(entries) /\ taken \in SUBSET DOMAIN entries
  BY HoldingsTypes DEF HoldInv, TypeOK
<1>4. Balance(entries, taken) >= 0 /\ Balance(entries, taken) \in Int
  BY <1>3, PrefixNotNegative, BalanceSplit DEF HoldInv, Prefix
<1> QED BY <1>2, <1>4

LEMMA HoldNext == HoldInv /\ [Next]_vars => HoldInv'
<1> SUFFICES ASSUME HoldInv, [Next]_vars PROVE HoldInv'
  OBVIOUS
<1> USE DEF HoldInv
<1>0. /\ Timeline(entries)
      /\ IsFiniteSet(DOMAIN lots)
      /\ \A j \in DOMAIN lots : lots[j] \in Nat
      /\ \A i \in DOMAIN entries : entries[i].amount \in Nat /\ Signed(entries[i]) \in Int
      /\ Held \in Nat /\ toSell \in Nat
  BY HoldingsTypes
<1>9. Depths \subseteq Int
  BY DepthsAreNumbers
<1>10. PICK m \in Depths :
         /\ IsLeast(m, Depths)
         /\ Balance(entries, taken) - m = IF Held > toSell THEN Held - toSell ELSE 0
  BY DEF LotsAreBacked
<1>11. m \in Int
  BY <1>9
<1>1. ASSUME NEW i \in Ids, TakeBuy(i) PROVE HoldInv'
  <2>1. /\ toSell = 0 /\ toSell' = toSell /\ entries' = entries
        /\ IsNextRow(i) /\ entries[i].type = "buy"
        /\ taken' = taken \cup {i}
        /\ DOMAIN lots' = DOMAIN lots \cup {i}
        /\ lots'[i] = entries[i].amount
        /\ \A j \in DOMAIN lots \ {i} : lots'[j] = lots[j]
    BY <1>1 DEF TakeBuy
  <2>2. /\ i \in DOMAIN entries \ taken
        /\ taken \cup {i} \subseteq DOMAIN entries
        /\ \A j \in taken \cup {i} : \A k \in DOMAIN entries :
             Before(entries, k, j) => k \in taken \cup {i}
        /\ Balance(entries, taken \cup {i}) = Signed(entries[i]) + Balance(entries, taken)
        /\ Balance(entries, taken) \in Int
        /\ \A j \in taken : Before(entries, j, i)
    BY <2>1, NextRowCloses
  <2>3. i \notin DOMAIN lots
    BY <2>2 DEF TypeOK
  <2>4. entries[i] \in Row /\ entries[i].amount \in Nat /\ entries[i].amount > 0
    BY <2>2, AmountsAssumption DEF TypeOK, IsLedger, Row
  <2>5. TypeOK'
    BY <2>1, <2>2, <2>3, <2>4 DEF TypeOK
  <2>6. Held' = entries[i].amount + Held /\ Held \in Int
    BY <1>0, <2>1, <2>3, <2>4, SumPut DEF Held
  <2>7. Signed(entries[i]) = entries[i].amount
    BY <2>1 DEF Signed
  <2>8. HeldIsBalance'
    BY <2>1, <2>2, <2>4, <2>6, <2>7 DEF HeldIsBalance
  <2>9. NewestStay'
    <3>1. Timeline(entries) /\ ~ Before(entries, i, i)
      BY <1>0, <2>2, BeforeOrder
    <3>2. \A j \in taken : ~ Before(entries, i, j)
      <4>1. taken \subseteq DOMAIN entries
        BY DEF TypeOK
      <4> QED BY <2>2, <3>1, <4>1, BeforeOrder
    <3>3. Buys(entries, taken') = Buys(entries, taken) \cup {i}
      BY <2>1, <2>2 DEF Buys
    <3>4. ASSUME NEW k \in DOMAIN lots \cup {i}, NEW j \in Buys(entries, taken) \cup {i},
                 Before(entries, k, j)
          PROVE  j \in DOMAIN lots' /\ lots'[j] = entries[j].amount
      <4>1. CASE j = i
        BY <2>1, <4>1
      <4>2. CASE j # i
        <5>1. j \in taken /\ j \in Buys(entries, taken)
          BY <4>2 DEF Buys
        <5>2. k \in DOMAIN lots
          BY <3>2, <3>4, <5>1
        <5> QED BY <2>1, <2>3, <3>4, <5>1, <5>2 DEF NewestStay
      <4> QED BY <4>1, <4>2
    <3> QED BY <2>1, <3>3, <3>4 DEF NewestStay
  <2>10. LotsAreBacked'
    <3>1. Depths' = Depths \cup {Balance(entries, taken \cup {i})}
      BY <2>1, DepthsGrow
    <3>2. Balance(entries, taken) - m = Held
      BY <1>0, <1>10, <2>1
    <3>3. /\ m <= Balance(entries, taken \cup {i})
          /\ Balance(entries, taken \cup {i}) - m = Held' /\ Held' > 0
      BY <1>0, <1>11, <2>2, <2>4, <2>6, <2>7, <3>2
    <3>4. m \in Depths' /\ IsLeast(m, Depths')
      BY <1>10, <3>1, <3>3 DEF IsLeast
    <3>5. Balance(entries, taken)' - m = IF Held' > toSell' THEN Held' - toSell' ELSE 0
      BY <1>0, <2>1, <2>4, <2>6, <3>3
    <3> QED BY <3>4, <3>5 DEF LotsAreBacked
  <2> QED BY <2>1, <2>2, <2>5, <2>8, <2>9, <2>10 DEF Prefix
<1>2. ASSUME NEW i \in Ids, TakeSell(i) PROVE HoldInv'
  <2>1. /\ toSell = 0 /\ toSell' = entries[i].amount /\ entries' = entries
        /\ IsNextRow(i) /\ entries[i].type = "sell"
        /\ taken' = taken \cup {i} /\ lots' = lots
    BY <1>2 DEF TakeSell
  <2>2. /\ i \in DOMAIN entries \ taken
        /\ taken \cup {i} \subseteq DOMAIN entries
        /\ \A j \in taken \cup {i} : \A k \in DOMAIN entries :
             Before(entries, k, j) => k \in taken \cup {i}
        /\ Balance(entries, taken \cup {i}) = Signed(entries[i]) + Balance(entries, taken)
        /\ Balance(entries, taken) \in Int
        /\ \A j \in taken : Before(entries, j, i)
    BY <2>1, NextRowCloses
  <2>3. entries[i].amount \in Nat /\ Signed(entries[i]) = - entries[i].amount
    BY <1>0, <2>1, <2>2 DEF Signed
  <2>4. TypeOK'
    BY <2>1, <2>2, <2>3 DEF TypeOK
  <2>5. Held' = Held /\ Held \in Int
    BY <1>0, <2>1, SumType DEF Held
  <2>6. HeldIsBalance'
    BY <2>1, <2>2, <2>3, <2>5 DEF HeldIsBalance
  <2>7. NewestStay'
    <3>1. Buys(entries, taken') = Buys(entries, taken)
      BY <2>1, <2>2 DEF Buys
    <3> QED BY <2>1, <3>1 DEF NewestStay
  <2>8. LotsAreBacked'
    <3> DEFINE b == Balance(entries, taken \cup {i})
    <3>1. Depths' = Depths \cup {b}
      BY <2>1, DepthsGrow
    <3>2. /\ Balance(entries, taken) - m = Held
          /\ b = Balance(entries, taken) - toSell'
          /\ toSell' \in Nat /\ b \in Int
      BY <1>0, <1>10, <2>1, <2>2, <2>3
    <3>3. Balance(entries, taken)' = b
      BY <2>1
    <3> HIDE DEF b
    <3>4. CASE m <= b
      <4>1. m \in Depths' /\ IsLeast(m, Depths')
        BY <1>10, <3>1, <3>4 DEF IsLeast
      <4>2. b - m = IF Held' > toSell' THEN Held' - toSell' ELSE 0
        BY <1>0, <1>11, <2>2, <2>5, <3>2, <3>4
      <4> QED BY <3>3, <4>1, <4>2 DEF LotsAreBacked
    <3>5. CASE b < m
      <4>1. \A y \in Depths : b <= y
        <5>1. \A y \in Depths : y \in Int /\ m <= y
          BY <1>9, <1>10 DEF IsLeast
        <5> QED BY <1>11, <3>2, <3>5, <5>1
      <4>2. b \in Depths' /\ IsLeast(b, Depths')
        BY <3>1, <3>2, <4>1 DEF IsLeast
      <4>3. b - b = IF Held' > toSell' THEN Held' - toSell' ELSE 0
        BY <1>0, <1>11, <2>2, <2>5, <3>2, <3>5
      <4> QED BY <3>3, <4>2, <4>3 DEF LotsAreBacked
    <3> QED BY <1>11, <3>2, <3>4, <3>5
  <2> QED BY <2>1, <2>2, <2>4, <2>6, <2>7, <2>8 DEF Prefix
<1>3. ASSUME NEW i \in Ids, CloseLot(i) PROVE HoldInv'
  <2>0. \A j \in DOMAIN lots \ {i} : Before(entries, i, j)
    BY <1>3 DEF CloseLot, IsFirst
  <2>1. /\ i \in DOMAIN lots /\ lots[i] <= toSell /\ toSell' = toSell - lots[i]
        /\ DOMAIN lots' = DOMAIN lots \ {i}
        /\ \A j \in DOMAIN lots \ {i} : lots'[j] = lots[j]
        /\ entries' = entries /\ taken' = taken
    BY <1>3 DEF CloseLot, IsFirst, Close
  <2>2. lots[i] \in Nat /\ toSell \in Nat /\ toSell' \in Nat
    BY <1>0, <2>1 DEF TypeOK
  <2>3. TypeOK'
    BY <2>1, <2>2 DEF TypeOK
  <2>4. Held = lots[i] + Held' /\ Held' \in Int
    <3>1. IsFiniteSet(DOMAIN lots')
      BY <1>0, <2>1, FS_RemoveElement
    <3>2. DOMAIN lots' \cup {i} = DOMAIN lots /\ i \notin DOMAIN lots'
      BY <2>1
    <3>3. \A j \in DOMAIN lots' : lots'[j] \in Int /\ lots[j] = lots'[j]
      BY <1>0, <2>1
    <3> QED BY <2>2, <3>1, <3>2, <3>3, SumPut DEF Held
  <2>5. HeldIsBalance'
    BY <2>1, <2>2, <2>4 DEF HeldIsBalance
  <2>6. NewestStay'
    <3>1. ASSUME NEW k \in DOMAIN lots \ {i}, NEW j \in Buys(entries, taken),
                 Before(entries, k, j)
          PROVE  j \in DOMAIN lots \ {i} /\ lots'[j] = entries[j].amount
      <4>1. j \in DOMAIN lots /\ lots[j] = entries[j].amount
        BY <3>1 DEF NewestStay
      <4>2. j # i
        <5>1. i \in DOMAIN entries /\ k \in DOMAIN entries
          BY <2>1 DEF TypeOK
        <5>2. Before(entries, i, k)
          BY <2>0
        <5>3. Before(entries, i, k) /\ Before(entries, k, i) => Before(entries, i, i)
          BY <1>0, <5>1, BeforeOrder
        <5>4. ~ Before(entries, i, i)
          BY <1>0, <5>1, BeforeOrder
        <5> QED BY <3>1, <5>2, <5>3, <5>4
      <4> QED BY <2>1, <4>1, <4>2
    <3> QED BY <2>1, <3>1 DEF NewestStay
  <2>7. LotsAreBacked'
    <3>1. Depths' = Depths
      BY <2>1 DEF Depths
    <3>2. Held' - toSell' = Held - toSell /\ (Held' > toSell' <=> Held > toSell)
      BY <1>0, <2>1, <2>2, <2>4
    <3>3. Balance(entries, taken)' - m = IF Held' > toSell' THEN Held' - toSell' ELSE 0
      BY <1>10, <2>1, <3>2
    <3> QED BY <1>10, <3>1, <3>3 DEF LotsAreBacked
  <2> QED BY <2>1, <2>3, <2>5, <2>6, <2>7 DEF Prefix
<1>4. ASSUME NEW i \in Ids, ReduceLot(i) PROVE HoldInv'
  <2>0. \A j \in DOMAIN lots \ {i} : Before(entries, i, j)
    BY <1>4 DEF ReduceLot, IsFirst
  <2>1. /\ i \in DOMAIN lots /\ lots[i] > toSell /\ toSell > 0 /\ toSell' = 0
        /\ DOMAIN lots' = DOMAIN lots
        /\ lots'[i] = lots[i] - toSell
        /\ \A j \in DOMAIN lots \ {i} : lots'[j] = lots[j]
        /\ entries' = entries /\ taken' = taken
    BY <1>4 DEF ReduceLot, IsFirst
  <2>2. lots[i] \in Nat /\ toSell \in Nat /\ lots'[i] \in Int
    BY <1>0, <2>1 DEF TypeOK
  <2>3. lots'[i] \in 1 .. entries[i].amount
    BY <1>0, <2>1, <2>2 DEF TypeOK
  <2>4. TypeOK'
    BY <2>1, <2>3 DEF TypeOK
  <2>5. Held' = Held - toSell /\ Held \in Int
    <3> DEFINE S == DOMAIN lots \ {i}
    <3>1. IsFiniteSet(S) /\ S \cup {i} = DOMAIN lots /\ i \notin S
      <4>1. IsFiniteSet(DOMAIN lots \ {i})
        BY <1>0, FS_RemoveElement
      <4> QED BY <2>1, <4>1
    <3>2. \A j \in S : lots[j] \in Int /\ lots'[j] = lots[j]
      BY <1>0, <2>1
    <3> HIDE DEF S
    <3>3. /\ SumFunctionOnSet(lots, S \cup {i}) = lots[i] + SumFunctionOnSet(lots, S)
          /\ SumFunctionOnSet(lots, S) \in Int
      BY <2>2, <3>1, <3>2, SumPut
    <3>4. SumFunctionOnSet(lots', S \cup {i}) = lots'[i] + SumFunctionOnSet(lots, S)
      BY <2>2, <3>1, <3>2, SumPut
    <3> QED BY <2>1, <2>2, <3>1, <3>3, <3>4 DEF Held
  <2>6. HeldIsBalance'
    BY <2>1, <2>2, <2>5 DEF HeldIsBalance
  <2>7. NewestStay'
    <3>1. ASSUME NEW k \in DOMAIN lots, NEW j \in Buys(entries, taken), Before(entries, k, j)
          PROVE  j \in DOMAIN lots /\ lots'[j] = entries[j].amount
      <4>1. j \in DOMAIN lots /\ lots[j] = entries[j].amount
        BY <3>1 DEF NewestStay
      <4>2. j # i
        <5>1. i \in DOMAIN entries /\ k \in DOMAIN entries
          BY <2>1 DEF TypeOK
        <5>2. k = i \/ Before(entries, i, k)
          BY <2>0
        <5>3. Before(entries, i, k) /\ Before(entries, k, i) => Before(entries, i, i)
          BY <1>0, <5>1, BeforeOrder
        <5>4. ~ Before(entries, i, i)
          BY <1>0, <5>1, BeforeOrder
        <5> QED BY <3>1, <5>2, <5>3, <5>4
      <4> QED BY <2>1, <4>1, <4>2
    <3> QED BY <2>1, <3>1 DEF NewestStay
  <2>8. LotsAreBacked'
    <3>1. Depths' = Depths
      BY <2>1 DEF Depths
    <3>2. Held' - toSell' = Held - toSell /\ (Held' > toSell' <=> Held > toSell)
      BY <1>0, <2>1, <2>2, <2>5
    <3>3. Balance(entries, taken)' - m = IF Held' > toSell' THEN Held' - toSell' ELSE 0
      BY <1>10, <2>1, <3>2
    <3> QED BY <1>10, <3>1, <3>3 DEF LotsAreBacked
  <2> QED BY <2>1, <2>4, <2>6, <2>7, <2>8 DEF Prefix
<1>5. CASE DropExcess
  <2>1. /\ toSell > 0 /\ toSell' = 0 /\ DOMAIN lots = {}
        /\ entries' = entries /\ taken' = taken /\ lots' = lots
    BY <1>5 DEF DropExcess
  <2>2. TypeOK'
    BY <2>1 DEF TypeOK
  <2>3. ~ Feasible(entries)
    BY <1>5, DropNeedsOversell
  <2>4. LotsAreBacked'
    <3>1. Depths' = Depths
      BY <2>1 DEF Depths
    <3>2. Held = 0 /\ Held' = 0
      BY <2>1, SumEmpty DEF Held
    <3>3. Balance(entries, taken)' - m = IF Held' > toSell' THEN Held' - toSell' ELSE 0
      BY <1>0, <1>10, <2>1, <3>2
    <3> QED BY <1>10, <3>1, <3>3 DEF LotsAreBacked
  <2> QED BY <2>1, <2>2, <2>3, <2>4 DEF Prefix, HeldIsBalance, NewestStay
<1>6. CASE UNCHANGED vars
  BY <1>6 DEF vars, TypeOK, Prefix, HeldIsBalance, NewestStay, LotsAreBacked, IsLeast, Depths, Held
<1> QED BY <1>1, <1>2, <1>3, <1>4, <1>5, <1>6 DEF Next

\* A lot is what is left of a buy, never empty, for every history.
THEOREM HoldingsTypeOK == Spec => []TypeOK
<1>1. HoldInv => TypeOK
  BY DEF HoldInv
<1> QED BY <1>1, HoldInit, HoldNext, PTL DEF Spec

\* The overview's amount of a coin is its balance, for every feasible ledger.
THEOREM HoldingsAddUp == Spec => []HeldIsBalance
<1>1. HoldInv => HeldIsBalance
  BY DEF HoldInv
<1> QED BY <1>1, HoldInit, HoldNext, PTL DEF Spec

\* A sell of a feasible ledger never runs out of lots: the tolerance of
\* build_holdings for oversold history is for edits of the database only.
THEOREM FeasibleSellsAreBacked == Spec => [][DropExcess => ~ Feasible(entries)]_vars
<1>1. HoldInv => (DropExcess => ~ Feasible(entries))
  BY DropNeedsOversell
<1>2. HoldInv /\ [Next]_vars => [DropExcess => ~ Feasible(entries)]_vars
  BY <1>1
<1> QED BY <1>2, HoldInit, HoldNext, PTL DEF Spec

\* Sells consume the right lots: what remains is the newest buys, as much of
\* them as the balance, for every history, oversold or not.
THEOREM HoldingsAreNewest == Spec => []NewestBuysLeft
<1>1. ASSUME HoldInv, toSell = 0, NEW i \in Buys(entries, taken)
      PROVE  Left(entries, taken, i) = IF i \in DOMAIN lots THEN lots[i] ELSE 0
  <2> DEFINE A == {j \in Buys(entries, taken) : Before(entries, i, j)}
             after == BoughtAfter(entries, taken, i)
             amount == entries[i].amount
  <2>1. /\ Timeline(entries)
        /\ IsFiniteSet(DOMAIN lots)
        /\ \A j \in DOMAIN lots : lots[j] \in Nat
        /\ Held \in Nat
        /\ taken \in SUBSET DOMAIN entries /\ i \in taken
        /\ DOMAIN lots \subseteq Buys(entries, taken)
        /\ amount \in Nat
    BY <1>1, HoldingsTypes DEF HoldInv, TypeOK, Buys
  <2>2. /\ IsFiniteSet(A)
        /\ \A j \in A : Deltas(entries)[j] = entries[j].amount /\ entries[j].amount \in Nat
        /\ after = SumFunctionOnSet(Deltas(entries), A)
        /\ after \in Nat
    BY <2>1, BoughtIsSum
  <2>3. Backed(entries, taken) = Held
    <3>1. PICK m \in Depths : IsLeast(m, Depths) /\ Balance(entries, taken) - m = Held
      BY <1>1, <2>1 DEF HoldInv, LotsAreBacked
    <3>2. Depths \in SUBSET Int
      BY <1>1, DepthsAreNumbers DEF HoldInv
    <3>3. Min(Depths) = m
      BY <3>1, <3>2, LeastIsMin DEF IsLeast
    <3> QED BY <3>1, <3>3 DEF Backed, Depths
  <2>4. Left(entries, taken, i) =
          IF amount <= Held - after THEN amount
          ELSE IF Held - after > 0 THEN Held - after ELSE 0
    <3>1. Left(entries, taken, i) = Max({0, Min({amount, Held - after})})
      BY <2>3 DEF Left
    <3>2. Min({amount, Held - after}) = IF amount <= Held - after THEN amount ELSE Held - after
      BY <2>1, <2>2, LesserOfTwo
    <3> HIDE DEF after, amount
    <3>3. Min({amount, Held - after}) \in Int
      BY <2>1, <2>2, <3>2
    <3> QED BY <2>1, <2>2, <3>1, <3>2, <3>3, GreaterThanZero
  <2>5. CASE i \in DOMAIN lots
    <3> DEFINE R == DOMAIN lots \ {i}
    <3>1. A \subseteq R /\ \A j \in A : lots[j] = entries[j].amount
      <4>1. ~ Before(entries, i, i)
        BY <2>1, BeforeOrder
      <4> QED BY <1>1, <2>5, <4>1 DEF HoldInv, NewestStay
    <3>2. IsFiniteSet(R)
      BY <2>1, FS_RemoveElement
    <3>3. Held = lots[i] + SumFunctionOnSet(lots, R)
      BY <2>1, <2>5, SumRemove DEF Held
    <3>4. after = SumFunctionOnSet(lots, A)
      <4>1. \A j \in A : Deltas(entries)[j] = lots[j]
        BY <2>2, <3>1
      <4> HIDE DEF A, after
      <4> QED BY <2>2, <4>1, SumAgree
    <3>5. SumFunctionOnSet(lots, A) <= SumFunctionOnSet(lots, R) /\ SumFunctionOnSet(lots, R) \in Nat
      <4>1. \A j \in R : lots[j] \in Nat
        BY <2>1
      <4> HIDE DEF A, R
      <4> QED BY <3>1, <3>2, <4>1, SumSubset
    <3>6. lots[i] \in 1 .. amount
      BY <1>1, <2>5 DEF HoldInv, TypeOK
    <3>7. CASE R = A
      <4>1. Held - after = lots[i]
        <5> HIDE DEF after, amount, R, A
        <5> QED BY <2>1, <2>2, <3>3, <3>4, <3>5, <3>6, <3>7
      <4> HIDE DEF after, amount
      <4> QED BY <2>1, <2>4, <2>5, <3>6, <4>1
    <3>8. CASE R # A
      <4>1. PICK k \in R : k \notin A
        BY <3>1, <3>8
      <4>2. Before(entries, k, i)
        <5>1. k \in Buys(entries, taken) /\ k \in DOMAIN entries /\ i \in DOMAIN entries
          BY <2>1, <4>1 DEF Buys
        <5> QED BY <2>1, <4>1, <5>1, BeforeOrder
      <4>3. lots[i] = amount
        BY <1>1, <2>5, <4>1, <4>2 DEF HoldInv, NewestStay
      <4> HIDE DEF after, amount, R, A
      <4> QED BY <2>1, <2>2, <2>4, <2>5, <3>3, <3>4, <3>5, <4>3
    <3> QED BY <3>7, <3>8
  <2>6. CASE i \notin DOMAIN lots
    <3>1. DOMAIN lots \subseteq A
      <4>1. ASSUME NEW k \in DOMAIN lots PROVE k \in A
        <5>1. ~ Before(entries, k, i)
          BY <1>1, <2>6 DEF HoldInv, NewestStay
        <5>2. k \in Buys(entries, taken) /\ k \in DOMAIN entries /\ i \in DOMAIN entries
          BY <2>1 DEF Buys
        <5> QED BY <2>1, <2>6, <5>1, <5>2, BeforeOrder
      <4> QED BY <4>1
    <3>2. Held <= SumFunctionOnSet(Deltas(entries), DOMAIN lots)
      <4>1. \A j \in DOMAIN lots :
              lots[j] \in Int /\ Deltas(entries)[j] \in Int /\ lots[j] <= Deltas(entries)[j]
        <5>1. \A j \in DOMAIN lots : lots[j] \in 1 .. entries[j].amount
          BY <1>1 DEF HoldInv, TypeOK
        <5> QED BY <2>2, <3>1, <5>1
      <4> QED BY <2>1, <4>1, SumMonotone DEF Held
    <3>3. SumFunctionOnSet(Deltas(entries), DOMAIN lots) <= after
      <4>1. \A j \in A : Deltas(entries)[j] \in Nat
        BY <2>2
      <4> HIDE DEF A, after
      <4> QED BY <2>2, <3>1, <4>1, SumSubset
    <3>4. SumFunctionOnSet(Deltas(entries), DOMAIN lots) \in Int
      <4>1. \A j \in DOMAIN lots : Deltas(entries)[j] \in Int
        BY <2>2, <3>1
      <4> QED BY <2>1, <4>1, SumType
    <3> HIDE DEF after, amount
    <3>5. amount > 0
      <4>1. i \in DOMAIN entries
        BY <2>1
      <4> QED BY <1>1, <4>1, AmountsAssumption DEF amount, HoldInv, TypeOK, IsLedger, Row
    <3> QED BY <2>1, <2>2, <2>4, <2>6, <3>2, <3>3, <3>4, <3>5
  <2> QED BY <2>5, <2>6
<1>2. HoldInv => NewestBuysLeft
  BY <1>1 DEF NewestBuysLeft
<1> QED BY <1>2, HoldInit, HoldNext, PTL DEF Spec
=============================================================================
