---------------------------- MODULE LedgerProofs ----------------------------
(***************************************************************************)
(* The ledger's promises hold for every set of amounts and dates, every    *)
(* stand-in id and every length of history; and the loop that replays a    *)
(* ledger decides what the service asks of it.                             *)
(***************************************************************************)
EXTENDS Ledger, ReplayLoop, ReplayLemmas

\* The inductive invariant: a create is decided on the rows alone, so the
\* types and the feasibility of the present ledger are all it rests on.
IInv == TypeOK /\ NoOversell

\* A ledger without future dates.
Dated(l, day) == IsLedger(l) /\ \A i \in DOMAIN l : l[i].date <= day

LEMMA PutDated ==
  ASSUME NEW l, NEW day, Dated(l, day),
         NEW id \in Ids, NEW row \in Row, row.date <= day
  PROVE  Dated(Put(l, id, row), day)
<1> DEFINE e == Put(l, id, row)
<1>1. /\ IsLedger(e)
      /\ DOMAIN e = DOMAIN l \cup {id}
      /\ e[id] = row
      /\ \A i \in DOMAIN l \ {id} : e[i] = l[i]
  <2>1. IsLedger(l) /\ id \in Ids \cup {TieBreaker} /\ row \in Row
    BY DEF Dated
  <2>2. id \in Ids => IsLedger(e)
    BY <2>1, PutTimeline
  <2>3. DOMAIN e = DOMAIN l \cup {id}
    BY DEF Put
  <2>4. e[id] = row /\ \A i \in DOMAIN l \ {id} : e[i] = l[i]
    BY DEF Put
  <2> QED BY <2>2, <2>3, <2>4
<1> HIDE DEF e
<1>2. \A i \in DOMAIN e : e[i].date <= day
  BY <1>1 DEF Dated
<1> QED BY <1>1, <1>2 DEF e, Dated

LEMMA RemoveDated ==
  ASSUME NEW l, NEW day, Dated(l, day), NEW id
  PROVE  Dated(Without(l, id), day)
BY DEF Dated, IsLedger, Without, Restrict

\* A created row leaves a feasible ledger when it was accepted under the
\* stand-in id.
LEMMA CreateFeasible ==
  ASSUME TypeOK, NoOversell, NEW id, NEW row \in Row, NewId(id, row)
  PROVE  Feasible(ProjectCreate(rows, row)) <=> Feasible(Put(rows, id, row))
<1>1. IsLedger(rows) /\ Feasible(rows) /\ id \in Ids \ DOMAIN rows
  BY DEF TypeOK, NoOversell, NewId
<1>2. CASE \A i \in DOMAIN rows : i < id
  BY <1>1, <1>2, StandInSound
<1>3. CASE row.type = "buy"
  <2>1. TieBreaker \in (Ids \cup {TieBreaker}) \ DOMAIN rows
    BY <1>1, TieBreakerAssumption DEF IsLedger, Ids
  <2>2. id \in (Ids \cup {TieBreaker}) \ DOMAIN rows
    BY <1>1
  <2>3. Feasible(Put(rows, TieBreaker, row)) /\ Feasible(Put(rows, id, row))
    BY <1>1, <1>3, <2>1, <2>2, BuyKeepsFeasible
  <2> QED BY <2>3 DEF ProjectCreate
<1> QED BY <1>2, <1>3 DEF NewId

LEMMA InitInv == Init => IInv
BY StartAssumption DEF Init, IInv, TypeOK, NoOversell

LEMMA NextInv == IInv /\ [Next]_vars => IInv'
<1> SUFFICES ASSUME TypeOK, NoOversell, [Next]_vars
             PROVE  TypeOK' /\ NoOversell'
  BY DEF IInv
<1> USE DEF TypeOK, NoOversell
<1>1. ASSUME NEW id \in Ids, NEW row \in FormRow, CreateTransaction(id, row)
      PROVE  TypeOK' /\ NoOversell'
  <2>1. row \in Row /\ row.date <= today
    BY DEF FormRow
  <2>2. /\ NewId(id, row)
        /\ Feasible(ProjectCreate(rows, row))
        /\ rows' = Put(rows, id, row)
        /\ active' = active /\ today' = today
    BY <1>1 DEF CreateTransaction
  <2>3. NoOversell'
    <3>1. Feasible(Put(rows, id, row))
      BY <2>1, <2>2, CreateFeasible
    <3> QED BY <2>2, <3>1
  <2>4. TypeOK'
    <3>1. Dated(rows', today)
      BY <2>1, <2>2, PutDated DEF Dated
    <3> QED BY <2>2, <3>1 DEF Dated
  <2> QED BY <2>3, <2>4
<1>2. ASSUME NEW id \in Ids, NEW row \in FormRow, UpdateTransaction(id, row)
      PROVE  TypeOK' /\ NoOversell'
  <2>1. row \in Row /\ row.date <= today
    BY DEF FormRow
  <2>2. /\ id \in DOMAIN rows
        /\ Feasible(ProjectUpdate(rows, id, row))
        /\ rows' = Put(rows, id, row)
        /\ active' = active /\ today' = today
    BY <1>2 DEF UpdateTransaction
  <2>3. NoOversell'
    BY <2>2 DEF ProjectUpdate
  <2>4. TypeOK'
    <3>1. Dated(rows', today)
      BY <2>1, <2>2, PutDated DEF Dated
    <3> QED BY <2>2, <3>1 DEF Dated
  <2> QED BY <2>3, <2>4
<1>3. ASSUME NEW id \in Ids, DeleteTransaction(id)
      PROVE  TypeOK' /\ NoOversell'
  <2>1. /\ Feasible(ProjectDelete(rows, id))
        /\ rows' = Without(rows, id)
        /\ active' = active /\ today' = today
    BY <1>3 DEF DeleteTransaction
  <2>2. NoOversell'
    BY <2>1 DEF ProjectDelete
  <2>3. TypeOK'
    <3>1. Dated(rows', today)
      BY <2>1, RemoveDated DEF Dated
    <3> QED BY <2>1, <3>1 DEF Dated
  <2> QED BY <2>2, <2>3
<1>4. CASE SetListed
  BY <1>4 DEF SetListed
<1>5. CASE NextDay
  <2>1. /\ rows' = rows /\ active' = active
        /\ today' \in Dates /\ today' > today
    BY <1>5 DEF NextDay
  <2>2. \A i \in DOMAIN rows : rows[i].date \in Int /\ rows[i].date <= today
    BY LedgerIsTimeline, TimelineIds, SignedType
  <2>3. today \in Int /\ today' \in Int
    BY <2>1, DatesAssumption
  <2> QED BY <2>1, <2>2, <2>3
<1>6. CASE UNCHANGED vars
  BY <1>6 DEF vars
<1> QED BY <1>1, <1>2, <1>3, <1>4, <1>5, <1>6 DEF Next

\* The rows of the ledger have the types of the model's columns and no date in
\* the future, after every history of requests.
THEOREM LedgerTypeOK == Spec => []TypeOK
BY InitInv, NextInv, PTL DEF Spec, IInv

\* No accepted history of creates, edits and deletes ever has a prefix, in
\* (trade_date, id) order, that sells more than it bought.
THEOREM LedgerNoOversell == Spec => []NoOversell
BY InitInv, NextInv, PTL DEF Spec, IInv

\* Validating a create under NEW_ROW_TIEBREAKER_ID is validating it under the
\* id it gets.
THEOREM LedgerStandInDecides == Spec => []StandInDecides
<1>1. IInv => StandInDecides
  BY CreateFeasible DEF IInv, StandInDecides, FormRow
<1> QED BY <1>1, InitInv, NextInv, PTL DEF Spec

\* The balance shown is what can be sold today.
THEOREM LedgerSellableToday == Spec => []SellableTodayIsBalance
<1>1. ASSUME TypeOK, NoOversell, NEW a \in Amounts
      PROVE  Feasible(ProjectCreate(rows, [type |-> "sell", amount |-> a, date |-> today]))
               <=> a <= CoinBalance(rows)
  <2> DEFINE sell == [type |-> "sell", amount |-> a, date |-> today]
  <2>1. sell \in Row /\ Signed(sell) = - a /\ sell.date = today /\ a \in Nat
    BY <1>1, AmountsAssumption DEF Row, Types, Signed, TypeOK
  <2>2. IsLedger(rows) /\ Timeline(rows) /\ Feasible(rows)
    BY <1>1, LedgerIsTimeline DEF TypeOK, NoOversell
  <2>3. \A i \in DOMAIN rows : i < TieBreaker
    BY <2>2, TieBreakerAssumption DEF IsLedger, Ids
  <2> HIDE DEF sell
  <2>4. Feasible(ProjectCreate(rows, sell)) <=> FitsLast(rows, sell)
    BY <2>1, <2>2, <2>3, FeasibleLast DEF ProjectCreate
  <2>5. ASSUME NEW i \in DOMAIN rows
        PROVE  /\ ~ (sell.date < rows[i].date)
               /\ rows[i].date <= sell.date
               /\ 0 + Balance(rows, Upto(rows, i)) >= 0
    <3>1. rows[i].date \in Int /\ today \in Int /\ rows[i].date <= today
      BY <1>1, <2>2, TimelineIds, SignedType, DatesAssumption DEF TypeOK
    <3>2. Upto(rows, i) \in SUBSET DOMAIN rows
      BY DEF Upto
    <3>3. Balance(rows, Upto(rows, i)) \in Int /\ Balance(rows, Upto(rows, i)) >= 0
      BY <2>2, <3>2, BalanceSplit DEF Feasible
    <3> QED BY <2>1, <3>1, <3>3
  <2>6. {j \in DOMAIN rows : rows[j].date <= sell.date} = DOMAIN rows
    BY <2>5
  <2>7. FitsLast(rows, sell) <=> Signed(sell) + Balance(rows, DOMAIN rows) >= 0
    BY <2>5, <2>6 DEF FitsLast
  <2>8. CoinBalance(rows) = Balance(rows, DOMAIN rows) /\ CoinBalance(rows) \in Int
    BY <2>2, BalanceSplit DEF CoinBalance
  <2>9. FitsLast(rows, sell) <=> a <= CoinBalance(rows)
    BY <2>1, <2>7, <2>8
  <2> QED BY <2>4, <2>9 DEF sell
<1>2. IInv => SellableTodayIsBalance
  BY <1>1 DEF IInv, SellableTodayIsBalance
<1> QED BY <1>2, InitInv, NextInv, PTL DEF Spec

\* An edit that keeps a row as it is, or only makes a sell smaller, is never
\* refused.
THEOREM LedgerHarmlessEdit == Spec => []HarmlessEditAccepted
<1>1. ASSUME TypeOK, NoOversell, NEW id \in DOMAIN rows
      PROVE  /\ ~ UpdateDelisted(active, rows, id, rows[id])
             /\ Feasible(ProjectUpdate(rows, id, rows[id]))
             /\ \A a \in Amounts :
                  rows[id].type = "sell" /\ a < rows[id].amount =>
                    Feasible(ProjectUpdate(rows, id, [rows[id] EXCEPT !.amount = a]))
  <2>1. IsLedger(rows) /\ Feasible(rows) /\ rows[id] \in Row
    BY <1>1, LedgerIsTimeline, TimelineIds DEF TypeOK, NoOversell
  <2>2. rows[id].amount \in Int /\ Signed(rows[id]) \in Int
    BY <2>1, SignedType
  <2>3. ~ UpdateDelisted(active, rows, id, rows[id])
    BY <2>2 DEF UpdateDelisted
  <2>4. Signed(rows[id]) <= Signed(rows[id])
    BY <2>2
  <2>5. Feasible(Put(rows, id, rows[id]))
    BY <2>1, <2>4, RaiseKeepsFeasible
  <2>6. ASSUME NEW a \in Amounts, rows[id].type = "sell", a < rows[id].amount
        PROVE  Feasible(Put(rows, id, [rows[id] EXCEPT !.amount = a]))
    <3> DEFINE row == [rows[id] EXCEPT !.amount = a]
    <3>1. row \in Row /\ row.date = rows[id].date /\ row.amount = a /\ row.type = "sell"
      BY <2>1, <2>6 DEF Row
    <3> HIDE DEF row
    <3>2. Signed(row) = - a /\ Signed(rows[id]) = - rows[id].amount
      BY <2>6, <3>1 DEF Signed
    <3>3. a \in Int
      BY AmountsAssumption
    <3>4. Signed(rows[id]) <= Signed(row)
      BY <2>2, <2>6, <3>2, <3>3
    <3>5. Feasible(Put(rows, id, row))
      BY <2>1, <3>1, <3>4, RaiseKeepsFeasible
    <3> QED BY <3>5 DEF row
  <2> QED BY <2>3, <2>5, <2>6 DEF ProjectUpdate
<1>2. IInv => HarmlessEditAccepted
  BY <1>1 DEF IInv, HarmlessEditAccepted
<1> QED BY <1>2, InitInv, NextInv, PTL DEF Spec

\* Nothing is bought while the coin is delisted, over every history.
THEOREM LedgerBuysOnlyWhileListed == Spec => BuysOnlyWhileListed
<1> DEFINE Bought(i) == /\ i \in DOMAIN rows
                        /\ rows[i].type = "buy"
                        /\ rows'[i].amount <= rows[i].amount
           A == ~ active => \A i \in DOMAIN rows' : rows'[i].type = "buy" => Bought(i)
<1>1. ASSUME TypeOK, Next, ~ active, NEW i \in DOMAIN rows', rows'[i].type = "buy"
      PROVE  Bought(i)
  <2>1. \A j \in DOMAIN rows : rows[j].amount \in Int
    BY <1>1, LedgerIsTimeline, TimelineIds, SignedType DEF TypeOK
  <2>2. ASSUME rows' = rows PROVE Bought(i)
    BY <1>1, <2>1, <2>2
  <2>3. ASSUME NEW id \in Ids, NEW row \in FormRow, CreateTransaction(id, row)
        PROVE  Bought(i)
    <3>1. row.type # "buy" /\ rows' = Put(rows, id, row)
      BY <1>1, <2>3 DEF CreateTransaction, CreateDelisted
    <3>2. i # id /\ i \in DOMAIN rows /\ rows'[i] = rows[i]
      BY <1>1, <3>1 DEF Put
    <3> QED BY <1>1, <2>1, <3>2
  <2>4. ASSUME NEW id \in Ids, NEW row \in FormRow, UpdateTransaction(id, row)
        PROVE  Bought(i)
    <3>1. id \in DOMAIN rows /\ rows' = Put(rows, id, row)
      BY <2>4 DEF UpdateTransaction
    <3>2. CASE i = id
      <4>1. rows'[i] = row
        BY <3>1, <3>2 DEF Put
      <4>2. rows[i].type = "buy" /\ ~ (row.amount > rows[i].amount)
        BY <1>1, <2>4, <3>1, <3>2, <4>1 DEF UpdateTransaction, UpdateDelisted
      <4>3. row.amount \in Int
        BY SignedType DEF FormRow
      <4> QED BY <2>1, <3>1, <3>2, <4>1, <4>2, <4>3
    <3>3. CASE i # id
      <4>1. i \in DOMAIN rows /\ rows'[i] = rows[i]
        BY <1>1, <3>1, <3>3 DEF Put
      <4> QED BY <1>1, <2>1, <4>1
    <3> QED BY <3>2, <3>3
  <2>5. ASSUME NEW id \in Ids, DeleteTransaction(id)
        PROVE  Bought(i)
    <3>1. rows' = Without(rows, id)
      BY <2>5 DEF DeleteTransaction
    <3>2. i \in DOMAIN rows /\ rows'[i] = rows[i]
      BY <1>1, <3>1 DEF Without, Restrict
    <3> QED BY <1>1, <2>1, <3>2
  <2>6. SetListed \/ NextDay => rows' = rows
    BY DEF SetListed, NextDay
  <2> QED BY <1>1, <2>2, <2>3, <2>4, <2>5, <2>6 DEF Next
<1>2. TypeOK /\ [Next]_vars => [A]_rows
  BY <1>1 DEF vars
<1> QED BY <1>2, LedgerTypeOK, PTL DEF Spec, BuysOnlyWhileListed

-----------------------------------------------------------------------------
(* The loop of _replay_feasible decides Feasible, for every timeline.      *)

\* The rows taken are a prefix of the sorted entries, the balance is theirs,
\* and no prefix that ends with one of them is negative unless the loop has
\* returned False.
LoopPrefix ==
  \A j \in replayed : \A k \in DOMAIN entries : Before(entries, k, j) => k \in replayed

LoopInv ==
  /\ LoopTypeOK
  /\ LoopPrefix
  /\ verdict # "infeasible" =>
       /\ balance = Balance(entries, replayed)
       /\ \A i \in replayed : Balance(entries, Upto(entries, i)) >= 0
  /\ verdict = "feasible" => replayed = DOMAIN entries
  /\ verdict = "infeasible" =>
       \E i \in DOMAIN entries : Balance(entries, Upto(entries, i)) < 0

\* The entry taken next closes the next prefix.
LEMMA NextCloses ==
  ASSUME LoopInv, verdict = "running", NEW i \in Rest, IsNext(i)
  PROVE  /\ i \in DOMAIN entries \ replayed
         /\ Upto(entries, i) = replayed \cup {i}
         /\ Balance(entries, Upto(entries, i)) = NewBalance(i)
         /\ NewBalance(i) \in Int
         /\ Upto(entries, i) \subseteq DOMAIN entries
<1>1. Timeline(entries) /\ replayed \subseteq DOMAIN entries
  BY DEF LoopInv, LoopTypeOK, IsTimeline, Timeline
<1>2. i \in DOMAIN entries \ replayed
  BY DEF Rest
<1>3. ASSUME NEW j \in replayed PROVE Before(entries, j, i)
  <2>1. ~ Before(entries, i, j)
    BY <1>1, <1>2 DEF LoopInv, LoopPrefix
  <2> QED BY <1>1, <1>2, <2>1, BeforeOrder
<1>4. ASSUME NEW k \in DOMAIN entries, Before(entries, k, i) PROVE k \in replayed
  <2>1. k # i
    BY <1>1, <1>4, BeforeOrder
  <2>2. ~ Before(entries, i, k)
    BY <1>1, <1>2, <1>4, BeforeOrder
  <2> QED BY <2>1, <2>2 DEF IsNext, Rest
<1>5. Upto(entries, i) = replayed \cup {i}
  BY <1>1, <1>2, <1>3, <1>4 DEF Upto
<1>6. replayed \cup {i} \in SUBSET DOMAIN entries /\ (replayed \cup {i}) \ {i} = replayed
  BY <1>1, <1>2
<1>7. Balance(entries, replayed \cup {i}) = Signed(entries[i]) + Balance(entries, replayed)
  BY <1>1, <1>6, BalanceSplit
<1>8. Balance(entries, replayed) \in Int /\ Signed(entries[i]) \in Int
  BY <1>1, <1>2, BalanceSplit, TimelineIds, SignedType
<1>9. balance = Balance(entries, replayed)
  BY DEF LoopInv
<1> QED BY <1>2, <1>5, <1>6, <1>7, <1>8, <1>9 DEF NewBalance

LEMMA LoopStarts == LoopInit => LoopInv
<1> SUFFICES ASSUME LoopInit PROVE LoopInv
  OBVIOUS
<1>1. PICK D \in SUBSET (Ids \cup {TieBreaker}) : entries \in [D -> Row]
  BY DEF LoopInit, Timelines
<1>2. IsTimeline(entries)
  BY <1>1 DEF IsTimeline
<1>3. Balance(entries, {}) = 0
  BY SumEmpty DEF Balance
<1> QED BY <1>2, <1>3 DEF LoopInit, LoopInv, LoopTypeOK, LoopPrefix

LEMMA LoopGoesOn == LoopInv /\ [LoopNext]_loopVars => LoopInv'
<1> SUFFICES ASSUME LoopInv, [LoopNext]_loopVars PROVE LoopInv'
  OBVIOUS
<1>1. CASE Continue
  <2>1. PICK i \in Rest : /\ IsNext(i)
                               /\ NewBalance(i) >= 0
                               /\ replayed' = replayed \cup {i}
                               /\ balance' = NewBalance(i)
    BY <1>1 DEF Continue
  <2>2. verdict = "running" /\ verdict' = verdict /\ entries' = entries
    BY <1>1 DEF Continue
  <2>3. /\ i \in DOMAIN entries \ replayed
        /\ Upto(entries, i) = replayed \cup {i}
        /\ Balance(entries, Upto(entries, i)) = NewBalance(i)
        /\ NewBalance(i) \in Int
        /\ Upto(entries, i) \subseteq DOMAIN entries
    BY <2>1, <2>2, NextCloses
  <2>4. LoopTypeOK'
    BY <2>1, <2>2, <2>3 DEF LoopInv, LoopTypeOK, IsTimeline
  <2>5. LoopPrefix'
    <3>1. Timeline(entries)
      BY DEF LoopInv, LoopTypeOK, IsTimeline, Timeline
    <3>2. ASSUME NEW j \in Upto(entries, i), NEW k \in DOMAIN entries, Before(entries, k, j)
          PROVE  k \in Upto(entries, i)
      BY <2>3, <3>1, <3>2, BeforeOrder DEF Upto
    <3>3. replayed' = Upto(entries, i)
      BY <2>1, <2>3
    <3> QED BY <2>2, <3>2, <3>3 DEF LoopPrefix
  <2>6. /\ balance' = Balance(entries, replayed')
        /\ \A j \in replayed' : Balance(entries, Upto(entries, j)) >= 0
    BY <2>1, <2>2, <2>3 DEF LoopInv
  <2> QED BY <2>2, <2>4, <2>5, <2>6 DEF LoopInv
<1>2. CASE ReturnFalse
  <2>1. PICK i \in Rest : /\ IsNext(i)
                               /\ NewBalance(i) < 0
                               /\ replayed' = replayed \cup {i}
                               /\ balance' = NewBalance(i)
    BY <1>2 DEF ReturnFalse
  <2>2. verdict = "running" /\ verdict' = "infeasible" /\ entries' = entries
    BY <1>2 DEF ReturnFalse
  <2>3. /\ i \in DOMAIN entries \ replayed
        /\ Upto(entries, i) = replayed \cup {i}
        /\ Balance(entries, Upto(entries, i)) = NewBalance(i)
        /\ NewBalance(i) \in Int
        /\ Upto(entries, i) \subseteq DOMAIN entries
    BY <2>1, <2>2, NextCloses
  <2>4. LoopTypeOK'
    BY <2>1, <2>2, <2>3 DEF LoopInv, LoopTypeOK, IsTimeline
  <2>5. LoopPrefix'
    <3>1. Timeline(entries)
      BY DEF LoopInv, LoopTypeOK, IsTimeline, Timeline
    <3>2. ASSUME NEW j \in Upto(entries, i), NEW k \in DOMAIN entries, Before(entries, k, j)
          PROVE  k \in Upto(entries, i)
      BY <2>3, <3>1, <3>2, BeforeOrder DEF Upto
    <3>3. replayed' = Upto(entries, i)
      BY <2>1, <2>3
    <3> QED BY <2>2, <3>2, <3>3 DEF LoopPrefix
  <2> QED BY <2>1, <2>2, <2>3, <2>4, <2>5 DEF LoopInv
<1>3. CASE ReturnTrue
  BY <1>3 DEF ReturnTrue, Rest, LoopInv, LoopTypeOK, LoopPrefix, IsTimeline
<1>4. CASE UNCHANGED loopVars
  BY <1>4 DEF loopVars, LoopInv, LoopTypeOK, LoopPrefix, IsTimeline
<1> QED BY <1>1, <1>2, <1>3, <1>4 DEF LoopNext

\* The loop returns True exactly for the timelines without a negative prefix.
THEOREM LoopVerdict == LoopSpec => []VerdictIsFeasible
<1>1. LoopInv => VerdictIsFeasible
  <2> SUFFICES ASSUME LoopInv PROVE VerdictIsFeasible
    OBVIOUS
  <2>1. ASSUME verdict = "infeasible" PROVE ~ Feasible(entries)
    <3>1. PICK i \in DOMAIN entries : Balance(entries, Upto(entries, i)) < 0
      BY <2>1 DEF LoopInv
    <3>2. Balance(entries, Upto(entries, i)) \in Int
      <4>1. Timeline(entries) /\ Upto(entries, i) \in SUBSET DOMAIN entries
        BY DEF LoopInv, LoopTypeOK, IsTimeline, Timeline, Upto
      <4> QED BY <4>1, BalanceSplit
    <3> QED BY <3>1, <3>2 DEF Feasible
  <2>2. verdict = "feasible" => Feasible(entries)
    BY DEF LoopInv, Feasible
  <2> QED BY <2>1, <2>2 DEF VerdictIsFeasible
<1> QED BY <1>1, LoopStarts, LoopGoesOn, PTL DEF LoopSpec

\* The loop's last balance is the aggregate that the page shows.
THEOREM LoopFinalBalance == LoopSpec => []FinalBalanceIsCoinBalance
<1>1. LoopInv => FinalBalanceIsCoinBalance
  BY DEF LoopInv, FinalBalanceIsCoinBalance, CoinBalance
<1> QED BY <1>1, LoopStarts, LoopGoesOn, PTL DEF LoopSpec

\* Types of the loop's variables, and no negative balance is carried on.
THEOREM LoopTypes == LoopSpec => []LoopTypeOK
<1>1. LoopInv => LoopTypeOK
  BY DEF LoopInv
<1> QED BY <1>1, LoopStarts, LoopGoesOn, PTL DEF LoopSpec
=============================================================================
