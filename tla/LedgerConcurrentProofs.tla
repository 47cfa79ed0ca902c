----------------------- MODULE LedgerConcurrentProofs -----------------------
(***************************************************************************)
(* What the row locks give, for every number of requests, rows and dates:  *)
(* what holds whatever overlaps, and that the ledger is serializable when  *)
(* requests overlap only as the locks make safe.                           *)
(***************************************************************************)
EXTENDS LedgerConcurrent, ReplayLemmas

-----------------------------------------------------------------------------
(* The inductive invariant, whatever overlaps.                             *)

\* Types of the variables; no id is given twice.
Typed ==
  /\ IsLedger(rows)
  /\ lastId \in Ids \cup {0}
  /\ \A i \in DOMAIN rows : i <= lastId
  /\ active \in BOOLEAN
  /\ overtaken \subseteq Requests
  /\ \A r \in Requests :
       /\ pc[r] \in {"idle", "received", "locking", "inserting", "writing",
                     "saved", "refused", "failed"}
       /\ req[r] \in Submitted \cup {NoRequest}
       /\ listed[r] \in BOOLEAN
       /\ DOMAIN left[r] \subseteq Ids /\ left[r] \in [DOMAIN left[r] -> Dates]
       /\ IsLedger(view[r])
       /\ target[r] \in 0 .. lastId

\* Every request has its entry in each table.
Tables ==
  /\ DOMAIN pc = Requests /\ DOMAIN req = Requests /\ DOMAIN listed = Requests
  /\ DOMAIN left = Requests /\ DOMAIN view = Requests /\ DOMAIN target = Requests

\* What a request has in each phase, and that its rows are there.
Phase(r) ==
  /\ pc[r] # "idle" =>
       /\ req[r] \in Submitted
       /\ req[r].op # "create" => req[r].id \in 1 .. lastId
  /\ ~ InTransaction(r) => DOMAIN view[r] = {}
  /\ pc[r] # "locking" => DOMAIN left[r] = {}
  /\ DOMAIN left[r] \subseteq DOMAIN rows
  /\ \A i \in DOMAIN view[r] : i \in DOMAIN rows /\ rows[i] = view[r][i]
  /\ pc[r] = "inserting" => req[r].op = "update"
  /\ IF pc[r] # "writing" THEN target[r] = 0
     ELSE /\ req[r].op = "create" => target[r] # 0 /\ target[r] \notin DOMAIN rows
          /\ req[r].op = "update" => target[r] = req[r].id
          /\ req[r].op = "delete" => target[r] \in {0, req[r].id}

\* A row lock has one holder, and nobody asks for the row that a create has
\* inserted and not committed.
Apart(r, s) ==
  /\ \A i \in Holds(r) : i \notin Holds(s)
  /\ pc[r] = "writing" /\ req[r].op = "create" /\ pc[s] # "idle" /\ req[s].op # "create" =>
       req[s].id # target[r]

LockInv ==
  /\ Typed /\ Tables
  /\ \A r \in Requests : Phase(r)
  /\ \A r, s \in Requests : r # s => Apart(r, s)

-----------------------------------------------------------------------------
(* No edit has been committed since the SELECT of a request started: rows  *)
(* keep the dates that it has seen.                                        *)

\* r locks in the one order of the rows, and the row it edits or deletes is
\* among those that it has or will have locked, unless it is gone for good.
Ordered(r) ==
  /\ \A i \in DOMAIN left[r] :
       /\ left[r][i] = rows[i].date
       /\ \A j \in DOMAIN view[r] : Before(rows, j, i)
  /\ pc[r] = "locking" /\ req[r].op # "create" /\ req[r].id \in DOMAIN rows =>
       req[r].id \in DOMAIN view[r] \cup DOMAIN left[r]
  /\ pc[r] = "inserting" => req[r].id \notin DOMAIN rows

OrderInv == \A r \in Requests : r \in overtaken \/ Ordered(r)

-----------------------------------------------------------------------------
(* Requests overlap only as SafeOverlap says.                              *)

SafeFlights ==
  \A r, s \in Requests :
    r # s /\ InFlight(r) /\ InFlight(s) => SafePair(req[r], req[s])

\* What a request that needs more than the rows it adds to knows: all of them.
Reads(r) ==
  /\ InFlight(r) /\ req[r].op = "update" => req[r].id \in DOMAIN rows /\ pc[r] # "inserting"
  /\ InTransaction(r) /\ ~ IsCreateBuy(req[r]) =>
       DOMAIN rows \subseteq DOMAIN view[r] \cup DOMAIN left[r]

\* What it has decided when it writes.
Decided(r) ==
  /\ InTransaction(r) /\ req[r].op = "create" => ~ CreateDelisted(listed[r], req[r].row)
  /\ pc[r] = "writing" =>
       /\ ~ EditDelisted(r)
       /\ ~ IsCreateBuy(req[r]) => Feasible(Projected(r))
       /\ req[r].op = "create" =>
            \A i \in DOMAIN rows :
              i < target[r] \/ (rows[i].type = "buy" /\ req[r].row.type = "buy")

SafeInv ==
  /\ SafeFlights /\ NoOversell
  /\ \A r \in Requests : Reads(r) /\ Decided(r)

-----------------------------------------------------------------------------
(* Requests and statements.                                                *)

LEMMA RequestParts ==
  ASSUME NEW q \in Request
  PROVE  /\ q.op \in {"create", "update", "delete"}
         /\ q.op # "delete" => q.row \in Row
         /\ q.op # "create" => q.id \in Ids
         /\ q # NoRequest
BY DEF Request, NoRequest

Places == {"idle", "received", "locking", "inserting", "writing",
           "saved", "refused", "failed"}

\* A statement of r that commits nothing: r goes on to `at`, with rows still to
\* lock, rows read, and a row written.
Moves(r, at, lefts, reads, id) ==
  /\ Tables'
  /\ pc'[r] = at /\ left'[r] = lefts /\ view'[r] = reads /\ target'[r] = id
  /\ \A s \in Requests \ {r} :
       /\ pc'[s] = pc[s] /\ left'[s] = left[s]
       /\ view'[s] = view[s] /\ target'[s] = target[s]
  /\ req' = req /\ listed' = listed /\ rows' = rows /\ active' = active
  /\ overtaken' \cup {r} = overtaken \cup {r}

LEMMA MovesKeep ==
  ASSUME LockInv, NEW r \in Requests, pc[r] # "idle",
         NEW at \in Places \ {"idle"}, NEW lefts, NEW reads, NEW id \in 0 .. lastId',
         Moves(r, at, lefts, reads, id),
         lastId' \in Ids \cup {0}, lastId <= lastId',
         lefts \in [DOMAIN lefts -> Dates], IsLedger(reads),
         Phase(r)',
         \A s \in Requests \ {r} :
           /\ \A i \in DOMAIN reads \cup {id} : i # 0 => i \notin Holds(s)
           /\ at = "writing" /\ req[r].op = "create" /\ pc[s] # "idle" /\ req[s].op # "create" =>
                req[s].id # id
  PROVE  LockInv'
<1> USE DEF LockInv
<1>1. /\ rows' = rows /\ active' = active /\ req' = req /\ listed' = listed
      /\ pc'[r] = at /\ left'[r] = lefts /\ view'[r] = reads /\ target'[r] = id
      /\ \A s \in Requests \ {r} :
           /\ pc'[s] = pc[s] /\ left'[s] = left[s]
           /\ view'[s] = view[s] /\ target'[s] = target[s]
  BY DEF Moves
<1>2. lastId \in Int /\ lastId' \in Int /\ lastId >= 0
  BY TieBreakerAssumption DEF Typed, Ids
<1>3. Typed'
  <2>1. IsLedger(rows)' /\ (\A i \in DOMAIN rows : i <= lastId)' /\ active' \in BOOLEAN
    <3>1. \A i \in DOMAIN rows : i \in Int /\ i <= lastId
      BY TieBreakerAssumption DEF Typed, IsLedger, Ids
    <3> QED BY <1>1, <1>2, <3>1 DEF Typed, IsLedger
  <2>2. ASSUME NEW s \in Requests
        PROVE  /\ pc'[s] \in Places /\ req'[s] \in Submitted \cup {NoRequest}
               /\ listed'[s] \in BOOLEAN
               /\ DOMAIN left'[s] \subseteq Ids /\ left'[s] \in [DOMAIN left'[s] -> Dates]
               /\ IsLedger(view'[s])
               /\ target'[s] \in 0 .. lastId'
    <3>1. DOMAIN lefts \subseteq Ids
      <4>1. DOMAIN lefts \subseteq DOMAIN rows
        BY <1>1 DEF Phase
      <4> QED BY <4>1 DEF Typed, IsLedger
    <3>2. target[s] \in 0 .. lastId'
      BY <1>2 DEF Typed
    <3> QED BY <1>1, <3>1, <3>2 DEF Typed, Places
  <2>3. overtaken' \subseteq Requests
    BY DEF Moves, Typed
  <2> QED BY <2>1, <2>2, <2>3 DEF Typed, IsLedger, Places
<1>4. Tables'
  BY DEF Moves
<1>5. ASSUME NEW s \in Requests PROVE Phase(s)'
  <2>1. CASE s = r
    BY <2>1
  <2>2. CASE s # r
    <3>1. Phase(s) /\ (pc[s] # "idle" /\ req[s].op # "create" => req[s].id \in 1 .. lastId')
      BY <1>2 DEF Phase
    <3> QED BY <1>1, <2>2, <3>1 DEF Phase, InTransaction
  <2> QED BY <2>1, <2>2
<1>6. ASSUME NEW s \in Requests, NEW t \in Requests, s # t PROVE Apart(s, t)'
  <2>1. /\ \A u \in Requests \ {r} : Holds(u)' = Holds(u)
        /\ Holds(r)' = DOMAIN reads \cup ({id} \ {0})
    BY <1>1 DEF Holds
  <2>2. \A i \in DOMAIN reads : i # 0
    BY DEF IsLedger, Ids
  <2>3. Apart(s, t)
    BY <1>6
  <2>4. CASE s = r
    BY <1>1, <1>6, <2>1, <2>2, <2>3, <2>4 DEF Apart
  <2>5. CASE t = r
    BY <1>1, <1>6, <2>1, <2>2, <2>3, <2>5 DEF Apart
  <2>6. CASE s # r /\ t # r
    BY <1>1, <2>1, <2>3, <2>6 DEF Apart
  <2> QED BY <2>4, <2>5, <2>6
<1> QED BY <1>3, <1>4, <1>5, <1>6

\* r's transaction ends without a commit.
LEMMA EndsKeeps ==
  ASSUME LockInv, NEW r \in Requests, pc[r] # "idle", NEW at \in {"refused", "failed"},
         NEW lefts, NEW reads, Moves(r, at, lefts, reads, 0), lastId' = lastId,
         DOMAIN lefts = {}, lefts \in [{} -> Dates], IsLedger(reads), DOMAIN reads = {}
  PROVE  LockInv'
<1>1. Phase(r)'
  BY DEF LockInv, Phase, Moves, InTransaction
<1>2. lastId \in Ids \cup {0} /\ lastId <= lastId' /\ 0 \in 0 .. lastId'
  BY TieBreakerAssumption DEF LockInv, Typed, Ids
<1>3. at \in Places \ {"idle"}
  BY DEF Places
<1> QED BY <1>1, <1>2, <1>3, MovesKeep

LEMMA EmptyIsEmpty ==
  /\ DOMAIN Empty = {} /\ Empty \in [{} -> Dates] /\ IsLedger(Empty)
BY DEF Empty, IsLedger

\* A request waits only in its SELECT or for a row that it writes.
LEMMA DeadlockedWaits ==
  ASSUME LockInv, NEW r \in Requests, InDeadlock(r)
  PROVE  pc[r] \in {"locking", "inserting"}
<1>1. Wants(r) # {}
  BY DEF InDeadlock, Deadlocked, WaitsFor
<1>2. pc[r] # "locking" => DOMAIN left[r] = {}
  BY DEF LockInv, Phase
<1> QED BY <1>1, <1>2 DEF Wants, Accepted, HasRead

\* The steps that end a request without a commit.
LEMMA EndsByAnswer ==
  ASSUME LockInv, NEW r \in Requests,
         \/ RefuseUnlistedBuy(r) \/ Refuse(r) \/ ReinsertDuplicate(r)
         \/ Crash(r) \/ BreakDeadlock(r)
  PROVE  \E at \in {"refused", "failed"} :
           /\ Moves(r, at, left'[r], view'[r], 0)
           /\ pc[r] \in {"received", "locking", "inserting", "writing"}
           /\ DOMAIN left'[r] = {} /\ left'[r] \in [{} -> Dates]
           /\ DOMAIN view'[r] = {} /\ IsLedger(view'[r])
           /\ lastId' = lastId
<1>1. /\ Tables /\ Phase(r)
      /\ left[r] \in [DOMAIN left[r] -> Dates] /\ IsLedger(view[r])
  BY DEF LockInv, Typed
<1> USE EmptyIsEmpty
<1>2. CASE RefuseUnlistedBuy(r)
  BY <1>1, <1>2 DEF RefuseUnlistedBuy, requestVars, Tables, Phase, InTransaction, Moves
<1>3. CASE Refuse(r)
  <2>1. DOMAIN left[r] = {} /\ pc[r] = "locking"
    BY <1>3 DEF Refuse, HasRead
  <2> QED BY <1>1, <1>3, <2>1 DEF Refuse, Rollback, Release, requestVars, Tables, Moves
<1>4. CASE ReinsertDuplicate(r)
  <2>1. DOMAIN left[r] = {} /\ pc[r] = "inserting"
    BY <1>1, <1>4 DEF ReinsertDuplicate, Phase
  <2> QED BY <1>1, <1>4, <2>1 DEF ReinsertDuplicate, Rollback, Release, requestVars, Tables, Moves
<1>5. CASE Crash(r)
  BY <1>1, <1>5 DEF Crash, InFlight, Rollback, Release, requestVars, Tables, Moves
<1>6. CASE BreakDeadlock(r)
  <2>1. pc[r] \in {"locking", "inserting"}
    BY <1>6, DeadlockedWaits DEF BreakDeadlock
  <2> QED BY <1>1, <1>6, <2>1 DEF BreakDeadlock, Rollback, Release, requestVars, Tables, Moves
<1> QED BY <1>2, <1>3, <1>4, <1>5, <1>6

\* The rows locked so far are read, the others are still to lock.
LEMMA BeginMoves ==
  ASSUME LockInv, NEW r \in Requests, BeginSelect(r)
  PROVE  /\ Moves(r, "locking", [i \in DOMAIN rows |-> rows[i].date], view[r], 0)
         /\ pc[r] = "received" /\ lastId' = lastId
         /\ DOMAIN view[r] = {} /\ IsLedger(view[r])
<1>1. Tables /\ Phase(r) /\ IsLedger(view[r])
  BY DEF LockInv, Typed
<1> QED BY <1>1 DEF BeginSelect, requestVars, Tables, Phase, InTransaction, Moves

LEMMA LockMoves ==
  ASSUME LockInv, NEW r \in Requests, LockRow(r)
  PROVE  \E i \in DOMAIN left[r] :
           /\ IsNextLocked(r, i) /\ Free(r, i)
           /\ Moves(r, "locking", Restrict(left[r], DOMAIN left[r] \ {i}),
                    Put(view[r], i, rows[i]), 0)
           /\ pc[r] = "locking" /\ lastId' = lastId
<1>1. Tables /\ Phase(r)
  BY DEF LockInv
<1>2. PICK i \in DOMAIN left[r] :
        /\ IsNextLocked(r, i)
        /\ Free(r, i)
        /\ view' = [view EXCEPT ![r] = Put(view[r], i, rows[i])]
        /\ left' = [left EXCEPT ![r] = Restrict(left[r], DOMAIN left[r] \ {i})]
  BY DEF LockRow
<1>3. /\ pc[r] = "locking" /\ target[r] = 0
      /\ UNCHANGED <<rows, lastId, active, pc, requestVars, target, overtaken>>
  BY <1>1 DEF LockRow, Phase
<1>4. Moves(r, "locking", Restrict(left[r], DOMAIN left[r] \ {i}),
            Put(view[r], i, rows[i]), 0)
  BY <1>1, <1>2, <1>3 DEF requestVars, Tables, Moves
<1> QED BY <1>2, <1>3, <1>4

\* The write of r, by its kind.
LEMMA WriteMoves ==
  ASSUME LockInv, NEW r \in Requests,
         InsertRow(r) \/ WriteRow(r) \/ MissRow(r) \/ Reinsert(r)
  PROVE  \E at \in {"writing", "inserting"}, id \in Ids \cup {0} :
           /\ Moves(r, at, left[r], view[r], id)
           /\ \/ /\ Accepted(r) /\ req[r].op = "create"
                 /\ at = "writing" /\ id = lastId + 1 /\ lastId' = lastId + 1
              \/ /\ Accepted(r) /\ req[r].op # "create"
                 /\ lastId' = lastId
                 /\ \/ /\ at = "writing" /\ id = req[r].id /\ Free(r, id)
                       /\ id \in DOMAIN rows
                    \/ /\ req[r].id \notin DOMAIN rows /\ id = 0
                       /\ at = IF req[r].op = "update" THEN "inserting" ELSE "writing"
              \/ /\ pc[r] = "inserting" /\ at = "writing" /\ lastId' = lastId
                 /\ id = req[r].id /\ Free(r, id) /\ id \notin DOMAIN rows
<1>1. Tables /\ Phase(r)
  BY DEF LockInv
<1>2. /\ Accepted(r) => pc[r] = "locking" /\ target[r] = 0
      /\ pc[r] = "inserting" => target[r] = 0
      /\ pc[r] # "idle" /\ req[r].op # "create" => req[r].id \in Ids
  <2>1. pc[r] # "idle" => req[r] \in Request
    BY <1>1, SubmittedAssumption DEF Phase
  <2> QED BY <1>1, <2>1, RequestParts DEF Phase, Accepted, HasRead
<1>3. CASE InsertRow(r)
  <2>1. Moves(r, "writing", left[r], view[r], lastId + 1)
    BY <1>1, <1>3 DEF InsertRow, requestVars, Tables, Moves
  <2> QED BY <1>3, <2>1 DEF InsertRow
<1>4. CASE WriteRow(r)
  <2>1. Moves(r, "writing", left[r], view[r], req[r].id)
    BY <1>1, <1>4 DEF WriteRow, requestVars, Tables, Moves
  <2> QED BY <1>2, <1>4, <2>1 DEF WriteRow
<1>5. CASE MissRow(r)
  <2> DEFINE at == IF req[r].op = "update" THEN "inserting" ELSE "writing"
  <2>1. Moves(r, at, left[r], view[r], 0)
    BY <1>1, <1>2, <1>5 DEF MissRow, requestVars, Tables, Moves
  <2> QED BY <1>5, <2>1 DEF MissRow
<1>6. CASE Reinsert(r)
  <2>1. Moves(r, "writing", left[r], view[r], req[r].id)
    BY <1>1, <1>6 DEF Reinsert, requestVars, Tables, Moves
  <2>2. req[r].id \in Ids
    BY <1>1, <1>2, <1>6 DEF Reinsert, Phase
  <2> QED BY <1>6, <2>1, <2>2 DEF Reinsert
<1> QED BY <1>3, <1>4, <1>5, <1>6

-----------------------------------------------------------------------------
(* LockInv is inductive.                                                   *)

LEMMA LockInvInit == Init => LockInv
<1> SUFFICES ASSUME Init PROVE LockInv
  OBVIOUS
<1>1. /\ \A r \in Requests :
           /\ pc[r] = "idle" /\ req[r] = NoRequest /\ listed[r] = FALSE
           /\ left[r] = Empty /\ view[r] = Empty /\ target[r] = 0
      /\ Tables
  BY DEF Init, Tables
<1>2. IsLedger(rows) /\ lastId \in Ids \cup {0} /\ \A i \in DOMAIN rows : i <= lastId
  BY StartAssumption DEF Init, IsLedger
<1>3. 0 \in 0 .. lastId
  BY <1>2, TieBreakerAssumption DEF Ids
<1>4. Typed
  BY <1>1, <1>2, <1>3, EmptyIsEmpty DEF Typed, Init
<1>5. \A r \in Requests : Phase(r)
  BY <1>1, EmptyIsEmpty DEF Phase, InTransaction
<1>6. \A r, s \in Requests : Apart(r, s)
  BY <1>1, EmptyIsEmpty DEF Apart, Holds
<1> QED BY <1>1, <1>4, <1>5, <1>6 DEF LockInv

LEMMA ReceiveKeeps ==
  ASSUME LockInv, NEW r \in Requests, Receive(r)
  PROVE  LockInv'
<1> USE DEF LockInv
<1>1. PICK q \in Submitted :
        /\ q.op # "create" => q.id \in DOMAIN rows
        /\ req' = [req EXCEPT ![r] = q]
  BY DEF Receive
<1>2. /\ pc[r] = "idle"
      /\ rows' = rows /\ lastId' = lastId /\ active' = active
      /\ left' = left /\ view' = view /\ target' = target
  BY DEF Receive
<1>3. /\ pc'[r] = "received" /\ req'[r] = q /\ listed'[r] = active
      /\ \A s \in Requests \ {r} : pc'[s] = pc[s] /\ req'[s] = req[s] /\ listed'[s] = listed[s]
      /\ Tables'
  BY <1>1, <1>2 DEF Receive, Tables
<1>4. Typed'
  <2>1. overtaken' = overtaken
    BY DEF Receive
  <2> QED BY <1>2, <1>3, <2>1 DEF Typed
<1>5. q.op # "create" => q.id \in 1 .. lastId
  <2>1. \A i \in DOMAIN rows : i \in Ids /\ i <= lastId
    BY DEF Typed, IsLedger
  <2>2. lastId \in Int
    BY TieBreakerAssumption DEF Typed, Ids
  <2> QED BY <1>1, <2>1, <2>2, TieBreakerAssumption DEF Ids
<1>6. ASSUME NEW s \in Requests PROVE Phase(s)'
  <2>1. Phase(s)
    OBVIOUS
  <2>2. CASE s = r
    BY <1>2, <1>3, <1>5, <2>1, <2>2 DEF Phase, InTransaction
  <2>3. CASE s # r
    BY <1>2, <1>3, <2>1, <2>3 DEF Phase, InTransaction
  <2> QED BY <2>2, <2>3
<1>7. ASSUME NEW s \in Requests, NEW t \in Requests, s # t PROVE Apart(s, t)'
  <2>1. Apart(s, t) /\ Phase(s)
    BY <1>7
  <2>2. Holds(s)' = Holds(s) /\ Holds(t)' = Holds(t)
    BY <1>2 DEF Holds
  <2>3. CASE t = r
    BY <1>1, <1>2, <1>3, <1>7, <2>1, <2>2, <2>3 DEF Apart, Phase
  <2>4. CASE t # r
    BY <1>2, <1>3, <1>7, <2>1, <2>2, <2>4 DEF Apart
  <2> QED BY <2>3, <2>4
<1> QED BY <1>3, <1>4, <1>6, <1>7

LEMMA BeginKeeps ==
  ASSUME LockInv, NEW r \in Requests, BeginSelect(r)
  PROVE  LockInv'
<1> DEFINE lefts == [i \in DOMAIN rows |-> rows[i].date]
<1>1. /\ Moves(r, "locking", lefts, view[r], 0)
      /\ pc[r] = "received" /\ lastId' = lastId
      /\ DOMAIN view[r] = {} /\ IsLedger(view[r])
  BY BeginMoves
<1>2. DOMAIN lefts = DOMAIN rows /\ lefts \in [DOMAIN lefts -> Dates]
  BY DEF LockInv, Typed, IsLedger, Row
<1> HIDE DEF lefts
<1>3. Phase(r)'
  BY <1>1, <1>2 DEF LockInv, Phase, Moves, InTransaction
<1>4. lastId \in Ids \cup {0} /\ lastId <= lastId' /\ 0 \in 0 .. lastId'
  BY <1>1, TieBreakerAssumption DEF LockInv, Typed, Ids
<1> QED BY <1>1, <1>2, <1>3, <1>4, MovesKeep DEF Places

\* What a row put into a ledger makes of it.
LEMMA PutLedger ==
  ASSUME NEW l, IsLedger(l), NEW id \in Ids, NEW row \in Row
  PROVE  IsLedger(Put(l, id, row))
BY DEF IsLedger, Put

LEMMA LockKeeps ==
  ASSUME LockInv, NEW r \in Requests, LockRow(r)
  PROVE  LockInv'
<1>1. PICK i \in DOMAIN left[r] :
        /\ IsNextLocked(r, i) /\ Free(r, i)
        /\ Moves(r, "locking", Restrict(left[r], DOMAIN left[r] \ {i}),
                 Put(view[r], i, rows[i]), 0)
        /\ pc[r] = "locking" /\ lastId' = lastId
  BY LockMoves
<1> DEFINE lefts == Restrict(left[r], DOMAIN left[r] \ {i})
           reads == Put(view[r], i, rows[i])
<1>2. /\ Phase(r) /\ IsLedger(view[r]) /\ IsLedger(rows)
      /\ left[r] \in [DOMAIN left[r] -> Dates]
      /\ \A s \in Requests \ {r} : Apart(r, s)
  BY DEF LockInv, Typed
<1>3. i \in DOMAIN rows /\ i \in Ids /\ rows[i] \in Row
  BY <1>2 DEF Phase, IsLedger
<1>4. DOMAIN lefts = DOMAIN left[r] \ {i} /\ lefts \in [DOMAIN lefts -> Dates]
  BY <1>2 DEF Restrict
<1>5. /\ IsLedger(reads) /\ DOMAIN reads = DOMAIN view[r] \cup {i}
      /\ reads[i] = rows[i] /\ \A j \in DOMAIN view[r] \ {i} : reads[j] = view[r][j]
  <2>1. IsLedger(view[r]) /\ i \in Ids /\ rows[i] \in Row
    BY <1>2, <1>3
  <2>2. IsLedger(reads)
    BY <2>1, PutLedger
  <2> QED BY <2>1, <2>2 DEF Put
<1> HIDE DEF lefts, reads
<1>6. Phase(r)'
  <2>1. Moves(r, "locking", lefts, reads, 0)
    BY <1>1 DEF lefts, reads
  <2> QED BY <1>1, <1>2, <1>3, <1>4, <1>5, <2>1 DEF Phase, Moves, InTransaction
<1>7. lastId' \in Ids \cup {0} /\ lastId <= lastId' /\ 0 \in 0 .. lastId'
  BY <1>1, TieBreakerAssumption DEF LockInv, Typed, Ids
<1>8. ASSUME NEW s \in Requests \ {r}, NEW j \in DOMAIN reads \cup {0}, j # 0
      PROVE  j \notin Holds(s)
  <2>1. j = i \/ j \in Holds(r)
    BY <1>5, <1>8 DEF Holds
  <2> QED BY <1>1, <1>2, <2>1 DEF Free, Apart
<1>9. Moves(r, "locking", lefts, reads, 0) /\ IsLedger(reads) /\ lefts \in [DOMAIN lefts -> Dates]
  BY <1>1, <1>4, <1>5 DEF lefts, reads
<1>10. "locking" \in Places \ {"idle"} /\ pc[r] # "idle"
  BY <1>1 DEF Places
<1> QED BY <1>6, <1>7, <1>8, <1>9, <1>10, MovesKeep

LEMMA WriteKeeps ==
  ASSUME LockInv, NEW r \in Requests,
         InsertRow(r) \/ WriteRow(r) \/ MissRow(r) \/ Reinsert(r)
  PROVE  LockInv'
<1>1. PICK at \in {"writing", "inserting"}, id \in Ids \cup {0} :
        /\ Moves(r, at, left[r], view[r], id)
        /\ \/ /\ Accepted(r) /\ req[r].op = "create"
              /\ at = "writing" /\ id = lastId + 1 /\ lastId' = lastId + 1
           \/ /\ Accepted(r) /\ req[r].op # "create"
              /\ lastId' = lastId
              /\ \/ /\ at = "writing" /\ id = req[r].id /\ Free(r, id)
                    /\ id \in DOMAIN rows
                 \/ /\ req[r].id \notin DOMAIN rows /\ id = 0
                    /\ at = IF req[r].op = "update" THEN "inserting" ELSE "writing"
           \/ /\ pc[r] = "inserting" /\ at = "writing" /\ lastId' = lastId
              /\ id = req[r].id /\ Free(r, id) /\ id \notin DOMAIN rows
  BY WriteMoves
<1>2. /\ Phase(r) /\ IsLedger(view[r]) /\ IsLedger(rows)
      /\ left[r] \in [DOMAIN left[r] -> Dates]
      /\ \A s \in Requests \ {r} : Apart(r, s)
      /\ pc[r] \in {"locking", "inserting"} /\ DOMAIN left[r] = {}
  BY <1>1 DEF LockInv, Typed, Accepted, HasRead, Phase
<1>3. /\ lastId \in Int /\ lastId \in Ids \cup {0} /\ 0 <= lastId
      /\ \A i \in DOMAIN rows : i \in Int /\ i <= lastId
      /\ \A s \in Requests : target[s] \in Int /\ target[s] <= lastId
      /\ \A s \in Requests : DOMAIN view[s] \subseteq DOMAIN rows
      /\ \A s \in Requests : pc[s] # "idle" /\ req[s].op # "create" => req[s].id \in 1 .. lastId
  <2>1. lastId \in Ids \cup {0}
    BY DEF LockInv, Typed
  <2>2. lastId \in Int /\ 0 <= lastId
    BY <2>1, TieBreakerAssumption DEF Ids
  <2>3. \A i \in DOMAIN rows : i \in Int /\ i <= lastId
    BY TieBreakerAssumption DEF LockInv, Typed, IsLedger, Ids
  <2>4. \A s \in Requests : target[s] \in Int /\ target[s] <= lastId
    BY <2>2 DEF LockInv, Typed
  <2> QED BY <2>1, <2>2, <2>3, <2>4 DEF LockInv, Phase
<1>4. req[r] \in Request /\ req[r].op \in {"create", "update", "delete"}
  BY <1>2, RequestParts, SubmittedAssumption DEF Phase
<1>5. lastId' \in Ids \cup {0} /\ lastId <= lastId' /\ lastId' \in Int /\ id \in 0 .. lastId'
  <2>1. lastId' \in Ids \cup {0} /\ lastId <= lastId' /\ lastId' \in Int
    BY <1>1, <1>3
  <2>2. req[r].op # "create" => req[r].id \in 0 .. lastId
    BY <1>2, <1>3
  <2>3. id = lastId' \/ id = 0 \/ id \in 0 .. lastId
    BY <1>1, <1>2, <2>2 DEF Phase
  <2> QED BY <1>3, <2>1, <2>3
<1>6. Phase(r)'
  <2>1. /\ pc'[r] = at /\ left'[r] = left[r] /\ view'[r] = view[r] /\ target'[r] = id
        /\ rows' = rows /\ req' = req
    BY <1>1 DEF Moves
  <2>2. pc[r] # "idle" /\ req'[r] \in Submitted
    BY <1>2, <2>1 DEF Phase
  <2>3. req[r].op # "create" => req[r].id \in 1 .. lastId'
    BY <1>2, <1>3, <1>5
  <2>4. /\ req[r].op = "create" => at = "writing" /\ id # 0 /\ id \notin DOMAIN rows
        /\ req[r].op = "update" /\ at = "writing" => id = req[r].id
        /\ req[r].op = "delete" => at = "writing" /\ id \in {0, req[r].id}
        /\ at = "inserting" => req[r].op = "update" /\ id = 0
    BY <1>1, <1>2, <1>3, <1>4 DEF Phase
  <2>5. /\ \A i \in DOMAIN view[r] : i \in DOMAIN rows /\ rows[i] = view[r][i]
        /\ DOMAIN left[r] = {}
    BY <1>2 DEF Phase
  <2> QED BY <1>4, <2>1, <2>2, <2>3, <2>4, <2>5 DEF Phase, InTransaction
<1>7. ASSUME NEW s \in Requests \ {r}
      PROVE  /\ \A i \in DOMAIN view[r] \cup {id} : i # 0 => i \notin Holds(s)
             /\ at = "writing" /\ req[r].op = "create" /\ pc[s] # "idle" /\ req[s].op # "create" =>
                  req[s].id # id
  <2>1. \A i \in DOMAIN view[r] : i \notin Holds(s)
    BY <1>2 DEF Apart, Holds
  <2>2. \A i \in Holds(s) : i \in Int /\ i <= lastId
    BY <1>3 DEF Holds
  <2>3. id # 0 => id \notin Holds(s)
    BY <1>1, <1>3, <2>2 DEF Free
  <2>4. at = "writing" /\ req[r].op = "create" => id = lastId + 1
    BY <1>1, <1>2 DEF Phase
  <2> QED BY <1>3, <2>1, <2>3, <2>4
<1>8. pc[r] # "idle" /\ at \in Places \ {"idle"}
  BY <1>2 DEF Places
<1> QED BY <1>1, <1>2, <1>5, <1>6, <1>7, <1>8, MovesKeep

\* What a commit does to the rows: at most the row written changes.
LEMMA CommitRows ==
  ASSUME LockInv, NEW r \in Requests, Commit(r)
  PROVE  /\ IsLedger(rows') /\ target[r] \in 0 .. lastId /\ lastId' = lastId
         /\ req[r] \in Request
         /\ \A i \in Ids \ {target[r]} :
              /\ i \in DOMAIN rows' <=> i \in DOMAIN rows
              /\ i \in DOMAIN rows => rows'[i] = rows[i]
         /\ \A i \in DOMAIN rows' : i <= lastId
         /\ req[r].op # "delete" =>
              /\ target[r] \in Ids /\ req[r].row \in Row
              /\ rows' = Put(rows, target[r], req[r].row)
         /\ req[r].op = "delete" =>
              /\ target[r] = 0 => rows' = rows
              /\ target[r] # 0 => rows' = Without(rows, target[r])
<1>1. pc[r] = "writing" /\ rows' = Written(r) /\ lastId' = lastId
  BY DEF Commit
<1>2. /\ IsLedger(rows) /\ Phase(r) /\ target[r] \in 0 .. lastId
      /\ lastId \in Ids \cup {0} /\ \A i \in DOMAIN rows : i <= lastId
  BY DEF LockInv, Typed
<1>3. req[r] \in Request
  BY <1>1, <1>2, SubmittedAssumption DEF Phase
<1>4. /\ req[r].op \in {"create", "update", "delete"}
      /\ req[r].op # "delete" => req[r].row \in Row
      /\ req[r].op # "create" => req[r].id \in Ids
  BY <1>3, RequestParts
<1>5. target[r] = 0 \/ target[r] \in Ids
  BY <1>2, TieBreakerAssumption DEF Ids
<1>6. CASE req[r].op = "delete"
  <2>1. CASE target[r] = 0
    BY <1>1, <1>2, <1>3, <1>6, <2>1 DEF Written
  <2>2. CASE target[r] # 0
    <3>1. rows' = Without(rows, target[r])
      BY <1>1, <1>6, <2>2 DEF Written
    <3>2. IsLedger(rows') /\ DOMAIN rows' = DOMAIN rows \ {target[r]}
          /\ \A i \in DOMAIN rows' : rows'[i] = rows[i]
      BY <1>2, <3>1 DEF IsLedger, Without, Restrict
    <3> QED BY <1>1, <1>2, <1>3, <1>6, <2>2, <3>1, <3>2
  <2> QED BY <2>1, <2>2
<1>7. CASE req[r].op # "delete"
  <2>1. target[r] # 0
    <3>1. req[r].op = "update" => target[r] = req[r].id
      BY <1>1, <1>2 DEF Phase
    <3>2. req[r].op = "create" => target[r] # 0
      BY <1>1, <1>2 DEF Phase
    <3> QED BY <1>4, <1>7, <3>1, <3>2 DEF Ids
  <2>2. rows' = Put(rows, target[r], req[r].row)
    BY <1>1, <1>7, <2>1 DEF Written
  <2>3. IsLedger(rows')
    BY <1>2, <1>4, <1>5, <1>7, <2>1, <2>2, PutLedger
  <2>4. DOMAIN rows' = DOMAIN rows \cup {target[r]}
        /\ \A i \in DOMAIN rows \ {target[r]} : rows'[i] = rows[i]
    BY <2>2 DEF Put
  <2>5. target[r] <= lastId
    BY <1>2
  <2> QED BY <1>1, <1>2, <1>3, <1>4, <1>5, <1>7, <2>1, <2>2, <2>3, <2>4, <2>5
<1> QED BY <1>6, <1>7

\* The other requests keep what they have, but for a deleted row still to lock.
LEMMA CommitMoves ==
  ASSUME LockInv, NEW r \in Requests, Commit(r)
  PROVE  /\ Tables' /\ active' = active /\ req' = req /\ listed' = listed
         /\ pc[r] = "writing" /\ pc'[r] = "saved" /\ view'[r] = Empty /\ target'[r] = 0
         /\ \A s \in Requests \ {r} :
              pc'[s] = pc[s] /\ view'[s] = view[s] /\ target'[s] = target[s]
         /\ \A s \in Requests :
              /\ DOMAIN left'[s] = DOMAIN left[s] \cap DOMAIN rows'
              /\ left'[s] \in [DOMAIN left'[s] -> Dates]
              /\ \A i \in DOMAIN left'[s] : left'[s][i] = left[s][i]
<1>1. Tables /\ \A s \in Requests : left[s] \in [DOMAIN left[s] -> Dates]
  BY DEF LockInv, Typed
<1>2. /\ left' = [s \in Requests |->
                    Restrict(left[s], DOMAIN left[s] \cap DOMAIN rows')]
      /\ rows' = Written(r)
      /\ Release(r, "saved") /\ pc[r] = "writing"
      /\ active' = active /\ req' = req /\ listed' = listed
  BY DEF Commit, requestVars
<1>3. \A s \in Requests : left'[s] = Restrict(left[s], DOMAIN left[s] \cap DOMAIN rows')
  BY <1>2
<1>4. DOMAIN left' = Requests
  BY <1>2
<1>5. ASSUME NEW s \in Requests
      PROVE  /\ DOMAIN left'[s] = DOMAIN left[s] \cap DOMAIN rows'
             /\ left'[s] \in [DOMAIN left'[s] -> Dates]
             /\ \A i \in DOMAIN left'[s] : left'[s][i] = left[s][i]
  <2> DEFINE kept == DOMAIN left[s] \cap DOMAIN rows'
  <2>1. left'[s] = [i \in kept |-> left[s][i]]
    BY <1>3 DEF Restrict
  <2>2. \A i \in kept : left[s][i] \in Dates
    BY <1>1
  <2> HIDE DEF kept
  <2>3. DOMAIN left'[s] = kept /\ \A i \in kept : left'[s][i] = left[s][i]
    BY <2>1
  <2>4. left'[s] \in [kept -> Dates]
    BY <2>1, <2>2
  <2> QED BY <2>3, <2>4 DEF kept
<1>6. /\ pc' = [pc EXCEPT ![r] = "saved"]
      /\ view' = [view EXCEPT ![r] = Empty]
      /\ target' = [target EXCEPT ![r] = 0]
  BY <1>2 DEF Release
<1> QED BY <1>1, <1>2, <1>4, <1>5, <1>6 DEF Tables

LEMMA CommitKeeps ==
  ASSUME LockInv, NEW r \in Requests, Commit(r)
  PROVE  LockInv'
<1> USE DEF LockInv
<1>1. /\ IsLedger(rows') /\ target[r] \in 0 .. lastId /\ lastId' = lastId
      /\ \A i \in Ids \ {target[r]} :
           /\ i \in DOMAIN rows' <=> i \in DOMAIN rows
           /\ i \in DOMAIN rows => rows'[i] = rows[i]
      /\ \A i \in DOMAIN rows' : i <= lastId
  BY CommitRows
<1>2. /\ Tables' /\ active' = active /\ req' = req /\ listed' = listed
      /\ pc[r] = "writing" /\ pc'[r] = "saved" /\ view'[r] = Empty /\ target'[r] = 0
      /\ \A s \in Requests \ {r} :
           pc'[s] = pc[s] /\ view'[s] = view[s] /\ target'[s] = target[s]
      /\ \A s \in Requests :
           /\ DOMAIN left'[s] = DOMAIN left[s] \cap DOMAIN rows'
           /\ left'[s] \in [DOMAIN left'[s] -> Dates]
  BY CommitMoves
<1>3. Typed'
  <2>1. ASSUME NEW s \in Requests
        PROVE  /\ pc'[s] \in Places /\ req'[s] \in Submitted \cup {NoRequest}
               /\ listed'[s] \in BOOLEAN
               /\ DOMAIN left'[s] \subseteq Ids /\ left'[s] \in [DOMAIN left'[s] -> Dates]
               /\ IsLedger(view'[s])
               /\ target'[s] \in 0 .. lastId'
    <3>1. 0 \in 0 .. lastId
      BY TieBreakerAssumption DEF Typed, Ids
    <3> QED BY <1>1, <1>2, <3>1, EmptyIsEmpty DEF Typed, Places
  <2>2. lastId' \in Ids \cup {0} /\ active' \in BOOLEAN
    BY <1>1, <1>2 DEF Typed
  <2>3. overtaken' \subseteq Requests
    BY DEF Commit, Typed
  <2> QED BY <1>1, <2>1, <2>2, <2>3 DEF Typed, Places
<1>4. \A s \in Requests \ {r} : \A i \in Holds(s) : i # target[r]
  <2>1. \A s \in Requests \ {r} : Apart(s, r)
    OBVIOUS
  <2>2. \A i \in Ids : i # 0
    BY DEF Ids
  <2>3. \A s \in Requests : DOMAIN view[s] \subseteq Ids
    BY DEF Typed, IsLedger
  <2> QED BY <2>1, <2>2, <2>3 DEF Apart, Holds
<1>5. ASSUME NEW s \in Requests PROVE Phase(s)'
  <2>1. CASE s = r
    <3>1. Phase(r) /\ DOMAIN left[r] = {}
      BY <1>2 DEF Phase
    <3> QED BY <1>1, <1>2, <2>1, <3>1, EmptyIsEmpty DEF Phase, InTransaction
  <2>2. CASE s # r
    <3>1. /\ Phase(s) /\ DOMAIN view[s] \subseteq Ids /\ DOMAIN view[s] \subseteq Holds(s)
          /\ target[s] # 0 => target[s] \in Holds(s) /\ target[s] \in Ids
      <4>1. target[s] \in 0 .. lastId /\ lastId \in Ids \cup {0}
        BY DEF Typed
      <4> QED BY <4>1, TieBreakerAssumption DEF Typed, IsLedger, Holds, Ids
    <3>2. \A i \in DOMAIN view[s] : i \in DOMAIN rows' /\ rows'[i] = view[s][i]
      BY <1>1, <1>4, <2>2, <3>1 DEF Phase
    <3>3. pc[s] = "writing" /\ req[s].op = "create" => target[s] # 0 /\ target[s] \notin DOMAIN rows'
      BY <1>1, <1>4, <2>2, <3>1 DEF Phase
    <3> QED BY <1>1, <1>2, <2>2, <3>1, <3>2, <3>3 DEF Phase, InTransaction
  <2> QED BY <2>1, <2>2
<1>6. ASSUME NEW s \in Requests, NEW t \in Requests, s # t PROVE Apart(s, t)'
  <2>1. \A u \in Requests \ {r} : Holds(u)' = Holds(u)
    BY <1>2 DEF Holds
  <2>2. Holds(r)' = {}
    BY <1>2, EmptyIsEmpty DEF Holds
  <2>3. Apart(s, t)
    BY <1>6
  <2>4. CASE s = r
    BY <1>2, <2>2, <2>4 DEF Apart
  <2>5. CASE t = r
    BY <1>2, <1>6, <2>2, <2>3, <2>5 DEF Apart
  <2>6. CASE s # r /\ t # r
    BY <1>2, <2>1, <2>3, <2>6 DEF Apart
  <2> QED BY <2>4, <2>5, <2>6
<1> QED BY <1>2, <1>3, <1>5, <1>6

LEMMA LockInvNext == LockInv /\ [Next]_vars => LockInv'
<1> SUFFICES ASSUME LockInv, [Next]_vars PROVE LockInv'
  OBVIOUS
<1>1. ASSUME NEW r \in Requests, Receive(r) \/ Advance(r) \/ Crash(r) PROVE LockInv'
  <2>1. CASE \/ RefuseUnlistedBuy(r) \/ Refuse(r) \/ ReinsertDuplicate(r)
             \/ Crash(r) \/ BreakDeadlock(r)
    <3>1. PICK at \in {"refused", "failed"} :
            /\ Moves(r, at, left'[r], view'[r], 0)
            /\ pc[r] \in {"received", "locking", "inserting", "writing"}
            /\ DOMAIN left'[r] = {} /\ left'[r] \in [{} -> Dates]
            /\ DOMAIN view'[r] = {} /\ IsLedger(view'[r])
            /\ lastId' = lastId
      BY <2>1, EndsByAnswer
    <3>2. PICK lefts, reads : lefts = left'[r] /\ reads = view'[r]
      OBVIOUS
    <3>3. Moves(r, at, lefts, reads, 0)
      BY <3>1, <3>2 DEF Moves
    <3> QED BY <3>1, <3>2, <3>3, EndsKeeps
  <2>2. CASE InsertRow(r) \/ WriteRow(r) \/ MissRow(r) \/ Reinsert(r)
    BY <2>2, WriteKeeps
  <2> QED BY <1>1, <2>1, <2>2, ReceiveKeeps, BeginKeeps, LockKeeps, CommitKeeps DEF Advance
<1>2. CASE SetListed
  BY <1>2 DEF SetListed, requestVars, LockInv, Typed, Tables, Phase, InTransaction, Apart, Holds
<1>3. CASE UNCHANGED vars
  BY <1>3 DEF vars, LockInv, Typed, Tables, Phase, InTransaction, Apart, Holds
<1> QED BY <1>1, <1>2, <1>3 DEF Next

\* The tables, the rows and the ids keep their types, and no id is given twice,
\* whatever requests overlap, wait, crash or are rolled back.
THEOREM ConcurrentTypeOK == Spec => []TypeOK
<1>1. LockInv => TypeOK
  BY DEF LockInv, Typed, Phase, Apart, TypeOK
<1> QED BY <1>1, LockInvInit, LockInvNext, PTL DEF Spec

\* What a request has locked and read with SELECT ... FOR UPDATE stays the
\* committed row until the request ends, whatever overlaps.
THEOREM ConcurrentLockedRead == Spec => []LockedReadIsCurrent
<1>1. LockInv => LockedReadIsCurrent
  BY DEF LockInv, Phase, LockedReadIsCurrent
<1> QED BY <1>1, LockInvInit, LockInvNext, PTL DEF Spec

-----------------------------------------------------------------------------
(* Deadlocks need an edit.                                                 *)

LEMMA OrderInvInit == Init => OrderInv
<1> SUFFICES ASSUME Init, NEW r \in Requests PROVE Ordered(r)
  BY DEF OrderInv
<1>1. left[r] = Empty /\ view[r] = Empty /\ pc[r] = "idle"
  BY DEF Init
<1> QED BY <1>1, EmptyIsEmpty DEF Ordered

\* A statement that commits nothing concerns the order of its own request only.
LEMMA MovesKeepOrder ==
  ASSUME OrderInv, NEW r \in Requests, NEW at, NEW lefts, NEW reads, NEW id,
         Moves(r, at, lefts, reads, id),
         Ordered(r)' \/ (overtaken' = overtaken /\ (Ordered(r) => Ordered(r)'))
  PROVE  OrderInv'
<1>1. /\ rows' = rows /\ req' = req /\ overtaken' \cup {r} = overtaken \cup {r}
      /\ \A s \in Requests \ {r} :
           /\ pc'[s] = pc[s] /\ left'[s] = left[s] /\ view'[s] = view[s]
  BY DEF Moves
<1>2. ASSUME NEW s \in Requests \ {r} PROVE s \in overtaken' \/ Ordered(s)'
  <2>1. CASE s \in overtaken
    BY <1>1, <2>1
  <2>2. CASE Ordered(s)
    BY <1>1, <2>2 DEF Ordered, Before
  <2> QED BY <2>1, <2>2 DEF OrderInv
<1>3. r \in overtaken' \/ Ordered(r)'
  BY DEF OrderInv
<1> QED BY <1>2, <1>3 DEF OrderInv

LEMMA LockKeepsOrder ==
  ASSUME LockInv, NEW r \in Requests, LockRow(r), Ordered(r)
  PROVE  Ordered(r)'
<1>1. PICK i \in DOMAIN left[r] :
        /\ IsNextLocked(r, i) /\ Free(r, i)
        /\ Moves(r, "locking", Restrict(left[r], DOMAIN left[r] \ {i}),
                 Put(view[r], i, rows[i]), 0)
        /\ pc[r] = "locking" /\ lastId' = lastId
  BY LockMoves
<1>2. /\ left'[r] = Restrict(left[r], DOMAIN left[r] \ {i})
      /\ view'[r] = Put(view[r], i, rows[i])
      /\ rows' = rows /\ req' = req /\ pc'[r] = "locking"
  BY <1>1 DEF Moves
<1>3. /\ DOMAIN left'[r] = DOMAIN left[r] \ {i}
      /\ \A j \in DOMAIN left'[r] : left'[r][j] = left[r][j]
      /\ DOMAIN view'[r] = DOMAIN view[r] \cup {i}
  BY <1>2 DEF Restrict, Put
<1>4. ASSUME NEW j \in DOMAIN left'[r] PROVE Before(rows, i, j)
  BY <1>1, <1>3 DEF IsNextLocked, Ordered, Before
<1>5. \A j \in DOMAIN left'[r] :
        /\ left'[r][j] = rows[j].date
        /\ \A k \in DOMAIN view'[r] : Before(rows, k, j)
  BY <1>3, <1>4 DEF Ordered
<1>6. req[r].op # "create" /\ req[r].id \in DOMAIN rows =>
        req[r].id \in DOMAIN view'[r] \cup DOMAIN left'[r]
  BY <1>1, <1>3 DEF Ordered
<1>7. \A k, j : Before(rows, k, j) <=> Before(rows, k, j)'
  BY <1>2 DEF Before
<1> QED BY <1>2, <1>5, <1>6, <1>7 DEF Ordered

LEMMA CommitKeepsOrder ==
  ASSUME LockInv, OrderInv, NEW r \in Requests, Commit(r)
  PROVE  OrderInv'
<1>1. /\ req[r] \in Request
      /\ \A i \in Ids \ {target[r]} :
           /\ i \in DOMAIN rows' <=> i \in DOMAIN rows
           /\ i \in DOMAIN rows => rows'[i] = rows[i]
      /\ req[r].op = "delete" =>
           /\ target[r] = 0 => rows' = rows
           /\ target[r] # 0 => rows' = Without(rows, target[r])
  BY CommitRows
<1>2. /\ req' = req /\ pc[r] = "writing" /\ pc'[r] = "saved" /\ view'[r] = Empty
      /\ \A s \in Requests \ {r} : pc'[s] = pc[s] /\ view'[s] = view[s]
      /\ \A s \in Requests :
           /\ DOMAIN left'[s] = DOMAIN left[s] \cap DOMAIN rows'
           /\ \A i \in DOMAIN left'[s] : left'[s][i] = left[s][i]
  BY CommitMoves
<1>3. \A s \in Requests \ {r} : pc[s] \notin {"locking", "inserting", "writing"} => Ordered(s)'
  <2> SUFFICES ASSUME NEW s \in Requests \ {r}, pc[s] \notin {"locking", "inserting", "writing"}
               PROVE  Ordered(s)'
    OBVIOUS
  <2>1. DOMAIN left[s] = {}
    BY DEF LockInv, Phase
  <2> QED BY <1>2, <2>1 DEF Ordered
<1>4. CASE req[r].op = "update"
  <2>1. overtaken' = {s \in Requests : InTransaction(s)} \ {r}
    BY <1>4 DEF Commit
  <2>2. Ordered(r)'
    <3>1. DOMAIN left[r] = {}
      BY <1>2 DEF LockInv, Phase
    <3> QED BY <1>2, <3>1 DEF Ordered
  <2> QED BY <1>3, <2>1, <2>2 DEF OrderInv, InTransaction
<1>5. CASE req[r].op # "update"
  <2>1. req[r].op \in {"create", "delete"}
    BY <1>1, <1>5, RequestParts
  <2>2. Phase(r) /\ IsLedger(rows) /\ IsLedger(rows')
    BY CommitRows DEF LockInv, Typed
  <2>3. \A i \in DOMAIN rows : i \in DOMAIN rows' => rows'[i] = rows[i]
    <3>1. CASE req[r].op = "create"
      BY <1>1, <1>2, <2>2, <3>1 DEF Phase, IsLedger
    <3>2. CASE req[r].op = "delete"
      BY <1>1, <3>2 DEF Without, Restrict
    <3> QED BY <2>1, <3>1, <3>2
  <2>4. ASSUME NEW s \in Requests \ {r}, Ordered(s) PROVE Ordered(s)'
    <3>1. Ordered(s) /\ Phase(s) /\ Apart(r, s) /\ Apart(s, r)
      BY <2>4 DEF LockInv
    <3>2. \A i \in DOMAIN left'[s] :
            i \in DOMAIN left[s] /\ i \in DOMAIN rows /\ i \in DOMAIN rows'
      BY <1>2, <3>1 DEF Phase
    <3>3. \A j \in DOMAIN view[s] : j \in DOMAIN rows /\ j \in DOMAIN rows'
      <4>1. \A j \in DOMAIN view[s] : j \in Ids /\ j # target[r]
        BY <2>2, <3>1 DEF Apart, Holds, Phase, IsLedger, Ids
      <4> QED BY <1>1, <3>1, <4>1 DEF Phase
    <3>4. pc[s] # "idle" /\ req[s].op # "create" /\ req[s].id \in DOMAIN rows' =>
            req[s].id \in DOMAIN rows
      <4>1. req[r].op = "create" /\ pc[s] # "idle" /\ req[s].op # "create" =>
              req[s].id # target[r]
        BY <1>2, <3>1 DEF Apart
      <4>2. req[r].op = "delete" => DOMAIN rows' \subseteq DOMAIN rows
        BY <1>1 DEF Without, Restrict
      <4> QED BY <1>1, <2>1, <2>2, <4>1, <4>2 DEF IsLedger
    <3>5. pc[s] = "inserting" => req[s].op # "create"
      BY <3>1 DEF Phase
    <3> QED BY <1>2, <2>3, <3>1, <3>2, <3>3, <3>4, <3>5 DEF Ordered, Before
  <2>5. Ordered(r)'
    <3>1. DOMAIN left[r] = {}
      BY <1>2, <2>2 DEF Phase
    <3> QED BY <1>2, <3>1 DEF Ordered
  <2>6. overtaken' = overtaken \ {r}
    BY <1>5 DEF Commit
  <2> QED BY <2>4, <2>5, <2>6 DEF OrderInv
<1> QED BY <1>4, <1>5

LEMMA OrderInvNext == LockInv /\ OrderInv /\ [Next]_vars => OrderInv'
<1> SUFFICES ASSUME LockInv, OrderInv, [Next]_vars PROVE OrderInv'
  OBVIOUS
<1>1. ASSUME NEW r \in Requests, Receive(r) \/ Advance(r) \/ Crash(r) PROVE OrderInv'
  <2>1. CASE \/ RefuseUnlistedBuy(r) \/ Refuse(r) \/ ReinsertDuplicate(r)
             \/ Crash(r) \/ BreakDeadlock(r)
    <3>1. PICK at \in {"refused", "failed"} :
            /\ Moves(r, at, left'[r], view'[r], 0)
            /\ pc[r] \in {"received", "locking", "inserting", "writing"}
            /\ DOMAIN left'[r] = {} /\ DOMAIN view'[r] = {}
      BY <2>1, EndsByAnswer
    <3>2. PICK lefts, reads : lefts = left'[r] /\ reads = view'[r]
      OBVIOUS
    <3>3. Moves(r, at, lefts, reads, 0)
      BY <3>1, <3>2 DEF Moves
    <3>4. Ordered(r)'
      BY <3>1 DEF Ordered, Moves
    <3> QED BY <3>1, <3>3, <3>4, MovesKeepOrder
  <2>2. CASE InsertRow(r) \/ WriteRow(r) \/ MissRow(r) \/ Reinsert(r)
    <3>1. PICK at \in {"writing", "inserting"}, id \in Ids \cup {0} :
            /\ Moves(r, at, left[r], view[r], id)
            /\ \/ Accepted(r) /\ req[r].op = "create" /\ at = "writing"
               \/ /\ Accepted(r) /\ req[r].op # "create"
                  /\ at = "writing" \/ req[r].id \notin DOMAIN rows
               \/ pc[r] = "inserting" /\ at = "writing"
      BY <2>2, WriteMoves
    <3>2. DOMAIN left[r] = {}
      BY <3>1 DEF Accepted, HasRead, LockInv, Phase
    <3>3. Ordered(r)'
      BY <3>1, <3>2 DEF Ordered, Moves
    <3> QED BY <3>1, <3>2, <3>3, MovesKeepOrder
  <2>3. CASE BeginSelect(r)
    <3>1. /\ Moves(r, "locking", [i \in DOMAIN rows |-> rows[i].date], view[r], 0)
          /\ pc[r] = "received" /\ DOMAIN view[r] = {}
      BY <2>3, BeginMoves
    <3>2. Ordered(r)'
      BY <3>1 DEF Ordered, Moves
    <3> QED BY <3>1, <3>2, MovesKeepOrder
  <2>4. CASE LockRow(r)
    <3>1. \E lefts, reads : Moves(r, "locking", lefts, reads, 0)
      BY <2>4, LockMoves
    <3>2. overtaken' = overtaken
      BY <2>4 DEF LockRow
    <3> QED BY <2>4, <3>1, <3>2, LockKeepsOrder, MovesKeepOrder
  <2>5. CASE Receive(r)
    <3>1. /\ pc[r] = "idle" /\ rows' = rows /\ left' = left /\ view' = view
          /\ pc'[r] = "received"
          /\ \A s \in Requests \ {r} : pc'[s] = pc[s] /\ req'[s] = req[s]
      BY <2>5 DEF Receive, LockInv, Tables
    <3>2. DOMAIN left[r] = {}
      BY <3>1 DEF LockInv, Phase
    <3>3. overtaken' = overtaken
      BY <2>5 DEF Receive
    <3>4. ASSUME NEW s \in Requests, Ordered(s) PROVE Ordered(s)'
      BY <3>1, <3>2, <3>4 DEF Ordered, Before
    <3> QED BY <3>3, <3>4 DEF OrderInv
  <2> QED BY <1>1, <2>1, <2>2, <2>3, <2>4, <2>5, CommitKeepsOrder DEF Advance
<1>2. CASE SetListed
  BY <1>2 DEF SetListed, requestVars, OrderInv, Ordered, Before
<1>3. CASE UNCHANGED vars
  BY <1>3 DEF vars, OrderInv, Ordered, Before
<1> QED BY <1>1, <1>2, <1>3 DEF Next

\* A request that waits, and holds what another waits for, waits for a row that
\* comes after what it holds.
LEMMA WaitsUpward ==
  ASSUME LockInv, NEW q \in Requests, NEW t \in Requests, Ordered(q), Ordered(t),
         WaitsFor(q, t), Wants(t) # {},
         NEW k \in Wants(q), k \in Holds(t), NEW i \in Holds(q)
  PROVE  i \in DOMAIN rows /\ k \in DOMAIN rows /\ Before(rows, i, k)
<1>1. Phase(q) /\ Phase(t) /\ Apart(q, t)
  BY DEF LockInv, WaitsFor
<1>2. Wants(q) # {} /\ Wants(t) # {}
  BY DEF WaitsFor
<1>3. \A s \in {q, t} : pc[s] \in {"locking", "inserting"} /\ Holds(s) = DOMAIN view[s]
  <2> SUFFICES ASSUME NEW s \in {q, t}
               PROVE  pc[s] \in {"locking", "inserting"} /\ Holds(s) = DOMAIN view[s]
    OBVIOUS
  <2>1. Phase(s) /\ Wants(s) # {}
    BY <1>1, <1>2
  <2>2. pc[s] \in {"locking", "inserting"}
    BY <2>1 DEF Phase, Wants, Accepted, HasRead
  <2>3. target[s] = 0
    BY <2>1, <2>2 DEF Phase
  <2> QED BY <2>2, <2>3 DEF Holds
<1>4. i \in DOMAIN view[q] /\ i \in DOMAIN rows /\ k \in DOMAIN rows
  BY <1>1, <1>3 DEF Phase
<1>5. pc[q] = "locking"
  BY <1>1, <1>3, <1>4 DEF Ordered, Wants
<1>6. ~ (Accepted(q) /\ req[q].op # "create")
  <2>1. ASSUME Accepted(q), req[q].op # "create" PROVE FALSE
    <3>1. k = req[q].id /\ DOMAIN left[q] = {}
      BY <1>5, <2>1 DEF Wants, Accepted, HasRead
    <3>2. k \in DOMAIN view[q]
      BY <1>1, <1>4, <1>5, <2>1, <3>1 DEF Ordered
    <3> QED BY <1>1, <1>3, <3>2 DEF Apart
  <2> QED BY <2>1
<1>7. k \in DOMAIN left[q]
  BY <1>5, <1>6 DEF Wants
<1> QED BY <1>1, <1>4, <1>7 DEF Ordered

\* Without a committed edit the rows waited for would have no last one.
LEMMA NoCycleUnedited ==
  ASSUME LockInv, OrderInv, NEW S \in SUBSET Requests, S # {}, Deadlocked(S)
  PROVE  S \cap overtaken # {}
<1> SUFFICES ASSUME \A s \in S : Ordered(s) PROVE FALSE
  BY DEF OrderInv
<1>1. \A p \in S : \E q \in S : WaitsFor(p, q)
  BY DEF Deadlocked
<1>2. ASSUME NEW p \in S, NEW q \in S, WaitsFor(p, q), NEW k \in Wants(p), k \in Holds(q)
      PROVE  /\ k \in DOMAIN rows
             /\ \A i \in Holds(p) : i \in DOMAIN rows /\ Before(rows, i, k)
  <2>1. PICK t \in S : WaitsFor(q, t)
    BY <1>1
  <2>2. p \in Requests /\ q \in Requests /\ t \in Requests
    OBVIOUS
  <2>3. k \in DOMAIN rows
    <3>1. Phase(q) /\ Wants(q) # {}
      BY <2>1, <2>2 DEF LockInv, WaitsFor
    <3>2. pc[q] # "writing"
      BY <3>1 DEF Phase, Wants, Accepted, HasRead
    <3>3. Holds(q) = DOMAIN view[q]
      BY <3>1, <3>2 DEF Phase, Holds
    <3> QED BY <1>2, <3>1, <3>3 DEF Phase
  <2>4. Wants(q) # {}
    BY <2>1 DEF WaitsFor
  <2> QED BY <1>2, <2>2, <2>3, <2>4, WaitsUpward
<1> DEFINE W == {k \in DOMAIN rows :
                   \E p, q \in S : WaitsFor(p, q) /\ k \in Wants(p) /\ k \in Holds(q)}
<1>3. W \in SUBSET DOMAIN rows /\ W # {}
  <2>1. PICK r \in S, q \in S : WaitsFor(r, q)
    BY <1>1
  <2>2. PICK k : k \in Wants(r) /\ k \in Holds(q)
    BY <2>1 DEF WaitsFor
  <2> QED BY <1>1, <1>2, <2>1, <2>2
<1>4. Timeline(rows)
  BY LedgerIsTimeline DEF LockInv, Typed
<1> HIDE DEF W
<1>5. PICK m \in W : \A j \in W : j = m \/ Before(rows, j, m)
  BY <1>3, <1>4, LastRow
<1>6. PICK p \in S, q \in S : WaitsFor(p, q) /\ m \in Wants(p) /\ m \in Holds(q)
  BY <1>5 DEF W
<1>7. PICK t \in S : WaitsFor(q, t)
  BY <1>1
<1>8. PICK k : k \in Wants(q) /\ k \in Holds(t)
  BY <1>7 DEF WaitsFor
<1>9. k \in W /\ Before(rows, m, k)
  BY <1>2, <1>6, <1>7, <1>8 DEF W
<1>10. m \in DOMAIN rows /\ k \in DOMAIN rows /\ (k = m \/ Before(rows, k, m))
  BY <1>3, <1>5, <1>9
<1> QED BY <1>4, <1>9, <1>10, BeforeOrder

\* Requests wait for each other in a cycle only if an edit was committed since the
\* SELECT of one of them started, which may have changed the order in which two
\* SELECTs lock, whatever else overlaps.
THEOREM ConcurrentDeadlock == Spec => []DeadlockNeedsAnEdit
<1>1. LockInv /\ OrderInv => DeadlockNeedsAnEdit
  <2> SUFFICES ASSUME LockInv, OrderInv, NEW S \in SUBSET Requests, S # {}, Deadlocked(S)
               PROVE  S \cap overtaken # {}
    BY DEF DeadlockNeedsAnEdit
  <2> QED BY NoCycleUnedited
<1> QED BY <1>1, LockInvInit, LockInvNext, OrderInvInit, OrderInvNext, PTL DEF Spec

-----------------------------------------------------------------------------
(* Requests that overlap as the row locks make safe.                       *)

LEMMA SafeInvInit == Init => SafeInv
<1> SUFFICES ASSUME Init PROVE SafeInv
  OBVIOUS
<1>1. \A r \in Requests : pc[r] = "idle"
  BY DEF Init
<1>2. NoOversell
  BY StartAssumption DEF Init, NoOversell
<1> QED BY <1>1, <1>2 DEF SafeInv, SafeFlights, Reads, Decided, InFlight, InTransaction

\* A request that needs all rows has read them all when it has locked them all.
LEMMA FullView ==
  ASSUME LockInv, NEW r \in Requests, Reads(r), InTransaction(r), ~ IsCreateBuy(req[r]),
         DOMAIN left[r] = {}
  PROVE  view[r] = rows
<1>1. Phase(r) /\ IsLedger(rows) /\ IsLedger(view[r])
  BY DEF LockInv, Typed
<1>2. DOMAIN view[r] = DOMAIN rows
  BY <1>1 DEF Reads, Phase
<1>3. \A i \in DOMAIN rows : view[r][i] = rows[i]
  BY <1>1, <1>2 DEF Phase
<1> QED BY <1>1, <1>2, <1>3 DEF IsLedger

\* A statement that commits nothing concerns its own request only.
LEMMA MovesKeepSafe ==
  ASSUME SafeInv, NEW r \in Requests, NEW at, NEW lefts, NEW reads, NEW id,
         Moves(r, at, lefts, reads, id), InFlight(r), Reads(r)', Decided(r)'
  PROVE  SafeInv'
<1>1. /\ rows' = rows /\ req' = req /\ listed' = listed
      /\ \A s \in Requests \ {r} :
           /\ pc'[s] = pc[s] /\ left'[s] = left[s]
           /\ view'[s] = view[s] /\ target'[s] = target[s]
  BY DEF Moves
<1>2. \A s \in Requests : InFlight(s)' => InFlight(s)
  BY <1>1 DEF InFlight
<1>3. SafeFlights'
  BY <1>1, <1>2 DEF SafeInv, SafeFlights
<1>4. NoOversell'
  BY <1>1 DEF SafeInv, NoOversell
<1>5. ASSUME NEW s \in Requests \ {r} PROVE Reads(s)' /\ Decided(s)'
  <2>1. Reads(s) /\ Decided(s)
    BY DEF SafeInv
  <2>2. /\ EditDelisted(s)' <=> EditDelisted(s)
        /\ Projected(s)' = Projected(s)
    BY <1>1 DEF EditDelisted, Projected
  <2>3. (InTransaction(s)' <=> InTransaction(s)) /\ (InFlight(s)' <=> InFlight(s))
    BY <1>1 DEF InTransaction, InFlight
  <2>4. Reads(s)'
    BY <1>1, <2>1, <2>3 DEF Reads
  <2>5. Decided(s)'
    BY <1>1, <2>1, <2>2, <2>3 DEF Decided
  <2> QED BY <2>4, <2>5
<1> QED BY <1>3, <1>4, <1>5 DEF SafeInv

\* An edit or a delete of the request that has read and accepted.
LEMMA WriteKeepsSafe ==
  ASSUME LockInv, SafeInv, NEW r \in Requests,
         InsertRow(r) \/ WriteRow(r) \/ MissRow(r) \/ Reinsert(r)
  PROVE  SafeInv'
<1>1. PICK at \in {"writing", "inserting"}, id \in Ids \cup {0} :
        /\ Moves(r, at, left[r], view[r], id)
        /\ \/ /\ Accepted(r) /\ req[r].op = "create"
              /\ at = "writing" /\ id = lastId + 1
           \/ /\ Accepted(r) /\ req[r].op # "create"
              /\ \/ at = "writing"
                 \/ req[r].id \notin DOMAIN rows /\ req[r].op = "update"
           \/ pc[r] = "inserting"
  BY WriteMoves
<1>2. Phase(r) /\ Reads(r) /\ Decided(r)
  BY DEF LockInv, SafeInv
<1>3. Accepted(r)
  <2>1. pc[r] # "inserting"
    BY <1>2 DEF Phase, Reads, InFlight
  <2> QED BY <1>1, <2>1
<1>4. pc[r] = "locking" /\ InFlight(r) /\ InTransaction(r)
  BY <1>3 DEF Accepted, HasRead, InFlight, InTransaction
<1>5. at = "writing"
  BY <1>1, <1>2, <1>4 DEF Reads
<1>6. /\ pc'[r] = at /\ left'[r] = left[r] /\ view'[r] = view[r] /\ target'[r] = id
      /\ rows' = rows /\ req' = req /\ listed' = listed
  BY <1>1 DEF Moves
<1>7. Reads(r)'
  BY <1>2, <1>4, <1>5, <1>6 DEF Reads, InFlight, InTransaction
<1>8. EditDelisted(r)' <=> EditDelisted(r)
  BY <1>6 DEF EditDelisted
<1>9. Projected(r)' = Projected(r)
  BY <1>6 DEF Projected
<1>10. req[r].op = "create" => \A i \in DOMAIN rows : i < id
  <2>1. \A i \in DOMAIN rows : i \in Int /\ i <= lastId
    BY TieBreakerAssumption DEF LockInv, Typed, IsLedger, Ids
  <2>2. lastId \in Int
    BY TieBreakerAssumption DEF LockInv, Typed, Ids
  <2>3. req[r].op = "create" => id = lastId + 1
    BY <1>1, <1>4
  <2> QED BY <2>1, <2>2, <2>3
<1>11. Decided(r)'
  BY <1>2, <1>3, <1>4, <1>5, <1>6, <1>8, <1>9, <1>10 DEF Decided, Accepted
<1> QED BY <1>1, <1>4, <1>7, <1>11, MovesKeepSafe

LEMMA ReceiveKeepsSafe ==
  ASSUME Overlap \subseteq SafeOverlap, LockInv, SafeInv, NEW r \in Requests, Receive(r)
  PROVE  SafeInv'
<1>1. PICK q \in Submitted :
        /\ q.op # "create" => q.id \in DOMAIN rows
        /\ \A s \in Requests \ {r} : InFlight(s) => <<req[s], q>> \in Overlap
        /\ req' = [req EXCEPT ![r] = q]
  BY DEF Receive
<1>2. /\ pc[r] = "idle" /\ rows' = rows
      /\ left' = left /\ view' = view /\ target' = target
  BY DEF Receive
<1>3. /\ pc'[r] = "received" /\ req'[r] = q
      /\ \A s \in Requests \ {r} : pc'[s] = pc[s] /\ req'[s] = req[s] /\ listed'[s] = listed[s]
  BY <1>1, <1>2 DEF Receive, LockInv, Tables
<1>4. \A s \in Requests \ {r} : InFlight(s) => SafePair(req[s], q) /\ SafePair(q, req[s])
  <2>1. \A s \in Requests \ {r} : InFlight(s) => SafePair(req[s], q)
    BY <1>1 DEF SafeOverlap
  <2> QED BY <2>1 DEF SafePair
<1>5. SafeFlights'
  <2>1. \A s \in Requests \ {r} : InFlight(s)' <=> InFlight(s)
    BY <1>3 DEF InFlight
  <2> QED BY <1>3, <1>4, <2>1 DEF SafeInv, SafeFlights
<1>6. NoOversell'
  BY <1>2 DEF SafeInv, NoOversell
<1>7. ASSUME NEW s \in Requests PROVE Reads(s)' /\ Decided(s)'
  <2>1. CASE s = r
    BY <1>1, <1>2, <1>3, <2>1 DEF Reads, Decided, InFlight, InTransaction
  <2>2. CASE s # r
    <3>1. Reads(s) /\ Decided(s)
      BY DEF SafeInv
    <3>2. /\ EditDelisted(s)' <=> EditDelisted(s)
          /\ Projected(s)' = Projected(s)
      BY <1>2, <1>3, <2>2 DEF EditDelisted, Projected
    <3>3. (InTransaction(s)' <=> InTransaction(s)) /\ (InFlight(s)' <=> InFlight(s))
      BY <1>3, <2>2 DEF InTransaction, InFlight
    <3>4. Reads(s)'
      BY <1>2, <1>3, <2>2, <3>1, <3>3 DEF Reads
    <3>5. Decided(s)'
      BY <1>2, <1>3, <2>2, <3>1, <3>2, <3>3 DEF Decided
    <3> QED BY <3>4, <3>5
  <2> QED BY <2>1, <2>2
<1> QED BY <1>5, <1>6, <1>7 DEF SafeInv

\* What was decided on the rows read is what is committed.
LEMMA CommitFeasible ==
  ASSUME LockInv, SafeInv, NEW r \in Requests, Commit(r)
  PROVE  Feasible(rows')
<1>1. /\ req[r] \in Request /\ pc[r] = "writing"
      /\ req[r].op # "delete" =>
           /\ target[r] \in Ids /\ req[r].row \in Row
           /\ rows' = Put(rows, target[r], req[r].row)
      /\ req[r].op = "delete" =>
           /\ target[r] = 0 => rows' = rows
           /\ target[r] # 0 => rows' = Without(rows, target[r])
  BY CommitRows, CommitMoves
<1>2. /\ Phase(r) /\ Reads(r) /\ Decided(r)
      /\ IsLedger(rows) /\ Feasible(rows)
  BY DEF LockInv, Typed, SafeInv, NoOversell
<1>3. InFlight(r) /\ InTransaction(r) /\ DOMAIN left[r] = {}
  BY <1>1, <1>2 DEF InFlight, InTransaction, Phase
<1>4. ~ IsCreateBuy(req[r]) => view[r] = rows /\ Feasible(Projected(r))
  BY <1>1, <1>2, <1>3, FullView DEF Decided
<1>5. CASE IsCreateBuy(req[r])
  <2>1. target[r] \in (Ids \cup {TieBreaker}) \ DOMAIN rows
    BY <1>1, <1>2, <1>5 DEF Phase, IsCreateBuy
  <2> QED BY <1>1, <1>2, <1>5, <2>1, BuyKeepsFeasible DEF IsCreateBuy
<1>6. CASE req[r].op = "create" /\ ~ IsCreateBuy(req[r])
  <2>1. Feasible(ProjectCreate(rows, req[r].row))
    BY <1>4, <1>6 DEF Projected
  <2>2. \A i \in DOMAIN rows : i < target[r]
    BY <1>1, <1>2, <1>6 DEF Decided, IsCreateBuy
  <2> QED BY <1>1, <1>2, <1>6, <2>1, <2>2, StandInSound
<1>7. CASE req[r].op = "update"
  <2>1. target[r] = req[r].id /\ req[r].id \in DOMAIN rows
    BY <1>1, <1>2, <1>3, <1>7 DEF Phase, Reads
  <2>2. Feasible(ProjectUpdate(rows, req[r].id, req[r].row))
    BY <1>4, <1>7 DEF Projected, IsCreateBuy
  <2> QED BY <1>1, <1>7, <2>1, <2>2 DEF ProjectUpdate
<1>8. CASE req[r].op = "delete"
  <2>1. target[r] \in {0, req[r].id}
    BY <1>1, <1>2, <1>8 DEF Phase
  <2>2. Feasible(ProjectDelete(rows, req[r].id))
    BY <1>4, <1>8 DEF Projected, IsCreateBuy
  <2> QED BY <1>1, <1>2, <1>8, <2>1, <2>2 DEF ProjectDelete
<1> QED BY <1>1, <1>5, <1>6, <1>7, <1>8, RequestParts

\* An edit and a delete leave the others' rows as they have read them; a buy is
\* added beside creates of buys only.
LEMMA CommitKeepsSafe ==
  ASSUME LockInv, SafeInv, NEW r \in Requests, Commit(r)
  PROVE  SafeInv'
<1>1. /\ req[r] \in Request /\ IsLedger(rows')
      /\ \A i \in Ids \ {target[r]} :
           /\ i \in DOMAIN rows' <=> i \in DOMAIN rows
           /\ i \in DOMAIN rows => rows'[i] = rows[i]
      /\ req[r].op # "delete" => rows' = Put(rows, target[r], req[r].row)
      /\ req[r].op = "delete" =>
           /\ target[r] = 0 => rows' = rows
           /\ target[r] # 0 => rows' = Without(rows, target[r])
  BY CommitRows
<1>2. /\ req' = req /\ listed' = listed /\ pc[r] = "writing" /\ pc'[r] = "saved"
      /\ \A s \in Requests \ {r} :
           pc'[s] = pc[s] /\ view'[s] = view[s] /\ target'[s] = target[s]
      /\ \A s \in Requests : DOMAIN left'[s] = DOMAIN left[s] \cap DOMAIN rows'
  BY CommitMoves
<1>3. /\ Phase(r) /\ Reads(r) /\ IsLedger(rows)
      /\ InFlight(r) /\ req[r].op \in {"create", "update", "delete"}
  BY <1>1, <1>2, RequestParts DEF LockInv, Typed, SafeInv, InFlight
<1>4. NoOversell'
  BY CommitFeasible DEF NoOversell
<1>5. \A s \in Requests : InFlight(s)' => s # r /\ InFlight(s)
  BY <1>2 DEF InFlight
<1>6. SafeFlights'
  BY <1>2, <1>5 DEF SafeInv, SafeFlights
<1>7. ASSUME NEW s \in Requests, ~ InFlight(s)' PROVE Reads(s)' /\ Decided(s)'
  BY <1>7 DEF InFlight, InTransaction, Reads, Decided
<1>8. ASSUME NEW s \in Requests, InFlight(s)' PROVE Reads(s)' /\ Decided(s)'
  <2>1. /\ s # r /\ InFlight(s) /\ Reads(s) /\ Decided(s)
        /\ SafePair(req[s], req[r])
    BY <1>3, <1>5, <1>8 DEF SafeInv, SafeFlights
  <2>2. /\ EditDelisted(s)' <=> EditDelisted(s)
        /\ Projected(s)' = Projected(s)
        /\ InTransaction(s)' <=> InTransaction(s)
    BY <1>2, <2>1 DEF EditDelisted, Projected, InTransaction
  <2>3. req[r].op # "create" => DOMAIN rows' \subseteq DOMAIN rows
    <3>1. CASE req[r].op = "update"
      <4>1. target[r] \in DOMAIN rows
        BY <1>2, <1>3, <3>1 DEF Phase, Reads
      <4> QED BY <1>1, <3>1, <4>1 DEF Put
    <3>2. CASE req[r].op = "delete"
      BY <1>1, <3>2 DEF Without, Restrict
    <3> QED BY <1>3, <3>1, <3>2
  <2>4. req[s].op = "update" => req[s].id \in DOMAIN rows'
    <3> SUFFICES ASSUME req[s].op = "update" PROVE req[s].id \in DOMAIN rows'
      OBVIOUS
    <3>1. req[s].id \in DOMAIN rows /\ req[s].id \in Ids
      BY <1>3, <2>1 DEF Reads, IsLedger
    <3>2. CASE req[r].op = "update"
      BY <1>1, <3>1, <3>2 DEF Put
    <3>3. CASE req[r].op = "delete"
      <4>1. req[s].id # req[r].id /\ target[r] \in {0, req[r].id}
        BY <1>2, <1>3, <2>1, <3>3 DEF Phase, SafePair, IsCreateBuy
      <4>2. req[s].id # target[r]
        BY <3>1, <4>1 DEF Ids
      <4> QED BY <1>1, <3>1, <4>2
    <3>4. req[r].op # "create"
      BY <2>1 DEF SafePair, IsCreateBuy
    <3> QED BY <1>3, <3>2, <3>3, <3>4
  <2>5. InTransaction(s) /\ ~ IsCreateBuy(req[s]) =>
          DOMAIN rows' \subseteq DOMAIN view[s] \cup DOMAIN left'[s]
    <3>1. ~ IsCreateBuy(req[s]) => req[r].op # "create"
      BY <2>1 DEF SafePair
    <3> QED BY <1>2, <2>1, <2>3, <3>1 DEF Reads
  <2>6. Reads(s)'
    BY <1>2, <2>1, <2>2, <2>4, <2>5 DEF Reads
  <2>7. pc[s] = "writing" /\ req[s].op = "create" =>
          \A i \in DOMAIN rows' :
            i < target[s] \/ (rows'[i].type = "buy" /\ req[s].row.type = "buy")
    <3> SUFFICES ASSUME pc[s] = "writing", req[s].op = "create", NEW i \in DOMAIN rows'
                 PROVE  i < target[s] \/ (rows'[i].type = "buy" /\ req[s].row.type = "buy")
      OBVIOUS
    <3>1. IsCreateBuy(req[r]) /\ IsCreateBuy(req[s])
      BY <2>1 DEF SafePair
    <3>2. CASE i = target[r]
      <4>1. rows'[i] = req[r].row
        BY <1>1, <3>1, <3>2 DEF Put, IsCreateBuy
      <4> QED BY <3>1, <4>1 DEF IsCreateBuy
    <3>3. CASE i # target[r]
      <4>1. i \in DOMAIN rows /\ rows'[i] = rows[i]
        BY <1>1, <3>3 DEF IsLedger
      <4> QED BY <2>1, <4>1 DEF Decided
    <3> QED BY <3>2, <3>3
  <2>8. Decided(s)'
    BY <1>2, <2>1, <2>2, <2>7 DEF Decided
  <2> QED BY <2>6, <2>8
<1> QED BY <1>4, <1>6, <1>7, <1>8 DEF SafeInv

LEMMA SafeInvNext ==
  ASSUME Overlap \subseteq SafeOverlap
  PROVE  LockInv /\ SafeInv /\ [Next]_vars => SafeInv'
<1> SUFFICES ASSUME LockInv, SafeInv, [Next]_vars PROVE SafeInv'
  OBVIOUS
<1>1. ASSUME NEW r \in Requests, Receive(r) \/ Advance(r) \/ Crash(r) PROVE SafeInv'
  <2> \A s \in Requests : Phase(s) /\ Reads(s) /\ Decided(s)
    BY DEF LockInv, SafeInv
  <2>1. CASE \/ RefuseUnlistedBuy(r) \/ Refuse(r) \/ ReinsertDuplicate(r)
             \/ Crash(r) \/ BreakDeadlock(r)
    <3>1. PICK at \in {"refused", "failed"} :
            /\ Moves(r, at, left'[r], view'[r], 0)
            /\ pc[r] \in {"received", "locking", "inserting", "writing"}
      BY <2>1, EndsByAnswer
    <3>2. PICK lefts, reads : lefts = left'[r] /\ reads = view'[r]
      OBVIOUS
    <3>3. Moves(r, at, lefts, reads, 0) /\ InFlight(r)
      BY <3>1, <3>2 DEF Moves, InFlight
    <3>4. Reads(r)' /\ Decided(r)'
      BY <3>1 DEF Moves, Reads, Decided, InFlight, InTransaction
    <3> QED BY <3>3, <3>4, MovesKeepSafe
  <2>2. CASE InsertRow(r) \/ WriteRow(r) \/ MissRow(r) \/ Reinsert(r)
    BY <2>2, WriteKeepsSafe
  <2>3. CASE BeginSelect(r)
    <3> DEFINE lefts == [i \in DOMAIN rows |-> rows[i].date]
    <3>1. Moves(r, "locking", lefts, view[r], 0) /\ pc[r] = "received"
      BY <2>3, BeginMoves
    <3>2. DOMAIN lefts = DOMAIN rows
      OBVIOUS
    <3>3. ~ (req[r].op = "create" /\ CreateDelisted(listed[r], req[r].row))
      BY <2>3 DEF BeginSelect
    <3> HIDE DEF lefts
    <3>4. Reads(r)' /\ Decided(r)'
      BY <3>1, <3>2, <3>3 DEF Moves, Reads, Decided, InFlight, InTransaction
    <3> QED BY <3>1, <3>4, MovesKeepSafe DEF InFlight
  <2>4. CASE LockRow(r)
    <3>1. PICK i \in DOMAIN left[r] :
            /\ Moves(r, "locking", Restrict(left[r], DOMAIN left[r] \ {i}),
                     Put(view[r], i, rows[i]), 0)
            /\ pc[r] = "locking"
      BY <2>4, LockMoves
    <3> DEFINE lefts == Restrict(left[r], DOMAIN left[r] \ {i})
               reads == Put(view[r], i, rows[i])
    <3>2. DOMAIN reads \cup DOMAIN lefts = DOMAIN view[r] \cup DOMAIN left[r]
      BY DEF Restrict, Put
    <3> HIDE DEF lefts, reads
    <3>3. Moves(r, "locking", lefts, reads, 0)
      BY <3>1 DEF lefts, reads
    <3>4. Reads(r)' /\ Decided(r)'
      BY <3>1, <3>2, <3>3 DEF Moves, Reads, Decided, InFlight, InTransaction
    <3> QED BY <3>1, <3>3, <3>4, MovesKeepSafe DEF InFlight
  <2>5. CASE Receive(r)
    BY <2>5, ReceiveKeepsSafe
  <2> QED BY <1>1, <2>1, <2>2, <2>3, <2>4, <2>5, CommitKeepsSafe DEF Advance
<1>2. CASE SetListed \/ UNCHANGED vars
  <2>1. /\ rows' = rows /\ pc' = pc /\ req' = req /\ listed' = listed
        /\ left' = left /\ view' = view /\ target' = target
    BY <1>2 DEF SetListed, requestVars, vars
  <2>2. \A s \in Requests : /\ EditDelisted(s)' <=> EditDelisted(s)
                            /\ Projected(s)' = Projected(s)
    BY <2>1 DEF EditDelisted, Projected
  <2> QED BY <2>1, <2>2
          DEF SafeInv, SafeFlights, NoOversell, Reads, Decided, InFlight, InTransaction
<1> QED BY <1>1, <1>2 DEF Next

\* "No overselling at any point in the timeline": no committed ledger has a
\* prefix with a negative balance, however requests that overlap only as the
\* row locks make safe wait, read, write, crash and retry.
THEOREM ConcurrentNoOversell ==
  ASSUME Overlap \subseteq SafeOverlap
  PROVE  Spec => []NoOversell
<1>1. SafeInv => NoOversell
  BY DEF SafeInv
<1>2. LockInv /\ SafeInv /\ [Next]_vars => SafeInv'
  BY SafeInvNext
<1> QED BY <1>1, <1>2, LockInvInit, LockInvNext, SafeInvInit, PTL DEF Spec

-----------------------------------------------------------------------------
(* The refinement.  The abstract ledger takes its operators from the same  *)
(* module: they are the same operators.                                    *)

LEMMA AtomicRows ==
  /\ Atomic!Row = Row /\ Atomic!Ids = Ids
  /\ \A l : Atomic!IsLedger(l) <=> IsLedger(l)
  /\ \A l, id, row : Atomic!Put(l, id, row) = Put(l, id, row)
  /\ \A l, id : Atomic!Without(l, id) = Without(l, id)
  /\ \A flag, row : Atomic!CreateDelisted(flag, row) <=> CreateDelisted(flag, row)
  /\ \A flag, l, id, row :
       Atomic!UpdateDelisted(flag, l, id, row) <=> UpdateDelisted(flag, l, id, row)
<1>1. Atomic!Row = Row /\ Atomic!Ids = Ids
  BY DEF Atomic!Row, Row, Atomic!Types, Types, Atomic!Ids, Ids
<1>2. \A l : Atomic!IsLedger(l) <=> IsLedger(l)
  BY <1>1 DEF Atomic!IsLedger, IsLedger
<1>3. \A l, id, row : Atomic!Put(l, id, row) = Put(l, id, row)
  BY DEF Atomic!Put, Put
<1>4. \A l, id : Atomic!Without(l, id) = Without(l, id)
  BY DEF Atomic!Without, Without, Atomic!Restrict, Restrict
<1>5. \A flag, row : Atomic!CreateDelisted(flag, row) <=> CreateDelisted(flag, row)
  BY DEF Atomic!CreateDelisted, CreateDelisted
<1>6. \A flag, l, id, row :
        Atomic!UpdateDelisted(flag, l, id, row) <=> UpdateDelisted(flag, l, id, row)
  BY DEF Atomic!UpdateDelisted, UpdateDelisted
<1> QED BY <1>1, <1>2, <1>3, <1>4, <1>5, <1>6

LEMMA AtomicReplay ==
  /\ \A l : Atomic!Feasible(l) <=> Feasible(l)
  /\ \A l, row : Atomic!ProjectCreate(l, row) = ProjectCreate(l, row)
  /\ \A l, id, row : Atomic!ProjectUpdate(l, id, row) = ProjectUpdate(l, id, row)
  /\ \A l, id : Atomic!ProjectDelete(l, id) = ProjectDelete(l, id)
<1>1. \A l : Atomic!Deltas(l) = Deltas(l)
  BY DEF Atomic!Deltas, Deltas, Atomic!Signed, Signed
<1>2. \A f, S : Atomic!SumFunctionOnSet(f, S) = (CHOOSE g : SumOn(g, f, S))[S]
  BY DEF Atomic!SumFunctionOnSet, Atomic!FoldFunctionOnSet, Atomic!MapThenFoldSet,
         SumOn, Pick
<1>3. \A l, S : Atomic!Balance(l, S) = Balance(l, S)
  BY <1>1, <1>2, SumUnfold DEF Atomic!Balance, Balance
<1>4. \A l, i : Atomic!Upto(l, i) = Upto(l, i)
  BY DEF Atomic!Upto, Upto, Atomic!Before, Before
<1>5. \A l : Atomic!Feasible(l) <=> Feasible(l)
  BY <1>3, <1>4 DEF Atomic!Feasible, Feasible
<1>6. \A l, row : Atomic!ProjectCreate(l, row) = ProjectCreate(l, row)
  BY AtomicRows DEF Atomic!ProjectCreate, ProjectCreate
<1>7. \A l, id, row : Atomic!ProjectUpdate(l, id, row) = ProjectUpdate(l, id, row)
  BY AtomicRows DEF Atomic!ProjectUpdate, ProjectUpdate
<1>8. \A l, id : Atomic!ProjectDelete(l, id) = ProjectDelete(l, id)
  BY AtomicRows DEF Atomic!ProjectDelete, ProjectDelete
<1> QED BY <1>5, <1>6, <1>7, <1>8

\* What the service decided on the rows it read is decided on all the rows.
LEMMA CommitDecides ==
  ASSUME LockInv, SafeInv, NEW r \in Requests, Commit(r)
  PROVE  /\ req[r].op = "create" => Feasible(ProjectCreate(rows, req[r].row))
         /\ req[r].op = "update" =>
              /\ Feasible(ProjectUpdate(rows, req[r].id, req[r].row))
              /\ ~ UpdateDelisted(listed[r], rows, req[r].id, req[r].row)
         /\ req[r].op = "delete" => Feasible(ProjectDelete(rows, req[r].id))
<1>1. pc[r] = "writing" /\ req[r] \in Request
  BY CommitRows, CommitMoves
<1>2. /\ Phase(r) /\ Reads(r) /\ Decided(r)
      /\ IsLedger(rows) /\ Feasible(rows)
  BY DEF LockInv, Typed, SafeInv, NoOversell
<1>3. ~ IsCreateBuy(req[r]) => view[r] = rows /\ Feasible(Projected(r))
  BY <1>1, <1>2, FullView DEF Decided, InTransaction, Phase
<1>4. CASE IsCreateBuy(req[r])
  <2>1. req[r].row \in Row
    BY <1>1, <1>4, RequestParts DEF IsCreateBuy
  <2>2. TieBreaker \in (Ids \cup {TieBreaker}) \ DOMAIN rows
    BY <1>2, TieBreakerAssumption DEF IsLedger, Ids
  <2> QED BY <1>2, <1>4, <2>1, <2>2, BuyKeepsFeasible DEF ProjectCreate, IsCreateBuy
<1>5. CASE ~ IsCreateBuy(req[r])
  BY <1>1, <1>2, <1>3, <1>5 DEF Projected, Decided, EditDelisted
<1> QED BY <1>4, <1>5

\* The commit is the one step of the abstract ledger.
LEMMA CommitIsAtomic ==
  ASSUME LockInv, SafeInv, NEW r \in Requests, Commit(r),
         \E d \in Dates : \A e \in Dates : e <= d
  PROVE  Atomic!Next \/ rows' = rows
<1>1. /\ req[r] \in Request /\ IsLedger(rows')
      /\ req[r].op # "delete" =>
           /\ target[r] \in Ids /\ req[r].row \in Row
           /\ rows' = Put(rows, target[r], req[r].row)
      /\ req[r].op = "delete" =>
           /\ target[r] = 0 => rows' = rows
           /\ target[r] # 0 => rows' = Without(rows, target[r])
  BY CommitRows
<1>2. /\ Phase(r) /\ Reads(r) /\ Decided(r) /\ IsLedger(rows)
      /\ pc[r] = "writing" /\ InFlight(r) /\ InTransaction(r)
  BY CommitMoves DEF LockInv, Typed, SafeInv, InFlight, InTransaction
<1>3. req[r].op # "delete" => req[r].row \in Atomic!FormRow
  BY <1>1, AtomicRows DEF Atomic!FormRow, Row
<1>4. CASE req[r].op = "create"
  <2>1. Atomic!NewId(target[r], req[r].row)
    BY <1>1, <1>2, <1>4, AtomicRows DEF Atomic!NewId, Phase, Decided
  <2>2. ~ Atomic!CreateDelisted(TRUE, req[r].row)
    BY DEF Atomic!CreateDelisted
  <2>3. Atomic!CreateTransaction(target[r], req[r].row)
    BY <1>1, <1>2, <1>4, <2>1, <2>2, CommitDecides, AtomicRows, AtomicReplay
       DEF Atomic!CreateTransaction
  <2> QED BY <1>1, <1>3, <1>4, <2>3, AtomicRows DEF Atomic!Next
<1>5. CASE req[r].op = "update"
  <2>1. target[r] = req[r].id /\ req[r].id \in DOMAIN rows
    BY <1>2, <1>5 DEF Phase, Reads
  <2>2. ~ Atomic!UpdateDelisted(TRUE, rows, target[r], req[r].row)
    BY DEF Atomic!UpdateDelisted
  <2>3. Atomic!UpdateTransaction(target[r], req[r].row)
    BY <1>1, <1>2, <1>5, <2>1, <2>2, CommitDecides, AtomicRows, AtomicReplay
       DEF Atomic!UpdateTransaction
  <2> QED BY <1>1, <1>3, <1>5, <2>3, AtomicRows DEF Atomic!Next
<1>6. CASE req[r].op = "delete"
  <2>1. CASE target[r] = 0
    BY <1>1, <1>2, <1>6, <2>1
  <2>2. CASE target[r] # 0 /\ target[r] \in DOMAIN rows
    <3>1. target[r] = req[r].id /\ target[r] \in Ids
      BY <1>2, <1>6, <2>2 DEF Phase, IsLedger
    <3>2. Atomic!DeleteTransaction(target[r])
      BY <1>1, <1>2, <1>6, <2>2, <3>1, CommitDecides, AtomicRows, AtomicReplay
         DEF Atomic!DeleteTransaction
    <3> QED BY <3>1, <3>2, AtomicRows DEF Atomic!Next
  <2>3. CASE target[r] \notin DOMAIN rows /\ target[r] # 0
    <3>1. rows' = rows
      BY <1>1, <1>2, <1>6, <2>3 DEF Without, Restrict, IsLedger
    <3> QED BY <3>1
  <2> QED BY <2>1, <2>2, <2>3
<1> QED BY <1>1, <1>4, <1>5, <1>6, RequestParts

LEMMA AtomicInit ==
  ASSUME \E d \in Dates : \A e \in Dates : e <= d, Init
  PROVE  Atomic!Init
<1>1. LockInv
  BY LockInvInit
<1>2. \A i \in DOMAIN rows : rows[i].date \in Dates
  BY <1>1 DEF LockInv, Typed, IsLedger, Row
<1> QED BY <1>2 DEF Init, Atomic!Init

\* Every other step leaves the rows as they are.
LEMMA StepIsAtomic ==
  ASSUME \E d \in Dates : \A e \in Dates : e <= d
  PROVE  LockInv /\ SafeInv /\ [Next]_vars => [Atomic!Next]_(Atomic!vars)
<1> SUFFICES ASSUME LockInv, SafeInv, [Next]_vars
             PROVE  Atomic!Next \/ rows' = rows
  BY DEF Atomic!vars
<1>1. ASSUME NEW r \in Requests, Receive(r) \/ Advance(r) \/ Crash(r)
      PROVE  Atomic!Next \/ rows' = rows
  <2>1. CASE Commit(r)
    BY <2>1, CommitIsAtomic
  <2> QED BY <1>1, <2>1
          DEF Receive, Advance, RefuseUnlistedBuy, BeginSelect, LockRow, Refuse, InsertRow,
              WriteRow, MissRow, Reinsert, ReinsertDuplicate, BreakDeadlock, Crash
<1>2. CASE SetListed
  BY <1>2 DEF SetListed
<1>3. CASE UNCHANGED vars
  BY <1>3 DEF vars
<1> QED BY <1>1, <1>2, <1>3 DEF Next

\* Requests that overlap only as the row locks make safe are serializable:
\* every behaviour of the transactions is one of the ledger in which each
\* request is one step, taken when it commits, on a coin whose flag is the one
\* that the request saw, whenever the sync changes it.  The calendar has a last
\* day (date.max).
THEOREM ConcurrentSerializable ==
  ASSUME Overlap \subseteq SafeOverlap, \E d \in Dates : \A e \in Dates : e <= d
  PROVE  Spec => Serializable
<1>1. Init => Atomic!Init
  BY AtomicInit
<1>2. LockInv /\ SafeInv /\ [Next]_vars => SafeInv'
  BY SafeInvNext
<1>3. LockInv /\ SafeInv /\ [Next]_vars => [Atomic!Next]_(Atomic!vars)
  BY StepIsAtomic
<1> QED BY <1>1, <1>2, <1>3, LockInvInit, LockInvNext, SafeInvInit, PTL
        DEF Spec, Serializable, Atomic!Spec

-----------------------------------------------------------------------------
(* The flag, which a request reads before its transaction.                 *)

NothingBought ==
  \A i \in DOMAIN rows' :
    \/ rows'[i].type = "sell"
    \/ /\ i \in DOMAIN rows
       /\ rows[i].type = "buy" /\ rows'[i].amount <= rows[i].amount
    \/ \E r \in Requests : target[r] = i /\ pc'[r] = "saved" /\ listed[r]

\* A row that no commit writes is as much a buy as it was.
LEMMA KeptRow ==
  ASSUME IsLedger(rows), NEW i \in DOMAIN rows, rows'[i] = rows[i]
  PROVE  \/ rows'[i].type = "sell"
         \/ rows[i].type = "buy" /\ rows'[i].amount <= rows[i].amount
<1>1. rows[i].type \in {"buy", "sell"} /\ rows[i].amount \in Nat
  BY AmountsAssumption DEF IsLedger, Row, Types
<1> QED BY <1>1

LEMMA CommitBuysListed ==
  ASSUME LockInv, SafeInv, NEW r \in Requests, Commit(r)
  PROVE  NothingBought
<1>1. /\ req[r] \in Request /\ IsLedger(rows')
      /\ \A i \in Ids \ {target[r]} :
           /\ i \in DOMAIN rows' <=> i \in DOMAIN rows
           /\ i \in DOMAIN rows => rows'[i] = rows[i]
      /\ req[r].op # "delete" => rows' = Put(rows, target[r], req[r].row) /\ req[r].row \in Row
      /\ req[r].op = "delete" =>
           /\ target[r] = 0 => rows' = rows
           /\ target[r] # 0 => rows' = Without(rows, target[r])
  BY CommitRows
<1>2. /\ Phase(r) /\ Reads(r) /\ Decided(r) /\ IsLedger(rows)
      /\ pc[r] = "writing" /\ pc'[r] = "saved" /\ InFlight(r) /\ InTransaction(r)
  BY CommitMoves DEF LockInv, Typed, SafeInv, InFlight, InTransaction
<1> SUFFICES ASSUME NEW i \in DOMAIN rows', rows'[i].type # "sell"
             PROVE  \/ /\ i \in DOMAIN rows
                       /\ rows[i].type = "buy" /\ rows'[i].amount <= rows[i].amount
                    \/ target[r] = i /\ listed[r]
  BY <1>2 DEF NothingBought
<1>3. i \in Ids /\ i # 0 /\ rows'[i] \in Row /\ rows'[i].type = "buy"
  BY <1>1 DEF IsLedger, Ids, Row, Types
<1>4. CASE i # target[r]
  BY <1>1, <1>2, <1>3, <1>4, KeptRow
<1>5. CASE i = target[r] /\ req[r].op = "delete"
  BY <1>1, <1>3, <1>5 DEF Without, Restrict
<1>6. CASE i = target[r] /\ req[r].op = "create"
  <2>1. rows'[i] = req[r].row
    BY <1>1, <1>6 DEF Put
  <2> QED BY <1>2, <1>3, <1>6, <2>1 DEF Decided, CreateDelisted
<1>7. CASE i = target[r] /\ req[r].op = "update"
  <2>1. rows'[i] = req[r].row
    BY <1>1, <1>7 DEF Put
  <2>2. i = req[r].id /\ i \in DOMAIN rows
    BY <1>2, <1>7 DEF Phase, Reads
  <2>3. ~ UpdateDelisted(listed[r], rows, i, req[r].row)
    BY <1>7, <2>2, CommitDecides
  <2>4. rows[i].amount \in Nat /\ rows'[i].amount \in Nat
    BY <1>2, <1>3, <2>2, AmountsAssumption DEF IsLedger, Row
  <2> QED BY <1>3, <1>7, <2>1, <2>2, <2>3, <2>4 DEF UpdateDelisted
<1> QED BY <1>1, <1>4, <1>5, <1>6, <1>7, RequestParts

\* More of a coin is bought only by requests that saw it listed when they were
\* received, however the sync changes the flag and edits of the same rows
\* interleave, as long as requests overlap only as the row locks make safe.
THEOREM ConcurrentBuysSeenListed ==
  ASSUME Overlap \subseteq SafeOverlap
  PROVE  Spec => BuysOnlyIfSeenListed
<1>1. LockInv /\ SafeInv /\ [Next]_vars => SafeInv'
  BY SafeInvNext
<1>2. LockInv /\ SafeInv /\ [Next]_vars => NothingBought \/ rows' = rows
  <2> SUFFICES ASSUME LockInv, SafeInv, [Next]_vars PROVE NothingBought \/ rows' = rows
    OBVIOUS
  <2>1. ASSUME NEW r \in Requests, Commit(r) PROVE NothingBought
    BY <2>1, CommitBuysListed
  <2>2. (\E r \in Requests : Commit(r)) \/ rows' = rows
    BY DEF Next, Receive, Advance, RefuseUnlistedBuy, BeginSelect, LockRow, Refuse, InsertRow,
           WriteRow, MissRow, Reinsert, ReinsertDuplicate, BreakDeadlock, Crash, SetListed, vars
  <2> QED BY <2>1, <2>2
<1>3. LockInv /\ SafeInv /\ [Next]_vars => [NothingBought]_rows
  BY <1>2
<1> QED BY <1>1, <1>3, LockInvInit, LockInvNext, SafeInvInit, PTL
        DEF Spec, BuysOnlyIfSeenListed, NothingBought
=============================================================================
