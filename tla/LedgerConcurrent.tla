-------------------------- MODULE LedgerConcurrent --------------------------
(***************************************************************************)
(* The ledger service as web requests run it: each request reads its       *)
(* objects, opens a PostgreSQL transaction at READ COMMITTED, locks the    *)
(* rows of the ledger with SELECT ... FOR UPDATE, replays, writes one row  *)
(* and commits.  One action per statement whose order against the          *)
(* statements of other requests matters.                                   *)
(*                                                                         *)
(* READ COMMITTED as the code meets it (external to the repository):       *)
(*   - the locking SELECT sees the rows committed when it starts, in their *)
(*     (trade_date, id) order of that moment, and locks them one by one;   *)
(*   - a row locked by another transaction is waited for, then read in its *)
(*     latest committed version, or skipped when it has been deleted;      *)
(*   - a row inserted after the SELECT started is not seen and not locked; *)
(*   - an UPDATE that matches no row changes none, and Model.save() then   *)
(*     inserts the row under its old primary key;                          *)
(*   - a wait-for cycle is broken by failing one of its transactions.      *)
(***************************************************************************)
EXTENDS LedgerReplay

CONSTANTS
  Requests,          \* the web requests, each handled once
  Submitted,         \* what a request can ask for, a subset of Request
  Start,             \* the ledgers that earlier requests may have left
  Given,             \* the last id the sequence has given them
  Overlap,           \* <<p, q>>: q may begin while p is in flight
  CatalogMayChange   \* the flag may change while requests are in flight

Request ==
  [op : {"create"}, row : Row]
    \cup [op : {"update"}, id : Ids, row : Row]
    \cup [op : {"delete"}, id : Ids]

NoRequest == [op |-> "none"]

ASSUME SubmittedAssumption == Submitted \subseteq Request
ASSUME StartAssumption ==
  /\ Given \in Ids \cup {0}
  /\ \A l \in Start : IsLedger(l) /\ DOMAIN l \subseteq 1 .. Given /\ Feasible(l)
ASSUME OverlapAssumption == Overlap \subseteq Request \X Request
ASSUME CatalogAssumption == CatalogMayChange \in BOOLEAN

VARIABLES
  rows,     \* the committed rows of the ledger
  lastId,   \* the last id the sequence gave, committed or not
  active,   \* the committed coin.is_active
  pc,       \* where each request is
  req,      \* what it asks for
  listed,   \* coin.is_active as it was when the view fetched the coin
  left,     \* the rows its SELECT has still to lock: id -> date when it started
  view,     \* the rows it has locked and read: id -> row
  target,   \* the id it has written, uncommitted; 0 when none
  overtaken \* history: the open transactions since whose SELECT an edit was committed

vars == <<rows, lastId, active, pc, req, listed, left, view, target, overtaken>>

requestVars == <<req, listed>>

InTransaction(r) == pc[r] \in {"locking", "inserting", "writing"}

InFlight(r) == pc[r] \in {"received", "locking", "inserting", "writing"}

Empty == [i \in {} |-> i]

-----------------------------------------------------------------------------
(* Row locks.                                                              *)

\* A row lock is held from the SELECT or the write to the end of the
\* transaction.
Holds(r) == DOMAIN view[r] \cup ({target[r]} \ {0})

Free(r, id) == \A s \in Requests \ {r} : id \notin Holds(s)

\* The row the SELECT locks next: the first left in the order it read.
IsNextLocked(r, i) ==
  /\ i \in DOMAIN left[r]
  /\ \A j \in DOMAIN left[r] \ {i} :
       \/ left[r][i] < left[r][j]
       \/ left[r][i] = left[r][j] /\ i < j

\* Mutant: an edit is replayed with the row's old values.
ProjectedUnedited(r) ==
  CASE req[r].op = "create" -> ProjectCreate(view[r], req[r].row)
    [] req[r].op = "update" -> view[r]
    [] OTHER -> ProjectDelete(view[r], req[r].id)

\* What the transaction decided on the rows it read.
Projected(r) ==
  CASE req[r].op = "create" -> ProjectCreate(view[r], req[r].row)
    [] req[r].op = "update" -> ProjectUpdate(view[r], req[r].id, req[r].row)
    [] OTHER -> ProjectDelete(view[r], req[r].id)

HasRead(r) == pc[r] = "locking" /\ DOMAIN left[r] = {}

EditDelisted(r) ==
  /\ req[r].op = "update"
  /\ UpdateDelisted(listed[r], view[r], req[r].id, req[r].row)

Accepted(r) == HasRead(r) /\ ~ EditDelisted(r) /\ Feasible(Projected(r))

\* The rows a blocked statement of r waits for.
Wants(r) ==
  IF pc[r] = "inserting" THEN {req[r].id}
  ELSE IF Accepted(r) /\ req[r].op # "create" THEN {req[r].id} \cap DOMAIN rows
  ELSE {i \in DOMAIN left[r] : IsNextLocked(r, i)}

WaitsFor(p, q) == p # q /\ Wants(p) \cap Holds(q) # {}

\* A request waits for one row and a row has one holder, so a set in which
\* each waits for another and is waited for by another is made of cycles.
Deadlocked(S) ==
  \A p \in S : (\E q \in S : WaitsFor(p, q)) /\ (\E q \in S : WaitsFor(q, p))

InDeadlock(r) == \E S \in SUBSET Requests : r \in S /\ Deadlocked(S)

\* The end of r's transaction: its locks go.
Release(r, end) ==
  /\ pc' = [pc EXCEPT ![r] = end]
  /\ view' = [view EXCEPT ![r] = Empty]
  /\ target' = [target EXCEPT ![r] = 0]

Rollback(r, end) == Release(r, end) /\ overtaken' = overtaken \ {r}

-----------------------------------------------------------------------------
(* A request from its arrival to its answer.                               *)

Init ==
  /\ rows \in Start
  /\ lastId = Given
  /\ active \in BOOLEAN
  /\ pc = [r \in Requests |-> "idle"]
  /\ req = [r \in Requests |-> NoRequest]
  /\ listed = [r \in Requests |-> FALSE]
  /\ left = [r \in Requests |-> Empty]
  /\ view = [r \in Requests |-> Empty]
  /\ target = [r \in Requests |-> 0]
  /\ overtaken = {}

\* The view fetches the coin and, for an edit or a delete, the row (a missing
\* one ends in a redirect); the form is valid.
Receive(r) ==
  /\ pc[r] = "idle"
  /\ \E q \in Submitted :
       /\ q.op # "create" => q.id \in DOMAIN rows
       /\ \A s \in Requests \ {r} : InFlight(s) => <<req[s], q>> \in Overlap
       /\ req' = [req EXCEPT ![r] = q]
  /\ listed' = [listed EXCEPT ![r] = active]
  /\ pc' = [pc EXCEPT ![r] = "received"]
  /\ UNCHANGED <<rows, lastId, active, left, view, target, overtaken>>

RefuseUnlistedBuy(r) ==
  /\ pc[r] = "received"
  /\ req[r].op = "create" /\ CreateDelisted(listed[r], req[r].row)
  /\ pc' = [pc EXCEPT ![r] = "refused"]
  /\ UNCHANGED <<rows, lastId, active, requestVars, left, view, target, overtaken>>

\* Mutant: the SELECT has no order.
BeginSelectUnordered(r) ==
  /\ pc[r] = "received"
  /\ ~ (req[r].op = "create" /\ CreateDelisted(listed[r], req[r].row))
  /\ \E order \in [DOMAIN rows -> Dates] : left' = [left EXCEPT ![r] = order]
  /\ pc' = [pc EXCEPT ![r] = "locking"]
  /\ UNCHANGED <<rows, lastId, active, requestVars, view, target, overtaken>>

\* The transaction begins and its locking SELECT starts: what it will see is
\* fixed here.
BeginSelect(r) ==
  /\ pc[r] = "received"
  /\ ~ (req[r].op = "create" /\ CreateDelisted(listed[r], req[r].row))
  /\ left' = [left EXCEPT ![r] = [i \in DOMAIN rows |-> rows[i].date]]
  /\ pc' = [pc EXCEPT ![r] = "locking"]
  /\ UNCHANGED <<rows, lastId, active, requestVars, view, target, overtaken>>

\* Mutants: a plain SELECT (_ordered_rows); a waiting SELECT that returns the
\* version it saw when it started.
ReadRow(r) ==
  /\ pc[r] = "locking"
  /\ \E i \in DOMAIN left[r] :
       /\ IsNextLocked(r, i)
       /\ view' = [view EXCEPT ![r] = Put(view[r], i, rows[i])]
       /\ left' = [left EXCEPT ![r] = Restrict(left[r], DOMAIN left[r] \ {i})]
  /\ UNCHANGED <<rows, lastId, active, pc, requestVars, target, overtaken>>

LockOldRow(r) ==
  /\ pc[r] = "locking"
  /\ \E i \in DOMAIN left[r] :
       /\ IsNextLocked(r, i)
       /\ Free(r, i)
       /\ view' = [view EXCEPT ![r] =
                     Put(view[r], i, [rows[i] EXCEPT !.date = left[r][i]])]
       /\ left' = [left EXCEPT ![r] = Restrict(left[r], DOMAIN left[r] \ {i})]
  /\ UNCHANGED <<rows, lastId, active, pc, requestVars, target, overtaken>>

LockRow(r) ==
  /\ pc[r] = "locking"
  /\ \E i \in DOMAIN left[r] :
       /\ IsNextLocked(r, i)
       /\ Free(r, i)
       /\ view' = [view EXCEPT ![r] = Put(view[r], i, rows[i])]
       /\ left' = [left EXCEPT ![r] = Restrict(left[r], DOMAIN left[r] \ {i})]
  /\ UNCHANGED <<rows, lastId, active, pc, requestVars, target, overtaken>>

\* Mutant: the LedgerError is answered inside the transaction, left open.
RefuseKeepingLocks(r) ==
  /\ HasRead(r)
  /\ EditDelisted(r) \/ ~ Feasible(Projected(r))
  /\ pc' = [pc EXCEPT ![r] = "refused"]
  /\ UNCHANGED <<rows, lastId, active, requestVars, left, view, target, overtaken>>

\* LedgerError rolls the transaction back and becomes a form error or message.
Refuse(r) ==
  /\ HasRead(r)
  /\ EditDelisted(r) \/ ~ Feasible(Projected(r))
  /\ Rollback(r, "refused")
  /\ UNCHANGED <<rows, lastId, active, requestVars, left>>

\* Mutant: the new id does not advance the sequence.
InsertUncounted(r) ==
  /\ Accepted(r)
  /\ req[r].op = "create"
  /\ lastId + 1 \in Ids
  /\ target' = [target EXCEPT ![r] = lastId + 1]
  /\ pc' = [pc EXCEPT ![r] = "writing"]
  /\ UNCHANGED <<rows, lastId, active, requestVars, left, view, overtaken>>

\* INSERT with the next id of the sequence, which no rollback gives back.
InsertRow(r) ==
  /\ Accepted(r)
  /\ req[r].op = "create"
  /\ lastId + 1 \in Ids
  /\ lastId' = lastId + 1
  /\ target' = [target EXCEPT ![r] = lastId + 1]
  /\ pc' = [pc EXCEPT ![r] = "writing"]
  /\ UNCHANGED <<rows, active, requestVars, left, view, overtaken>>

\* The UPDATE of Model.save(), or the DELETE, finds the row and locks it.
WriteRow(r) ==
  /\ Accepted(r)
  /\ req[r].op # "create"
  /\ req[r].id \in DOMAIN rows
  /\ Free(r, req[r].id)
  /\ target' = [target EXCEPT ![r] = req[r].id]
  /\ pc' = [pc EXCEPT ![r] = "writing"]
  /\ UNCHANGED <<rows, lastId, active, requestVars, left, view, overtaken>>

\* The row is gone: a DELETE of no row succeeds, an UPDATE of no row makes
\* Model.save() go on to an INSERT.
MissRow(r) ==
  /\ Accepted(r)
  /\ req[r].op # "create"
  /\ req[r].id \notin DOMAIN rows
  /\ pc' = [pc EXCEPT ![r] = IF req[r].op = "update" THEN "inserting" ELSE "writing"]
  /\ UNCHANGED <<rows, lastId, active, requestVars, left, view, target, overtaken>>

\* The INSERT under the old id waits for another one of that id to end.
Reinsert(r) ==
  /\ pc[r] = "inserting"
  /\ Free(r, req[r].id)
  /\ req[r].id \notin DOMAIN rows
  /\ target' = [target EXCEPT ![r] = req[r].id]
  /\ pc' = [pc EXCEPT ![r] = "writing"]
  /\ UNCHANGED <<rows, lastId, active, requestVars, left, view, overtaken>>

ReinsertDuplicate(r) ==
  /\ pc[r] = "inserting"
  /\ Free(r, req[r].id)
  /\ req[r].id \in DOMAIN rows
  /\ Rollback(r, "failed")
  /\ UNCHANGED <<rows, lastId, active, requestVars, left>>

\* The rows once r's write is committed.
Written(r) ==
  IF target[r] = 0 THEN rows
  ELSE IF req[r].op = "delete" THEN Without(rows, target[r])
  ELSE Put(rows, target[r], req[r].row)

\* A row that is deleted here is skipped by every SELECT that has it left,
\* even if an INSERT brings its id back.
Commit(r) ==
  /\ pc[r] = "writing"
  /\ rows' = Written(r)
  /\ left' = [s \in Requests |->
                Restrict(left[s], DOMAIN left[s] \cap DOMAIN Written(r))]
  /\ Release(r, "saved")
  /\ overtaken' =
       (IF req[r].op = "update" THEN {s \in Requests : InTransaction(s)} ELSE overtaken)
         \ {r}
  /\ UNCHANGED <<lastId, active, requestVars>>

\* The worker dies or loses its connection: the server rolls back.
Crash(r) ==
  /\ InFlight(r)
  /\ Rollback(r, "failed")
  /\ left' = [left EXCEPT ![r] = Empty]
  /\ UNCHANGED <<rows, lastId, active, requestVars>>

BreakDeadlock(r) ==
  /\ InDeadlock(r)
  /\ Rollback(r, "failed")
  /\ left' = [left EXCEPT ![r] = Empty]
  /\ UNCHANGED <<rows, lastId, active, requestVars>>

\* The catalog sync or an administrator commits the other value of the flag.
SetListed ==
  /\ CatalogMayChange \/ \A r \in Requests : ~ InFlight(r)
  /\ active' = ~ active
  /\ UNCHANGED <<rows, lastId, pc, requestVars, left, view, target, overtaken>>

\* What the server does for r once it has received it, but for crashes.
Advance(r) ==
  \/ RefuseUnlistedBuy(r)
  \/ BeginSelect(r)
  \/ LockRow(r)
  \/ Refuse(r)
  \/ InsertRow(r)
  \/ WriteRow(r)
  \/ MissRow(r)
  \/ Reinsert(r)
  \/ ReinsertDuplicate(r)
  \/ Commit(r)
  \/ BreakDeadlock(r)

Next ==
  \/ \E r \in Requests : Receive(r) \/ Advance(r) \/ Crash(r)
  \/ SetListed

Spec == Init /\ [][Next]_vars /\ WF_vars(\E r \in Requests : Advance(r))
-----------------------------------------------------------------------------
(* Which requests the row locks make safe to overlap.  Locks cover rows    *)
(* that exist: they serialize edits and deletes of them, but not a request *)
(* with the insertion of a row it does not see.                            *)

IsCreateBuy(q) == q.op = "create" /\ q.row.type = "buy"

\* Two first or further buys; two edits; two deletes; an edit and a delete of
\* different rows.
SafePair(p, q) ==
  \/ IsCreateBuy(p) /\ IsCreateBuy(q)
  \/ /\ p.op # "create" /\ q.op # "create"
     /\ p.op = q.op \/ p.id # q.id

SafeOverlap == {pq \in Request \X Request : SafePair(pq[1], pq[2])}

-----------------------------------------------------------------------------
(* Properties.                                                             *)

\* Types of the variables; a row lock has one holder, a row still to lock is a
\* committed row, and no id is given twice.
TypeOK ==
  /\ IsLedger(rows)
  /\ lastId \in Ids \cup {0}
  /\ \A i \in DOMAIN rows : i <= lastId
  /\ active \in BOOLEAN
  /\ overtaken \subseteq Requests
  /\ \A r \in Requests :
       /\ pc[r] \in {"idle", "received", "locking", "inserting", "writing",
                     "saved", "refused", "failed"}
       /\ req[r] \in Submitted \cup {NoRequest}
       /\ listed[r] \in BOOLEAN
       /\ DOMAIN left[r] \subseteq DOMAIN rows /\ left[r] \in [DOMAIN left[r] -> Dates]
       /\ IsLedger(view[r])
       /\ target[r] \in 0 .. lastId
  /\ \A r, s \in Requests : r # s => Holds(r) \cap Holds(s) = {}

\* The point of the row locks: what a request has locked and read is what is
\* committed, unchanged and not deleted, until it ends.  The replay of every
\* row it saw is therefore about the present, however long it waited.
LockedReadIsCurrent ==
  \A r \in Requests :
    \A i \in DOMAIN view[r] : i \in DOMAIN rows /\ rows[i] = view[r][i]

\* "Reject the instant the balance goes negative": no committed ledger has a
\* prefix with a negative balance.
NoOversell == Feasible(rows)

\* The flag is read once, when the view fetches the coin, and may be stale when
\* the service decides and when it commits.  It is never staler than that: a
\* step that adds a buy to the ledger, turns a sell into one or makes one larger
\* is the commit of a request that saw the coin listed when it was received, and
\* for an edit the row it is compared with is the one committed until then.
BuysOnlyIfSeenListed ==
  [][\A i \in DOMAIN rows' :
       \/ rows'[i].type = "sell"
       \/ /\ i \in DOMAIN rows
          /\ rows[i].type = "buy" /\ rows'[i].amount <= rows[i].amount
       \/ \E r \in Requests : target[r] = i /\ pc'[r] = "saved" /\ listed[r]]_rows

\* The server always comes back to having no request in flight, so each one is
\* answered: waits for locks end, because transactions end and a wait-for
\* cycle is broken.
AllAnswered ==
  (\E r \in Requests : InFlight(r)) ~> (\A r \in Requests : ~ InFlight(r))

\* Locks are taken in (trade_date, id) order, so requests can block each
\* other in a cycle only when an edit was committed since the SELECT of one of
\* them started: that edit may have moved a row in the order.
DeadlockNeedsAnEdit ==
  \A S \in (SUBSET Requests) \ {{}} : Deadlocked(S) => S \cap overtaken # {}

\* Requests that overlap only as SafeOverlap says do not see each other's
\* steps: the committed ledger changes as if each request were one step, taken
\* when it commits, on a coin whose flag is the one that the request saw.  (The
\* abstract ledger's guards against a delisted coin are BuysOnlyIfSeenListed's
\* part: the flag may have changed between the two steps.)
Atomic == INSTANCE Ledger WITH
            active <- TRUE, today <- CHOOSE d \in Dates : \A e \in Dates : e <= d
Serializable == Atomic!Spec
=============================================================================
