------------------------- MODULE MCLedgerConcurrent -------------------------
(* Instances of LedgerConcurrent that start from small feasible ledgers.   *)
EXTENDS LedgerConcurrent, TLC

CONSTANTS r1, r2, r3

TwoRequests == {r1, r2}
ThreeRequests == {r1, r2, r3}
RequestSymmetry == Permutations(Requests)

OneAmount == {1}
TwoAmounts == {1, 2}
TwoDates == {1, 2}

\* Two rows to start with; one id for each request; the stand-in id.
TwoGiven == 2
TieBreakerOfThree == 6

FeasibleOn(S) == {l \in [S -> Row] : Feasible(l)}

\* Every feasible ledger over the ids given, with gaps where rows were deleted.
AnyStart == UNION {FeasibleOn(S) : S \in SUBSET (1 .. Given)}

\* The rows dated against the order of their ids, none or the last one deleted:
\* one edit of a date turns the replay order round.
DatedStart ==
  {l \in FeasibleOn(1 .. Given) \cup FeasibleOn(1 .. Given - 1) :
     \A i \in DOMAIN l : l[i].date = Given + 1 - i}

OnGivenIds(q) == q.op # "create" => q.id \in 1 .. Given

\* Every create, and every edit and delete of a row there at the start.
AnyRequest == {q \in Request : OnGivenIds(q)}

OnLastDay(q) == \A d \in Dates : d <= q.row.date

\* Every edit and delete of the first row; edits of others to a buy of the last
\* day.
LateEdits ==
  {q \in AnyRequest :
     /\ q.op # "create"
     /\ q.id # 1 => q.op = "update" /\ q.row.type = "buy" /\ OnLastDay(q)}

\* The same with creates dated with the last day.
LateRequests == LateEdits \cup {q \in AnyRequest : q.op = "create" /\ OnLastDay(q)}

\* Edits of the first row to a buy of either date, its deletion, and an edit of
\* the second row to a buy of the last day.
EditsToBuys == {q \in LateEdits : q.op = "update" => q.row.type = "buy"}

EditsAndDeletes == {q \in AnyRequest : q.op # "create"}

\* A server with more than one thread or process: anything overlaps.
AnyOverlap == Request \X Request

\* The same server, were it to keep creates apart from everything.
NoCreateOverlap == {pq \in AnyOverlap : pq[1].op # "create" /\ pq[2].op # "create"}
=============================================================================
