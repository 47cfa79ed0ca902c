----------------------------- MODULE ReplayLoop -----------------------------
(***************************************************************************)
(* The loop of _replay_feasible, one iteration per step: the entries are   *)
(* taken in sorted order, a running balance is kept, and the loop returns  *)
(* early when it turns negative.  LedgerReplay!Feasible states what the    *)
(* loop decides; this module shows that it does.                           *)
(***************************************************************************)
EXTENDS LedgerReplay

VARIABLES
  entries,   \* the projected timeline handed to the loop
  replayed,  \* the ids of the entries already taken
  balance,   \* the running balance
  verdict    \* "running", or what the function returned

loopVars == <<entries, replayed, balance, verdict>>

\* A projected timeline holds stored ids and, for a create, the tie-breaker.
IsTimeline(e) ==
  /\ DOMAIN e \subseteq Ids \cup {TieBreaker}
  /\ e \in [DOMAIN e -> Row]

Timelines == UNION {[D -> Row] : D \in SUBSET (Ids \cup {TieBreaker})}

Rest == DOMAIN entries \ replayed

\* Mutant: the entries are taken by id.
IsNextById(i) == i \in Rest /\ \A j \in Rest \ {i} : i < j

\* The entry the sorted iteration takes next.
IsNext(i) == i \in Rest /\ \A j \in Rest \ {i} : Before(entries, i, j)

\* Mutant: sells are not taken off the balance.
NewBalanceOfBuys(i) ==
  balance + (IF entries[i].type = "buy" THEN entries[i].amount ELSE 0)

NewBalance(i) == balance + Signed(entries[i])

LoopInit ==
  /\ entries \in Timelines
  /\ replayed = {}
  /\ balance = 0
  /\ verdict = "running"

\* Mutant: the loop goes on after a negative balance.
ContinueBelowZero ==
  /\ verdict = "running"
  /\ \E i \in Rest :
       /\ IsNext(i)
       /\ replayed' = replayed \cup {i}
       /\ balance' = NewBalance(i)
  /\ UNCHANGED <<entries, verdict>>

Continue ==
  /\ verdict = "running"
  /\ \E i \in Rest :
       /\ IsNext(i)
       /\ NewBalance(i) >= 0
       /\ replayed' = replayed \cup {i}
       /\ balance' = NewBalance(i)
  /\ UNCHANGED <<entries, verdict>>

ReturnFalse ==
  /\ verdict = "running"
  /\ \E i \in Rest :
       /\ IsNext(i)
       /\ NewBalance(i) < 0
       /\ replayed' = replayed \cup {i}
       /\ balance' = NewBalance(i)
  /\ verdict' = "infeasible"
  /\ UNCHANGED entries

ReturnTrue ==
  /\ verdict = "running"
  /\ Rest = {}
  /\ verdict' = "feasible"
  /\ UNCHANGED <<entries, replayed, balance>>

LoopNext == Continue \/ ReturnFalse \/ ReturnTrue

LoopSpec == LoopInit /\ [][LoopNext]_loopVars

-----------------------------------------------------------------------------
\* Types of the variables of _replay_feasible; the loop never carries a
\* negative balance into another iteration.
LoopTypeOK ==
  /\ IsTimeline(entries)
  /\ replayed \subseteq DOMAIN entries
  /\ balance \in Int
  /\ balance >= 0 \/ verdict = "infeasible"
  /\ verdict \in {"running", "feasible", "infeasible"}

\* The verdict of the loop is the definition: the early return and the
\* running sum over the sorted entries decide exactly whether some prefix of
\* the timeline is negative.
VerdictIsFeasible ==
  /\ verdict = "feasible" => Feasible(entries)
  /\ verdict = "infeasible" => ~ Feasible(entries)

\* An accepted replay ends on the balance that the page computes with one
\* aggregate query (get_coin_balance).
FinalBalanceIsCoinBalance == verdict = "feasible" => balance = CoinBalance(entries)
=============================================================================
