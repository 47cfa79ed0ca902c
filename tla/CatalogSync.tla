----------------------------- MODULE CatalogSync -----------------------------
(***************************************************************************)
(* sync_supported_coins of coins/sync.py: it fetches CoinGecko's list,     *)
(* from the cache when it is there, and brings the Coin table in line with *)
(* three statements, each its own transaction.  The scheduler's worker     *)
(* runs it again and again, one run at a time; the management command of a *)
(* deployment runs it beside the worker.  Meanwhile CoinGecko's list       *)
(* changes, administrators edit is_active, runs fail and processes die.    *)
(*                                                                         *)
(* A list gives each coin a name (its name and symbol) or one of the       *)
(* markers below; a name may be too long for its column.  The counts that  *)
(* a run reports are left out, and a local variable is cleared once the    *)
(* run has no more use for it.                                             *)
(***************************************************************************)
EXTENDS Functions

CONSTANTS
  Coins,       \* the cg_ids
  Names,       \* names and symbols that fit their columns
  Absent,      \* the list has no row for the coin
  Malformed,   \* its row lacks a field, or one is blank
  Oversized,   \* its name or symbol does not fit the column
  Clipped,     \* what is left of such a name in the column
  Lists,       \* the lists that CoinGecko may serve
  NoList,      \* the cache is empty or has expired
  Worker,      \* runapscheduler
  Commands     \* processes that run the command

Entries == Names \cup {Absent, Malformed, Oversized}

ASSUME ListsAssumption == Lists \subseteq [Coins -> Entries] /\ NoList \notin Lists
ASSUME MarkersAssumption ==
  /\ {Absent, Malformed, Oversized, Clipped} \cap Names = {}
  /\ Clipped \notin {Absent, Malformed, Oversized}
  /\ Absent # Malformed /\ Absent # Oversized /\ Malformed # Oversized
ASSUME ProcessAssumption == Worker \notin Commands

Processes == {Worker} \cup Commands

VARIABLES
  rows,       \* the Coin table: cg_id -> name and is_active
  upstream,   \* the list CoinGecko serves
  cache,      \* v1:supported_coin_list
  quiet,      \* from now on lists, flags and failures leave the sync alone
  pc,         \* where each process is
  list,       \* coin_list of its run
  creating,   \* coins_to_create
  updating,   \* coins_to_update
  disturbed   \* others have written rows since the run read them

vars == <<rows, upstream, cache, quiet, pc, list, creating, updating, disturbed>>

runVars == <<list, creating, updating>>

-----------------------------------------------------------------------------
\* coin_catalog: the rows that pass the checks, which do not look at lengths.
Catalog(l) == {c \in Coins : l[c] \in Names \cup {Oversized}}

Stored(l, c) ==
  [name |-> IF l[c] = Oversized THEN Clipped ELSE l[c], active |-> TRUE]

\* Mutant: a coin whose name has not changed is skipped, active or not.
RenamedOnly(l, c) == rows[c].name # l[c]

\* An over-long name never equals the clipped one: its row is always updated.
NeedsUpdate(l, c) == rows[c].name # l[c] \/ ~ rows[c].active

Fits(l, S) == \A c \in S : l[c] \in Names

Go(r, where) == pc' = [pc EXCEPT ![r] = where]

Begins(r) == pc[r] = "idle"

\* The run is over, however it went.
End(r) ==
  /\ Go(r, "idle")
  /\ list' = [list EXCEPT ![r] = NoList]
  /\ creating' = [creating EXCEPT ![r] = {}]
  /\ updating' = [updating EXCEPT ![r] = {}]

HasRead(r) == pc[r] \in {"read", "created", "updated"}

\* r writes the rows: the other runs that have read them have stale copies.
Write(r, new) ==
  /\ rows' = new
  /\ disturbed' = [s \in Processes |->
       HasRead(s) /\ (disturbed[s] \/ (s # r /\ new # rows))]

-----------------------------------------------------------------------------
(* One run.                                                                *)

Init ==
  /\ rows = [c \in {} |-> c]
  /\ upstream \in Lists
  /\ cache = NoList
  /\ quiet = FALSE
  /\ pc = [r \in Processes |-> "idle"]
  /\ list = [r \in Processes |-> NoList]
  /\ creating = [r \in Processes |-> {}]
  /\ updating = [r \in Processes |-> {}]
  /\ disturbed = [r \in Processes |-> FALSE]

UseCachedList(r) ==
  /\ Begins(r)
  /\ cache # NoList
  /\ list' = [list EXCEPT ![r] = cache]
  /\ Go(r, "fetched")
  /\ UNCHANGED <<rows, upstream, cache, quiet, creating, updating, disturbed>>

\* An empty list is an error, and is not cached.
RequestList(r) ==
  /\ Begins(r)
  /\ cache = NoList
  /\ \E c \in Coins : upstream[c] # Absent
  /\ list' = [list EXCEPT ![r] = upstream]
  /\ Go(r, "answered")
  /\ UNCHANGED <<rows, upstream, cache, quiet, creating, updating, disturbed>>

StoreList(r) ==
  /\ pc[r] = "answered"
  /\ cache' = list[r]
  /\ Go(r, "fetched")
  /\ UNCHANGED <<rows, upstream, quiet, runVars, disturbed>>

\* Mutant: the rows that exist are updated, in the list or not.
ReadAllRows(r) ==
  LET catalog == Catalog(list[r])
  IN  /\ pc[r] = "fetched"
      /\ creating' = [creating EXCEPT ![r] = catalog \ DOMAIN rows]
      /\ updating' = [updating EXCEPT ![r] = {c \in DOMAIN rows : NeedsUpdate(list[r], c)}]
      /\ disturbed' = [disturbed EXCEPT ![r] = FALSE]
      /\ Go(r, "read")
      /\ UNCHANGED <<rows, upstream, cache, quiet, list>>

\* in_bulk, and the choice of what to create and what to update.
ReadExisting(r) ==
  LET catalog == Catalog(list[r])
  IN  /\ pc[r] = "fetched"
      /\ creating' = [creating EXCEPT ![r] = catalog \ DOMAIN rows]
      /\ updating' = [updating EXCEPT ![r] =
                        {c \in catalog \cap DOMAIN rows : NeedsUpdate(list[r], c)}]
      /\ disturbed' = [disturbed EXCEPT ![r] = FALSE]
      /\ Go(r, "read")
      /\ UNCHANGED <<rows, upstream, cache, quiet, list>>

\* bulk_create, which leaves alone the rows that another run has created.
Create(r) ==
  LET created == creating[r] \ DOMAIN rows
      new == [c \in DOMAIN rows \cup created |->
                IF c \in created THEN Stored(list[r], c) ELSE rows[c]]
  IN  /\ pc[r] = "read"
      /\ Fits(list[r], creating[r])
      /\ Write(r, new)
      /\ creating' = [creating EXCEPT ![r] = {}]
      /\ Go(r, "created")
      /\ UNCHANGED <<upstream, cache, quiet, list, updating>>

\* A value that does not fit fails the whole INSERT, and the run with it:
\* nothing is updated or deactivated.
CreateFails(r) ==
  /\ pc[r] = "read"
  /\ ~ Fits(list[r], creating[r])
  /\ End(r)
  /\ UNCHANGED <<rows, upstream, cache, quiet, disturbed>>

\* Mutant: is_active is not among the fields.
UpdateNames(r) ==
  LET new == [c \in DOMAIN rows |->
                IF c \in updating[r]
                THEN [rows[c] EXCEPT !.name = Stored(list[r], c).name] ELSE rows[c]]
  IN  /\ pc[r] = "created"
      /\ Write(r, new)
      /\ updating' = [updating EXCEPT ![r] = {}]
      /\ Go(r, "updated")
      /\ UNCHANGED <<upstream, cache, quiet, list, creating>>

\* bulk_update casts each value to its column's type, and PostgreSQL's cast to
\* varchar(n) clips what is too long instead of failing.
Update(r) ==
  LET new == [c \in DOMAIN rows |->
                IF c \in updating[r] THEN Stored(list[r], c) ELSE rows[c]]
  IN  /\ pc[r] = "created"
      /\ Write(r, new)
      /\ updating' = [updating EXCEPT ![r] = {}]
      /\ Go(r, "updated")
      /\ UNCHANGED <<upstream, cache, quiet, list, creating>>

Deactivate(r) ==
  /\ pc[r] = "updated"
  /\ Write(r, [c \in DOMAIN rows |->
                 IF c \in Catalog(list[r]) THEN rows[c]
                 ELSE [rows[c] EXCEPT !.active = FALSE]])
  /\ End(r)
  /\ UNCHANGED <<upstream, cache, quiet>>

\* CoinGecko or the database does not answer, or the process dies: nothing of
\* the run is undone, and the next run starts from the beginning.
Fail(r) ==
  /\ ~ quiet
  /\ ~ Begins(r)
  /\ End(r)
  /\ UNCHANGED <<rows, upstream, cache, quiet, disturbed>>

Step(r) ==
  \/ UseCachedList(r) \/ RequestList(r) \/ StoreList(r) \/ ReadExisting(r)
  \/ Create(r) \/ CreateFails(r) \/ Update(r) \/ Deactivate(r)

-----------------------------------------------------------------------------
(* What goes on beside the runs.                                           *)

\* The index page shares the client and its cache.
ViewIndex ==
  /\ cache = NoList
  /\ \E c \in Coins : upstream[c] # Absent
  /\ cache' = upstream
  /\ UNCHANGED <<rows, upstream, quiet, pc, runVars, disturbed>>

ExpireCache ==
  /\ cache # NoList
  /\ cache' = NoList
  /\ UNCHANGED <<rows, upstream, quiet, pc, runVars, disturbed>>

ChangeList ==
  /\ ~ quiet
  /\ upstream' \in Lists
  /\ UNCHANGED <<rows, cache, quiet, pc, runVars, disturbed>>

\* The admin site edits is_active and nothing else.
EditFlag(c) ==
  /\ ~ quiet
  /\ c \in DOMAIN rows
  /\ rows' = [rows EXCEPT ![c].active = ~ @]
  /\ disturbed' = [r \in Processes |-> HasRead(r)]
  /\ UNCHANGED <<upstream, cache, quiet, pc, runVars>>

BecomeQuiet ==
  /\ quiet' = TRUE
  /\ UNCHANGED <<rows, upstream, cache, pc, runVars, disturbed>>

Next ==
  \/ \E r \in Processes : Step(r) \/ Fail(r)
  \/ ViewIndex \/ ExpireCache \/ ChangeList \/ BecomeQuiet
  \/ \E c \in Coins : EditFlag(c)

\* The scheduler starts a run every interval and executes its statements; a
\* command goes on with a run it has started; a cached list expires.
Fairness ==
  /\ WF_vars(Step(Worker))
  /\ \A r \in Commands : WF_vars(~ Begins(r) /\ Step(r))
  /\ WF_vars(ExpireCache)

Spec == Init /\ [][Next]_vars /\ Fairness

-----------------------------------------------------------------------------
\* The rows rs have what the list l says, and nothing else is active.
Mirrors(rs, l) ==
  /\ Catalog(l) \subseteq DOMAIN rs
  /\ \A c \in DOMAIN rs :
       IF c \in Catalog(l) THEN rs[c] = Stored(l, c) ELSE ~ rs[c].active

\* Types; what a run is about to write is in its list, and an over-long name
\* is never stored.
TypeOK ==
  /\ DOMAIN rows \subseteq Coins
  /\ \A c \in DOMAIN rows : rows[c] \in [name : Names \cup {Clipped}, active : BOOLEAN]
  /\ upstream \in Lists /\ cache \in Lists \cup {NoList}
  /\ quiet \in BOOLEAN
  /\ \A r \in Processes :
       /\ pc[r] \in {"idle", "answered", "fetched", "read", "created", "updated"}
       /\ IF pc[r] = "idle" THEN list[r] = NoList ELSE list[r] \in Lists
       /\ creating[r] \cup updating[r] # {} =>
            HasRead(r) /\ creating[r] \cup updating[r] \subseteq Catalog(list[r])
       /\ disturbed[r] \in BOOLEAN

\* "Mirror local active flags": a run that goes through, and whose rows nobody
\* else has written since it read them, leaves exactly the coins of its list
\* active, under the list's names.
UndisturbedRunMirrors ==
  [][\A r \in Processes :
       Deactivate(r) /\ ~ disturbed[r] => Mirrors(rows', list[r])]_vars

\* Whatever crashed, failed, overlapped or was stale: once CoinGecko's list
\* stays as it is and fits the table, the table comes to mirror it for good.
Converges ==
  <>(quiet /\ Fits(upstream, Catalog(upstream)) /\ \E c \in Coins : upstream[c] # Absent)
    => <>[]Mirrors(rows, upstream)
=============================================================================
