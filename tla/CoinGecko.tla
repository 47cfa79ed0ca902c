------------------------------- MODULE CoinGecko -------------------------------
(***************************************************************************)
(* CoinGeckoClient of coins/services.py, which the requests of all workers *)
(* share through a cache in the database: the lookup, the attempts that    *)
(* urllib3 makes for one GET, which failures end it, and what is cached.   *)
(*                                                                         *)
(* A list is its number of pages; of market data the model keeps what it   *)
(* was asked for and what is wrong with its rows.  Nothing checks the rows *)
(* before they are cached; what the sort and the pages make of them is in  *)
(* Pages.                                                                  *)
(***************************************************************************)
EXTENDS Integers

CONSTANTS
  Requests,     \* the requests that the workers handle at a time
  Retries,      \* total of urllib3's Retry
  PageCounts,   \* how many pages the lists have that CoinGecko may serve
  Faults        \* what may be wrong, at a time, with the rows of an answer

ASSUME RetriesAssumption == Retries \in Nat
ASSUME PageCountsAssumption == PageCounts \subseteq Nat \ {0}

\* "id": a row has none.  "name": one row has a name, and another's is missing,
\* null or empty.  "key": a row with a price has no name or no symbol.
ASSUME FaultsAssumption == Faults \subseteq SUBSET {"id", "name", "key"}

VARIABLES
  cached,   \* the cache table: what was asked for -> the data
  call      \* where the client is with the call of each request

clientVars == <<cached, call>>

\* What a call asks for; those of ids ask for page 1 of their rows.
CoinList == [what |-> "list", page |-> 0]
MarketPage(p) == [what |-> "page", page |-> p]
ByIds == [what |-> "ids", page |-> 1]
NoIds == [what |-> "ids", page |-> 0]

\* Mutant: data by ids are cached like a market page.
AnyCacheable(f) == TRUE

\* The rows of ids are arbitrary many, and are not cached.
Cacheable(f) == f.what # "ids"

\* Neither sort nor ids are part of a key.
Key(f) == IF f = CoinList THEN f ELSE MarketPage(f.page)

\* An empty market page is data; an empty list is a failure.
DataFor(f) ==
  IF f = CoinList THEN {[pages |-> n] : n \in PageCounts}
  ELSE {[for |-> f, faults |-> fs] : fs \in Faults}

\* get_markets asks nothing when there are no ids.
NoData == [for |-> NoIds, faults |-> {}]

-----------------------------------------------------------------------------
\* What an attempt may meet besides data.  "busy", which urllib3 retries: no
\* connection, no answer in time, 429 or one of five 5xx.  The others end the GET:
\* a body that breaks off or another status, and what is no JSON or has the wrong
\* shape.
Failures == {"busy", "refused", "malformed"}

Idle == [at |-> "idle"]
Open(f, left) == [at |-> "open", for |-> f, left |-> left]
Read(f, data) == [at |-> "read", for |-> f, data |-> data]
Returned(data) == [at |-> "returned", data |-> data]

CallIs(r, c) == call' = [call EXCEPT ![r] = c]

ClientInit ==
  /\ cached = [f \in {} |-> NoData]
  /\ call = [r \in Requests |-> Idle]

\* Entry of list_supported_coins and get_markets: the lookup.
Hit(r, f) ==
  /\ Cacheable(f) /\ Key(f) \in DOMAIN cached
  /\ CallIs(r, Returned(cached[Key(f)]))
  /\ UNCHANGED cached

Miss(r, f) ==
  /\ ~ (Cacheable(f) /\ Key(f) \in DOMAIN cached)
  /\ CallIs(r, Open(f, Retries))
  /\ UNCHANGED cached

Ask(r, f) == Hit(r, f) \/ Miss(r, f)

AskNothing(r) ==
  /\ CallIs(r, Returned(NoData))
  /\ UNCHANGED cached

\* Mutant: when the attempts are spent they start over.
StartOver(r) ==
  /\ call[r].at = "open"
  /\ CallIs(r, Open(call[r].for, IF call[r].left = 0 THEN Retries ELSE call[r].left - 1))
  /\ UNCHANGED cached

\* The attempt finds CoinGecko busy, and there are more.
Retry(r) ==
  /\ call[r].at = "open" /\ call[r].left > 0
  /\ CallIs(r, Open(call[r].for, call[r].left - 1))
  /\ UNCHANGED cached

\* Mutant: the answer is cached before its shape is looked at.
FailCached(r, last) ==
  /\ call[r].at = "open"
  /\ last = "busy" => call[r].left = 0
  /\ CallIs(r, Idle)
  /\ cached' = IF last # "malformed" \/ ~ Cacheable(call[r].for) THEN cached
               ELSE [k \in DOMAIN cached \cup {Key(call[r].for)} |->
                       IF k = Key(call[r].for) THEN NoData ELSE cached[k]]

\* The last attempt fails: a CoinGeckoError is raised, and nothing is cached.
\* After the last attempt a status is raised like a lost connection, so its class
\* is that of one; it decides how the failure is logged.
Fail(r, last) ==
  /\ call[r].at = "open"
  /\ last = "busy" => call[r].left = 0
  /\ CallIs(r, Idle)
  /\ UNCHANGED cached

\* Data of the right shape.
Receive(r) ==
  /\ call[r].at = "open"
  /\ \E data \in DataFor(call[r].for) :
       CallIs(r, IF Cacheable(call[r].for) THEN Read(call[r].for, data) ELSE Returned(data))
  /\ UNCHANGED cached

\* cache.set, after the shape was validated.
Store(r) ==
  /\ call[r].at = "read"
  /\ cached' = [k \in DOMAIN cached \cup {Key(call[r].for)} |->
                  IF k = Key(call[r].for) THEN call[r].data ELSE cached[k]]
  /\ CallIs(r, Returned(call[r].data))

ClientStep(r) == Retry(r) \/ Receive(r) \/ Store(r)

\* A timeout passes, or the table is culled.
Expire(k) ==
  /\ k \in DOMAIN cached
  /\ cached' = [j \in DOMAIN cached \ {k} |-> cached[j]]
  /\ UNCHANGED call

=============================================================================
