# Cryptotrack: TLA+ specifications

Cryptotrack is a Django application. Users record buys and sells of coins in a
portfolio ledger, keep a watchlist and browse market data from CoinGecko; a
scheduler mirrors CoinGecko's catalog of coins. Data lives in PostgreSQL.

This directory specifies the part of the program whose correctness is hard to
test: the ledger and its transactions, the overview computed from it, the
synchronisation of the coin catalog, the pages with the CoinGecko client and its
cache behind them, the watchlist and registration. Everything is translated from
`src/`; file and line references below are relative to it.

## 1. Inventory

| Component | State | Operations | Hard behaviour | What makes it correct |
|---|---|---|---|---|
| Ledger service (`portfolio/ledger.py`) | rows of `PortfolioTransaction` per user and coin | `create_transaction`, `update_transaction`, `delete_transaction` | concurrent requests under row locks, edits of the past, same-date ties, delisted coins | no prefix of a ledger is negative; nobody buys a delisted coin; every request is answered |
| Transaction model and form (`portfolio/models.py`, `portfolio/forms.py`) | the rows; none in the form | field validation, `get_coin_balance`, `get_positive_coin_balance_ids` | the aggregate and the replay are separate code | both compute the same balance; no future date is stored |
| Portfolio views (`portfolio/views.py`) | none of their own | overview, list, create/edit form, delete | objects fetched before the service's transaction; several reads per page | an error of the ledger becomes an answer and changes nothing |
| Holdings and overview (`portfolio/services.py`) | none (computed) | `build_holdings`, `get_portfolio_overview_data`, `calculate_portfolio_metrics` | FIFO consumption, missing prices, oversold history | lots left add up to the balance; totals cover one set of rows |
| Catalog and watchlist models (`coins/models.py`) | `Coin`, `Watchlist` | `get_coin_ids_for_user` | uniqueness under concurrency | one row per user and coin |
| Catalog sync (`coins/sync.py`, two management commands) | `Coin` rows | `sync_supported_coins`, the scheduled job | three statements without a transaction, overlapping runs, old or malformed lists | after an undisturbed run the active coins are the list's |
| CoinGecko client (`coins/services.py`) | two caches in the database | `list_supported_coins`, `get_markets` | retries, failure classification, expiry, what may be cached | a failure is one of the typed errors and is never cached |
| Coin pages (`coins/views.py`) | `Watchlist` rows | index, search, watchlist page, `add_remove_to_watchlist` | a toggle of several statements, rows counted and read at different times, CoinGecko down | a toggle flips, a user has one row per coin, every page is answered |
| Query state (`common/utils.py`, `common/decorators/views.py`, `sort_link` and `pagination_query`) | the query of a request | `normalize_query_state` twice per request, `_sync_normalized_query_params`, the links | zero or shrunken page counts, blanks, a query that only the first pass accepts | the second pass accepts what the first let through; every link leads where it says |
| Registration (`accounts/views.py`) | `User` rows | `register` | two registrations of one name, a lost answer | who is welcomed has the account, the other is told |
| Scheduler (`runapscheduler.py`) | APScheduler's job store | run the sync every 2 h 5 min, delete old records weekly | runs that overlap the manual command | a failed run does not stop the next |
| Admin, templates, formatting, settings, migrations | configuration | - | - | - |

How they interact. The views call the ledger service inside one web request;
the service reads and writes rows of one user and one coin and reads
`coin.is_active`, which the sync and the admin site write. The sync and the
pages share the client and its cache. The overview reads the rows that the
ledger's transactions write, without locks. Nothing calls back: interaction is
through the database.

`PROJECT.json` lists the hazards line by line, with the properties that cover
them, or why none does.

## 2. Modules

| Module | Role |
|---|---|
| `LedgerReplay` | operators: rows, replay order, running balance, `Feasible`, the projections of a create, edit and delete, the two guards of a delisted coin |
| `ReplayLoop` | the loop of `_replay_feasible`, one iteration per step |
| `Ledger` | the abstract ledger: each request one step |
| `LedgerConcurrent` | requests as statements of READ COMMITTED transactions with row locks; implements `Ledger` |
| `Fifo` | operators: what first in, first out leaves of each buy, in closed form |
| `Holdings` | the loops of `build_holdings`, one iteration per step, checked against `Fifo` |
| `Overview` | an overview request between the ledger's writes; uses `Fifo` for the loops |
| `CatalogSync` | the sync as requests, cache accesses and statements; the worker and a command side by side |
| `QueryState` | operators: what is accepted as page, sort and direction, what the decorator makes of the query, the links |
| `CoinGecko` | the client: lookup, attempts, failures by class, validation, storing, expiry |
| `Pages` | requests for the paged views; composes `QueryState` and `CoinGecko` |
| `Registration` | `register` against the unique constraint |
| `Watchlist` | the toggle by its statements |
| `Members` | composes `Registration` and `Watchlist`: who has an account clicks |
| `MCReplayLoop`, `MCLedger`, `MCLedgerConcurrent`, `MCHoldings`, `MCOverview`, `MCCatalogSync`, `MCPages`, `MCMembers` | instances for TLC |
| `ReplayLemmas` | lemmas: sums over finite sets, the order, balances and feasibility of timelines, what first in, first out leaves of a buy |
| `LedgerProofs` | the theorems of `Ledger` and of `ReplayLoop` |
| `LedgerConcurrentProofs` | the theorems of `LedgerConcurrent`, the refinement of `Ledger` among them |
| `HoldingsProofs`, `OverviewProofs`, `CatalogSyncProofs`, `PagesProofs`, `MembersProofs` | the theorems of these modules |

### From code to model

* A **ledger** (`rows`) is a function from primary key to `[type, amount, date]`
  for one user and one coin. Every query of the service filters on that pair, so
  the ledgers of different pairs are independent. Amounts are positive integers
  (multiples of 10^-8, `max_digits=20` leaves the sum of a realistic number of
  rows far from any limit, and Python's `Decimal` additions are exact there).
  The price is left out: it enters no decision.
* `Feasible` is `_replay_feasible`: in `(trade_date, id)` order no prefix is
  negative. `ReplayLoop` is the code's loop with its early return;
  `VerdictIsFeasible` ties the two together, so the other modules use the
  definition.
* `TieBreaker` is `NEW_ROW_TIEBREAKER_ID`, the stand-in id of a row that has no
  id yet.
* `Ledger!CreateTransaction`, `UpdateTransaction` and `DeleteTransaction` are the
  three functions of `ledger.py`: guard of a delisted coin, projection, replay,
  write. A refused request is a stuttering step. `FormRow` is what the form lets
  through: no future date (`forms.py:66-73`). `update_transaction` with a row
  that it does not find projects nothing (`ProjectUpdate`), as the code's loop.
* `LedgerConcurrent` splits a request where its order against other requests
  matters:

  | Action | Code |
  |---|---|
  | `Receive` | `views.py:140-162`, `221-226`: coin and row are fetched before the transaction; `listed` is the `is_active` seen here |
  | `RefuseUnlistedBuy` | `ledger.py:98-99`, before the transaction |
  | `BeginSelect`, `LockRow` | `_locked_rows` (`ledger.py:47-60`): the snapshot is taken when the statement starts; rows are locked in its order, waited for when held, read in the version found after the wait |
  | `Refuse` | the two `raise LedgerError` inside the transaction, the rollback, and the view's answer |
  | `InsertRow`, `WriteRow` | `objects.create`, `save`, `delete` |
  | `MissRow`, `Reinsert`, `ReinsertDuplicate` | `save()` and `delete()` of a row that is gone: the first inserts it under its old key |
  | `Commit` | end of `atomic()` and the redirect |
  | `Crash`, `BreakDeadlock` | the database rolls back |

  What PostgreSQL does is stated once, in the head of the module, and marked
  external in `PROJECT.json`.
* `Holdings` takes one coin's history row by row. The deque is a function from
  the id of a buy to what is left of it: lots are appended in replay order, so
  its left end is the first of them (`IsFirst`). `TakeBuy` appends, `TakeSell`
  sets `amount_to_sell`, `CloseLot` and `ReduceLot` are the two branches of the
  inner loop, `DropExcess` is its exit without a lot. Histories are arbitrary:
  the code tolerates oversold ones, which the ledger never stores but a raw edit
  of the database can.
* `Overview` has one action per read of the request: `ReadBalances`
  (`views.py:58-63`), `ReadTransactions` (the query of `build_holdings`),
  `FetchMarket` or `MarketUnavailable`, and `ShowPage`, the computation of rows
  and metrics. `ChangeLedger` is another request's commit between any two. A
  quotient is kept as numerator and denominator, so that a division by zero is
  visible. Names, symbols and the badge decide no number; the sort of finished
  rows changes none.
* `CatalogSync` has one action per request, cache access and statement of
  `sync_supported_coins`: `UseCachedList`, or `RequestList` and `StoreList`;
  `ReadExisting` (`in_bulk` and the loop that follows); `Create`, `Update` and
  `Deactivate`, each a transaction of its own (settings have no
  `ATOMIC_REQUESTS`, and commands would not use it). `CreateFails` is the INSERT
  refused because of one value that does not fit its column; an UPDATE clips the
  value instead, since Django casts the new values to the column's type. `Fail`
  is any error or death. A coin is `[name, active]`; `name` stands for name and
  symbol, which the code treats alike. The worker runs one sync at a time
  (`max_instances=1`). The index page fills the same cache (`ViewIndex`), an
  administrator flips `is_active` (`EditFlag`).
* `QueryState` keeps of a parameter whether it is absent, blank or has a text, and
  whether the text is written as `str()` would write it: the decorator compares
  exactly that, and the overview reads the raw text (`Raw`). A page that is no
  positive integer is 0. `search` is a fourth parameter, which the decorator leaves
  alone; `SortLink` carries it whenever there is one, `PaginationQuery` when its
  caller says so (`SendsSearch`), as `common_extras.py:144-145` and `:162-163`.
* `CoinGecko` is one call of the client at a time per request. `Hit` and `Miss`
  are the lookup, `Retry` is one more attempt of urllib3 inside the GET, `Fail`
  raises a `CoinGeckoError`, `Receive` is data that passed the shape
  check, `Store` is `cache.set`, and `Expire` a timeout or the culling of the
  table. Which `CoinGeckoError` a failure
  becomes decides only how it is logged, and is left out. (After the last attempt
  urllib3 raises for a 429 or a retried 5xx too, and requests makes that a
  `RetryError`, so it becomes `CoinGeckoUnavailableError`: `CoinGeckoRateLimitError`
  and the branch for 429 do not occur with the session that the program builds; the
  tests inject another.) Of market rows the model keeps what may be wrong with them (`Faults`):
  rows without an id, rows of which one has a name and another none (missing, null
  or empty), priced rows without a name or a symbol. Nothing checks this before
  the data are cached. Values of a type that CoinGecko does not document, such as a
  price that is a text, are left out.
* `Pages` has a request pass the decorator and, for the search, the test that there
  is a text (`LetsThrough`: `Arrive`, or `TurnAway` to the path without a query or
  to the index), then read rows (`ReadMatches`, `ReadWatchlist`,
  `ReadBalances`, `ShowTransactions`) or ask for the list (`CountMarket`,
  `OpenIndex`), normalise once more with the page count (`Renormalise`, uncaught
  in the code), ask for market data, and render (`Show`) or show the banner
  (`Degrade`). `Breaks` is where rendering raises what no view catches: the sort by
  name (`Unsortable`, `coins/services.py:217`), the URL of a row's button
  (`Unlinkable`, `coins_table.html:55`), and what the overview reads of a row
  (`Unpriceable`, `portfolio/services.py:14`, `:50-51`). `CutOff` is the end of a worker that waits too long for CoinGecko.
  How many rows a read finds is any number: counting and reading are separate
  statements, and other requests write in between.
* `Registration` has the form's check (`Submit`), the INSERT (`Save`) or its refusal
  by the unique constraint (`SaveRefused`), the answer (`Welcome`), and an answer
  that is lost with the worker (`LoseAnswer`).
* `Watchlist` splits the toggle as Django does: `FindCoin`; the `get` of
  `get_or_create` (`Get`, `GetNothing`), the INSERT (`Insert`, `Conflict`) and the
  second `get` after a conflict (`Get`, `ConflictVanished`); and the delete by key
  (`Delete`). `was` and `alone` are history for one property.

## 3. Runs

Every run finishes within about three minutes on two cores.

| Run | Instance | Shows |
|---|---|---|
| `replay_loop` | every timeline of up to 4 rows, amounts {1,2}, dates {1,2} | the loop's verdict is the definition and its last balance is the page's aggregate |
| `ledger` | up to 3 rows, amounts {1,2}, 2 days, from the empty ledger | the six properties of the abstract ledger |
| `ledger_locks` | 3 requests, 2 dates, ledgers of 1 or 2 rows, `Overlap = SafeOverlap`, the flag changes at any time | locked reads stay current, no oversell, deadlocks only after an edit, buys only for who saw the coin listed, and the refinement `Serializable` |
| `ledger_answers` | 3 requests, edits and a delete, anything overlaps | liveness |
| `ledger_phantom` | 2 requests, anything overlaps | **violated**: two sells oversell |
| `ledger_missed_row` | 2 requests, edits and deletes of stored rows, amounts {1,2} | **violated**: an edit of a deleted row is stored without a replay |
| `holdings` | every history of up to 4 rows, amounts {1,2}, dates {1,2}, oversold ones included | the FIFO loops leave the newest buys, their sum is the balance, and they end |
| `overview` | 2 coins, ledgers of up to 2 rows, prices {0,3} or none, page size 1 | no division by zero, no dropped holding, consistent totals, with writes between the reads |
| `catalog_sync` | 2 coins, 3 lists, the worker and one command | what an undisturbed run leaves, and convergence |
| `pages` | 2 requests, one for any view with every form of a query, one for page 2 of the index; lists of 1 or 2 pages, 3 attempts; rows that are well-formed, or lack a name and a key | the cache holds what it should, only such rows lead to a server error, links lead on, every request ends |
| `pages_partial` | 1 request with the same queries, rows with every combination of faults | **violated**: a row without an id breaks the page |
| `members` | 2 visitors, 2 names that differ in case, 3 clicks on a coin | nobody is welcomed to another's account; the toggle under races |

### Properties

* `NoOversell` - no prefix of the ledger is negative. In `Ledger` always; in
  `LedgerConcurrent` when requests overlap only as `SafeOverlap` says.
* `StandInDecides` - the decision with the stand-in id is the decision with any
  id the sequence may give next.
* `SellableTodayIsBalance` - a sell dated today is accepted exactly up to the
  balance the page shows (`get_coin_balance`); it needs the form's rule against
  future dates, and its mutant drops that rule.
* `HarmlessEditAccepted` - an unchanged row and a smaller sell are never refused.
* `BuysOnlyWhileListed` - a step of a delisted coin's ledger adds no buy and
  raises none.
* `LockedReadIsCurrent` - what a request has locked and read is the committed
  row until it ends.
* `DeadlockNeedsAnEdit` - a wait-for cycle needs an edit that was committed since
  the SELECT of one of the waiting requests started: only an edit can change the
  order in which two SELECTs lock the same rows. `overtaken` remembers which open
  transactions an edit has overtaken in this way; edits that ended before do not
  count.
* `BuysOnlyIfSeenListed` - the flag is read before the transaction and the coin is
  not locked, by design (`ledger.py:50-52`), so a buy may be stored after the coin
  was delisted. It is never staler than the request: every buy that is added,
  enlarged, or made of a sell is the commit of a request that saw the coin listed
  when it was received, judged against the row as it is committed. The mutant reads
  without locks.
* `Serializable` - the committed rows change as in `Ledger`.
* `AllAnswered` - no request is in flight for ever.
* `NewestBuysLeft` - between rows the lots are the newest buys of the rows taken,
  as much as their balance; in an oversold history, as if each sell had been cut
  to what there was (`Backed`).
* `HeldIsBalance` - of a feasible ledger, the lots less the rest of the current
  sell are the balance of the rows taken. So the overview's amount is
  `get_coin_balance`, computed by other code.
* `TakenToTheEnd` - every history, oversold or not, is taken to its end.
* `NoZeroDivision`, `HeldIsShown`, `TotalsConsistent` - the numbers and rows of the
  overview although its reads are of different moments: a holding may be sold out
  between the first and the second, and then has amount 0 and no average.
* `UndisturbedRunMirrors` - a run that reaches its last statement, with no other
  write of `Coin` since it read, leaves the listed coins active with their names
  and all others inactive.
* `Converges` - once the list stays as it is and fits its columns, and neither
  edits nor failures disturb the sync, the table comes to mirror the list for
  good, whatever was left by runs that failed, overlapped or used an old list.
* `CacheBounded` - a market page is stored only under a number that some list has;
  the number comes from the query, so this is the work of the clamp.
* `ShowsItsOwn` - the index shows the market page of the number it says, whoever
  stored it, and the pages of ids never show what was stored for the index.
* `NoServerError` - a page fails only on rows without an id, a name or a key: no
  query, no count that changes between the two normalisations, no failure of
  CoinGecko and no well-formed data leads to a 500, cached or not.
* `PartialRowsTolerated` - what a comment of the code claims of rows without an id;
  it is violated.
* `LinksLeadOn` - each link of a page is accepted without a redirect and leads to
  the page, sort and direction it stands for, and from a search to the same search.
* `AllAnswered` of `Pages` - every request is answered or cut off with its worker.
* `WelcomedCanLogIn` - who reads "You can now log in" has the one account of that
  name, with his password.
* `LateDeleteSparesNewRow`, `ErrorNeedsThree`, `LoneToggleFlips` - a delete that
  comes late removes the row that its click found and no newer one; the
  IntegrityError that `get_or_create` may raise needs another click that added the
  row and another that removed it; a click that is alone flips what the user
  watches. That a user has one row of a coin is the database's constraint, and an
  assumption of the model.

### What may overlap

`SafeOverlap` is what the row locks protect: two creates of buys; two edits; two
deletes; an edit and a delete of different rows. Left out are

* a create of a sell with anything: it is decided on rows that do not include
  what the other is inserting (`ledger_phantom`);
* an edit and a delete of one row (`ledger_missed_row`);
* a create of a buy with an edit or delete. One such pair is harmless, but three
  requests are not: an edit that started before the buy was inserted does not
  see it, and a third request may turn that buy into a sell meanwhile.

`Overlap = {}` is the deployment of the `Procfile`: one gunicorn process with
one synchronous worker handles requests one at a time. `AnyOverlap` is the same
code with more workers or threads, which README.md:62-65 of the program claims
to be safe. The two violated runs of the ledger and `pages_partial` are the
findings of `PROJECT.json`.

### Bounds

Two dates and three ids are the least with an insertion between rows, a tie, and
a row that moves across another. Amounts {1,2} distinguish "exactly the
balance", "more" and "less". With three requests each kind of wait happens: one
holds, one waits, one changes the order between them; a cycle needs two lockers
and the edit before. `DatedStart` dates the rows against their ids so that one
edit turns the order round. In `ledger_locks` creates are dated with the last
day; a buy's date does not matter to a replay of what it is added to, and sells
never overlap there. Its edits of the first row are all there are, those of the
second are to a buy of the last day, which is what turns the order round
(`LateRequests`). Each request runs once: a user who retries is another
request. `ledger_locks` uses symmetry of requests; `ledger_answers`, a
liveness run, does not. Deadlock checking is off where the system may stop: the
loop returns, and every request has been answered; `AllAnswered` is the property
that says that nothing hangs.

In `holdings`, four rows allow a sell that spans two lots, one that splits a lot
and a later one that meets the rest. In `overview`, two rows per coin are enough
to buy and sell out between two reads, and two coins to have one priced and one
not; a price of 0 gives a portfolio worth nothing. Its coins are symmetric. The
page size of 1 is smaller than the number of coins, so that the holding beyond it
has no price, which the properties must bear. In `catalog_sync` the lists are: both coins; one renamed and the other
with a name that does not fit; no valid row at all (an empty catalog, whose
`exclude` matches every coin). Two processes are what the deployment has: the
worker, and the command of the pre-deploy script.

In `pages`, one request takes every view with every form of page, sort and
direction, page by page (for the index and the search, which count pages of their own) and
sort by sort (what is accepted of one does not depend on the other), and the search
with every form of its text; the other request is for page 2 of the index, the page that a shrunken
list does not have, so that the two meet in the cache. Lists of one and two pages
have a page that exists, one that does not and one that did; `Most = 2` bounds the
pages of rows for the same reason, and a search may find none. `Retries = 2` is
the code's. Its market data are of two kinds, since each multiplies the cache: well-formed
rows, and rows that break the index when it is sorted by name, but not otherwise,
and the overview, so that what one request has cached breaks another or does not.
`pages_partial` has all eight combinations of `Faults` with a single request, and
the theorem of `NoServerError` is for any. In `members` three clicks are what
`ErrorNeedsThree` is about, on one coin, since clicks on different coins share
nothing; two names that the form takes for one, but the database does not, and two
visitors are the least for a race; a row may be there before.

`CatalogMayChange` lets the flag change while requests are in flight, as the sync
does. `ledger_locks` has it, since its properties are about what a request saw of
the flag. `ledger_answers`, `ledger_phantom` and `ledger_missed_row` keep the
changes to the moments between requests to be smaller: the flag delays nobody, and
the two counterexamples do not need it.

### Fairness

`Spec` of `LedgerConcurrent` has weak fairness of `\E r : Advance(r)`: the
server executes the next statement of some request that can execute one. It
does not assume that a particular request is scheduled, that requests arrive,
or that anything crashes; `Advance` includes PostgreSQL's deadlock detector.
Since a request has finitely many statements, that is enough. `ReplayLoop` and
`Ledger` have none. `Holdings` is sequential
code and has weak fairness of its next step; `Overview` has none.

`CatalogSync` assumes that the worker's next step is eventually taken: the
scheduler starts a run every 2 h 5 min, goes on after a failed one
(`runapscheduler.py:21-31`) and is restarted when it dies; that a command goes on
with the run it has started, but not that one is ever started; and that a cached
list expires (`cache.set` with a timeout; the interval is longer than the
timeout so that a run usually finds it expired). It does not assume that the
disturbances end: `Converges` says what follows if they do.

`Pages` has weak fairness of each request's own step: a worker goes on with what it
has received, and CoinGecko answers within the client's timeouts
(`services.py:36-37`) or the attempt fails; the attempts are three. It assumes
neither that requests arrive, nor that anything expires or is cut off. `Members`
states no liveness and has no fairness.

## 4. Proofs

Every invariant and action property that a passing run checks is also proved, and
so is the refinement `Serializable`: for every value of the constants that
satisfies the named assumptions, where a run has one instance. In all theorems an
inductive invariant is shown to hold initially and to be kept by each action; each
of these invariants also holds of every state of its component's instance, where
TLC evaluated it.

### Assumptions

* Of the ledger: amounts are positive, dates are integers, the stand-in id is
  positive (`AmountsAssumption`, `DatesAssumption`, `TieBreakerAssumption`), and
  stored ledgers are feasible (`StartAssumption`). In `LedgerConcurrent`,
  `SubmittedAssumption`, `OverlapAssumption` and `CatalogAssumption` are types.
* Of the overview: finitely many coins (`CoinsAssumption`, the sums need it),
  prices paid are positive (`BuyPriceAssumption`: the form refuses a price of 0),
  CoinGecko's are not negative (`PricesAssumption`).
* Of the sync: the marks of a malformed, missing, over-long or clipped value are
  no names (`ListsAssumption`, `MarkersAssumption`), and the worker is no command
  (`ProcessAssumption`).
* Of the pages: types, a default sort that is allowed (`AllowedAssumption`), page
  counts that are positive (`PageCountsAssumption`), and absent and blank are no
  texts (`ParameterAssumption`).
* Of members: the tables at the start satisfy their constraints
  (`StartsAssumption`).

Four theorems have hypotheses beyond these, each a fact that the text of the
property names:

* `ConcurrentNoOversell`, `ConcurrentSerializable` and `ConcurrentBuysSeenListed`
  assume `Overlap \subseteq SafeOverlap`; without it the first two are false
  (`ledger_phantom`, `ledger_missed_row`), and the third is, too: an edit that has
  missed its row is not compared with what it was. None of them says anything of
  `CatalogMayChange`.
* `ConcurrentSerializable` also assumes that there is a last date, as Python's
  `date.max` is: the abstract ledger's `today` is the last day, since the form has
  checked dates before the request is received. Its `active` is TRUE: that a
  request decides by the flag that it saw, which may no longer be the committed
  one, is the part of `ConcurrentBuysSeenListed`.
* `HoldingsAddUp` is about feasible ledgers by its statement; `HoldingsAreNewest`
  is about all.

### The ledger

* `LedgerTypeOK`, `LedgerNoOversell` - `Spec => []TypeOK`, `Spec => []NoOversell`.
  The inductive invariant is `TypeOK /\ NoOversell`. Edits and deletes replay the
  ledger they produce, so the step is immediate; a create replays the ledger with
  the stand-in id and stores it under another. `CreateFeasible` closes the gap: if
  the new id is above all others both ids sort alike (`StandInSound`), and if it is
  not, the row is a buy, which keeps a feasible ledger feasible wherever it is put
  (`BuyKeepsFeasible`), and that needs `NoOversell` of the old state.
* `LedgerStandInDecides`, `LedgerSellableToday`, `LedgerHarmlessEdit` - from the
  same invariant. The second rests on `FeasibleLast`: for a row that sorts last
  feasibility is one comparison with the aggregate; "no stored date is in the
  future" is what makes today's sell sort last.
* `LedgerBuysOnlyWhileListed` - the action property, from the same invariant.
* `LoopTypes`, `LoopVerdict`, `LoopFinalBalance` - the loop decides `Feasible`.
  The invariant `LoopInv` says that the replayed ids are a prefix of the replay
  order, that `balance` is their sum, and that every prefix among them was not
  negative; the early return leaves a negative prefix as the witness.

### Requests that overlap

Three layers, each resting on the one before:

* `ConcurrentTypeOK`, `ConcurrentLockedRead` - from `LockInv`, which holds whatever
  overlaps: what each phase of a request has, that no two requests hold a row
  (`Apart`), and that what was read under a lock is the committed row. A commit
  changes only rows that its request holds, or one that nobody can ask for yet.
* `ConcurrentDeadlock` - from `OrderInv`: a request that no committed edit has
  overtaken locks in the one order of the rows (`Ordered`), since nothing but an edit
  changes a date. If such requests waited for each other in a cycle, the last of
  the rows waited for would have a holder, who waits for a row that comes after
  it.
* `ConcurrentNoOversell` - from `SafeInv`: requests in flight are pairs of
  `SafeOverlap` (`SafeFlights`); a request that needs more than the rows it adds to
  has read, or will lock, all committed ones (`Reads`); and what it has decided
  still holds when it writes (`Decided`). The two meet in `CommitFeasible`: the
  ledger that is committed is the one that was replayed.
* `ConcurrentSerializable` - the refinement, step by step. A commit is one step of
  `Ledger`, whose guard follows from `Decided`; a refusal, a crash, a statement that commits
  nothing, and a commit that writes what was there are stuttering steps.
* `ConcurrentBuysSeenListed` - the action property, from the same invariant: what the
  guards of a delisted coin were given is the row that is committed when the request
  writes, and only its own commit changes that row.

### Holdings and overview

* `HoldingsTypeOK`, `HoldingsAddUp` - the loop of `build_holdings` against the
  ledger. The invariant `HoldInv` says that the rows taken are a prefix of the
  replay order (`Prefix`): then a sell that has just been taken closes a prefix,
  whose balance is not negative, so that the lots cover it.
* `HoldingsAreNewest` - for every history, oversold or not. It needs two more parts
  of `HoldInv`. `NewestStay`: only the oldest lot may be less than its buy, and no
  buy after a lot is missing. `LotsAreBacked`: the lots less the rest of the current
  sell are the balance less the deepest shortfall so far, cut at 0. The first says
  which buys are left and the second how much; together they are the closed form
  of `Fifo`.
* `FeasibleSellsAreBacked` - the loop drops an un-backed rest only of an oversold
  history.
* `OverviewTypeOK`, `OverviewNoZeroDivision`, `OverviewHeldIsShown`,
  `OverviewTotalsConsistent` - from `OverviewInv`. Between the reads others commit
  what they like, as long as ledgers stay feasible (`LedgersInv`); the coins that
  were held throughout are held at the second read, and then a feasible ledger has
  a lot left (`PositiveHasLot`). The page is a function of what was read (`PageInv`),
  so the two properties of its numbers are facts about that function; the totals
  rest on the sum of differences being the difference of sums (`SumDifference`).

### Catalog

* `SyncTypeOK`, `SyncMirrors` - from `SyncInv`: as long as nobody else has written
  since a run read, what it has still to create and to update is exactly what keeps
  the table from its list (`OnCourse`). A write by anybody else sets `disturbed` of
  all others, which ends the obligation. The convergence of disturbed runs is a
  liveness property.

### Pages

* `PagesTypeOK`, `PagesCacheBounded`, `PagesShowTheirOwn`, `PagesNoServerError`,
  `PagesLinksLeadOn` - from `PagesInv`, which says of each
  request, by the place it has reached, what its query, its page count and its call
  may be (`RequestInv`), and of the cache which keys it may have and that the data
  answer the key (`CacheInv`). That the second normalisation, which nothing catches,
  accepts what the first let through is `SecondPass`, from what
  `_sync_normalized_query_params` has left of the query (`SyncedIsRewritten`); that a
  page number is one that the list has is `Fitting`, the clamp.

### Members

* `MembersTypeOK`, `MembersWelcomed`, `MembersLateDelete`, `MembersErrorNeedsThree` - for every number of visitors, names, coins and
  overlapping clicks. The inductive invariant `IInv` adds to the properties that a
  saved visitor's account is stored and names are unique (`RegInv`); that a key
  stands for one user and coin, in the rows and among the clicks that have found or
  added it (`KeyIsPair`); and that a row which is there after a click found none was
  added by another click (`RowsAreAdded`): with the first, a conflict whose row has
  vanished has an adder and a remover beside it.
* `MembersLoneToggleFlips` - the action property, from `AloneSees`: while a click is
  alone, the rows of its user and coin are as it saw them. `OthersSee` is why the
  steps of clicks on other pairs cannot change that.

### Lemmas, and what is left to TLC

`ReplayLemmas` derives what is needed of `SumFunctionOnSet` (a fold defined through
`CHOOSE`) by characterising the recursive function it unfolds to, and builds order,
feasibility and what is left of a buy on it. No module of a theorem uses a
RECURSIVE operator.

Only model-checked are the liveness properties (`TakenToTheEnd`, `Converges`, and
`AllAnswered` of the ledger and of the pages): TLAPS proves neither liveness from
fairness nor ENABLED. The three violated runs are
counterexamples and need no proof.

## 5. Not modelled

The formats of numbers in `common_extras.py` and the templates' layout: no state
depends on them (a value just below 1 is shown as "1.", and 999,999,999 as $1000M:
the branch is chosen by the value before it is rounded).
`get_safe_redirect_url` and the redirect targets: Django's check of a URL, without
state. Log-in, log-out and the password pages: Django's own views. Settings,
environment and migrations: they run before the program serves. The weekly
deletion of old job records touches nothing else. Which rows are on which page
when sort keys tie, which the database may answer differently each time. A
request whose database read fails ends in Django's error page, as everywhere.
Deleting a user or a coin cascades to its rows (`on_delete=CASCADE`) and ends the
ledger that the model is about.

## 6. Plan

1. `LedgerReplay`, `ReplayLoop`, `Ledger`, `LedgerConcurrent` and the proofs of
   the first three: done.
2. `Fifo`, `Holdings`, `Overview`, and the proof that the lots add up: done.
3. `CatalogSync`: done.
4. `QueryState`, `CoinGecko`, `Pages`: done.
5. `Registration`, `Watchlist`, `Members`, and the proofs of all their properties:
   done.
6. The proofs of `Pages`, `LedgerConcurrent` (with the refinement), `CatalogSync`,
   `Overview`, and of `NewestBuysLeft`: done.
7. Next: what would extend the results rather than repeat them. Action properties
   on the modules that have the invariants for them: that a run of the sync writes
   nothing when the table mirrors its list already. A larger `SafeOverlap`, if a pair that it
   leaves out turns out to be harmless in every company.
