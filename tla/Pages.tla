-------------------------------- MODULE Pages --------------------------------
(***************************************************************************)
(* The pages that are listed by page and sort: the index, the search and   *)
(* the watchlist of coins/views.py, the overview and the lists of all and  *)
(* of one coin's transactions of portfolio/views.py.  A request passes the *)
(* decorator, reads rows or CoinGecko's list, normalises the query once    *)
(* more with the page count it has found, asks for market data and         *)
(* renders.  Several requests run at a time and share the client's cache.  *)
(*                                                                         *)
(* What the database has is another request's business: every read may     *)
(* find any number of rows.  A read that fails there is left out.          *)
(***************************************************************************)
EXTENDS QueryState, CoinGecko

CONSTANTS
  Visits,    \* the views and queries that a request may be for
  Allowed,   \* the sorts of a view
  Default,   \* its sort and direction when the query has none
  ByName,    \* of the coin pages' sorts, the one by name
  Most       \* bound on the pages of rows that a read of the database finds

Lists == {"transactions", "coin"}
Views == {"index", "search", "watchlist", "overview"} \cup Lists

ASSUME VisitsAssumption == Visits \in [Requests -> SUBSET (Views \X QueryStates)]
ASSUME AllowedAssumption ==
  /\ Allowed \in [Views -> SUBSET Sorts]
  /\ Default \in [Views -> [sort : Sorts, direction : Directions]]
  /\ \A v \in Views : Default[v].sort \in Allowed[v]
ASSUME MostAssumption == Most \in Nat

VARIABLE page   \* where each request is, and in the end its answer

vars == <<clientVars, page>>

NoPage == [at |-> "idle"]
At(r, where) == page[r].at = where
PageIs(r, p) == page' = [page EXCEPT ![r] = p]

\* `faults` is what was wrong with the rows that the page was to show.
Fails(r, faults) == PageIs(r, [at |-> "error", faults |-> faults])
Answers == {"shown", "redirect", "banner", "error"}

\* The page, sort, direction and search text that a view works with.  The
\* overview has no pages, and reads the parameters as they stand in the query;
\* only the search looks at `search`, and strips it.
Current(v, q, count) ==
  LET sorting ==
        IF v = "overview"
        THEN [sort |-> Raw(q.sort, Default[v].sort),
              direction |-> Raw(q.direction, Default[v].direction)]
        ELSE SortingOf(q, Default[v])
  IN  [page |-> IF v = "overview" THEN 1 ELSE PageOf(q, count),
       sort |-> sorting.sort, direction |-> sorting.direction,
       search |-> IF v = "search" THEN Plain(q.search.text) ELSE Absent]

\* The second normalisation accepts the query, and the paginator has the page.
Normalises(p, count) ==
  /\ Accepted(p.query, Allowed[p.view])
  /\ PageOf(p.query, count) <= (IF count > 1 THEN count ELSE 1)

-----------------------------------------------------------------------------
(* Arrival.                                                                *)

Init == ClientInit /\ page = [r \in Requests |-> NoPage]

\* The decorator accepts the query, and a search is for something.
LetsThrough(v, q) == Accepted(q, Allowed[v]) /\ (v = "search" => Given(q.search))

\* The view goes on, with the query as the decorator has rewritten it.
Arrive(r, v, q) ==
  /\ At(r, "idle") /\ LetsThrough(v, q)
  /\ PageIs(r, [at |-> "read", view |-> v, query |-> Synced(q)])
  /\ UNCHANGED clientVars

\* To the same path without a query; and from a search for nothing to the index.
TurnAway(r, v, q) ==
  /\ At(r, "idle") /\ ~ LetsThrough(v, q)
  /\ PageIs(r, [at |-> "redirect"])
  /\ UNCHANGED clientVars

-----------------------------------------------------------------------------
(* Reads.  `count` is the page count that the second normalisation gets.   *)

Reading(r, view) == At(r, "read") /\ page[r].view = view

\* On to the market data.
Proceed(r, count, ask) ==
  /\ ask
  /\ PageIs(r, [at |-> "market", view |-> page[r].view,
                query |-> page[r].query, count |-> count])

\* Nothing catches a query that is refused now.
Renormalise(r, count, ask) ==
  IF Normalises(page[r], count) THEN Proceed(r, count, ask)
  ELSE Fails(r, {}) /\ CallIs(r, Idle) /\ UNCHANGED cached

AskForIds(r, some) == IF some THEN Ask(r, ByIds) ELSE AskNothing(r)

\* get_page_count.
CountMarket(r) ==
  /\ Reading(r, "index")
  /\ Ask(r, CoinList)
  /\ PageIs(r, [page[r] EXCEPT !.at = "count"])

\* Mutant: the data are those of the page that the query names.
OpenNamed(r) ==
  /\ At(r, "count") /\ call[r].at = "returned"
  /\ Renormalise(r, call[r].data.pages,
       Ask(r, MarketPage(IF Given(page[r].query.page) THEN page[r].query.page.text ELSE 1)))

OpenIndex(r) ==
  /\ At(r, "count") /\ call[r].at = "returned"
  /\ LET count == call[r].data.pages
     IN  Renormalise(r, count, Ask(r, MarketPage(PageOf(page[r].query, count))))

\* All matches are read at once.
ReadMatches(r) ==
  /\ Reading(r, "search")
  /\ \E count \in 0..Most : Renormalise(r, count, AskForIds(r, count > 0))

\* One statement counts the rows, another reads a page of them: a toggle may
\* come between the two.
ReadWatchlist(r) ==
  /\ Reading(r, "watchlist")
  /\ \E count \in 1..Most, some \in BOOLEAN :
       Renormalise(r, count, AskForIds(r, some))

ReadBalances(r) ==
  /\ Reading(r, "overview")
  /\ \E some \in BOOLEAN : Proceed(r, 1, AskForIds(r, some))

-----------------------------------------------------------------------------
(* Answers.                                                                *)

\* What the page shows; `rows` is where they come from.
Shown(r, count, rows) ==
  [at |-> "shown", view |-> page[r].view, count |-> count, rows |-> rows,
   current |-> Current(page[r].view, page[r].query, count)]

\* send_search of the pagination, and of the buttons that there is a text.
SendsSearch(v) == v = "search"

\* _sort: a name does not compare with the 0 that stands for a missing one.
Unsortable(p, data) ==
  "name" \in data.faults /\ Current(p.view, p.query, p.count).sort = ByName

\* The buttons of a row take its id for their URLs.
Unlinkable(data) == "id" \in data.faults

\* Holdings are looked up by id, and show the market's name and symbol.
Unpriceable(data) == data.faults \cap {"id", "key"} # {}

\* Nothing catches what is raised then.  The overview sorts its holdings by the
\* parameter as it stands in the query.
Breaks(p, data) ==
  IF p.view = "overview"
  THEN \/ Unpriceable(data)
       \/ /\ data # NoData
          /\ Current(p.view, p.query, p.count).sort \notin Allowed[p.view]
  ELSE Unsortable(p, data) \/ Unlinkable(data)

Show(r) ==
  /\ At(r, "market") /\ call[r].at = "returned"
  /\ IF Breaks(page[r], call[r].data) THEN Fails(r, call[r].data.faults)
     ELSE PageIs(r, Shown(r, page[r].count, call[r].data))
  /\ CallIs(r, Idle) /\ UNCHANGED cached

\* The lists of transactions need no market data.  Their rows are counted by one
\* statement and read by another, too.
ShowTransactions(r) ==
  /\ \E v \in Lists : Reading(r, v)
  /\ \E count \in 1..Most :
       IF Normalises(page[r], count) THEN PageIs(r, Shown(r, count, NoData))
       ELSE Fails(r, {})
  /\ UNCHANGED clientVars

\* There is no such coin, or no such transaction to edit.
Redirect(r) ==
  /\ Reading(r, "coin")
  /\ PageIs(r, [at |-> "redirect"])
  /\ UNCHANGED clientVars

\* handle_market_unavailable: the banner, at status 200, whatever the class of
\* the exception.
Degrade(r) ==
  \E last \in Failures : Fail(r, last) /\ PageIs(r, [at |-> "banner"])

\* The worker dies while it waits for CoinGecko, or gunicorn ends it: three
\* attempts and what Retry-After asks for may take longer than its timeout.
CutOff(r) ==
  /\ call[r].at = "open"
  /\ PageIs(r, NoPage)
  /\ CallIs(r, Idle) /\ UNCHANGED cached

\* The answer is delivered, and the worker is free again.
Close(r) ==
  /\ page[r].at \in Answers
  /\ PageIs(r, NoPage)
  /\ UNCHANGED clientVars

Step(r) ==
  \/ CountMarket(r) \/ OpenIndex(r) \/ ReadMatches(r) \/ ReadWatchlist(r)
  \/ ReadBalances(r) \/ ShowTransactions(r) \/ Redirect(r) \/ Show(r)
  \/ Degrade(r) \/ Close(r)
  \/ ClientStep(r) /\ UNCHANGED page

Next ==
  \/ \E r \in Requests :
       \/ Step(r)
       \/ CutOff(r)
       \/ \E w \in Visits[r] : Arrive(r, w[1], w[2]) \/ TurnAway(r, w[1], w[2])
  \/ \E k \in DOMAIN cached : Expire(k) /\ UNCHANGED page

\* Workers go on with what they have received; CoinGecko answers within the
\* client's timeouts, or the attempt fails.
Spec == Init /\ [][Next]_vars /\ \A r \in Requests : WF_vars(Step(r))

-----------------------------------------------------------------------------
\* Types; a request has a call while it waits for one; what is cached under a
\* key was asked for with it, and had passed the checks.
TypeOK ==
  /\ DOMAIN cached \subseteq {CoinList} \cup [what : {"page"}, page : Nat \ {0}]
  /\ \A k \in DOMAIN cached : cached[k] \in DataFor(k)
  /\ \A r \in Requests :
       /\ page[r].at \in {"idle", "read", "count", "market"} \cup Answers
       /\ page[r].at \in {"count", "market"} <=> call[r] # Idle
       /\ page[r].at \in {"read", "count", "market"} =>
            page[r].view \in Views /\ page[r].query \in QueryStates
       /\ call[r].at = "open" => call[r].left \in 0..Retries

\* Whatever page is asked for and however the list grows and shrinks, the
\* cache holds no page that no list had.
CacheBounded ==
  \A k \in DOMAIN cached \ {CoinList} : \E count \in PageCounts : k.page <= count

\* An index page shows the market's page of its number; the other pages show
\* the rows of their own ids, never what was cached for the index.
ShowsItsOwn ==
  \A r \in Requests :
    At(r, "shown") /\ page[r].rows # NoData =>
      page[r].rows.for =
        IF page[r].view = "index" THEN MarketPage(page[r].current.page) ELSE ByIds

\* Only rows that CoinGecko has sent without an id, a name or a key make a page
\* fail with a server error: no query, page count that changes between the two
\* normalisations, failure of CoinGecko, concurrent request or well-formed data
\* does, cached or not.
NoServerError == \A r \in Requests : At(r, "error") => page[r].faults # {}

\* What the comment on _normalize_ids says: rows that lack an id are left
\* untouched rather than crashing the page.
PartialRowsTolerated == \A r \in Requests : At(r, "error") => page[r].faults # {"id"}

\* The link leads, without a redirect, to the page that shows `state`.
LeadsTo(link, p, state) ==
  /\ LetsThrough(p.view, link)
  /\ Current(p.view, Synced(link), p.count) = state

\* The links of a page lead on, and a search page's to the same search: the
\* arrows to the neighbours in the same order, a header to its order on the same
\* page, and turned round when it is the order shown, the buttons' forms back to
\* the page itself.
LinksLeadOn ==
  \A r \in Requests :
    LET p == page[r]
        now == p.current
        turned == IF now.direction = "asc" THEN "desc" ELSE "asc"
    IN  At(r, "shown") =>
          /\ \A key \in Allowed[p.view] :
               LeadsTo(SortLink(key, now), p,
                 [page |-> now.page, sort |-> key, search |-> now.search,
                  direction |-> IF key = now.sort THEN turned ELSE "asc"])
          /\ \A n \in {now.page - 1, now.page, now.page + 1} \cap 1..p.count :
               LeadsTo(PaginationQuery(n, now, SendsSearch(p.view)), p,
                       [now EXCEPT !.page = n])

\* Every request is answered, or cut off with its worker, whatever CoinGecko
\* does.
AllAnswered ==
  \A r \in Requests : ~ At(r, "idle") ~> At(r, "idle")
=============================================================================
