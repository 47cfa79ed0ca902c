------------------------------ MODULE PagesProofs ------------------------------
(***************************************************************************)
(* The properties of the pages for every number of requests, views' sorts, *)
(* page counts and queries: one invariant of what a request knows at each  *)
(* place, and of what the shared cache holds.                              *)
(***************************************************************************)
EXTENDS Pages, TLAPS

-----------------------------------------------------------------------------
(* The inductive invariant.                                                *)

\* A query that the decorator has let through and rewritten for view v.
Rewritten(q, v) ==
  /\ q \in QueryStates
  /\ LetsThrough(v, q)
  /\ \A k \in {"page", "sort", "direction"} : q[k] = Absent \/ (Given(q[k]) /\ q[k].plain)

\* The search text that a page of v may show.
SearchOf(v) == IF v = "search" THEN {Plain(text) : text \in Terms} ELSE {Absent}

\* What a page works with, and how many pages there are.
Fitting(now, v, count) ==
  /\ now \in [page : Nat \ {0}, sort : Allowed[v], direction : Directions,
              search : SearchOf(v)]
  /\ now.page <= (IF count > 1 THEN count ELSE 1)
  /\ v = "overview" => now.page = 1
  /\ v = "index" => count \in PageCounts

\* What request p asks the client for.
Subject(p) ==
  IF p.at = "count" THEN CoinList
  ELSE IF p.view = "index" THEN MarketPage(PageOf(p.query, p.count))
  ELSE ByIds

\* A call about f: it has the data that were asked for.
Asks(c, f) ==
  \/ c.at = "open" /\ c.for = f /\ c.left \in 0 .. Retries
  \/ c.at = "read" /\ c.for = f /\ Cacheable(f) /\ c.data \in DataFor(f)
  \/ c.at = "returned" /\ c.data \in DataFor(f)

AsksNothing(p, c) ==
  /\ p.at = "market" /\ p.view # "index"
  /\ c.at = "returned" /\ c.data = NoData

\* A request with its call, place by place.
RequestInv(p, c) ==
  /\ p.at \in {"idle", "read", "count", "market"} \cup Answers
  /\ IF p.at \in {"count", "market"} THEN Asks(c, Subject(p)) \/ AsksNothing(p, c)
     ELSE c = Idle
  /\ p.at \in {"read", "count", "market"} => p.view \in Views /\ Rewritten(p.query, p.view)
  /\ p.at = "count" => p.view = "index"
  /\ p.at = "market" =>
       /\ p.count \in Nat
       /\ p.view = "overview" => p.count = 1
       /\ p.view = "index" => p.count \in PageCounts
  /\ p.at = "shown" =>
       /\ p.view \in Views /\ p.count \in Nat
       /\ p.view = "overview" => p.count = 1
       /\ Fitting(p.current, p.view, p.count)
       /\ p.rows # NoData =>
            p.rows.for = IF p.view = "index" THEN MarketPage(p.current.page) ELSE ByIds
  /\ p.at = "error" => p.faults # {}

\* The keys of the cache are the list's and of pages that some list has.
CacheInv ==
  \A k \in DOMAIN cached :
    /\ \/ k = CoinList
       \/ \E n \in Nat \ {0} : k = MarketPage(n) /\ \E count \in PageCounts : n <= count
    /\ cached[k] \in DataFor(k)

PagesInv ==
  /\ DOMAIN page = Requests /\ DOMAIN call = Requests
  /\ CacheInv
  /\ \A r \in Requests : RequestInv(page[r], call[r])

-----------------------------------------------------------------------------
(* Queries.                                                                *)

Texts == Nat \cup Sorts \cup Directions \cup {Unknown} \cup Terms

LEMMA PlainIsGiven ==
  ASSUME NEW text \in Texts
  PROVE  /\ Given(Plain(text)) /\ Plain(text) # Absent
         /\ Plain(text).plain /\ Plain(text).text = text
<1>1. Plain(text) \in [text : Texts, plain : BOOLEAN]
  BY DEF Plain
<1>2. \A x \in {Absent, Blank} : x \notin [text : Texts, plain : BOOLEAN]
  BY ParameterAssumption DEF Texts
<1>3. Plain(text) \notin {Absent, Blank}
  BY <1>1, <1>2
<1> QED BY <1>3 DEF Given, Plain

LEMMA GivenIsText ==
  ASSUME NEW T \in SUBSET Texts, NEW x \in Parameters(T), Given(x)
  PROVE  x \in [text : T, plain : BOOLEAN]
BY DEF Parameters, Given

\* The query after the rewriting passes the check that it passed before.
LEMMA SyncedIsRewritten ==
  ASSUME NEW v \in Views, NEW q \in QueryStates, LetsThrough(v, q)
  PROVE  Rewritten(Synced(q), v)
<1> DEFINE s == Synced(q)
<1>1. /\ q.page \in Parameters(Nat) /\ q.sort \in Parameters(Sorts \cup {Unknown})
      /\ q.direction \in Parameters(Directions \cup {Unknown})
      /\ q.search \in Parameters(Terms)
      /\ DOMAIN q = {"page", "sort", "direction", "search"}
  BY DEF QueryStates
<1>2. /\ s = [page |-> IF Given(q.page) THEN Plain(q.page.text) ELSE Absent,
              sort |-> IF Given(q.sort) THEN Plain(q.sort.text) ELSE Absent,
              direction |-> IF Given(q.direction) THEN Plain(q.direction.text) ELSE Absent,
              search |-> q.search]
  BY <1>1 DEF Synced
<1>3. ~ Given(Absent)
  BY DEF Given
<1>4. /\ Nat \in SUBSET Texts /\ (Sorts \cup {Unknown}) \in SUBSET Texts
      /\ (Directions \cup {Unknown}) \in SUBSET Texts
  BY DEF Texts
<1>5. ASSUME NEW T \in SUBSET Texts, NEW x \in Parameters(T)
      PROVE  LET y == IF Given(x) THEN Plain(x.text) ELSE Absent
             IN  /\ y \in Parameters(T)
                 /\ Given(y) <=> Given(x)
                 /\ Given(x) => y.text = x.text
                 /\ y = Absent \/ (Given(y) /\ y.plain)
  <2>1. CASE Given(x)
    <3>1. x.text \in T /\ x.text \in Texts
      BY <2>1, GivenIsText
    <3>2. /\ Given(Plain(x.text)) /\ Plain(x.text) # Absent
          /\ Plain(x.text).plain /\ Plain(x.text).text = x.text
      BY <3>1, PlainIsGiven
    <3>3. Plain(x.text) \in Parameters(T)
      BY <3>1 DEF Parameters, Plain
    <3> QED BY <2>1, <3>2, <3>3
  <2>2. CASE ~ Given(x)
    BY <1>3, <2>2 DEF Parameters
  <2> QED BY <2>1, <2>2
<1>6. /\ s.page \in Parameters(Nat)
      /\ s.page = Absent \/ (Given(s.page) /\ s.page.plain)
      /\ Given(s.page) <=> Given(q.page)
      /\ Given(q.page) => s.page.text = q.page.text
  BY <1>1, <1>2, <1>4, <1>5
<1>7. /\ s.sort \in Parameters(Sorts \cup {Unknown})
      /\ s.sort = Absent \/ (Given(s.sort) /\ s.sort.plain)
      /\ Given(s.sort) <=> Given(q.sort)
      /\ Given(q.sort) => s.sort.text = q.sort.text
  BY <1>1, <1>2, <1>4, <1>5
<1>8. /\ s.direction \in Parameters(Directions \cup {Unknown})
      /\ s.direction = Absent \/ (Given(s.direction) /\ s.direction.plain)
      /\ Given(s.direction) <=> Given(q.direction)
      /\ Given(q.direction) => s.direction.text = q.direction.text
  BY <1>1, <1>2, <1>4, <1>5
<1>9. /\ s = [page |-> s.page, sort |-> s.sort, direction |-> s.direction,
                search |-> s.search]
      /\ s.search = q.search
  BY <1>2
<1> HIDE DEF s
<1>10. s \in QueryStates
  BY <1>1, <1>6, <1>7, <1>8, <1>9 DEF QueryStates
<1>11. LetsThrough(v, s)
  BY <1>6, <1>7, <1>8, <1>9 DEF LetsThrough, Accepted, PageAccepted, SortAccepted
<1> QED BY <1>6, <1>7, <1>8, <1>10, <1>11 DEF Rewritten, s

\* The clamp, for any page count.
LEMMA PageOfRange ==
  ASSUME NEW v, NEW q, Rewritten(q, v), NEW count \in Nat
  PROVE  /\ PageOf(q, count) \in Nat \ {0}
         /\ PageOf(q, count) <= (IF count > 1 THEN count ELSE 1)
<1>1. q.page \in Parameters(Nat) /\ PageAccepted(q)
  BY DEF Rewritten, LetsThrough, QueryStates, Accepted
<1>2. Given(q.page) => q.page.text \in Nat /\ q.page.text >= 1
  BY <1>1, GivenIsText DEF PageAccepted, Texts
<1> QED BY <1>2 DEF PageOf

LEMMA CurrentFits ==
  ASSUME NEW v \in Views, NEW q, Rewritten(q, v), NEW count \in Nat,
         v = "index" => count \in PageCounts
  PROVE  /\ Fitting(Current(v, q, count), v, count)
         /\ v = "index" => Current(v, q, count).page = PageOf(q, count)
<1>1. /\ q.sort \in Parameters(Sorts \cup {Unknown})
      /\ q.direction \in Parameters(Directions \cup {Unknown})
      /\ SortAccepted(q, Allowed[v])
      /\ q.sort = Absent \/ (Given(q.sort) /\ q.sort.plain)
      /\ q.direction = Absent \/ (Given(q.direction) /\ q.direction.plain)
      /\ q.search \in Parameters(Terms) /\ (v = "search" => Given(q.search))
  BY DEF Rewritten, LetsThrough, QueryStates, Accepted
<1>2. Default[v].sort \in Allowed[v] /\ Default[v].direction \in Directions
      /\ Default[v] \in [sort : Sorts, direction : Directions]
  BY AllowedAssumption
<1>3. SortingOf(q, Default[v]).sort \in Allowed[v]
      /\ SortingOf(q, Default[v]).direction \in Directions
  BY <1>1, <1>2 DEF SortingOf, SortAccepted
<1>4. Raw(q.sort, Default[v].sort) \in Allowed[v]
      /\ Raw(q.direction, Default[v].direction) \in Directions
  BY <1>1, <1>2 DEF Raw, SortAccepted, Given
<1>5. v = "search" => Plain(q.search.text) \in SearchOf(v)
  <2>1. SUFFICES ASSUME v = "search" PROVE q.search.text \in Terms
    BY DEF SearchOf
  <2>2. Terms \in SUBSET Texts
    BY DEF Texts
  <2> QED BY <1>1, <2>1, <2>2, GivenIsText
<1>6. (IF v = "search" THEN Plain(q.search.text) ELSE Absent) \in SearchOf(v)
  BY <1>5 DEF SearchOf
<1> DEFINE now == Current(v, q, count)
<1>7. /\ now.page = IF v = "overview" THEN 1 ELSE PageOf(q, count)
      /\ now.sort \in Allowed[v] /\ now.direction \in Directions
      /\ now.search \in SearchOf(v)
      /\ now = [page |-> now.page, sort |-> now.sort, direction |-> now.direction,
                search |-> now.search]
  BY <1>3, <1>4, <1>6 DEF Current
<1> HIDE DEF now
<1> QED BY <1>7, PageOfRange DEF Fitting, now

-----------------------------------------------------------------------------
(* The client.                                                             *)

LEMMA KeyIsSubject ==
  /\ Key(CoinList) = CoinList /\ Cacheable(CoinList)
  /\ \A n \in Nat : Key(MarketPage(n)) = MarketPage(n) /\ Cacheable(MarketPage(n))
  /\ ~ Cacheable(ByIds)
  /\ \A n : MarketPage(n) # CoinList
  /\ ByIds # CoinList /\ \A n : MarketPage(n) # ByIds
BY DEF Key, CoinList, MarketPage, Cacheable, ByIds

\* What the lookup or its miss leaves, for what the pages ask for.
LEMMA AskStarts ==
  ASSUME PagesInv, NEW r \in Requests,
         NEW f, f \in {CoinList, ByIds} \cup {MarketPage(n) : n \in Nat},
         Ask(r, f)
  PROVE  /\ Asks(call'[r], f) /\ cached' = cached
         /\ DOMAIN call' = Requests
         /\ \A s \in Requests \ {r} : call'[s] = call[s]
<1>1. DOMAIN call = Requests /\ CacheInv
  BY DEF PagesInv
<1>2. CASE Hit(r, f)
  <2>1. Key(f) = f
    BY <1>2, KeyIsSubject DEF Hit
  <2>2. cached[f] \in DataFor(f)
    BY <1>1, <1>2, <2>1 DEF Hit, CacheInv
  <2>3. call' = [call EXCEPT ![r] = Returned(cached[f])] /\ cached' = cached
    BY <1>2, <2>1 DEF Hit, CallIs
  <2> QED BY <1>1, <2>2, <2>3 DEF Returned, Asks
<1>3. CASE Miss(r, f)
  <2>1. call' = [call EXCEPT ![r] = Open(f, Retries)] /\ cached' = cached
    BY <1>3 DEF Miss, CallIs
  <2>2. Retries \in 0 .. Retries
    BY RetriesAssumption
  <2> QED BY <1>1, <2>1, <2>2 DEF Open, Asks
<1> QED BY <1>2, <1>3 DEF Ask

\* A call in which something is going on is not Idle.
LEMMA AsksNotIdle ==
  ASSUME NEW p, NEW c, NEW f, Asks(c, f) \/ AsksNothing(p, c)
  PROVE  c # Idle /\ c.at \in {"open", "read", "returned"}
BY DEF Asks, AsksNothing, Idle

-----------------------------------------------------------------------------
(* PagesInv is inductive.                                                  *)

LEMMA PagesInit == Init => PagesInv
<1> SUFFICES ASSUME Init PROVE PagesInv
  OBVIOUS
<1>1. \A r \in Requests : page[r] = NoPage /\ call[r] = Idle
  BY DEF Init, ClientInit
<1>2. RequestInv(NoPage, Idle)
  BY DEF RequestInv, NoPage, Answers
<1>3. CacheInv
  BY DEF Init, ClientInit, CacheInv
<1> QED BY <1>1, <1>2, <1>3 DEF PagesInv, Init, ClientInit

\* A step of one request concerns its own place and call, and the cache.
LEMMA OneRequest ==
  ASSUME PagesInv, NEW r \in Requests,
         DOMAIN page' = Requests, DOMAIN call' = Requests,
         \A s \in Requests \ {r} : page'[s] = page[s] /\ call'[s] = call[s],
         CacheInv', NEW p, NEW c, page'[r] = p, call'[r] = c, RequestInv(p, c)
  PROVE  PagesInv'
<1>1. ASSUME NEW s \in Requests PROVE RequestInv(page'[s], call'[s])
  <2>1. CASE s = r
    BY <2>1
  <2>2. CASE s # r
    BY <2>2 DEF PagesInv
  <2> QED BY <2>1, <2>2
<1> QED BY <1>1 DEF PagesInv

\* The same, for a step that leaves the calls and the cache alone.
LEMMA OnlyPage ==
  ASSUME PagesInv, NEW r \in Requests, NEW p, PageIs(r, p), UNCHANGED clientVars,
         RequestInv(p, call[r])
  PROVE  PagesInv'
<1>1. /\ DOMAIN page' = Requests /\ DOMAIN call' = Requests
      /\ \A s \in Requests \ {r} : page'[s] = page[s] /\ call'[s] = call[s]
      /\ page'[r] = p /\ call'[r] = call[r]
  BY DEF PagesInv, PageIs, clientVars
<1>2. CacheInv'
  BY DEF PagesInv, CacheInv, clientVars
<1> QED BY <1>1, <1>2, OneRequest

\* The same, for a step that leaves the cache alone.
LEMMA PageAndCall ==
  ASSUME PagesInv, NEW r \in Requests, NEW p, PageIs(r, p), cached' = cached,
         DOMAIN call' = Requests, \A s \in Requests \ {r} : call'[s] = call[s],
         RequestInv(p, call'[r])
  PROVE  PagesInv'
<1>1. /\ DOMAIN page' = Requests
      /\ \A s \in Requests \ {r} : page'[s] = page[s]
      /\ page'[r] = p
  BY DEF PagesInv, PageIs
<1>2. CacheInv'
  BY DEF PagesInv, CacheInv
<1>3. PICK c : c = call'[r]
  OBVIOUS
<1> QED BY <1>1, <1>2, <1>3, OneRequest

\* The second normalisation accepts what the decorator has let through.
LEMMA SecondPass ==
  ASSUME PagesInv, NEW r \in Requests, page[r].at \in {"read", "count"}, NEW count \in Nat
  PROVE  Normalises(page[r], count)
<1>1. Rewritten(page[r].query, page[r].view)
  BY DEF PagesInv, RequestInv
<1> QED BY <1>1, PageOfRange DEF Normalises, Rewritten, LetsThrough

\* A read that finds `count` pages and asks for the rows of the page.
LEMMA ProceedKeeps ==
  ASSUME PagesInv, NEW r \in Requests, page[r].at \in {"read", "count"}, NEW count \in Nat,
         page[r].view = "overview" => count = 1,
         page[r].view = "index" => count \in PageCounts,
         PageIs(r, [at |-> "market", view |-> page[r].view,
                    query |-> page[r].query, count |-> count]),
         cached' = cached, DOMAIN call' = Requests,
         \A s \in Requests \ {r} : call'[s] = call[s],
         \/ page[r].view # "index" /\ call'[r].at = "returned" /\ call'[r].data = NoData
         \/ Asks(call'[r], IF page[r].view = "index"
                           THEN MarketPage(PageOf(page[r].query, count)) ELSE ByIds)
  PROVE  PagesInv'
<1> DEFINE p == [at |-> "market", view |-> page[r].view,
                 query |-> page[r].query, count |-> count]
<1>1. page[r].view \in Views /\ Rewritten(page[r].query, page[r].view)
  BY DEF PagesInv, RequestInv
<1>2. /\ p.at = "market" /\ p.view = page[r].view /\ p.query = page[r].query
      /\ p.count = count
  OBVIOUS
<1>3. PageIs(r, p)
  OBVIOUS
<1> HIDE DEF p
<1>4. Asks(call'[r], Subject(p)) \/ AsksNothing(p, call'[r])
  BY <1>2 DEF Subject, AsksNothing
<1>5. RequestInv(p, call'[r])
  BY <1>1, <1>2, <1>4 DEF RequestInv
<1>6. PICK q : q = p
  OBVIOUS
<1> QED BY <1>3, <1>5, <1>6, PageAndCall

LEMMA ReadsKeep ==
  ASSUME PagesInv, NEW r \in Requests,
         CountMarket(r) \/ OpenIndex(r) \/ ReadMatches(r) \/ ReadWatchlist(r) \/ ReadBalances(r)
  PROVE  PagesInv'
<1>0. DOMAIN call = Requests /\ RequestInv(page[r], call[r])
  BY DEF PagesInv
<1>1. ASSUME NEW some \in BOOLEAN, AskForIds(r, some), page[r].view # "index"
      PROVE  /\ cached' = cached /\ DOMAIN call' = Requests
             /\ \A s \in Requests \ {r} : call'[s] = call[s]
             /\ \/ page[r].view # "index" /\ call'[r].at = "returned" /\ call'[r].data = NoData
                \/ Asks(call'[r], IF page[r].view = "index" THEN MarketPage(1) ELSE ByIds)
  <2>1. CASE some
    BY <1>1, <2>1, AskStarts DEF AskForIds
  <2>2. CASE ~ some
    BY <1>0, <1>1, <2>2 DEF AskForIds, AskNothing, CallIs, Returned
  <2> QED BY <2>1, <2>2
<1>2. CASE CountMarket(r)
  <2>1. /\ page[r].at = "read" /\ page[r].view = "index" /\ Ask(r, CoinList)
        /\ PageIs(r, [page[r] EXCEPT !.at = "count"])
    BY <1>2 DEF CountMarket, Reading, At
  <2>2. /\ Asks(call'[r], CoinList) /\ cached' = cached /\ DOMAIN call' = Requests
        /\ \A s \in Requests \ {r} : call'[s] = call[s]
    BY <2>1, AskStarts
  <2>3. PICK p : p = [page[r] EXCEPT !.at = "count"]
    OBVIOUS
  <2>4. p.at = "count" /\ p.view = page[r].view /\ p.query = page[r].query
    BY <1>0, <2>1, <2>3
  <2>5. RequestInv(p, call'[r])
    BY <1>0, <2>1, <2>2, <2>4 DEF RequestInv, Subject
  <2> QED BY <2>1, <2>2, <2>3, <2>5, PageAndCall
<1>3. CASE OpenIndex(r)
  <2>1. page[r].at = "count" /\ page[r].view = "index" /\ call[r].at = "returned"
    BY <1>0, <1>3 DEF OpenIndex, At, RequestInv
  <2>2. call[r].data \in DataFor(CoinList)
    BY <1>0, <2>1 DEF RequestInv, Asks, AsksNothing, Subject
  <2>3. PICK count \in PageCounts : count = call[r].data.pages
    BY <2>2 DEF DataFor
  <2>4. count \in Nat
    BY PageCountsAssumption
  <2>5. /\ Ask(r, MarketPage(PageOf(page[r].query, count)))
        /\ PageIs(r, [at |-> "market", view |-> page[r].view,
                      query |-> page[r].query, count |-> count])
    BY <1>3, <2>1, <2>3, <2>4, SecondPass DEF OpenIndex, Renormalise, Proceed
  <2>6. PageOf(page[r].query, count) \in Nat
    BY <1>0, <2>1, <2>4, PageOfRange DEF RequestInv
  <2> QED BY <2>1, <2>3, <2>4, <2>5, <2>6, AskStarts, ProceedKeeps
<1>4. CASE ReadMatches(r)
  <2>1. page[r].at = "read" /\ page[r].view = "search"
    BY <1>4 DEF ReadMatches, Reading, At
  <2>2. PICK count \in 0 .. Most : Renormalise(r, count, AskForIds(r, count > 0))
    BY <1>4 DEF ReadMatches
  <2>3. PICK some \in BOOLEAN : some <=> count > 0
    OBVIOUS
  <2>4. /\ AskForIds(r, some)
        /\ PageIs(r, [at |-> "market", view |-> page[r].view,
                      query |-> page[r].query, count |-> count])
    BY <2>1, <2>2, <2>3, SecondPass, MostAssumption DEF Renormalise, Proceed, AskForIds
  <2> QED BY <1>1, <2>1, <2>4, ProceedKeeps, MostAssumption
<1>5. CASE ReadWatchlist(r)
  <2>1. page[r].at = "read" /\ page[r].view = "watchlist"
    BY <1>5 DEF ReadWatchlist, Reading, At
  <2>2. PICK count \in 1 .. Most, some \in BOOLEAN : Renormalise(r, count, AskForIds(r, some))
    BY <1>5 DEF ReadWatchlist
  <2>3. /\ AskForIds(r, some)
        /\ PageIs(r, [at |-> "market", view |-> page[r].view,
                      query |-> page[r].query, count |-> count])
    BY <2>1, <2>2, SecondPass, MostAssumption DEF Renormalise, Proceed
  <2> QED BY <1>1, <2>1, <2>3, ProceedKeeps, MostAssumption
<1>6. CASE ReadBalances(r)
  <2>1. page[r].at = "read" /\ page[r].view = "overview"
    BY <1>6 DEF ReadBalances, Reading, At
  <2>2. PICK some \in BOOLEAN : Proceed(r, 1, AskForIds(r, some))
    BY <1>6 DEF ReadBalances
  <2>3. /\ AskForIds(r, some)
        /\ PageIs(r, [at |-> "market", view |-> page[r].view,
                      query |-> page[r].query, count |-> 1])
    BY <2>2 DEF Proceed
  <2> QED BY <1>1, <2>1, <2>3, ProceedKeeps
<1> QED BY <1>2, <1>3, <1>4, <1>5, <1>6

\* What the data are that a page gets.
LEMMA DataOfPage ==
  ASSUME NEW p, NEW c, RequestInv(p, c), p.at = "market", c.at = "returned"
  PROVE  c.data # NoData =>
              c.data.for = IF p.view = "index" THEN MarketPage(PageOf(p.query, p.count)) ELSE ByIds
<1>1. c.data \in DataFor(Subject(p)) \/ c.data = NoData
  BY DEF RequestInv, Asks, AsksNothing
<1>2. Subject(p) # CoinList
     /\ Subject(p) = IF p.view = "index" THEN MarketPage(PageOf(p.query, p.count)) ELSE ByIds
  BY KeyIsSubject DEF Subject
<1>3. ASSUME c.data \in DataFor(Subject(p))
      PROVE  c.data.for = Subject(p)
  BY <1>2, <1>3 DEF DataFor
<1> QED BY <1>1, <1>2, <1>3

LEMMA AnswersKeep ==
  ASSUME PagesInv, NEW r \in Requests,
         Show(r) \/ ShowTransactions(r) \/ Redirect(r) \/ Degrade(r) \/ Close(r)
  PROVE  PagesInv'
<1>0. DOMAIN call = Requests /\ RequestInv(page[r], call[r])
  BY DEF PagesInv
<1>1. CASE Show(r)
  <2> DEFINE data == call[r].data
             count == page[r].count
             now == Current(page[r].view, page[r].query, count)
  <2>1. /\ page[r].at = "market" /\ call[r].at = "returned"
        /\ call' = [call EXCEPT ![r] = Idle] /\ cached' = cached
    BY <1>1 DEF Show, At, CallIs
  <2>2. /\ page[r].view \in Views /\ Rewritten(page[r].query, page[r].view)
        /\ count \in Nat
        /\ page[r].view = "overview" => count = 1
        /\ page[r].view = "index" => count \in PageCounts
    BY <1>0, <2>1 DEF RequestInv
  <2>3. data # NoData =>
             data.for = IF page[r].view = "index"
                        THEN MarketPage(PageOf(page[r].query, count)) ELSE ByIds
    BY <1>0, <2>1, DataOfPage
  <2>4. Fitting(now, page[r].view, count)
        /\ (page[r].view = "index" => now.page = PageOf(page[r].query, count))
    BY <2>2, CurrentFits
  <2>5. CASE Breaks(page[r], data)
    <3>1. now.sort \in Allowed[page[r].view]
      BY <2>4 DEF Fitting
    <3>2. data.faults # {}
      BY <2>5, <3>1 DEF Breaks, Unpriceable, Unsortable, Unlinkable
    <3>3. PICK p : p = [at |-> "error", faults |-> data.faults]
      OBVIOUS
    <3>4. PageIs(r, p) /\ call'[r] = Idle /\ DOMAIN call' = Requests
          /\ \A s \in Requests \ {r} : call'[s] = call[s]
      BY <1>0, <1>1, <2>1, <2>5, <3>3 DEF Show, Fails
    <3>5. RequestInv(p, call'[r])
      BY <3>2, <3>3, <3>4 DEF RequestInv, Answers
    <3> QED BY <2>1, <3>4, <3>5, PageAndCall
  <2>6. CASE ~ Breaks(page[r], data)
    <3>1. PICK p : p = Shown(r, count, data)
      OBVIOUS
    <3>2. /\ p.at = "shown" /\ p.view = page[r].view /\ p.count = count
          /\ p.rows = data /\ p.current = now
      BY <3>1 DEF Shown
    <3>3. PageIs(r, p) /\ call'[r] = Idle /\ DOMAIN call' = Requests
          /\ \A s \in Requests \ {r} : call'[s] = call[s]
      BY <1>0, <1>1, <2>1, <2>6, <3>1 DEF Show
    <3> HIDE DEF data, count, now
    <3>4. RequestInv(p, call'[r])
      BY <2>2, <2>3, <2>4, <3>2, <3>3 DEF RequestInv, Answers
    <3> QED BY <2>1, <3>3, <3>4, PageAndCall
  <2> QED BY <2>5, <2>6
<1>2. CASE ShowTransactions(r)
  <2>1. page[r].at = "read" /\ page[r].view \in Lists /\ UNCHANGED clientVars
    BY <1>2 DEF ShowTransactions, Reading, At
  <2>2. page[r].view \in Views /\ Rewritten(page[r].query, page[r].view) /\ call[r] = Idle
    BY <1>0, <2>1 DEF RequestInv
  <2>3. PICK count \in 1 .. Most :
          IF Normalises(page[r], count) THEN PageIs(r, Shown(r, count, NoData))
          ELSE Fails(r, {})
    BY <1>2 DEF ShowTransactions
  <2>4. count \in Nat
    BY MostAssumption
  <2>5. PageIs(r, Shown(r, count, NoData))
    BY <2>1, <2>3, <2>4, SecondPass
  <2>6. page[r].view \notin {"index", "overview"}
    BY <2>1 DEF Lists
  <2>7. Fitting(Current(page[r].view, page[r].query, count), page[r].view, count)
    BY <2>2, <2>4, <2>6, CurrentFits
  <2>8. PICK p : p = Shown(r, count, NoData)
    OBVIOUS
  <2>9. /\ p.at = "shown" /\ p.view = page[r].view /\ p.count = count
        /\ p.rows = NoData
        /\ p.current = Current(page[r].view, page[r].query, count)
    BY <2>8 DEF Shown
  <2>10. RequestInv(p, call[r])
    BY <2>2, <2>4, <2>6, <2>7, <2>9 DEF RequestInv, Answers
  <2> QED BY <2>1, <2>5, <2>8, <2>10, OnlyPage
<1>3. CASE Redirect(r)
  <2>1. PICK p : p = [at |-> "redirect"]
    OBVIOUS
  <2>2. call[r] = Idle
    BY <1>0, <1>3 DEF Redirect, Reading, At, RequestInv
  <2>3. RequestInv(p, call[r])
    BY <2>1, <2>2 DEF RequestInv, Answers
  <2> QED BY <1>3, <2>1, <2>3, OnlyPage DEF Redirect
<1>4. CASE Degrade(r)
  <2>1. PICK last \in Failures : Fail(r, last) /\ PageIs(r, [at |-> "banner"])
    BY <1>4 DEF Degrade
  <2>2. PICK p : p = [at |-> "banner"]
    OBVIOUS
  <2>3. /\ call'[r] = Idle /\ DOMAIN call' = Requests /\ cached' = cached
        /\ \A s \in Requests \ {r} : call'[s] = call[s]
    BY <1>0, <2>1 DEF Fail, CallIs
  <2>4. RequestInv(p, call'[r])
    BY <2>2, <2>3 DEF RequestInv, Answers
  <2> QED BY <2>1, <2>2, <2>3, <2>4, PageAndCall
<1>5. CASE Close(r)
  <2>1. PICK p : p = NoPage
    OBVIOUS
  <2>2. call[r] = Idle
    BY <1>0, <1>5 DEF Close, Answers, RequestInv
  <2>3. RequestInv(p, call[r])
    BY <2>1, <2>2 DEF RequestInv, NoPage
  <2> QED BY <1>5, <2>1, <2>3, OnlyPage DEF Close
<1> QED BY <1>1, <1>2, <1>3, <1>4, <1>5

\* An answer of CoinGecko, or one more attempt; what is stored is stored under
\* the key it was asked for with.
LEMMA ClientKeeps ==
  ASSUME PagesInv, NEW r \in Requests, ClientStep(r), UNCHANGED page
  PROVE  PagesInv'
<1>0. DOMAIN page = Requests /\ DOMAIN call = Requests /\ CacheInv
      /\ RequestInv(page[r], call[r])
  BY DEF PagesInv
<1> DEFINE f == Subject(page[r])
<1>1. /\ call[r].at \in {"open", "read"}
      /\ call' = [call EXCEPT ![r] = call'[r]]
  BY <1>0 DEF ClientStep, Retry, Receive, Store, CallIs
<1>2. /\ page[r].at \in {"count", "market"} /\ Asks(call[r], f)
      /\ call[r].for = f
      /\ call[r].at = "open" => call[r].left \in 0 .. Retries
      /\ call[r].at = "read" => Cacheable(f) /\ call[r].data \in DataFor(f)
  BY <1>0, <1>1 DEF RequestInv, Asks, AsksNothing, Idle
<1>3. ASSUME Asks(call'[r], f), CacheInv' PROVE PagesInv'
  <2>1. RequestInv(page[r], call'[r])
    BY <1>0, <1>2, <1>3 DEF RequestInv
  <2>2. PICK p, c : p = page[r] /\ c = call'[r]
    OBVIOUS
  <2>3. /\ DOMAIN call' = Requests /\ \A s \in Requests \ {r} : call'[s] = call[s]
    BY <1>0, <1>1
  <2> QED BY <1>0, <1>3, <2>1, <2>2, <2>3, OneRequest
<1>4. CASE Retry(r)
  <2>1. /\ call[r].at = "open" /\ call[r].left > 0 /\ cached' = cached
        /\ call'[r] = Open(f, call[r].left - 1)
    BY <1>0, <1>2, <1>4 DEF Retry, CallIs
  <2>2. call[r].left - 1 \in 0 .. Retries
    BY <1>2, <2>1, RetriesAssumption
  <2>3. Asks(call'[r], f)
    BY <2>1, <2>2 DEF Asks, Open
  <2> QED BY <1>0, <1>3, <2>1, <2>3 DEF CacheInv
<1>5. CASE Receive(r)
  <2>1. call[r].at = "open" /\ cached' = cached
    BY <1>5 DEF Receive
  <2>2. PICK data \in DataFor(f) :
          call' = [call EXCEPT ![r] = IF Cacheable(f) THEN Read(f, data) ELSE Returned(data)]
    BY <1>2, <1>5 DEF Receive, CallIs
  <2>3. Asks(call'[r], f)
    BY <1>0, <2>2 DEF Asks, Read, Returned
  <2> QED BY <1>0, <1>3, <2>1, <2>3 DEF CacheInv
<1>6. CASE Store(r)
  <2>1. /\ call[r].at = "read"
        /\ cached' = [k \in DOMAIN cached \cup {Key(f)} |->
                        IF k = Key(f) THEN call[r].data ELSE cached[k]]
        /\ call'[r] = Returned(call[r].data)
    BY <1>0, <1>2, <1>6 DEF Store, CallIs
  <2>2. Cacheable(f) /\ call[r].data \in DataFor(f)
    BY <1>2, <2>1
  <2>3. /\ Key(f) = f
        /\ \/ f = CoinList
           \/ \E n \in Nat \ {0} : f = MarketPage(n) /\ \E count \in PageCounts : n <= count
    <3>1. CASE page[r].at = "count"
      BY <3>1, KeyIsSubject DEF Subject
    <3>2. CASE page[r].at = "market"
      <4>1. page[r].view = "index"
        BY <2>2, <3>2, KeyIsSubject DEF Subject
      <4>2. /\ Rewritten(page[r].query, page[r].view)
            /\ page[r].count \in PageCounts /\ page[r].count \in Nat \ {0}
        BY <1>0, <3>2, <4>1, PageCountsAssumption DEF RequestInv
      <4>3. PICK n : n = PageOf(page[r].query, page[r].count)
        OBVIOUS
      <4>4. n \in Nat \ {0} /\ n <= page[r].count
        BY <4>2, <4>3, PageOfRange
      <4>5. f = MarketPage(n)
        BY <3>2, <4>1, <4>3 DEF Subject
      <4> QED BY <4>2, <4>4, <4>5, KeyIsSubject
    <3> QED BY <1>2, <3>1, <3>2
  <2>4. Asks(call'[r], f)
    BY <2>1, <2>2 DEF Asks, Returned
  <2> HIDE DEF f
  <2>5. CacheInv'
    BY <1>0, <2>1, <2>2, <2>3 DEF CacheInv
  <2> QED BY <1>3, <2>4, <2>5
<1> QED BY <1>4, <1>5, <1>6 DEF ClientStep

LEMMA PagesNext == PagesInv /\ [Next]_vars => PagesInv'
<1> SUFFICES ASSUME PagesInv, [Next]_vars PROVE PagesInv'
  OBVIOUS
<1>1. ASSUME NEW r \in Requests, Step(r) PROVE PagesInv'
  BY <1>1, ReadsKeep, AnswersKeep, ClientKeeps DEF Step
<1>2. ASSUME NEW r \in Requests, CutOff(r) PROVE PagesInv'
  <2>1. /\ PageIs(r, NoPage) /\ cached' = cached /\ call' = [call EXCEPT ![r] = Idle]
    BY <1>2 DEF CutOff, CallIs
  <2>2. /\ DOMAIN call' = Requests /\ call'[r] = Idle
        /\ \A s \in Requests \ {r} : call'[s] = call[s]
    BY <2>1 DEF PagesInv
  <2>3. PICK p : p = NoPage
    OBVIOUS
  <2>4. RequestInv(p, call'[r])
    BY <2>2, <2>3 DEF RequestInv, NoPage
  <2> QED BY <2>1, <2>2, <2>3, <2>4, PageAndCall
<1>3. ASSUME NEW r \in Requests, NEW w \in Visits[r],
             Arrive(r, w[1], w[2]) \/ TurnAway(r, w[1], w[2])
      PROVE  PagesInv'
  <2>1. w[1] \in Views /\ w[2] \in QueryStates
    BY VisitsAssumption
  <2>2. page[r].at = "idle" /\ call[r] = Idle /\ UNCHANGED clientVars
    BY <1>3 DEF Arrive, TurnAway, At, PagesInv, RequestInv
  <2>3. CASE Arrive(r, w[1], w[2])
    <3>1. PICK p : p = [at |-> "read", view |-> w[1], query |-> Synced(w[2])]
      OBVIOUS
    <3>2. Rewritten(Synced(w[2]), w[1])
      BY <2>1, <2>3, SyncedIsRewritten DEF Arrive
    <3>3. RequestInv(p, call[r])
      BY <2>1, <2>2, <3>1, <3>2 DEF RequestInv, Answers
    <3> QED BY <2>2, <2>3, <3>1, <3>3, OnlyPage DEF Arrive
  <2>4. CASE TurnAway(r, w[1], w[2])
    <3>1. PICK p : p = [at |-> "redirect"]
      OBVIOUS
    <3>2. RequestInv(p, call[r])
      BY <2>2, <3>1 DEF RequestInv, Answers
    <3> QED BY <2>2, <2>4, <3>1, <3>2, OnlyPage DEF TurnAway
  <2> QED BY <1>3, <2>3, <2>4
<1>4. ASSUME NEW k \in DOMAIN cached, Expire(k), UNCHANGED page PROVE PagesInv'
  <2>1. CacheInv'
    BY <1>4 DEF Expire, PagesInv, CacheInv
  <2> QED BY <1>4, <2>1 DEF Expire, PagesInv
<1>5. CASE UNCHANGED vars
  BY <1>5 DEF vars, clientVars, PagesInv, CacheInv
<1> QED BY <1>1, <1>2, <1>3, <1>4, <1>5 DEF Next

-----------------------------------------------------------------------------
(* The properties.                                                         *)

\* A request has a call while it waits for one, and what is cached under a key
\* was asked for with it.
THEOREM PagesTypeOK == Spec => []TypeOK
<1>1. PagesInv => TypeOK
  <2> SUFFICES ASSUME PagesInv PROVE TypeOK
    OBVIOUS
  <2>1. /\ DOMAIN cached \subseteq {CoinList} \cup [what : {"page"}, page : Nat \ {0}]
        /\ \A k \in DOMAIN cached : cached[k] \in DataFor(k)
    BY DEF PagesInv, CacheInv, MarketPage
  <2>2. ASSUME NEW r \in Requests
        PROVE  /\ page[r].at \in {"idle", "read", "count", "market"} \cup Answers
               /\ page[r].at \in {"count", "market"} <=> call[r] # Idle
               /\ page[r].at \in {"read", "count", "market"} =>
                    page[r].view \in Views /\ page[r].query \in QueryStates
               /\ call[r].at = "open" => call[r].left \in 0..Retries
    <3>1. RequestInv(page[r], call[r])
      BY DEF PagesInv
    <3>2. page[r].at \in {"count", "market"} => call[r] # Idle
      BY <3>1, AsksNotIdle DEF RequestInv
    <3>3. call[r].at = "open" => call[r].left \in 0..Retries
      BY <3>1 DEF RequestInv, Asks, AsksNothing, Idle
    <3> QED BY <3>1, <3>2, <3>3 DEF RequestInv, Rewritten
  <2> QED BY <2>1, <2>2 DEF TypeOK
<1> QED BY <1>1, PagesInit, PagesNext, PTL DEF Spec

\* The clamp bounds the cache: whatever page is asked for, only pages that some
\* list of CoinGecko has are cached.
THEOREM PagesCacheBounded == Spec => []CacheBounded
<1>1. PagesInv => CacheBounded
  BY DEF PagesInv, CacheInv, CacheBounded, MarketPage
<1> QED BY <1>1, PagesInit, PagesNext, PTL DEF Spec

\* The index shows the market page of its own number and the other pages the
\* rows of their ids, whoever filled the cache.
THEOREM PagesShowTheirOwn == Spec => []ShowsItsOwn
<1>1. PagesInv => ShowsItsOwn
  BY DEF PagesInv, RequestInv, ShowsItsOwn, At
<1> QED BY <1>1, PagesInit, PagesNext, PTL DEF Spec

\* "The page stays usable": no query, no page count that changes between the two
\* passes, no failure of CoinGecko and no other request leads to a server error,
\* only rows that have no id, no name or not the keys that the page reads.
THEOREM PagesNoServerError == Spec => []NoServerError
<1>1. PagesInv => NoServerError
  BY DEF PagesInv, RequestInv, NoServerError, At
<1> QED BY <1>1, PagesInit, PagesNext, PTL DEF Spec

\* Every query that a page links to is rewritten to itself.
LEMMA LinkIsRewritten ==
  ASSUME NEW v \in Views, NEW n \in Nat \ {0}, NEW key \in Allowed[v],
         NEW direction \in Directions, NEW search \in SearchOf(v),
         NEW link, link = [page |-> Plain(n), sort |-> Plain(key),
                           direction |-> Plain(direction), search |-> search]
  PROVE  /\ LetsThrough(v, link) /\ Synced(link) = link
         /\ Given(link.page) /\ link.page.text = n
         /\ Given(link.sort) /\ Raw(link.sort, Default[v].sort) = key /\ link.sort.text = key
         /\ Raw(link.direction, Default[v].direction) = direction
         /\ link.direction.text = direction
         /\ (IF v = "search" THEN Plain(link.search.text) ELSE Absent) = search
<1>1. n \in Texts /\ key \in Texts /\ direction \in Texts
  BY AllowedAssumption DEF Texts
<1>2. \A text \in {n, key, direction} :
        /\ Given(Plain(text)) /\ Plain(text) # Absent
        /\ Plain(text).plain /\ Plain(text).text = text
  BY <1>1, PlainIsGiven
<1>3. /\ link.page = Plain(n) /\ link.sort = Plain(key) /\ link.direction = Plain(direction)
      /\ link.search = search
      /\ DOMAIN link = {"page", "sort", "direction", "search"}
  OBVIOUS
<1>4. Synced(link) = link
  BY <1>2, <1>3 DEF Synced
<1>5. Accepted(link, Allowed[v])
  BY <1>2, <1>3 DEF Accepted, PageAccepted, SortAccepted
<1>6. CASE v = "search"
  <2>1. PICK text \in Terms : search = Plain(text)
    BY <1>6 DEF SearchOf
  <2>2. text \in Texts
    BY DEF Texts
  <2>3. Given(search) /\ search.text = text
    BY <2>1, <2>2, PlainIsGiven
  <2>4. LetsThrough(v, link)
    BY <1>3, <1>5, <2>3 DEF LetsThrough
  <2>5. Plain(link.search.text) = search
    BY <1>3, <2>1, <2>3
  <2> QED BY <1>2, <1>3, <1>4, <1>6, <2>4, <2>5 DEF Raw, Given
<1>7. CASE v # "search"
  <2>1. LetsThrough(v, link)
    BY <1>5, <1>7 DEF LetsThrough
  <2>2. search = Absent
    BY <1>7 DEF SearchOf
  <2> QED BY <1>2, <1>3, <1>4, <1>7, <2>1, <2>2 DEF Raw, Given
<1> QED BY <1>6, <1>7

\* A link leads to the page, sort, direction and search that it names.
LEMMA LinkLeadsOn ==
  ASSUME NEW p, p.view \in Views, p.count \in Nat,
         NEW n \in Nat \ {0}, n <= (IF p.count > 1 THEN p.count ELSE 1),
         p.view = "overview" => n = 1,
         NEW key \in Allowed[p.view], NEW direction \in Directions,
         NEW search \in SearchOf(p.view)
  PROVE  LeadsTo([page |-> Plain(n), sort |-> Plain(key), direction |-> Plain(direction),
                  search |-> search], p,
                 [page |-> n, sort |-> key, direction |-> direction, search |-> search])
<1> DEFINE link == [page |-> Plain(n), sort |-> Plain(key), direction |-> Plain(direction),
                    search |-> search]
<1>1. /\ LetsThrough(p.view, link) /\ Synced(link) = link
      /\ Given(link.page) /\ link.page.text = n
      /\ Given(link.sort) /\ Raw(link.sort, Default[p.view].sort) = key /\ link.sort.text = key
      /\ Raw(link.direction, Default[p.view].direction) = direction
      /\ link.direction.text = direction
      /\ (IF p.view = "search" THEN Plain(link.search.text) ELSE Absent) = search
  BY LinkIsRewritten
<1> HIDE DEF link
<1>2. PageOf(link, p.count) = n
  BY <1>1 DEF PageOf
<1>3. Current(p.view, link, p.count) =
        [page |-> n, sort |-> key, direction |-> direction, search |-> search]
  BY <1>1, <1>2 DEF Current, SortingOf
<1> QED BY <1>1, <1>3 DEF LeadsTo, link

\* The arrows, the headers and the forms of a page lead, without a redirect, to
\* the page, the order and the search that they stand for.
THEOREM PagesLinksLeadOn == Spec => []LinksLeadOn
<1>1. PagesInv => LinksLeadOn
  <2> SUFFICES ASSUME PagesInv, NEW r \in Requests, At(r, "shown")
               PROVE
                 LET p == page[r]
                     now == p.current
                     turned == IF now.direction = "asc" THEN "desc" ELSE "asc"
                 IN  /\ \A key \in Allowed[p.view] :
                          LeadsTo(SortLink(key, now), p,
                            [page |-> now.page, sort |-> key, search |-> now.search,
                             direction |-> IF key = now.sort THEN turned ELSE "asc"])
                     /\ \A n \in {now.page - 1, now.page, now.page + 1} \cap 1..p.count :
                          LeadsTo(PaginationQuery(n, now, SendsSearch(p.view)), p,
                                  [now EXCEPT !.page = n])
    BY DEF LinksLeadOn
  <2> DEFINE p == page[r]
             now == p.current
             turned == IF now.direction = "asc" THEN "desc" ELSE "asc"
  <2>1. /\ p.view \in Views /\ p.count \in Nat /\ Fitting(now, p.view, p.count)
        /\ p.view = "overview" => p.count = 1
    BY DEF PagesInv, RequestInv, At
  <2>2. /\ now.page \in Nat \ {0} /\ now.sort \in Allowed[p.view]
        /\ now.direction \in Directions /\ now.search \in SearchOf(p.view)
        /\ now.page <= (IF p.count > 1 THEN p.count ELSE 1)
        /\ p.view = "overview" => now.page = 1
        /\ now = [page |-> now.page, sort |-> now.sort, direction |-> now.direction,
                  search |-> now.search]
    BY <2>1 DEF Fitting
  <2> HIDE DEF p, now
  <2>3. ASSUME NEW key \in Allowed[p.view]
        PROVE  LeadsTo(SortLink(key, now), p,
                 [page |-> now.page, sort |-> key, search |-> now.search,
                  direction |-> IF key = now.sort THEN turned ELSE "asc"])
    <3>1. PICK direction \in Directions :
            direction = IF key = now.sort THEN turned ELSE "asc"
      BY DEF Directions
    <3>2. PICK q, n, search : q = p /\ n = now.page /\ search = now.search
      OBVIOUS
    <3>3. SortLink(key, now) =
            [page |-> Plain(n), sort |-> Plain(key), direction |-> Plain(direction),
             search |-> search]
      BY <2>2, <3>1, <3>2 DEF SortLink, Directions
    <3>4. LeadsTo([page |-> Plain(n), sort |-> Plain(key), direction |-> Plain(direction),
                   search |-> search], q,
                  [page |-> n, sort |-> key, direction |-> direction, search |-> search])
      BY <2>1, <2>2, <3>2, LinkLeadsOn
    <3> QED BY <3>1, <3>2, <3>3, <3>4
  <2>4. ASSUME NEW n \in {now.page - 1, now.page, now.page + 1} \cap 1..p.count
        PROVE  LeadsTo(PaginationQuery(n, now, SendsSearch(p.view)), p,
                       [now EXCEPT !.page = n])
    <3>1. n \in Nat \ {0} /\ n <= p.count /\ (p.view = "overview" => n = 1)
      BY <2>1
    <3>2. PICK q, key, direction, search :
            q = p /\ key = now.sort /\ direction = now.direction /\ search = now.search
      OBVIOUS
    <3>3. LeadsTo([page |-> Plain(n), sort |-> Plain(key), direction |-> Plain(direction),
                   search |-> search], q,
                  [page |-> n, sort |-> key, direction |-> direction, search |-> search])
      BY <2>1, <2>2, <3>1, <3>2, LinkLeadsOn
    <3>4. [now EXCEPT !.page = n] =
            [page |-> n, sort |-> key, direction |-> direction, search |-> search]
      <4>1. PICK m : m = now.page
        OBVIOUS
      <4>2. now = [page |-> m, sort |-> key, direction |-> direction, search |-> search]
        BY <2>2, <3>2, <4>1
      <4> QED BY <4>2
    <3>5. (IF SendsSearch(p.view) THEN now.search ELSE Absent) = search
      BY <2>2, <3>2 DEF SendsSearch, SearchOf
    <3>6. PaginationQuery(n, now, SendsSearch(p.view)) =
            [page |-> Plain(n), sort |-> Plain(key), direction |-> Plain(direction),
             search |-> search]
      BY <3>2, <3>5 DEF PaginationQuery
    <3> QED BY <3>2, <3>3, <3>4, <3>6
  <2> QED BY <2>3, <2>4 DEF p, now
<1> QED BY <1>1, PagesInit, PagesNext, PTL DEF Spec
=============================================================================
