------------------------------- MODULE MCPages -------------------------------
(* Two sorts and two directions per view, of which the default is one; each *)
(* parameter in every form, beside the forms of the others that matter.     *)
EXTENDS Pages, TLC

CONSTANTS
  r1, r2,
  lead, other,  \* the default sort of each view, and another: the coin pages' by name
  term          \* what is searched for

MCSorts == {lead, other}
MCTerms == {term}
MCAllowed == [v \in Views |-> {lead, other}]
MCDefault ==
  [v \in Views |->
     [sort |-> lead,
      direction |-> IF v = "overview" \/ v \in Lists THEN "desc" ELSE "asc"]]

Forms(good, bad) ==
  {Absent, Blank, Plain(good), [text |-> good, plain |-> FALSE], Plain(bad)}

\* Every combination of sort and direction on one page.
Orders ==
  [page : {Plain(2)}, sort : Forms(other, Unknown), direction : Forms("desc", Unknown),
   search : {Plain(term)}]

\* Every form of the page, the first, the last and one beyond, in one order.
PagesAsked ==
  [page : Forms(2, 0) \cup {Plain(1), Plain(3)}, sort : {Absent}, direction : {Absent},
   search : {Plain(term)}]

Second == [page |-> Plain(2), sort |-> Absent, direction |-> Absent, search |-> Absent]
Named == [page |-> Absent, sort |-> Plain(other), direction |-> Plain("asc"),
          search |-> Absent]

\* The search text in its other forms; the other pages do not look at it.
Searches == {[Named EXCEPT !.search = x] : x \in Parameters(MCTerms)}

MCQueries ==
  (Views \X Orders) \cup ({"index", "search"} \X PagesAsked)
    \cup ({"search"} \X Searches)

\* One request may be for anything; the other is there for the shared cache.
MCVisits == (r1 :> MCQueries) @@ (r2 :> {<<"index", Second>>})

\* A single request shows what CoinGecko's rows do.
MCVisitsAlone == r1 :> MCQueries

\* Well-formed rows, and rows that break a page sorted by name or the overview.
TwoKinds == {{}, {"name", "key"}}
AllKinds == SUBSET {"id", "name", "key"}
=============================================================================
