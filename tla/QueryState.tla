------------------------------ MODULE QueryState ------------------------------
(***************************************************************************)
(* Page, sort, direction and search in the query string: what              *)
(* common/utils.py accepts and makes of the first three, how the decorator *)
(* of common/decorators/views.py rewrites them, and the links that the     *)
(* template tags of common_extras.py put on a page.                        *)
(*                                                                         *)
(* A parameter is absent, blank, or has a text; it is plain when it is     *)
(* written as str() would write it, without blanks around it.  As a page,  *)
(* 0 stands for every text that is not a positive integer.                 *)
(***************************************************************************)
EXTENDS Integers

CONSTANTS
  Sorts,     \* the sort orders of all pages
  Terms,     \* the texts that are searched for
  Unknown,   \* a text that is none of the words it should be
  Absent,    \* the query has no such parameter
  Blank      \* the parameter is empty or all blanks

Directions == {"asc", "desc"}

ASSUME ParameterAssumption ==
  /\ Unknown \notin Sorts \cup Directions /\ Absent # Blank
  /\ \A x \in {Absent, Blank} :
       x \notin [text : Nat \cup Sorts \cup Directions \cup {Unknown} \cup Terms,
                 plain : BOOLEAN]

Parameters(texts) == {Absent, Blank} \cup [text : texts, plain : BOOLEAN]

QueryStates ==
  [page : Parameters(Nat), sort : Parameters(Sorts \cup {Unknown}),
   direction : Parameters(Directions \cup {Unknown}), search : Parameters(Terms)]

Plain(text) == [text |-> text, plain |-> TRUE]

Given(x) == x \notin {Absent, Blank}

\* What request.GET.get returns, where only the exact words count.
Raw(x, default) ==
  IF x = Absent THEN default
  ELSE IF x # Blank /\ x.plain THEN x.text ELSE Unknown

-----------------------------------------------------------------------------
(* normalize_query_state.                                                  *)

PageAccepted(q) == Given(q.page) => q.page.text >= 1

\* Sort and direction come together or not at all.
SortAccepted(q, allowed) ==
  \/ ~ Given(q.sort) /\ ~ Given(q.direction)
  \/ /\ Given(q.sort) /\ q.sort.text \in allowed
     /\ Given(q.direction) /\ q.direction.text \in Directions

Accepted(q, allowed) == PageAccepted(q) /\ SortAccepted(q, allowed)

PageOf(q, count) ==
  LET page == IF Given(q.page) THEN q.page.text ELSE 1
      last == IF count > 1 THEN count ELSE 1
  IN  IF page < last THEN page ELSE last

SortingOf(q, default) ==
  IF Given(q.sort)
  THEN [sort |-> q.sort.text, direction |-> q.direction.text]
  ELSE default

-----------------------------------------------------------------------------
(* _sync_normalized_query_params: the rewritten query.                     *)

\* Mutant: a blank parameter stays in the query.
SyncedIfGiven(q) ==
  [k \in DOMAIN q |->
     IF k # "search" /\ Given(q[k]) THEN Plain(q[k].text) ELSE q[k]]

\* The search text is not its business.
Synced(q) ==
  [k \in DOMAIN q |->
     IF k = "search" THEN q[k] ELSE IF Given(q[k]) THEN Plain(q[k].text) ELSE Absent]

-----------------------------------------------------------------------------
(* The links of a page that shows `current`, whose `search` is the text that *)
(* the page was searched for, and Absent where there is none.               *)

\* Mutant: the links never carry the search.
PaginationWithoutSearch(page, current, include) ==
  [page |-> Plain(page), sort |-> Plain(current.sort),
   direction |-> Plain(current.direction), search |-> Absent]

PaginationQuery(page, current, include) ==
  [page |-> Plain(page), sort |-> Plain(current.sort),
   direction |-> Plain(current.direction),
   search |-> IF include THEN current.search ELSE Absent]

SortLink(key, current) ==
  [page |-> Plain(current.page), sort |-> Plain(key),
   direction |-> IF current.sort = key /\ current.direction = "asc"
                 THEN Plain("desc") ELSE Plain("asc"),
   search |-> current.search]
=============================================================================
