------------------------------ MODULE Watchlist ------------------------------
(***************************************************************************)
(* add_remove_to_watchlist of coins/views.py, by the statements that it    *)
(* and Django's get_or_create send, each a transaction of its own: clicks  *)
(* on one coin, from two tabs or twice in a row, run side by side.         *)
(*                                                                         *)
(* Each toggle is one click.  A row has the key that it was inserted with, *)
(* and is deleted by it.  The sync delists and relists coins meanwhile.    *)
(***************************************************************************)
EXTENDS Integers

CONSTANTS
  Toggles,   \* the clicks
  Coins      \* the coins clicked on

VARIABLES
  active,    \* is_active of the coins
  watched,   \* the rows of Watchlist
  newest,    \* the key of the newest row
  toggle     \* where each click is

watchVars == <<active, watched, newest, toggle>>

NoToggle == [at |-> "idle"]

InFlight(t) ==
  toggle[t].at \in {"clicked", "found", "inserting", "conflict", "deleting"}

\* The rows of t's user and coin.
RowsOf(t) == {w \in watched : w.user = toggle[t].user /\ w.coin = toggle[t].coin}

SamePair(s, t) ==
  /\ toggle[s] # NoToggle /\ toggle[t] # NoToggle
  /\ toggle[s].user = toggle[t].user /\ toggle[s].coin = toggle[t].coin

Go(t, at) == toggle' = [toggle EXCEPT ![t].at = at]

WatchInit(old, last) ==
  /\ active = [c \in Coins |-> TRUE]
  /\ watched = old
  /\ newest = last
  /\ toggle = [t \in Toggles |-> NoToggle]

\* `was` says whether the coin was watched at the click, and `alone` whether no
\* other click on it has been in flight since; only a property reads them.
Click(t, u, c) ==
  LET others == {s \in Toggles : InFlight(s) /\ toggle[s].user = u /\ toggle[s].coin = c}
  IN  /\ toggle[t] = NoToggle
      /\ toggle' = [s \in Toggles |->
           IF s = t
           THEN [at |-> "clicked", user |-> u, coin |-> c, key |-> 0,
                 was |-> \E w \in watched : w.user = u /\ w.coin = c,
                 alone |-> others = {}]
           ELSE IF s \in others THEN [toggle[s] EXCEPT !.alone = FALSE] ELSE toggle[s]]
      /\ UNCHANGED <<active, watched, newest>>

\* Coin.objects.get: a click on a delisted coin does nothing.
FindCoin(t) ==
  /\ toggle[t].at = "clicked"
  /\ Go(t, IF active[toggle[t].coin] THEN "found" ELSE "ignored")
  /\ UNCHANGED <<active, watched, newest>>

\* Mutant: a row that is there is kept.
GetAndKeep(t) ==
  /\ toggle[t].at \in {"found", "conflict"}
  /\ \E w \in RowsOf(t) :
       toggle' = [toggle EXCEPT ![t].at = "added", ![t].key = w.key]
  /\ UNCHANGED <<active, watched, newest>>

\* get_or_create: the row is there, and will be deleted.
Get(t) ==
  /\ toggle[t].at \in {"found", "conflict"}
  /\ \E w \in RowsOf(t) :
       toggle' = [toggle EXCEPT ![t].at = "deleting", ![t].key = w.key]
  /\ UNCHANGED <<active, watched, newest>>

GetNothing(t) ==
  /\ toggle[t].at = "found" /\ RowsOf(t) = {}
  /\ Go(t, "inserting")
  /\ UNCHANGED <<active, watched, newest>>

Insert(t) ==
  /\ toggle[t].at = "inserting" /\ RowsOf(t) = {}
  /\ newest' = newest + 1
  /\ watched' = watched \cup
       {[user |-> toggle[t].user, coin |-> toggle[t].coin, key |-> newest']}
  /\ toggle' = [toggle EXCEPT ![t].at = "added", ![t].key = newest']
  /\ UNCHANGED active

\* Mutant: a conflict is not looked into.
ConflictRaised(t) ==
  /\ toggle[t].at = "inserting" /\ RowsOf(t) # {}
  /\ Go(t, "error")
  /\ UNCHANGED <<active, watched, newest>>

\* unique_watchlist refuses the row; its savepoint is rolled back.
Conflict(t) ==
  /\ toggle[t].at = "inserting" /\ RowsOf(t) # {}
  /\ Go(t, "conflict")
  /\ UNCHANGED <<active, watched, newest>>

\* The row that was in the way is gone: get_or_create raises its IntegrityError.
ConflictVanished(t) ==
  /\ toggle[t].at = "conflict" /\ RowsOf(t) = {}
  /\ Go(t, "error")
  /\ UNCHANGED <<active, watched, newest>>

\* Mutant: all rows of the user and coin are deleted.
DeletePair(t) ==
  /\ toggle[t].at = "deleting"
  /\ watched' = watched \ RowsOf(t)
  /\ Go(t, "removed")
  /\ UNCHANGED <<active, newest>>

\* By key; it is no error when the row is gone.
Delete(t) ==
  /\ toggle[t].at = "deleting"
  /\ watched' = {w \in watched : w.key # toggle[t].key}
  /\ Go(t, "removed")
  /\ UNCHANGED <<active, newest>>

SetActive(c) ==
  /\ active' = [active EXCEPT ![c] = ~ @]
  /\ UNCHANGED <<watched, newest, toggle>>

Toggle(t) ==
  \/ FindCoin(t) \/ Get(t) \/ GetNothing(t) \/ Insert(t)
  \/ Conflict(t) \/ ConflictVanished(t) \/ Delete(t)

-----------------------------------------------------------------------------
\* A toggle undoes what it saw: a row added since by another click survives the
\* late delete, and goes only by a click that found that very row.
LateDeleteSparesNewRow ==
  \A t \in Toggles :
    toggle[t].at = "added" =>
      \/ \E w \in watched : w.key = toggle[t].key
      \/ \E s \in Toggles : toggle[s].at = "removed" /\ toggle[s].key = toggle[t].key

\* A click that ends in a server error is beside two others on its coin: one has
\* added a row and another has removed that very row.
ErrorNeedsThree ==
  \A t \in Toggles :
    toggle[t].at = "error" =>
      \E s, u \in Toggles :
        /\ SamePair(s, t) /\ toggle[s].at = "added"
        /\ SamePair(u, t) /\ toggle[u].at = "removed" /\ toggle[u].key = toggle[s].key
=============================================================================
