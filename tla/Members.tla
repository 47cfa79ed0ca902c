------------------------------- MODULE Members -------------------------------
(***************************************************************************)
(* Visitors register, and whoever has an account keeps a watchlist, while  *)
(* the sync delists and relists coins.                                     *)
(***************************************************************************)
EXTENDS Registration, Watchlist

CONSTANT Starts   \* accounts and watchlist rows from before, and the newest row's key

ASSUME StartsAssumption ==
  \A s \in Starts :
    /\ \A a \in s.accounts : a.name \in Names /\ a.owner \in Visitors
    /\ \A a, b \in s.accounts : a.name = b.name => a = b
    /\ s.newest \in Nat
    /\ \A w \in s.watched :
         /\ w.key \in 1..s.newest /\ w.coin \in Coins
         /\ \E a \in s.accounts : a.name = w.user
    /\ \A v, w \in s.watched :
         v.key = w.key \/ (v.user = w.user /\ v.coin = w.coin) => v = w

vars == <<registrationVars, watchVars>>

Clicks ==
  [at : {"clicked", "found", "ignored", "inserting", "conflict", "deleting",
         "added", "removed", "error"},
   user : Names, coin : Coins, key : Nat, was : BOOLEAN, alone : BOOLEAN]

Init == \E s \in Starts : RegistrationInit(s.accounts) /\ WatchInit(s.watched, s.newest)

\* Mutant: nobody has to log in.
ClickAsAnyone(t) ==
  \E n \in Names, c \in Coins : Click(t, n, c)

\* login_required: the user has an account.
ClickAsUser(t) ==
  \E a \in accounts, c \in Coins : Click(t, a.name, c)

Next ==
  \/ \E v \in Visitors : Register(v) /\ UNCHANGED watchVars
  \/ \E t \in Toggles : (ClickAsUser(t) \/ Toggle(t)) /\ UNCHANGED registrationVars
  \/ \E c \in Coins : SetActive(c) /\ UNCHANGED registrationVars

Spec == Init /\ [][Next]_vars

-----------------------------------------------------------------------------
\* Types; an account has been saved by its owner, and a row belongs to a user
\* and has a key of its own.
TypeOK ==
  /\ \A a \in accounts : a.name \in Names /\ a.owner \in Visitors
  /\ visit \in [Visitors -> {NoVisit} \cup
       [at : {"valid", "saved", "told", "welcomed"}, name : Names]]
  /\ active \in [Coins -> BOOLEAN]
  /\ newest \in Nat
  /\ \A w \in watched :
       /\ Stored(w.user) /\ w.coin \in Coins /\ w.key \in 1..newest
       /\ \A x \in watched : x.key = w.key => x = w
  /\ toggle \in [Toggles -> {NoToggle} \cup Clicks]
  /\ \A t \in Toggles :
       toggle[t] # NoToggle => Stored(toggle[t].user) /\ toggle[t].key \in 0..newest

\* A click that meets no other on the same coin flips what the user watches,
\* unless the coin is delisted: then nothing changes.
LoneToggleFlips ==
  [][\A t \in Toggles :
       InFlight(t) /\ toggle[t].alone /\ ~ InFlight(t)' =>
         /\ toggle'[t].at \in {"added", "removed", "ignored"}
         /\ (RowsOf(t)' # {}) = IF toggle'[t].at = "ignored" THEN toggle[t].was
                                ELSE ~ toggle[t].was]_vars
=============================================================================
