----------------------------- MODULE Registration -----------------------------
(***************************************************************************)
(* register of accounts/views.py: the form looks whether the name is       *)
(* taken, and the row is inserted by a later statement, which the          *)
(* database's unique constraint may refuse.  The form compares names       *)
(* without regard to case, the constraint with it.                         *)
(*                                                                         *)
(* An account is its name and whose password it has.  The other checks of  *)
(* the form, the message and the redirect target are left out.             *)
(***************************************************************************)
EXTENDS Integers

CONSTANTS
  Visitors,   \* those who register
  Names,      \* user names
  Fold        \* a name without regard to case

ASSUME FoldAssumption == DOMAIN Fold = Names

VARIABLES
  accounts,   \* the rows of User
  visit       \* where each visitor is, and the name last submitted

registrationVars == <<accounts, visit>>

NoVisit == [at |-> "form"]
VisitIs(v, at, n) == visit' = [visit EXCEPT ![v] = [at |-> at, name |-> n]]

RegistrationInit(old) ==
  /\ accounts = old
  /\ visit = [v \in Visitors |-> NoVisit]

\* UserCreationForm.clean_username.
Taken(n) == \E a \in accounts : Fold[a.name] = Fold[n]

\* The constraint of the database.
Stored(n) == \E a \in accounts : a.name = n

\* The form is valid, or shown again with the error.
Submit(v, n) ==
  /\ visit[v].at \in {"form", "told"}
  /\ VisitIs(v, IF Taken(n) THEN "told" ELSE "valid", n)
  /\ UNCHANGED accounts

Save(v) ==
  /\ visit[v].at = "valid" /\ ~ Stored(visit[v].name)
  /\ accounts' = accounts \cup {[name |-> visit[v].name, owner |-> v]}
  /\ VisitIs(v, "saved", visit[v].name)

\* Mutant: the name was there already, so the account is.
WelcomeAnyway(v) ==
  /\ visit[v].at = "valid" /\ Stored(visit[v].name)
  /\ VisitIs(v, "saved", visit[v].name)
  /\ UNCHANGED accounts

\* IntegrityError: the form is shown again with the error that it would have had.
SaveRefused(v) ==
  /\ visit[v].at = "valid" /\ Stored(visit[v].name)
  /\ VisitIs(v, "told", visit[v].name)
  /\ UNCHANGED accounts

\* "Your account has been created.  You can now log in."
Welcome(v) ==
  /\ visit[v].at = "saved"
  /\ VisitIs(v, "welcomed", visit[v].name)
  /\ UNCHANGED accounts

\* The worker dies before it answers, and the visitor tries again.
LoseAnswer(v) ==
  /\ visit[v].at \in {"valid", "saved"}
  /\ visit' = [visit EXCEPT ![v] = NoVisit]
  /\ UNCHANGED accounts

Register(v) ==
  \/ \E n \in Names : Submit(v, n)
  \/ Save(v) \/ SaveRefused(v) \/ Welcome(v) \/ LoseAnswer(v)

\* Who is told that he can log in can: the account of his name is one, and has
\* his password.
WelcomedCanLogIn ==
  \A v \in Visitors :
    visit[v].at = "welcomed" =>
      {a \in accounts : a.name = visit[v].name} = {[name |-> visit[v].name, owner |-> v]}
=============================================================================
