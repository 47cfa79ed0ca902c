---------------------------- MODULE MembersProofs ----------------------------
(***************************************************************************)
(* What registration and the watchlist promise, for every number of        *)
(* visitors, names, coins and overlapping clicks.                          *)
(***************************************************************************)
EXTENDS Members, TLAPS

-----------------------------------------------------------------------------
(* The two halves of the inductive invariant beside the types.             *)

NamesUnique == \A a, b \in accounts : a.name = b.name => a = b

SavedIsStored ==
  \A v \in Visitors :
    visit[v].at \in {"saved", "welcomed"} =>
      [name |-> visit[v].name, owner |-> v] \in accounts

RegInv == NamesUnique /\ SavedIsStored

\* The clicks that have the key of a row: their own, or one that they found.
Keyed(t) == toggle[t].at \in {"added", "deleting", "removed"}

\* A key stands for one user and coin, in the rows and among the clicks.
KeyIsPair ==
  \A t \in Toggles :
    Keyed(t) =>
      /\ \A w \in watched :
           w.key = toggle[t].key => w.user = toggle[t].user /\ w.coin = toggle[t].coin
      /\ \A s \in Toggles : Keyed(s) /\ toggle[s].key = toggle[t].key => SamePair(s, t)

\* The row that is there after t has found none was added by another click.
RowsAreAdded ==
  \A t \in Toggles :
    /\ toggle[t].at = "inserting" =>
         \A w \in RowsOf(t) :
           \E s \in Toggles : SamePair(s, t) /\ toggle[s].at = "added"
    /\ toggle[t].at = "conflict" =>
         \E s \in Toggles : SamePair(s, t) /\ toggle[s].at = "added"

\* unique_watchlist: a user has one row of a coin at most.
OneRowPerPair ==
  \A v, w \in watched : v.user = w.user /\ v.coin = w.coin => v = w

WatchInv ==
  /\ OneRowPerPair /\ KeyIsPair /\ RowsAreAdded
  /\ LateDeleteSparesNewRow /\ ErrorNeedsThree

IInv == TypeOK /\ RegInv /\ WatchInv

-----------------------------------------------------------------------------
(* What a statement of t does to the clicks.                               *)

Places == {"clicked", "found", "ignored", "inserting", "conflict", "deleting",
           "added", "removed", "error"}

\* t goes on to `at` with a key; nothing else about the clicks changes.
Moved(t, at, key) ==
  /\ toggle[t] # NoToggle
  /\ toggle' \in [Toggles -> {NoToggle} \cup Clicks]
  /\ \A s \in Toggles \ {t} : toggle'[s] = toggle[s]
  /\ toggle'[t] = [at |-> at, user |-> toggle[t].user, coin |-> toggle[t].coin,
                   key |-> key, was |-> toggle[t].was, alone |-> toggle[t].alone]

LEMMA MovedByGo ==
  ASSUME TypeOK, NEW t \in Toggles, toggle[t].at # "idle", NEW at \in Places, Go(t, at)
  PROVE  Moved(t, at, toggle[t].key)
<1>1. toggle[t] \in Clicks /\ toggle \in [Toggles -> {NoToggle} \cup Clicks]
  BY DEF TypeOK, NoToggle
<1>2. [toggle[t] EXCEPT !.at = at] =
        [at |-> at, user |-> toggle[t].user, coin |-> toggle[t].coin,
         key |-> toggle[t].key, was |-> toggle[t].was, alone |-> toggle[t].alone]
  BY <1>1 DEF Clicks
<1>3. [toggle[t] EXCEPT !.at = at] \in Clicks
  BY <1>1 DEF Clicks, Places
<1>4. toggle' = [toggle EXCEPT ![t] = [toggle[t] EXCEPT !.at = at]]
  BY <1>1 DEF Go
<1> QED BY <1>1, <1>2, <1>3, <1>4 DEF Moved, Clicks, NoToggle

LEMMA MovedWithKey ==
  ASSUME TypeOK, NEW t \in Toggles, toggle[t].at # "idle",
         NEW at \in Places, NEW key \in Nat,
         toggle' = [toggle EXCEPT ![t].at = at, ![t].key = key]
  PROVE  Moved(t, at, key)
<1>1. toggle[t] \in Clicks /\ toggle \in [Toggles -> {NoToggle} \cup Clicks]
  BY DEF TypeOK, NoToggle
<1> DEFINE new == [at |-> at, user |-> toggle[t].user, coin |-> toggle[t].coin,
                   key |-> key, was |-> toggle[t].was, alone |-> toggle[t].alone]
<1>2. toggle'[t] = new
  BY <1>1 DEF Clicks
<1>3. new \in Clicks
  BY <1>1 DEF Clicks, Places
<1>4. \A s \in Toggles \ {t} : toggle'[s] = toggle[s]
  BY <1>1
<1>5. DOMAIN toggle' = Toggles /\ toggle' = [s \in Toggles |-> toggle'[s]]
  BY <1>1
<1>6. toggle' \in [Toggles -> {NoToggle} \cup Clicks]
  BY <1>1, <1>2, <1>3, <1>4, <1>5
<1> QED BY <1>1, <1>2, <1>4, <1>6 DEF Moved, Clicks, NoToggle

\* The clicks keep their users and coins.
LEMMA MovedKeepsPairs ==
  ASSUME TypeOK, NEW t \in Toggles, NEW at \in Places, NEW key \in Nat,
         Moved(t, at, key)
  PROVE  \A s, u \in Toggles :
           /\ SamePair(s, u)' <=> SamePair(s, u)
           /\ toggle'[s] # NoToggle <=> toggle[s] # NoToggle
           /\ toggle[s] # NoToggle =>
                toggle'[s].user = toggle[s].user /\ toggle'[s].coin = toggle[s].coin
<1>1. \A s \in Toggles :
        /\ toggle'[s] # NoToggle <=> toggle[s] # NoToggle
        /\ toggle[s] # NoToggle =>
             toggle'[s].user = toggle[s].user /\ toggle'[s].coin = toggle[s].coin
  BY DEF Moved, NoToggle, Places
<1> QED BY <1>1 DEF SamePair

-----------------------------------------------------------------------------
(* Types.                                                                  *)

LEMMA MembersInit == Init => IInv
<1> SUFFICES ASSUME Init PROVE IInv
  OBVIOUS
<1>1. PICK s \in Starts : RegistrationInit(s.accounts) /\ WatchInit(s.watched, s.newest)
  BY DEF Init
<1>2. /\ accounts = s.accounts /\ watched = s.watched /\ newest = s.newest
      /\ visit = [v \in Visitors |-> NoVisit]
      /\ active = [c \in Coins |-> TRUE]
      /\ toggle = [t \in Toggles |-> NoToggle]
  BY <1>1 DEF RegistrationInit, WatchInit
<1>3. TypeOK
  BY <1>2, StartsAssumption DEF TypeOK, Stored
<1>4. RegInv
  BY <1>2, StartsAssumption DEF RegInv, NamesUnique, SavedIsStored, NoVisit
<1>5. \A t \in Toggles : toggle[t].at = "idle"
  BY <1>2 DEF NoToggle
<1>6. OneRowPerPair
  BY <1>2, StartsAssumption DEF OneRowPerPair
<1>7. KeyIsPair /\ RowsAreAdded /\ LateDeleteSparesNewRow /\ ErrorNeedsThree
  BY <1>5 DEF KeyIsPair, Keyed, RowsAreAdded, LateDeleteSparesNewRow, ErrorNeedsThree
<1> QED BY <1>3, <1>4, <1>6, <1>7 DEF IInv, WatchInv

Visiting == {NoVisit} \cup [at : {"valid", "saved", "told", "welcomed"}, name : Names]

\* A step of v's that adds no account but his, when he may have one.
LEMMA VisitKeeps ==
  ASSUME TypeOK, RegInv, UNCHANGED watchVars, NEW v \in Visitors, NEW new \in Visiting,
         visit' = [visit EXCEPT ![v] = new],
         \/ accounts' = accounts
         \/ /\ visit[v] # NoVisit /\ ~ Stored(visit[v].name)
            /\ accounts' = accounts \cup {[name |-> visit[v].name, owner |-> v]},
         new.at \in {"saved", "welcomed"} => [name |-> new.name, owner |-> v] \in accounts'
  PROVE  TypeOK' /\ RegInv'
<1>1. /\ visit \in [Visitors -> Visiting]
      /\ visit' \in [Visitors -> Visiting]
      /\ visit'[v] = new
      /\ \A u \in Visitors \ {v} : visit'[u] = visit[u]
  BY DEF TypeOK, Visiting
<1>2. /\ accounts \subseteq accounts'
      /\ \A a \in accounts' : a.name \in Names /\ a.owner \in Visitors
  <2>1. visit[v] # NoVisit => visit[v].name \in Names
    BY <1>1 DEF Visiting
  <2> QED BY <2>1 DEF TypeOK
<1>3. TypeOK'
  <2>1. active' = active /\ watched' = watched /\ newest' = newest /\ toggle' = toggle
    BY DEF watchVars
  <2>2. \A n : Stored(n) => Stored(n)'
    BY <1>2 DEF Stored
  <2>3. (\A w \in watched : Stored(w.user))'
    BY <2>1, <2>2 DEF TypeOK
  <2>4. (\A t \in Toggles : toggle[t] # NoToggle => Stored(toggle[t].user))'
    BY <2>1, <2>2 DEF TypeOK
  <2>5. (/\ active \in [Coins -> BOOLEAN] /\ newest \in Nat
         /\ \A w \in watched :
              /\ w.coin \in Coins /\ w.key \in 1..newest
              /\ \A x \in watched : x.key = w.key => x = w
         /\ toggle \in [Toggles -> {NoToggle} \cup Clicks]
         /\ \A t \in Toggles : toggle[t] # NoToggle => toggle[t].key \in 0..newest)'
    BY <2>1 DEF TypeOK
  <2> QED BY <1>1, <1>2, <2>3, <2>4, <2>5 DEF TypeOK, Visiting
<1>4. NamesUnique'
  BY DEF RegInv, NamesUnique, Stored
<1>5. SavedIsStored'
  BY <1>1, <1>2 DEF RegInv, SavedIsStored
<1> QED BY <1>3, <1>4, <1>5 DEF RegInv

LEMMA RegisterKeeps ==
  ASSUME IInv, NEW v \in Visitors, Register(v), UNCHANGED watchVars
  PROVE  IInv'
<1>1. active' = active /\ watched' = watched /\ newest' = newest /\ toggle' = toggle
  BY DEF watchVars
<1>2. WatchInv'
  BY <1>1 DEF IInv, WatchInv, OneRowPerPair, KeyIsPair, Keyed, SamePair,
              RowsAreAdded, RowsOf, LateDeleteSparesNewRow, ErrorNeedsThree
<1> SUFFICES TypeOK' /\ RegInv'
  BY <1>2 DEF IInv
<1>3. visit[v].at # "form" => visit[v] # NoVisit /\ visit[v].name \in Names
  BY DEF IInv, TypeOK, NoVisit
<1>4. TypeOK /\ RegInv /\ SavedIsStored
  BY DEF IInv, RegInv
<1>5. \A at \in {"valid", "saved", "told", "welcomed"}, n \in Names :
        [at |-> at, name |-> n] \in Visiting
  BY DEF Visiting
<1>6. CASE \E n \in Names : Submit(v, n)
  <2>1. PICK n \in Names : Submit(v, n)
    BY <1>6
  <2>2. PICK at \in {"valid", "told"} : visit' = [visit EXCEPT ![v] = [at |-> at, name |-> n]]
    BY <2>1 DEF Submit, VisitIs
  <2>3. accounts' = accounts
    BY <2>1 DEF Submit
  <2> QED BY <1>4, <1>5, <2>2, <2>3, VisitKeeps
<1>7. CASE Save(v)
  <2>1. /\ visit[v] # NoVisit /\ visit[v].name \in Names
        /\ ~ Stored(visit[v].name)
        /\ accounts' = accounts \cup {[name |-> visit[v].name, owner |-> v]}
        /\ visit' = [visit EXCEPT ![v] = [at |-> "saved", name |-> visit[v].name]]
    BY <1>3, <1>7 DEF Save, VisitIs
  <2> QED BY <1>4, <1>5, <2>1, VisitKeeps
<1>8. CASE SaveRefused(v)
  <2>1. /\ visit[v].name \in Names /\ accounts' = accounts
        /\ visit' = [visit EXCEPT ![v] = [at |-> "told", name |-> visit[v].name]]
    BY <1>3, <1>8 DEF SaveRefused, VisitIs
  <2> QED BY <1>4, <1>5, <2>1, VisitKeeps
<1>9. CASE Welcome(v)
  <2>1. /\ visit[v].at = "saved" /\ visit[v].name \in Names /\ accounts' = accounts
        /\ visit' = [visit EXCEPT ![v] = [at |-> "welcomed", name |-> visit[v].name]]
    BY <1>3, <1>9 DEF Welcome, VisitIs
  <2>2. [name |-> visit[v].name, owner |-> v] \in accounts'
    BY <1>4, <2>1 DEF SavedIsStored
  <2> QED BY <1>4, <1>5, <2>1, <2>2, VisitKeeps
<1>10. CASE LoseAnswer(v)
  <2>1. accounts' = accounts /\ visit' = [visit EXCEPT ![v] = NoVisit]
    BY <1>10 DEF LoseAnswer
  <2>2. NoVisit \in Visiting /\ NoVisit.at = "form"
    BY DEF Visiting, NoVisit
  <2> QED BY <1>4, <2>1, <2>2, VisitKeeps
<1> QED BY <1>6, <1>7, <1>8, <1>9, <1>10 DEF Register

-----------------------------------------------------------------------------
(* The watchlist.                                                          *)

\* A step that touches no row: t finds one, or none, or goes on without.
LEMMA MoveKeeps ==
  ASSUME IInv, UNCHANGED <<registrationVars, active, watched, newest>>,
         NEW t \in Toggles, InFlight(t),
         NEW at \in Places \ {"added", "removed"}, NEW key \in 0..newest, Moved(t, at, key),
         at = "deleting" => \E w \in RowsOf(t) : w.key = key,
         at = "inserting" => RowsOf(t) = {},
         at = "conflict" => toggle[t].at = "inserting" /\ RowsOf(t) # {},
         at = "error" => toggle[t].at = "conflict" /\ RowsOf(t) = {}
  PROVE  IInv'
<1>1. /\ accounts' = accounts /\ visit' = visit
      /\ active' = active /\ watched' = watched /\ newest' = newest
  BY DEF registrationVars
<1>2. /\ toggle[t] # NoToggle /\ toggle' \in [Toggles -> {NoToggle} \cup Clicks]
      /\ toggle'[t].at = at /\ toggle'[t].key = key
      /\ \A s \in Toggles \ {t} : toggle'[s] = toggle[s]
  BY DEF Moved
<1>3. \A s, u \in Toggles :
        /\ SamePair(s, u)' <=> SamePair(s, u)
        /\ toggle'[s] # NoToggle <=> toggle[s] # NoToggle
        /\ toggle[s] # NoToggle =>
             toggle'[s].user = toggle[s].user /\ toggle'[s].coin = toggle[s].coin
  <2>1. key \in Nat /\ TypeOK
    BY DEF IInv, TypeOK
  <2> QED BY <2>1, MovedKeepsPairs
<1>4. \A s \in Toggles : toggle[s] # NoToggle => RowsOf(s)' = RowsOf(s)
  BY <1>1, <1>3 DEF RowsOf
\* Clicks that have added or removed a row are done.
<1>5. /\ toggle[t].at \notin {"added", "removed"}
      /\ \A s \in Toggles : \A p \in {"added", "removed"} :
           /\ toggle'[s].at = p <=> toggle[s].at = p
           /\ toggle[s].at = p => toggle'[s].key = toggle[s].key
  BY <1>2 DEF InFlight
<1>6. TypeOK'
  BY <1>1, <1>2, <1>3 DEF IInv, TypeOK, Stored
<1>7. RegInv' /\ OneRowPerPair'
  BY <1>1 DEF IInv, RegInv, NamesUnique, SavedIsStored, WatchInv, OneRowPerPair
<1>8. KeyIsPair'
  <2>1. KeyIsPair /\ OneRowPerPair
    BY DEF IInv, WatchInv
  <2>2. \A s \in Toggles \ {t} : Keyed(s)' <=> Keyed(s)
    BY <1>2 DEF Keyed
  <2>3. Keyed(t)' => at = "deleting"
    BY <1>2 DEF Keyed
  <2>4. CASE at # "deleting"
    BY <1>1, <1>2, <1>3, <2>1, <2>2, <2>3, <2>4 DEF KeyIsPair
  <2>5. CASE at = "deleting"
    <3>1. PICK w \in watched :
            w.key = key /\ w.user = toggle[t].user /\ w.coin = toggle[t].coin
      BY <2>5 DEF RowsOf
    <3>2. \A x \in watched : x.key = key => x = w
      BY <3>1 DEF IInv, TypeOK
    <3>3. \A s \in Toggles \ {t} : Keyed(s) /\ toggle[s].key = key =>
            SamePair(s, t) /\ SamePair(t, s)
      <4> SUFFICES ASSUME NEW s \in Toggles \ {t}, Keyed(s), toggle[s].key = key
                   PROVE  SamePair(s, t) /\ SamePair(t, s)
        OBVIOUS
      <4>1. toggle[s].user = w.user /\ toggle[s].coin = w.coin
        BY <2>1, <3>1 DEF KeyIsPair
      <4>2. toggle[s] # NoToggle
        BY DEF Keyed, NoToggle
      <4> QED BY <1>2, <3>1, <4>1, <4>2 DEF SamePair
    <3>4. SamePair(t, t)
      BY <1>2 DEF SamePair
    <3>5. \A s \in Toggles \ {t} : Keyed(s) =>
            \A x \in watched : x.key = toggle[s].key =>
              x.user = toggle[s].user /\ x.coin = toggle[s].coin
      BY <2>1 DEF KeyIsPair
    <3>6. \A s, u \in Toggles \ {t} :
            Keyed(s) /\ Keyed(u) /\ toggle[s].key = toggle[u].key => SamePair(s, u)
      BY <2>1 DEF KeyIsPair
    <3>7. \A s \in Toggles : Keyed(s) => toggle[s] # NoToggle
      BY DEF Keyed, NoToggle
    <3>8. \A s \in Toggles, x \in watched : Keyed(s)' /\ x.key = toggle'[s].key =>
            x.user = toggle'[s].user /\ x.coin = toggle'[s].coin
      BY <1>2, <1>3, <2>2, <3>1, <3>2, <3>5, <3>7
    <3>9. \A s, u \in Toggles :
            Keyed(s)' /\ Keyed(u)' /\ toggle'[s].key = toggle'[u].key => SamePair(s, u)
      BY <1>2, <2>2, <3>3, <3>4, <3>6
    <3> QED BY <1>1, <1>3, <3>8, <3>9 DEF KeyIsPair
  <2> QED BY <2>4, <2>5
<1>9. RowsAreAdded'
  <2>1. RowsAreAdded
    BY DEF IInv, WatchInv
  <2>2. \A s, u \in Toggles : SamePair(s, u) /\ toggle[s].at = "added" =>
          SamePair(s, u)' /\ toggle'[s].at = "added"
    BY <1>3, <1>5
  <2>3. ASSUME NEW u \in Toggles, toggle'[u].at = "inserting", NEW w \in RowsOf(u)'
        PROVE  \E s \in Toggles : SamePair(s, u)' /\ toggle'[s].at = "added"
    <3>1. u # t /\ toggle[u].at = "inserting" /\ w \in RowsOf(u)
      <4>1. toggle[u] # NoToggle
        BY <1>3, <2>3 DEF NoToggle
      <4> QED BY <1>2, <1>4, <2>3, <4>1
    <3> QED BY <2>1, <2>2, <3>1 DEF RowsAreAdded
  <2>4. ASSUME NEW u \in Toggles, toggle'[u].at = "conflict"
        PROVE  \E s \in Toggles : SamePair(s, u)' /\ toggle'[s].at = "added"
    <3>1. toggle[u].at = "conflict" \/ (toggle[u].at = "inserting" /\ RowsOf(u) # {})
      BY <1>2, <2>4
    <3> QED BY <2>1, <2>2, <3>1 DEF RowsAreAdded
  <2> QED BY <2>3, <2>4 DEF RowsAreAdded
<1>10. LateDeleteSparesNewRow'
  BY <1>1, <1>5 DEF IInv, WatchInv, LateDeleteSparesNewRow
<1>11. ErrorNeedsThree'
  <2>1. ErrorNeedsThree /\ RowsAreAdded /\ LateDeleteSparesNewRow /\ KeyIsPair
    BY DEF IInv, WatchInv
  <2>2. CASE at # "error"
    <3>1. \A u \in Toggles : toggle'[u].at = "error" => toggle[u].at = "error"
      BY <1>2, <2>2
    <3> QED BY <1>3, <1>5, <2>1, <3>1 DEF ErrorNeedsThree
  <2>3. CASE at = "error"
    <3>1. PICK s \in Toggles : SamePair(s, t) /\ toggle[s].at = "added"
      BY <2>1, <2>3 DEF RowsAreAdded
    <3>2. ~ \E w \in watched : w.key = toggle[s].key
      BY <2>1, <2>3, <3>1 DEF KeyIsPair, Keyed, SamePair, RowsOf
    <3>3. PICK u \in Toggles : toggle[u].at = "removed" /\ toggle[u].key = toggle[s].key
      BY <2>1, <3>1, <3>2 DEF LateDeleteSparesNewRow
    <3>4. SamePair(u, t)
      BY <2>1, <3>1, <3>3 DEF KeyIsPair, Keyed, SamePair
    <3>5. \A p \in Toggles : toggle'[p].at = "error" => p = t \/ toggle[p].at = "error"
      BY <1>2
    <3> QED BY <1>3, <1>5, <2>1, <3>1, <3>3, <3>4, <3>5 DEF ErrorNeedsThree
  <2> QED BY <2>2, <2>3
<1> QED BY <1>6, <1>7, <1>8, <1>9, <1>10, <1>11 DEF IInv, WatchInv

LEMMA InsertKeeps ==
  ASSUME IInv, UNCHANGED registrationVars, NEW t \in Toggles, Insert(t)
  PROVE  IInv'
<1> DEFINE new == [user |-> toggle[t].user, coin |-> toggle[t].coin, key |-> newest + 1]
<1>1. /\ accounts' = accounts /\ visit' = visit /\ active' = active
      /\ newest' = newest + 1 /\ newest \in Nat /\ watched' = watched \cup {new}
      /\ toggle[t].at = "inserting" /\ RowsOf(t) = {}
  BY DEF registrationVars, Insert, IInv, TypeOK
<1>2. Moved(t, "added", newest + 1)
  <2>1. toggle' = [toggle EXCEPT ![t].at = "added", ![t].key = newest']
    BY DEF Insert
  <2>2. toggle' = [toggle EXCEPT ![t].at = "added", ![t].key = newest + 1]
    BY <1>1, <2>1, Zenon
  <2>3. TypeOK /\ toggle[t].at # "idle" /\ "added" \in Places /\ newest + 1 \in Nat
    BY <1>1 DEF IInv, Places
  <2> QED BY <2>2, <2>3, MovedWithKey
<1>3. /\ toggle[t] # NoToggle /\ toggle' \in [Toggles -> {NoToggle} \cup Clicks]
      /\ toggle'[t].at = "added" /\ toggle'[t].key = newest + 1
      /\ \A s \in Toggles \ {t} : toggle'[s] = toggle[s]
  BY <1>2 DEF Moved
<1>4. \A s, u \in Toggles :
        /\ SamePair(s, u)' <=> SamePair(s, u)
        /\ toggle'[s] # NoToggle <=> toggle[s] # NoToggle
        /\ toggle[s] # NoToggle =>
             toggle'[s].user = toggle[s].user /\ toggle'[s].coin = toggle[s].coin
  BY <1>1, <1>2, MovedKeepsPairs DEF IInv, Places
\* The new row and t have the new key alone.
<1>5. /\ new.key = newest + 1 /\ new.user = toggle[t].user /\ new.coin = toggle[t].coin
      /\ \A w \in watched : w.key \in 1..newest
      /\ \A s \in Toggles : toggle[s] # NoToggle => toggle[s].key \in 0..newest
  BY DEF IInv, TypeOK
<1> HIDE DEF new
<1>6. TypeOK'
  <2>1. Stored(new.user) /\ new.coin \in Coins
    BY <1>3, <1>5 DEF IInv, TypeOK, Clicks
  <2>2. \A n : Stored(n)' <=> Stored(n)
    BY <1>1 DEF Stored
  <2>3. \A w \in watched' :
          /\ Stored(w.user) /\ w.coin \in Coins /\ w.key \in 1..newest'
          /\ \A x \in watched' : x.key = w.key => x = w
    BY <1>1, <1>5, <2>1 DEF IInv, TypeOK
  <2>4. \A s \in Toggles :
          toggle'[s] # NoToggle => Stored(toggle'[s].user) /\ toggle'[s].key \in 0..newest'
    BY <1>1, <1>3, <1>4, <1>5 DEF IInv, TypeOK
  <2> QED BY <1>1, <1>3, <2>2, <2>3, <2>4 DEF IInv, TypeOK
<1>7. RegInv'
  BY <1>1 DEF IInv, RegInv, NamesUnique, SavedIsStored
<1>8. OneRowPerPair'
  BY <1>1, <1>5 DEF RowsOf, IInv, WatchInv, OneRowPerPair
<1>9. KeyIsPair'
  <2>1. KeyIsPair
    BY DEF IInv, WatchInv
  <2>2. \A s \in Toggles \ {t} : (Keyed(s)' <=> Keyed(s)) /\ (Keyed(s) => toggle[s] # NoToggle)
    BY <1>3 DEF Keyed, NoToggle
  <2>3. \A s \in Toggles \ {t} : Keyed(s) => toggle[s].key # newest + 1
    BY <1>1, <1>5, <2>2
  <2>4. \A s \in Toggles, w \in watched' : Keyed(s)' /\ w.key = toggle'[s].key =>
          w.user = toggle'[s].user /\ w.coin = toggle'[s].coin
    BY <1>1, <1>3, <1>4, <1>5, <2>1, <2>2, <2>3 DEF KeyIsPair
  <2>5. \A s, u \in Toggles :
          Keyed(s)' /\ Keyed(u)' /\ toggle'[s].key = toggle'[u].key => SamePair(s, u)
    BY <1>3, <2>1, <2>2, <2>3 DEF KeyIsPair, SamePair
  <2> QED BY <1>4, <2>4, <2>5 DEF KeyIsPair
<1>10. RowsAreAdded'
  <2>1. RowsAreAdded
    BY DEF IInv, WatchInv
  <2>2. \A s, u \in Toggles : SamePair(s, u) /\ toggle[s].at = "added" =>
          SamePair(s, u)' /\ toggle'[s].at = "added"
    BY <1>3, <1>4
  <2>3. ASSUME NEW u \in Toggles, toggle'[u].at = "inserting", NEW w \in RowsOf(u)'
        PROVE  \E s \in Toggles : SamePair(s, u)' /\ toggle'[s].at = "added"
    <3>1. u # t /\ toggle[u].at = "inserting" /\ toggle[u] # NoToggle
      BY <1>3, <2>3 DEF NoToggle
    <3>2. w \in RowsOf(u) \/ w = new
      BY <1>1, <1>3, <3>1 DEF RowsOf
    <3>3. w = new => SamePair(t, u)
      BY <1>3, <1>5, <3>1 DEF RowsOf, SamePair
    <3> QED BY <1>3, <1>4, <2>1, <2>2, <3>1, <3>2, <3>3 DEF RowsAreAdded
  <2>4. \A u \in Toggles : toggle'[u].at = "conflict" => toggle[u].at = "conflict"
    BY <1>3
  <2> QED BY <2>1, <2>2, <2>3, <2>4 DEF RowsAreAdded
<1>11. LateDeleteSparesNewRow'
  <2>1. \A s \in Toggles : toggle[s].at = "removed" => toggle'[s] = toggle[s]
    BY <1>1, <1>3
  <2>2. \A s \in Toggles \ {t} : toggle'[s].at = "added" => toggle[s].at = "added"
    BY <1>3
  <2> QED BY <1>1, <1>3, <1>5, <2>1, <2>2 DEF IInv, WatchInv, LateDeleteSparesNewRow
<1>12. ErrorNeedsThree'
  <2>1. \A s \in Toggles :
          /\ toggle[s].at \in {"added", "removed"} => toggle'[s] = toggle[s]
          /\ toggle'[s].at = "error" => toggle[s].at = "error"
    BY <1>1, <1>3
  <2>2. ErrorNeedsThree
    BY DEF IInv, WatchInv
  <2> QED BY <1>4, <2>1, <2>2 DEF ErrorNeedsThree
<1> QED BY <1>6, <1>7, <1>8, <1>9, <1>10, <1>11, <1>12 DEF IInv, WatchInv

LEMMA DeleteKeeps ==
  ASSUME IInv, UNCHANGED registrationVars, NEW t \in Toggles, Delete(t)
  PROVE  IInv'
<1>1. /\ accounts' = accounts /\ visit' = visit /\ active' = active /\ newest' = newest
      /\ watched' = {w \in watched : w.key # toggle[t].key}
      /\ toggle[t].at = "deleting"
  BY DEF registrationVars, Delete
<1>2. Moved(t, "removed", toggle[t].key) /\ toggle[t].key \in Nat
  <2>1. toggle[t].key \in Nat
    BY <1>1 DEF IInv, TypeOK, NoToggle, Clicks
  <2> QED BY <1>1, <2>1, MovedByGo DEF Delete, IInv, Places
<1>3. /\ toggle[t] # NoToggle /\ toggle' \in [Toggles -> {NoToggle} \cup Clicks]
      /\ toggle'[t].at = "removed" /\ toggle'[t].key = toggle[t].key
      /\ \A s \in Toggles \ {t} : toggle'[s] = toggle[s]
  BY <1>2 DEF Moved
<1>4. \A s, u \in Toggles :
        /\ SamePair(s, u)' <=> SamePair(s, u)
        /\ toggle'[s] # NoToggle <=> toggle[s] # NoToggle
        /\ toggle[s] # NoToggle =>
             toggle'[s].user = toggle[s].user /\ toggle'[s].coin = toggle[s].coin
  BY <1>2, MovedKeepsPairs DEF IInv, Places
<1>5. TypeOK'
  BY <1>1, <1>3, <1>4 DEF IInv, TypeOK, Stored
<1>6. RegInv' /\ OneRowPerPair'
  BY <1>1 DEF IInv, RegInv, NamesUnique, SavedIsStored, WatchInv, OneRowPerPair
<1>7. KeyIsPair'
  <2>1. KeyIsPair
    BY DEF IInv, WatchInv
  <2>2. \A s \in Toggles :
          /\ Keyed(s)' <=> Keyed(s)
          /\ toggle'[s].key = toggle[s].key
          /\ Keyed(s) => toggle[s] # NoToggle
    BY <1>1, <1>3 DEF Keyed, NoToggle
  <2> QED BY <1>1, <1>4, <2>1, <2>2 DEF KeyIsPair
<1>8. RowsAreAdded'
  <2>1. RowsAreAdded
    BY DEF IInv, WatchInv
  <2>2. \A s \in Toggles :
          /\ toggle[s].at = "added" => toggle'[s].at = "added"
          /\ \A p \in {"inserting", "conflict"} : toggle'[s].at = p => toggle[s].at = p
    BY <1>1, <1>3
  <2>3. \A u \in Toggles : toggle[u].at = "inserting" => RowsOf(u)' \subseteq RowsOf(u)
    BY <1>1, <1>4 DEF RowsOf, NoToggle
  <2> QED BY <1>4, <2>1, <2>2, <2>3 DEF RowsAreAdded
<1>9. LateDeleteSparesNewRow'
  <2>1. \A s \in Toggles :
          /\ toggle[s].at = "removed" => toggle'[s] = toggle[s]
          /\ toggle'[s].at = "added" => toggle[s].at = "added" /\ toggle'[s] = toggle[s]
    BY <1>1, <1>3
  <2> QED BY <1>1, <1>3, <2>1 DEF IInv, WatchInv, LateDeleteSparesNewRow
<1>10. ErrorNeedsThree'
  <2>1. \A s \in Toggles :
          /\ toggle[s].at \in {"added", "removed"} => toggle'[s] = toggle[s]
          /\ toggle'[s].at = "error" => toggle[s].at = "error"
    BY <1>1, <1>3
  <2>2. ErrorNeedsThree
    BY DEF IInv, WatchInv
  <2> QED BY <1>4, <2>1, <2>2 DEF ErrorNeedsThree
<1> QED BY <1>5, <1>6, <1>7, <1>8, <1>9, <1>10 DEF IInv, WatchInv

\* A click begins, and the others on its coin are alone no more.
LEMMA ClickKeeps ==
  ASSUME IInv, UNCHANGED registrationVars, NEW t \in Toggles, ClickAsUser(t)
  PROVE  IInv'
<1>1. PICK a \in accounts, c \in Coins : Click(t, a.name, c)
  BY DEF ClickAsUser
<1> DEFINE began == toggle'[t]
<1>2. /\ accounts' = accounts /\ visit' = visit /\ active' = active
      /\ newest' = newest /\ watched' = watched
      /\ toggle[t] = NoToggle
      /\ a.name \in Names /\ Stored(a.name)
      /\ toggle \in [Toggles -> {NoToggle} \cup Clicks]
  BY <1>1 DEF registrationVars, Click, IInv, TypeOK, Stored
<1>3. /\ DOMAIN toggle' = Toggles /\ toggle' = [s \in Toggles |-> toggle'[s]]
      /\ toggle'[t].at = "clicked" /\ toggle'[t] \in Clicks
      /\ toggle'[t].key = 0 /\ toggle'[t].user = a.name
  <2>1. (\E w \in watched : w.user = a.name /\ w.coin = c) \in BOOLEAN
    OBVIOUS
  <2>2. ({s \in Toggles : InFlight(s) /\ toggle[s].user = a.name /\ toggle[s].coin = c} = {})
          \in BOOLEAN
    OBVIOUS
  <2> QED BY <1>1, <1>2, <2>1, <2>2 DEF Click, Clicks
<1>4. \A s \in Toggles \ {t} :
        \/ toggle'[s] = toggle[s]
        \/ InFlight(s) /\ toggle'[s] = [toggle[s] EXCEPT !.alone = FALSE]
  BY <1>1 DEF Click
<1>5. \A s \in Toggles \ {t} :
        /\ toggle'[s] # NoToggle <=> toggle[s] # NoToggle
        /\ toggle[s] = NoToggle => toggle'[s] = NoToggle
        /\ toggle[s] # NoToggle =>
             /\ toggle'[s] \in Clicks
             /\ toggle'[s].at = toggle[s].at /\ toggle'[s].key = toggle[s].key
             /\ toggle'[s].user = toggle[s].user /\ toggle'[s].coin = toggle[s].coin
  <2> SUFFICES ASSUME NEW s \in Toggles \ {t}
               PROVE  /\ toggle'[s] # NoToggle <=> toggle[s] # NoToggle
                      /\ toggle[s] = NoToggle => toggle'[s] = NoToggle
                      /\ toggle[s] # NoToggle =>
                           /\ toggle'[s] \in Clicks
                           /\ toggle'[s].at = toggle[s].at
                           /\ toggle'[s].key = toggle[s].key
                           /\ toggle'[s].user = toggle[s].user
                           /\ toggle'[s].coin = toggle[s].coin
    OBVIOUS
  <2>1. CASE toggle'[s] = toggle[s]
    BY <1>2, <2>1
  <2>2. CASE InFlight(s) /\ toggle'[s] = [toggle[s] EXCEPT !.alone = FALSE]
    BY <1>2, <2>2 DEF InFlight, NoToggle, Clicks
  <2> QED BY <1>4, <2>1, <2>2
<1>6. \A s \in Toggles \ {t} :
        /\ \A p \in Places : toggle'[s].at = p <=> toggle[s].at = p
        /\ toggle[s] # NoToggle => RowsOf(s)' = RowsOf(s)
  BY <1>2, <1>5 DEF RowsOf, Places, NoToggle
<1>7. \A s, u \in Toggles : SamePair(s, u) => s # t /\ u # t /\ SamePair(s, u)'
  BY <1>2, <1>5 DEF SamePair
<1>8. TypeOK'
  <2>1. toggle' \in [Toggles -> {NoToggle} \cup Clicks]
    BY <1>3, <1>5
  <2>2. \A s \in Toggles :
          toggle'[s] # NoToggle => Stored(toggle'[s].user) /\ toggle'[s].key \in 0..newest
    BY <1>2, <1>3, <1>5 DEF IInv, TypeOK
  <2> QED BY <1>2, <2>1, <2>2 DEF IInv, TypeOK, Stored
<1>9. RegInv' /\ OneRowPerPair'
  BY <1>2 DEF IInv, RegInv, NamesUnique, SavedIsStored, WatchInv, OneRowPerPair
<1>10. KeyIsPair'
  <2>1. KeyIsPair /\ ~ Keyed(t)'
    BY <1>3 DEF IInv, WatchInv, Keyed
  <2>2. \A s \in Toggles \ {t} : (Keyed(s)' <=> Keyed(s)) /\ (Keyed(s) => toggle[s] # NoToggle)
    BY <1>6 DEF Keyed, NoToggle, Places
  <2> QED BY <1>2, <1>5, <1>7, <2>1, <2>2 DEF KeyIsPair
<1>11. RowsAreAdded'
  <2>1. RowsAreAdded
    BY DEF IInv, WatchInv
  <2>2. \A u \in Toggles : \A p \in {"inserting", "conflict"} : toggle'[u].at = p =>
          u # t /\ toggle[u].at = p /\ RowsOf(u)' = RowsOf(u)
    BY <1>3, <1>6 DEF Places, NoToggle
  <2>3. \A s, u \in Toggles : SamePair(s, u) /\ toggle[s].at = "added" =>
          SamePair(s, u)' /\ toggle'[s].at = "added"
    BY <1>6, <1>7 DEF Places
  <2> QED BY <2>1, <2>2, <2>3 DEF RowsAreAdded
<1>12. \A s \in Toggles : \A p \in {"added", "removed", "error"} :
         /\ toggle'[s].at = p => s # t /\ toggle[s].at = p
         /\ toggle[s].at = p => toggle'[s].at = p /\ toggle'[s].key = toggle[s].key
  <2>1. \A s \in Toggles : \A p \in {"added", "removed", "error"} :
          toggle[s].at = p => s # t /\ toggle[s] # NoToggle
    BY <1>2 DEF NoToggle
  <2> QED BY <1>3, <1>5, <1>6, <2>1 DEF Places
<1>13. LateDeleteSparesNewRow'
  BY <1>2, <1>12 DEF IInv, WatchInv, LateDeleteSparesNewRow
<1>14. ErrorNeedsThree'
  BY <1>7, <1>12 DEF IInv, WatchInv, ErrorNeedsThree
<1> QED BY <1>8, <1>9, <1>10, <1>11, <1>13, <1>14 DEF IInv, WatchInv

LEMMA ToggleKeeps ==
  ASSUME IInv, UNCHANGED registrationVars, NEW t \in Toggles, Toggle(t)
  PROVE  IInv'
<1>1. toggle[t].at # "idle" /\ toggle[t].key \in 0..newest /\ TypeOK
  <2>1. toggle[t].at # "idle"
    BY DEF Toggle, FindCoin, Get, GetNothing, Insert, Conflict, ConflictVanished, Delete
  <2> QED BY <2>1 DEF IInv, TypeOK, NoToggle
\* With what MoveKeeps asks of a step.
<1>2. ASSUME NEW at \in Places \ {"added", "removed", "deleting"}, Go(t, at),
             InFlight(t), UNCHANGED <<active, watched, newest>>,
             at = "inserting" => RowsOf(t) = {},
             at = "conflict" => toggle[t].at = "inserting" /\ RowsOf(t) # {},
             at = "error" => toggle[t].at = "conflict" /\ RowsOf(t) = {}
      PROVE  IInv'
  <2>1. Moved(t, at, toggle[t].key)
    BY <1>1, <1>2, MovedByGo
  <2> QED BY <1>1, <1>2, <2>1, MoveKeeps
<1>3. CASE FindCoin(t)
  <2>1. PICK at \in {"found", "ignored"} : Go(t, at)
    BY <1>3 DEF FindCoin
  <2> QED BY <1>2, <1>3, <2>1 DEF FindCoin, InFlight, Places
<1>4. CASE Get(t)
  <2>1. PICK w \in RowsOf(t) :
          toggle' = [toggle EXCEPT ![t].at = "deleting", ![t].key = w.key]
    BY <1>4 DEF Get
  <2>2. w.key \in 0..newest /\ w.key \in Nat
    BY <1>1 DEF RowsOf, TypeOK
  <2>3. Moved(t, "deleting", w.key)
    BY <1>1, <2>1, <2>2, MovedWithKey DEF Places
  <2>4. InFlight(t) /\ UNCHANGED <<active, watched, newest>>
    BY <1>4 DEF Get, InFlight
  <2> QED BY <2>2, <2>3, <2>4, MoveKeeps DEF Places
<1>5. CASE GetNothing(t)
  BY <1>2, <1>5 DEF GetNothing, InFlight, Places
<1>6. CASE Insert(t)
  BY <1>6, InsertKeeps
<1>7. CASE Conflict(t)
  BY <1>2, <1>7 DEF Conflict, InFlight, Places
<1>8. CASE ConflictVanished(t)
  BY <1>2, <1>8 DEF ConflictVanished, InFlight, Places
<1>9. CASE Delete(t)
  BY <1>9, DeleteKeeps
<1> QED BY <1>3, <1>4, <1>5, <1>6, <1>7, <1>8, <1>9 DEF Toggle

LEMMA MembersNext == IInv /\ [Next]_vars => IInv'
<1> SUFFICES ASSUME IInv, [Next]_vars PROVE IInv'
  OBVIOUS
<1>1. ASSUME NEW v \in Visitors, Register(v), UNCHANGED watchVars PROVE IInv'
  BY <1>1, RegisterKeeps
<1>2. ASSUME NEW t \in Toggles, ClickAsUser(t), UNCHANGED registrationVars PROVE IInv'
  BY <1>2, ClickKeeps
<1>3. ASSUME NEW t \in Toggles, Toggle(t), UNCHANGED registrationVars PROVE IInv'
  BY <1>3, ToggleKeeps
<1>4. ASSUME watched' = watched, newest' = newest, toggle' = toggle,
             UNCHANGED registrationVars, active' \in [Coins -> BOOLEAN]
      PROVE  IInv'
  BY <1>4 DEF registrationVars, IInv, TypeOK, Stored, RegInv, NamesUnique, SavedIsStored,
              WatchInv, OneRowPerPair, KeyIsPair, Keyed, SamePair, RowsAreAdded, RowsOf,
              LateDeleteSparesNewRow, ErrorNeedsThree
<1>5. ASSUME NEW c \in Coins, SetActive(c), UNCHANGED registrationVars PROVE IInv'
  <2>1. active' \in [Coins -> BOOLEAN]
    BY <1>5 DEF SetActive, IInv, TypeOK
  <2> QED BY <1>4, <1>5, <2>1 DEF SetActive
<1>6. CASE UNCHANGED vars
  <2>1. active' \in [Coins -> BOOLEAN]
    BY <1>6 DEF vars, watchVars, IInv, TypeOK
  <2> QED BY <1>4, <1>6, <2>1 DEF vars, watchVars, registrationVars
<1> QED BY <1>1, <1>2, <1>3, <1>5, <1>6 DEF Next

LEMMA MembersInv == Spec => []IInv
BY MembersInit, MembersNext, PTL DEF Spec

\* Accounts, visits, rows and clicks keep their types, and keys are unique.
THEOREM MembersTypeOK == Spec => []TypeOK
<1>1. IInv => TypeOK
  BY DEF IInv
<1> QED BY <1>1, MembersInv, PTL

\* register of accounts/views.py: who is welcomed has the account of his name,
\* however registrations race and answers are lost.
THEOREM MembersWelcomed == Spec => []WelcomedCanLogIn
<1>1. IInv => WelcomedCanLogIn
  <2> SUFFICES ASSUME IInv, NEW v \in Visitors, visit[v].at = "welcomed"
               PROVE  {a \in accounts : a.name = visit[v].name} =
                        {[name |-> visit[v].name, owner |-> v]}
    BY DEF WelcomedCanLogIn
  <2> DEFINE own == [name |-> visit[v].name, owner |-> v]
  <2>1. own \in accounts /\ own.name = visit[v].name
    BY DEF IInv, RegInv, SavedIsStored
  <2>2. \A a \in accounts : a.name = own.name => a = own
    BY <2>1 DEF IInv, RegInv, NamesUnique
  <2> QED BY <2>1, <2>2
<1> QED BY <1>1, MembersInv, PTL

\* The toggle's delete removes the row that it found and no other.
THEOREM MembersLateDelete == Spec => []LateDeleteSparesNewRow
<1>1. IInv => LateDeleteSparesNewRow
  BY DEF IInv, WatchInv
<1> QED BY <1>1, MembersInv, PTL

\* get_or_create fails only when three clicks meet.
THEOREM MembersErrorNeedsThree == Spec => []ErrorNeedsThree
<1>1. IInv => ErrorNeedsThree
  BY DEF IInv, WatchInv
<1> QED BY <1>1, MembersInv, PTL

-----------------------------------------------------------------------------
(* A click that is alone.                                                  *)

\* While t is alone its user's rows of the coin are as t has seen them.
AloneSees ==
  \A t \in Toggles :
    InFlight(t) /\ toggle[t].alone =>
      /\ \A s \in Toggles \ {t} : InFlight(s) => ~ SamePair(s, t)
      /\ toggle[t].at \in {"clicked", "found"} => toggle[t].was = (RowsOf(t) # {})
      /\ toggle[t].at = "inserting" => ~ toggle[t].was /\ RowsOf(t) = {}
      /\ toggle[t].at = "deleting" =>
           toggle[t].was /\ \E w \in RowsOf(t) : w.key = toggle[t].key
      /\ toggle[t].at # "conflict"

LoneFlip(t) ==
  InFlight(t) /\ toggle[t].alone /\ ~ InFlight(t)' =>
    /\ toggle'[t].at \in {"added", "removed", "ignored"}
    /\ (RowsOf(t)' # {}) = IF toggle'[t].at = "ignored" THEN toggle[t].was
                           ELSE ~ toggle[t].was

\* What a step of t other than its click leaves to the other clicks.
LEMMA OthersSee ==
  ASSUME IInv, AloneSees, NEW t \in Toggles, InFlight(t),
         NEW at \in Places, NEW key \in Nat, Moved(t, at, key),
         \A w \in watched' \ watched : w.user = toggle[t].user /\ w.coin = toggle[t].coin,
         \A w \in watched \ watched' : w.user = toggle[t].user /\ w.coin = toggle[t].coin
  PROVE  \A u \in Toggles \ {t} : InFlight(u)' /\ toggle'[u].alone =>
           /\ RowsOf(u)' = RowsOf(u)
           /\ \A s \in Toggles \ {u} : InFlight(s)' => ~ SamePair(s, u)'
<1> SUFFICES ASSUME NEW u \in Toggles \ {t}, InFlight(u)', toggle'[u].alone
             PROVE  /\ RowsOf(u)' = RowsOf(u)
                    /\ \A s \in Toggles \ {u} : InFlight(s)' => ~ SamePair(s, u)'
  OBVIOUS
<1>1. toggle'[u] = toggle[u] /\ InFlight(u) /\ toggle[u].alone /\ toggle[u] # NoToggle
  BY DEF Moved, InFlight, NoToggle
<1>2. \A s \in Toggles \ {u} : InFlight(s) => ~ SamePair(s, u)
  BY <1>1 DEF AloneSees
<1>3. \A s \in Toggles \ {u} : InFlight(s)' => InFlight(s)
  BY DEF Moved, InFlight
<1>4. \A s \in Toggles : SamePair(s, u)' <=> SamePair(s, u)
  BY MovedKeepsPairs DEF IInv
<1>5. ~ (toggle[t].user = toggle[u].user /\ toggle[t].coin = toggle[u].coin)
  BY <1>1, <1>2 DEF SamePair, InFlight, NoToggle
<1>6. RowsOf(u)' = RowsOf(u)
  <2>1. RowsOf(u)' = {w \in watched' : w.user = toggle[u].user /\ w.coin = toggle[u].coin}
    BY <1>1 DEF RowsOf
  <2> QED BY <1>5, <2>1 DEF RowsOf
<1> QED BY <1>2, <1>3, <1>4, <1>6

\* What AloneSees says of t's own rows.
Sees(t) ==
  /\ toggle[t].at \in {"clicked", "found"} => toggle[t].was = (RowsOf(t) # {})
  /\ toggle[t].at = "inserting" => ~ toggle[t].was /\ RowsOf(t) = {}
  /\ toggle[t].at = "deleting" =>
       toggle[t].was /\ \E w \in RowsOf(t) : w.key = toggle[t].key
  /\ toggle[t].at # "conflict"

LEMMA AloneGoesOn ==
  ASSUME IInv, AloneSees, NEW t \in Toggles, InFlight(t),
         NEW at \in Places, NEW key \in Nat, Moved(t, at, key),
         \A w \in watched' \ watched : w.user = toggle[t].user /\ w.coin = toggle[t].coin,
         \A w \in watched \ watched' : w.user = toggle[t].user /\ w.coin = toggle[t].coin,
         toggle[t].alone /\ InFlight(t)' => Sees(t)',
         toggle[t].alone => LoneFlip(t)
  PROVE  AloneSees' /\ \A u \in Toggles : LoneFlip(u)
<1>1. \A u \in Toggles \ {t} : toggle'[u] = toggle[u]
  BY DEF Moved
<1>2. \A u \in Toggles \ {t} : InFlight(u)' /\ toggle'[u].alone =>
        /\ RowsOf(u)' = RowsOf(u)
        /\ \A s \in Toggles \ {u} : InFlight(s)' => ~ SamePair(s, u)'
  BY OthersSee
<1>3. \A u \in Toggles \ {t} : InFlight(u)' /\ toggle'[u].alone => Sees(u)'
  <2> SUFFICES ASSUME NEW u \in Toggles \ {t}, InFlight(u)', toggle'[u].alone PROVE Sees(u)'
    OBVIOUS
  <2>1. toggle'[u] = toggle[u] /\ InFlight(u) /\ toggle[u].alone /\ RowsOf(u)' = RowsOf(u)
    BY <1>1, <1>2 DEF InFlight
  <2>2. Sees(u)
    BY <2>1 DEF AloneSees, Sees
  <2> QED BY <2>1, <2>2 DEF Sees
<1>4. toggle'[t].alone = toggle[t].alone
  BY DEF Moved
<1>5. InFlight(t)' /\ toggle'[t].alone =>
        \A s \in Toggles \ {t} : InFlight(s)' => ~ SamePair(s, t)'
  <2>1. \A s \in Toggles : SamePair(s, t)' <=> SamePair(s, t)
    BY MovedKeepsPairs DEF IInv
  <2>2. \A s \in Toggles \ {t} : InFlight(s)' => InFlight(s)
    BY <1>1 DEF InFlight
  <2> QED BY <1>4, <2>1, <2>2 DEF AloneSees
<1>6. AloneSees'
  <2>1. \A u \in Toggles : InFlight(u)' /\ toggle'[u].alone =>
          /\ \A s \in Toggles \ {u} : InFlight(s)' => ~ SamePair(s, u)'
          /\ Sees(u)'
    BY <1>2, <1>3, <1>4, <1>5
  <2> QED BY <2>1 DEF AloneSees, Sees
<1>7. \A u \in Toggles : LoneFlip(u)
  BY <1>1 DEF LoneFlip, InFlight
<1> QED BY <1>6, <1>7

LEMMA AloneToggle ==
  ASSUME IInv, AloneSees, NEW t \in Toggles, Toggle(t)
  PROVE  AloneSees' /\ \A u \in Toggles : LoneFlip(u)
<1>1. toggle[t].at # "idle" /\ toggle[t].key \in Nat /\ TypeOK /\ newest \in Nat
  <2>1. toggle[t].at # "idle"
    BY DEF Toggle, FindCoin, Get, GetNothing, Insert, Conflict, ConflictVanished, Delete
  <2> QED BY <2>1 DEF IInv, TypeOK, NoToggle, Clicks
<1>2. InFlight(t)
  BY DEF Toggle, FindCoin, Get, GetNothing, Insert, Conflict, ConflictVanished, Delete, InFlight
<1>3. toggle[t].alone => Sees(t)
  BY <1>2 DEF AloneSees, Sees
\* A statement that touches no row.
<1>4. ASSUME NEW at \in Places, NEW key \in Nat, Moved(t, at, key), watched' = watched,
             toggle[t].alone /\ InFlight(t)' => Sees(t)',
             toggle[t].alone => LoneFlip(t)
      PROVE  AloneSees' /\ \A u \in Toggles : LoneFlip(u)
  BY <1>2, <1>4, AloneGoesOn
<1>5. ASSUME NEW at \in Places, NEW key \in Nat, Moved(t, at, key)
      PROVE  /\ toggle'[t].at = at /\ toggle'[t].key = key /\ toggle'[t].was = toggle[t].was
             /\ watched' = watched => RowsOf(t)' = RowsOf(t)
  BY <1>5 DEF Moved, RowsOf
<1>6. CASE FindCoin(t)
  <2>1. PICK at \in {"found", "ignored"} : Go(t, at)
    BY <1>6 DEF FindCoin
  <2>2. Moved(t, at, toggle[t].key) /\ at \in Places /\ watched' = watched
    BY <1>1, <1>6, <2>1, MovedByGo DEF FindCoin, Places
  <2>3. /\ toggle'[t].at = at /\ toggle'[t].was = toggle[t].was
        /\ RowsOf(t)' = RowsOf(t) /\ toggle[t].at = "clicked"
    BY <1>1, <1>5, <1>6, <2>2 DEF FindCoin
  <2>4. toggle[t].alone /\ InFlight(t)' => Sees(t)'
    BY <1>3, <2>3 DEF Sees, InFlight
  <2>5. toggle[t].alone => LoneFlip(t)
    BY <1>3, <2>3 DEF Sees, LoneFlip, InFlight
  <2> QED BY <1>1, <1>4, <2>2, <2>4, <2>5
<1>7. CASE Get(t)
  <2>1. PICK w \in RowsOf(t) :
          toggle' = [toggle EXCEPT ![t].at = "deleting", ![t].key = w.key]
    BY <1>7 DEF Get
  <2>2. w.key \in Nat /\ "deleting" \in Places
    BY <1>1 DEF RowsOf, TypeOK, Places
  <2>3. Moved(t, "deleting", w.key) /\ watched' = watched
    BY <1>1, <1>7, <2>1, <2>2, MovedWithKey DEF Get
  <2>4. /\ toggle'[t].at = "deleting" /\ toggle'[t].was = toggle[t].was
        /\ toggle'[t].key = w.key
        /\ RowsOf(t)' = RowsOf(t) /\ toggle[t].at \in {"found", "conflict"}
    BY <1>5, <1>7, <2>2, <2>3 DEF Get
  <2>5. toggle[t].alone => Sees(t)'
    BY <1>3, <2>4 DEF Sees
  <2>6. LoneFlip(t)
    BY <2>4 DEF LoneFlip, InFlight
  <2> QED BY <1>4, <2>2, <2>3, <2>5, <2>6
<1>8. CASE GetNothing(t)
  <2>1. Moved(t, "inserting", toggle[t].key) /\ "inserting" \in Places /\ watched' = watched
    BY <1>1, <1>8, MovedByGo DEF GetNothing, Places
  <2>2. /\ toggle'[t].at = "inserting" /\ toggle'[t].was = toggle[t].was
        /\ RowsOf(t)' = RowsOf(t) /\ RowsOf(t) = {} /\ toggle[t].at = "found"
    BY <1>1, <1>5, <1>8, <2>1 DEF GetNothing
  <2>3. toggle[t].alone => Sees(t)'
    BY <1>3, <2>2 DEF Sees
  <2>4. LoneFlip(t)
    BY <2>2 DEF LoneFlip, InFlight
  <2> QED BY <1>1, <1>4, <2>1, <2>3, <2>4
<1>9. CASE Insert(t)
  <2> DEFINE new == [user |-> toggle[t].user, coin |-> toggle[t].coin, key |-> newest + 1]
  <2>1. toggle' = [toggle EXCEPT ![t].at = "added", ![t].key = newest + 1]
    <3>1. newest' = newest + 1 /\ toggle' = [toggle EXCEPT ![t].at = "added", ![t].key = newest']
      BY <1>9 DEF Insert
    <3> QED BY <3>1, Zenon
  <2>2. "added" \in Places /\ newest + 1 \in Nat
    BY <1>1 DEF Places
  <2>3. Moved(t, "added", newest + 1)
    BY <1>1, <2>1, <2>2, MovedWithKey
  <2>4. watched' = watched \cup {new} /\ toggle[t].at = "inserting"
    BY <1>9 DEF Insert
  <2>5. new.user = toggle[t].user /\ new.coin = toggle[t].coin
    OBVIOUS
  <2> HIDE DEF new
  <2>6. /\ toggle'[t].at = "added" /\ toggle'[t].was = toggle[t].was
        /\ toggle'[t].user = toggle[t].user /\ toggle'[t].coin = toggle[t].coin
    BY <2>3 DEF Moved
  <2>7. RowsOf(t)' # {}
    BY <2>4, <2>5, <2>6 DEF RowsOf
  <2>8. toggle[t].alone => LoneFlip(t)
    BY <1>3, <2>4, <2>6, <2>7 DEF Sees, LoneFlip
  <2>9. ~ InFlight(t)'
    BY <2>6 DEF InFlight
  <2> QED BY <1>2, <2>2, <2>3, <2>4, <2>5, <2>8, <2>9, AloneGoesOn
<1>10. CASE Conflict(t)
  <2>1. Moved(t, "conflict", toggle[t].key) /\ "conflict" \in Places /\ watched' = watched
    BY <1>1, <1>10, MovedByGo DEF Conflict, Places
  <2>2. ~ toggle[t].alone
    BY <1>3, <1>10 DEF Conflict, Sees
  <2> QED BY <1>1, <1>4, <2>1, <2>2
<1>11. CASE ConflictVanished(t)
  <2>1. Moved(t, "error", toggle[t].key) /\ "error" \in Places /\ watched' = watched
    BY <1>1, <1>11, MovedByGo DEF ConflictVanished, Places
  <2>2. ~ toggle[t].alone
    BY <1>3, <1>11 DEF ConflictVanished, Sees
  <2> QED BY <1>1, <1>4, <2>1, <2>2
<1>12. CASE Delete(t)
  <2>1. Moved(t, "removed", toggle[t].key) /\ "removed" \in Places
    BY <1>1, <1>12, MovedByGo DEF Delete, Places
  <2>2. /\ watched' = {w \in watched : w.key # toggle[t].key}
        /\ toggle[t].at = "deleting"
    BY <1>12 DEF Delete
  <2>3. \A w \in watched \ watched' : w.user = toggle[t].user /\ w.coin = toggle[t].coin
    BY <2>2 DEF IInv, WatchInv, KeyIsPair, Keyed
  <2>4. /\ toggle'[t].at = "removed" /\ toggle'[t].was = toggle[t].was
        /\ toggle'[t].user = toggle[t].user /\ toggle'[t].coin = toggle[t].coin
    BY <2>1 DEF Moved
  <2>5. toggle[t].alone => RowsOf(t)' = {} /\ toggle[t].was
    <3> SUFFICES ASSUME toggle[t].alone PROVE RowsOf(t)' = {} /\ toggle[t].was
      OBVIOUS
    <3>1. PICK w \in RowsOf(t) : w.key = toggle[t].key
      BY <1>3, <2>2 DEF Sees
    <3>2. \A x \in RowsOf(t) : x = w
      BY <3>1 DEF RowsOf, IInv, WatchInv, OneRowPerPair
    <3> QED BY <1>3, <2>2, <2>4, <3>1, <3>2 DEF RowsOf, Sees
  <2>6. toggle[t].alone => LoneFlip(t)
    BY <2>2, <2>4, <2>5 DEF LoneFlip
  <2>7. ~ InFlight(t)'
    BY <2>4 DEF InFlight
  <2> QED BY <1>1, <1>2, <2>1, <2>2, <2>3, <2>6, <2>7, AloneGoesOn
<1> QED BY <1>6, <1>7, <1>8, <1>9, <1>10, <1>11, <1>12 DEF Toggle

LEMMA AloneClick ==
  ASSUME IInv, AloneSees, NEW t \in Toggles, ClickAsUser(t)
  PROVE  AloneSees' /\ \A u \in Toggles : LoneFlip(u)
<1>1. PICK a \in accounts, c \in Coins : Click(t, a.name, c)
  BY DEF ClickAsUser
<1> DEFINE others ==
      {s \in Toggles : InFlight(s) /\ toggle[s].user = a.name /\ toggle[s].coin = c}
<1>2. /\ watched' = watched /\ toggle[t] = NoToggle
      /\ toggle \in [Toggles -> {NoToggle} \cup Clicks]
  BY <1>1 DEF Click, IInv, TypeOK
<1>3. /\ toggle'[t].at = "clicked" /\ toggle'[t] # NoToggle
      /\ toggle'[t].user = a.name /\ toggle'[t].coin = c
      /\ toggle'[t].was = (\E w \in watched : w.user = a.name /\ w.coin = c)
      /\ toggle'[t].alone => others = {}
  BY <1>1 DEF Click, NoToggle
<1>4. \A s \in Toggles \ {t} :
        toggle'[s] = IF s \in others THEN [toggle[s] EXCEPT !.alone = FALSE] ELSE toggle[s]
  BY <1>1 DEF Click
<1>5. \A s \in others : s \in Toggles /\ InFlight(s) /\ toggle[s] \in Clicks
  BY <1>2 DEF InFlight, NoToggle
<1>6. t \notin others /\ ~ InFlight(t)
  BY <1>2 DEF InFlight, NoToggle
<1>7. \A s \in others :
        /\ ~ toggle'[s].alone /\ toggle'[s].at = toggle[s].at
        /\ toggle'[s].user = toggle[s].user /\ toggle'[s].coin = toggle[s].coin
  <2> SUFFICES ASSUME NEW s \in others
               PROVE  /\ ~ toggle'[s].alone /\ toggle'[s].at = toggle[s].at
                      /\ toggle'[s].user = toggle[s].user /\ toggle'[s].coin = toggle[s].coin
    OBVIOUS
  <2>1. toggle'[s] = [toggle[s] EXCEPT !.alone = FALSE] /\ toggle[s] \in Clicks
    BY <1>4, <1>5, <1>6
  <2> HIDE DEF others
  <2> QED BY <2>1 DEF Clicks
<1>8. \A s \in Toggles \ {t} :
        /\ InFlight(s)' <=> InFlight(s)
        /\ InFlight(s) => toggle[s] # NoToggle
             /\ toggle'[s].user = toggle[s].user /\ toggle'[s].coin = toggle[s].coin
  <2> SUFFICES ASSUME NEW s \in Toggles \ {t}
               PROVE  /\ InFlight(s)' <=> InFlight(s)
                      /\ InFlight(s) => toggle[s] # NoToggle
                           /\ toggle'[s].user = toggle[s].user
                           /\ toggle'[s].coin = toggle[s].coin
    OBVIOUS
  <2> HIDE DEF others
  <2>1. toggle'[s] = toggle[s] \/ s \in others
    BY <1>4
  <2>2. /\ toggle'[s].at = toggle[s].at
        /\ toggle'[s].user = toggle[s].user /\ toggle'[s].coin = toggle[s].coin
    BY <1>7, <2>1
  <2> QED BY <2>2 DEF InFlight, NoToggle
<1>9. ASSUME NEW u \in Toggles, InFlight(u)', toggle'[u].alone
      PROVE  /\ \A s \in Toggles \ {u} : InFlight(s)' => ~ SamePair(s, u)'
             /\ Sees(u)'
  <2>1. CASE u = t
    <3>1. \A s \in Toggles \ {t} : InFlight(s)' => ~ SamePair(s, t)'
      BY <1>3, <1>8, <1>9, <2>1 DEF SamePair
    <3>2. RowsOf(t)' = {w \in watched : w.user = a.name /\ w.coin = c}
      BY <1>2, <1>3 DEF RowsOf
    <3>3. toggle'[t].was = (RowsOf(t)' # {})
      BY <1>3, <3>2
    <3> QED BY <1>3, <2>1, <3>1, <3>3 DEF Sees
  <2>2. CASE u # t
    <3>1. u \notin others /\ toggle'[u] = toggle[u]
      BY <1>4, <1>7, <1>9, <2>2
    <3>2. InFlight(u) /\ toggle[u].alone /\ toggle[u] # NoToggle
      BY <1>8, <1>9, <2>2, <3>1
    <3>3. RowsOf(u)' = RowsOf(u)
      BY <1>2, <3>1 DEF RowsOf
    <3>4. Sees(u)'
      BY <3>1, <3>2, <3>3 DEF AloneSees, Sees
    <3>5. \A s \in Toggles \ {u, t} : InFlight(s)' => ~ SamePair(s, u)'
      BY <1>8, <3>1, <3>2 DEF AloneSees, SamePair
    <3>6. ~ SamePair(t, u)'
      BY <1>3, <3>1, <3>2 DEF SamePair
    <3> QED BY <3>4, <3>5, <3>6
  <2> QED BY <2>1, <2>2
<1>10. AloneSees'
  BY <1>9 DEF AloneSees, Sees
<1>11. \A u \in Toggles : LoneFlip(u)
  BY <1>6, <1>8 DEF LoneFlip
<1> QED BY <1>10, <1>11

LEMMA AloneInit == Init => AloneSees
<1> SUFFICES ASSUME Init PROVE AloneSees
  OBVIOUS
<1>1. toggle = [t \in Toggles |-> NoToggle]
  BY DEF Init, WatchInit
<1> QED BY <1>1 DEF AloneSees, InFlight, NoToggle

LEMMA AloneNext ==
  IInv /\ AloneSees /\ [Next]_vars => AloneSees' /\ \A u \in Toggles : LoneFlip(u)
<1> SUFFICES ASSUME IInv, AloneSees, [Next]_vars
             PROVE  AloneSees' /\ \A u \in Toggles : LoneFlip(u)
  OBVIOUS
<1>1. ASSUME watched' = watched, toggle' = toggle
      PROVE  AloneSees' /\ \A u \in Toggles : LoneFlip(u)
  BY <1>1 DEF AloneSees, LoneFlip, InFlight, SamePair, RowsOf
<1>2. ASSUME NEW t \in Toggles, ClickAsUser(t)
      PROVE  AloneSees' /\ \A u \in Toggles : LoneFlip(u)
  BY <1>2, AloneClick
<1>3. ASSUME NEW t \in Toggles, Toggle(t)
      PROVE  AloneSees' /\ \A u \in Toggles : LoneFlip(u)
  BY <1>3, AloneToggle
<1>4. CASE \E v \in Visitors : Register(v) /\ UNCHANGED watchVars
  BY <1>1, <1>4 DEF watchVars
<1>5. CASE \E c \in Coins : SetActive(c) /\ UNCHANGED registrationVars
  BY <1>1, <1>5 DEF SetActive
<1>6. CASE UNCHANGED vars
  BY <1>1, <1>6 DEF vars, watchVars
<1> QED BY <1>2, <1>3, <1>4, <1>5, <1>6 DEF Next

\* A toggle that meets no other on its coin flips what the user watches, or the
\* coin is delisted and nothing changes.
THEOREM MembersLoneToggleFlips == Spec => LoneToggleFlips
<1>1. IInv /\ AloneSees /\ [Next]_vars =>
        [\A t \in Toggles :
           InFlight(t) /\ toggle[t].alone /\ ~ InFlight(t)' =>
             /\ toggle'[t].at \in {"added", "removed", "ignored"}
             /\ (RowsOf(t)' # {}) = IF toggle'[t].at = "ignored" THEN toggle[t].was
                                    ELSE ~ toggle[t].was]_vars
  BY AloneNext DEF LoneFlip
<1>2. IInv /\ AloneSees /\ [Next]_vars => AloneSees'
  BY AloneNext
<1> QED BY <1>1, <1>2, AloneInit, MembersInv, PTL DEF Spec, LoneToggleFlips
=============================================================================
