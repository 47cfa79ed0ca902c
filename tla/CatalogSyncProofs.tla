------------------------- MODULE CatalogSyncProofs -------------------------
(***************************************************************************)
(* A run of sync_supported_coins that nobody disturbs leaves the mirror of *)
(* its list, for any lists, coins and number of processes.                 *)
(***************************************************************************)
EXTENDS CatalogSync, TLAPS

\* The tables of the processes have every process.
Tables ==
  /\ DOMAIN pc = Processes /\ DOMAIN list = Processes
  /\ DOMAIN creating = Processes /\ DOMAIN updating = Processes
  /\ DOMAIN disturbed = Processes

\* The coins of S are stored as the list l has them.
StoredAs(l, S) == S \subseteq DOMAIN rows /\ \A c \in S : rows[c] = Stored(l, c)

\* What a run has still to write is what keeps the rows from the mirror.
OnCourse(r) ==
  LET catalog == Catalog(list[r])
  IN  /\ pc[r] = "read" =>
           /\ creating[r] = catalog \ DOMAIN rows
           /\ \A c \in catalog \cap DOMAIN rows :
                c \in updating[r] <=> NeedsUpdate(list[r], c)
      /\ pc[r] = "created" =>
           catalog \subseteq DOMAIN rows /\ StoredAs(list[r], catalog \ updating[r])
      /\ pc[r] = "updated" => StoredAs(list[r], catalog)

SyncInv ==
  /\ TypeOK
  /\ Tables
  /\ \A r \in Processes : ~ disturbed[r] => OnCourse(r)

\* A coin of a list has a name there that is stored whole or clipped.
LEMMA StoredType ==
  ASSUME NEW l \in Lists, NEW c \in Catalog(l)
  PROVE  /\ c \in Coins
         /\ Stored(l, c) \in [name : Names \cup {Clipped}, active : BOOLEAN]
         /\ Stored(l, c).active
<1>1. l[c] \in Names \cup {Oversized} /\ c \in Coins
  BY DEF Catalog
<1> QED BY <1>1 DEF Stored

\* A row that needs no update has what the list says, under its whole name: no
\* row has an over-long one.
LEMMA UpToDateIsStored ==
  ASSUME NEW l \in Lists, NEW c \in Catalog(l), c \in DOMAIN rows,
         rows[c] \in [name : Names \cup {Clipped}, active : BOOLEAN],
         ~ NeedsUpdate(l, c)
  PROVE  rows[c] = Stored(l, c)
<1>1. rows[c].name = l[c] /\ rows[c].active = TRUE
  BY DEF NeedsUpdate
<1>2. l[c] # Oversized
  BY <1>1, MarkersAssumption
<1>3. rows[c] = [name |-> rows[c].name, active |-> rows[c].active]
  OBVIOUS
<1> QED BY <1>1, <1>2, <1>3 DEF Stored

LEMMA SyncInit == Init => SyncInv
<1> SUFFICES ASSUME Init PROVE SyncInv
  OBVIOUS
<1>1. TypeOK
  BY DEF Init, TypeOK
<1>2. Tables
  BY DEF Init, Tables
<1> QED BY <1>1, <1>2 DEF Init, SyncInv, OnCourse

\* A run that has read the rows stays on its course while others write, unless
\* they disturb it.
LEMMA OthersStayOnCourse ==
  ASSUME SyncInv, NEW r \in Processes, NEW s \in Processes \ {r},
         pc'[s] = pc[s], list'[s] = list[s],
         creating'[s] = creating[s], updating'[s] = updating[s],
         HasRead(s) => (~ disturbed'[s] => ~ disturbed[s] /\ rows' = rows),
         ~ disturbed'[s]
  PROVE  OnCourse(s)'
<1>1. CASE HasRead(s)
  <2>1. OnCourse(s) /\ rows' = rows
    BY <1>1 DEF SyncInv
  <2> QED BY <2>1 DEF OnCourse, StoredAs, NeedsUpdate
<1>2. CASE ~ HasRead(s)
  BY <1>2 DEF HasRead, OnCourse
<1> QED BY <1>1, <1>2

\* What becomes of the others when a run writes.
LEMMA WriteDisturbs ==
  ASSUME SyncInv, NEW r \in Processes, NEW new, Write(r, new), HasRead(r)
  PROVE  /\ rows' = new
         /\ DOMAIN disturbed' = Processes
         /\ \A s \in Processes : disturbed'[s] \in BOOLEAN
         /\ disturbed'[r] <=> disturbed[r]
         /\ \A s \in Processes \ {r} :
              HasRead(s) => (~ disturbed'[s] => ~ disturbed[s] /\ rows' = rows)
<1>1. rows' = new
  BY DEF Write
<1>2. disturbed' = [s \in Processes |-> HasRead(s) /\ (disturbed[s] \/ (s # r /\ new # rows))]
  BY DEF Write
<1>3. \A s \in Processes :
        disturbed'[s] = (HasRead(s) /\ (disturbed[s] \/ (s # r /\ new # rows)))
  BY <1>2
<1>4. disturbed[r] \in BOOLEAN
  BY DEF SyncInv, TypeOK
<1> QED BY <1>1, <1>2, <1>3, <1>4

\* One process is somewhere else, the others are where they were.
Moves(r, where) ==
  /\ pc'[r] = where
  /\ DOMAIN pc' = Processes
  /\ \A s \in Processes \ {r} : pc'[s] = pc[s]

\* The locals of the other processes are what they were.
OthersKeep(r) ==
  /\ DOMAIN list' = Processes
  /\ DOMAIN creating' = Processes /\ DOMAIN updating' = Processes
  /\ \A s \in Processes \ {r} :
       list'[s] = list[s] /\ creating'[s] = creating[s] /\ updating'[s] = updating[s]

LEMMA GoMoves ==
  ASSUME Tables, NEW r \in Processes, NEW where, Go(r, where)
  PROVE  Moves(r, where)
BY DEF Tables, Go, Moves

LEMMA EndMoves ==
  ASSUME Tables, NEW r \in Processes, End(r)
  PROVE  /\ Moves(r, "idle") /\ OthersKeep(r)
         /\ list'[r] = NoList /\ creating'[r] = {} /\ updating'[r] = {}
<1>1. Moves(r, "idle")
  BY GoMoves DEF End
<1> QED BY <1>1 DEF Tables, End, OthersKeep

\* The part of TypeOK that speaks of one process.
RunType(r) ==
  /\ pc[r] \in {"idle", "answered", "fetched", "read", "created", "updated"}
  /\ IF pc[r] = "idle" THEN list[r] = NoList ELSE list[r] \in Lists
  /\ creating[r] \cup updating[r] # {} =>
       HasRead(r) /\ creating[r] \cup updating[r] \subseteq Catalog(list[r])
  /\ disturbed[r] \in BOOLEAN

RowsType ==
  /\ DOMAIN rows \subseteq Coins
  /\ \A c \in DOMAIN rows : rows[c] \in [name : Names \cup {Clipped}, active : BOOLEAN]

LEMMA TypeParts ==
  TypeOK <=> /\ RowsType
             /\ upstream \in Lists /\ cache \in Lists \cup {NoList}
             /\ quiet \in BOOLEAN
             /\ \A r \in Processes : RunType(r)
BY DEF TypeOK, RowsType, RunType

\* A step of r is safe if it keeps the tables and r, and disturbs whom it must.
LEMMA OneRunSteps ==
  ASSUME SyncInv, NEW r \in Processes, NEW where, Moves(r, where), OthersKeep(r),
         RowsType', upstream' \in Lists, cache' \in Lists \cup {NoList}, quiet' \in BOOLEAN,
         DOMAIN disturbed' = Processes,
         \A s \in Processes : disturbed'[s] \in BOOLEAN,
         \A s \in Processes \ {r} :
           HasRead(s) => (~ disturbed'[s] => ~ disturbed[s] /\ rows' = rows),
         RunType(r)', ~ disturbed'[r] => OnCourse(r)'
  PROVE  SyncInv'
<1>1. Tables'
  BY DEF Tables, Moves, OthersKeep
<1>2. ASSUME NEW s \in Processes PROVE RunType(s)'
  <2>1. CASE s # r
    BY <2>1, TypeParts DEF SyncInv, Moves, OthersKeep, RunType, HasRead
  <2> QED BY <2>1
<1>3. ASSUME NEW s \in Processes, ~ disturbed'[s] PROVE OnCourse(s)'
  <2>1. CASE s # r
    BY <1>3, <2>1, OthersStayOnCourse DEF Moves, OthersKeep
  <2> QED BY <1>3, <2>1
<1>4. TypeOK'
  BY <1>2 DEF TypeOK, RowsType, RunType, HasRead
<1> QED BY <1>1, <1>3, <1>4 DEF SyncInv

LEMMA StepKeeps ==
  ASSUME SyncInv, NEW r \in Processes, Step(r) \/ Fail(r)
  PROVE  SyncInv'
<1>0. /\ Tables /\ RowsType /\ RunType(r)
      /\ upstream \in Lists /\ cache \in Lists \cup {NoList} /\ quiet \in BOOLEAN
      /\ \A s \in Processes : disturbed[s] \in BOOLEAN
      /\ DOMAIN disturbed = Processes
  BY TypeParts DEF SyncInv, Tables, RunType
<1>1. CASE UseCachedList(r) \/ RequestList(r)
  <2>1. PICK where \in {"fetched", "answered"} : Go(r, where)
    BY <1>1 DEF UseCachedList, RequestList
  <2>2. /\ list' = [list EXCEPT ![r] = list'[r]] /\ list'[r] \in Lists
        /\ rows' = rows /\ upstream' = upstream /\ cache' = cache /\ quiet' = quiet
        /\ creating' = creating /\ updating' = updating /\ disturbed' = disturbed
        /\ pc[r] = "idle"
    BY <1>0, <1>1 DEF UseCachedList, RequestList, Begins, Tables
  <2>3. Moves(r, where) /\ OthersKeep(r)
    <3>1. Moves(r, where)
      BY <1>0, <2>1, GoMoves
    <3> QED BY <1>0, <2>2, <3>1 DEF Tables, OthersKeep
  <2>4. RunType(r)'
    BY <1>0, <2>1, <2>2, <2>3 DEF RunType, Moves, HasRead
  <2>5. OnCourse(r)'
    BY <2>1, <2>3 DEF OnCourse, Moves
  <2>6. RowsType'
    BY <1>0, <2>2 DEF RowsType
  <2> QED BY <1>0, <2>2, <2>3, <2>4, <2>5, <2>6, OneRunSteps
<1>2. CASE StoreList(r)
  <2>1. /\ pc[r] = "answered" /\ cache' = list[r] /\ Go(r, "fetched")
        /\ rows' = rows /\ upstream' = upstream /\ quiet' = quiet
        /\ list' = list /\ creating' = creating /\ updating' = updating
        /\ disturbed' = disturbed
    BY <1>2 DEF StoreList, runVars
  <2>2. Moves(r, "fetched") /\ OthersKeep(r)
    <3>1. Moves(r, "fetched")
      BY <1>0, <2>1, GoMoves
    <3> QED BY <1>0, <2>1, <3>1 DEF Tables, OthersKeep
  <2>3. list[r] \in Lists
    BY <1>0, <2>1 DEF RunType
  <2>4. RunType(r)'
    BY <1>0, <2>1, <2>2, <2>3 DEF RunType, Moves, HasRead
  <2>5. OnCourse(r)'
    BY <2>2 DEF OnCourse, Moves
  <2>6. RowsType'
    BY <1>0, <2>1 DEF RowsType
  <2> QED BY <1>0, <2>1, <2>2, <2>3, <2>4, <2>5, <2>6, OneRunSteps
<1>3. CASE ReadExisting(r)
  <2> DEFINE catalog == Catalog(list[r])
  <2>1. /\ pc[r] = "fetched"
        /\ creating' = [creating EXCEPT ![r] = catalog \ DOMAIN rows]
        /\ updating' = [updating EXCEPT ![r] =
                          {c \in catalog \cap DOMAIN rows : NeedsUpdate(list[r], c)}]
        /\ disturbed' = [disturbed EXCEPT ![r] = FALSE]
        /\ Go(r, "read")
        /\ rows' = rows /\ upstream' = upstream /\ cache' = cache /\ quiet' = quiet
        /\ list' = list
    BY <1>3 DEF ReadExisting
  <2>2. Moves(r, "read") /\ OthersKeep(r)
    <3>1. Moves(r, "read")
      BY <1>0, <2>1, GoMoves
    <3> QED BY <1>0, <2>1, <3>1 DEF Tables, OthersKeep
  <2>3. /\ list'[r] \in Lists /\ list'[r] = list[r]
        /\ creating'[r] = catalog \ DOMAIN rows
        /\ updating'[r] = {c \in catalog \cap DOMAIN rows : NeedsUpdate(list[r], c)}
    BY <1>0, <2>1 DEF RunType, Tables
  <2>4. /\ DOMAIN disturbed' = Processes /\ disturbed'[r] = FALSE
        /\ \A s \in Processes \ {r} : disturbed'[s] = disturbed[s]
    BY <1>0, <2>1
  <2>5. RunType(r)'
    BY <2>2, <2>3, <2>4 DEF RunType, Moves, HasRead, Catalog
  <2>6. OnCourse(r)'
    <3>1. pc'[r] = "read"
      BY <2>2 DEF Moves
    <3>2. \A c \in catalog \cap DOMAIN rows : c \in updating'[r] <=> NeedsUpdate(list[r], c)
      BY <2>3
    <3> QED BY <2>1, <2>3, <3>1, <3>2 DEF OnCourse, NeedsUpdate
  <2>7. RowsType'
    BY <1>0, <2>1 DEF RowsType
  <2>8. \A s \in Processes : disturbed'[s] \in BOOLEAN
    BY <1>0, <2>4
  <2> QED BY <1>0, <2>1, <2>2, <2>4, <2>5, <2>6, <2>7, <2>8, OneRunSteps
<1>4. CASE Create(r)
  <2> DEFINE created == creating[r] \ DOMAIN rows
             new == [c \in DOMAIN rows \cup created |->
                       IF c \in created THEN Stored(list[r], c) ELSE rows[c]]
  <2>1. /\ pc[r] = "read" /\ Fits(list[r], creating[r]) /\ Write(r, new)
        /\ creating' = [creating EXCEPT ![r] = {}]
        /\ Go(r, "created")
        /\ upstream' = upstream /\ cache' = cache /\ quiet' = quiet
        /\ list' = list /\ updating' = updating
    BY <1>4 DEF Create
  <2>2. Moves(r, "created") /\ OthersKeep(r) /\ creating'[r] = {}
    <3>1. Moves(r, "created")
      BY <1>0, <2>1, GoMoves
    <3> QED BY <1>0, <2>1, <3>1 DEF Tables, OthersKeep
  <2>3. HasRead(r) /\ list[r] \in Lists
    BY <1>0, <2>1 DEF RunType, HasRead
  <2>4. /\ rows' = new
        /\ DOMAIN disturbed' = Processes
        /\ \A s \in Processes : disturbed'[s] \in BOOLEAN
        /\ disturbed'[r] <=> disturbed[r]
        /\ \A s \in Processes \ {r} :
             HasRead(s) => (~ disturbed'[s] => ~ disturbed[s] /\ rows' = rows)
    <3> HIDE DEF new
    <3> QED BY <2>1, <2>3, WriteDisturbs
  <2>5. creating[r] \subseteq Catalog(list[r])
    BY <1>0 DEF RunType
  <2>6. RowsType'
    <3>1. \A c \in created : c \in Coins
                   /\ Stored(list[r], c) \in [name : Names \cup {Clipped}, active : BOOLEAN]
      BY <2>3, <2>5, StoredType
    <3> QED BY <1>0, <2>4, <3>1 DEF RowsType
  <2>7. RunType(r)'
    BY <1>0, <2>1, <2>2, <2>3, <2>4 DEF RunType, Moves, HasRead
  <2>8. ASSUME ~ disturbed'[r] PROVE OnCourse(r)'
    <3> DEFINE catalog == Catalog(list[r])
    <3>1. /\ creating[r] = catalog \ DOMAIN rows
          /\ \A c \in catalog \cap DOMAIN rows : c \in updating[r] <=> NeedsUpdate(list[r], c)
      <4>1. pc[r] = "read" /\ OnCourse(r)
        <5> HIDE DEF new
        <5> QED BY <2>1, <2>4, <2>8 DEF SyncInv
      <4> HIDE DEF new
      <4> QED BY <4>1 DEF OnCourse
    <3>2. ASSUME NEW c \in catalog \ updating[r]
          PROVE  c \in DOMAIN rows' /\ rows'[c] = Stored(list[r], c)
      <4>1. CASE c \in DOMAIN rows
        <5>1. rows[c] = Stored(list[r], c)
          BY <1>0, <2>3, <3>1, <3>2, <4>1, UpToDateIsStored DEF RowsType
        <5> QED BY <2>4, <4>1, <5>1
      <4>2. CASE c \notin DOMAIN rows
        BY <2>4, <3>1, <3>2, <4>2
      <4> QED BY <4>1, <4>2
    <3>3. catalog \subseteq DOMAIN rows'
      BY <2>4, <3>1
    <3>4. pc'[r] = "created" /\ list'[r] = list[r] /\ updating'[r] = updating[r]
      BY <2>1, <2>2 DEF Moves
    <3>5. /\ Catalog(list'[r]) = catalog
          /\ \A c \in catalog \ updating'[r] :
               c \in DOMAIN rows' /\ rows'[c] = Stored(list'[r], c)
      BY <3>2, <3>4
    <3> HIDE DEF new, catalog
    <3> QED BY <3>3, <3>4, <3>5 DEF OnCourse, StoredAs
  <2> HIDE DEF new
  <2> QED BY <1>0, <2>1, <2>2, <2>4, <2>6, <2>7, <2>8, OneRunSteps
<1>5. CASE CreateFails(r) \/ Fail(r)
  <2>1. /\ End(r) /\ rows' = rows /\ upstream' = upstream /\ cache' = cache /\ quiet' = quiet
        /\ disturbed' = disturbed
    BY <1>5 DEF CreateFails, Fail
  <2>2. /\ Moves(r, "idle") /\ OthersKeep(r)
        /\ list'[r] = NoList /\ creating'[r] = {} /\ updating'[r] = {}
    BY <1>0, <2>1, EndMoves
  <2>3. RunType(r)'
    BY <1>0, <2>1, <2>2 DEF RunType, Moves
  <2>4. OnCourse(r)'
    BY <2>2 DEF OnCourse, Moves
  <2>5. RowsType'
    BY <1>0, <2>1 DEF RowsType
  <2> QED BY <1>0, <2>1, <2>2, <2>3, <2>4, <2>5, OneRunSteps
<1>6. CASE Update(r)
  <2> DEFINE new == [c \in DOMAIN rows |->
                       IF c \in updating[r] THEN Stored(list[r], c) ELSE rows[c]]
  <2>1. /\ pc[r] = "created" /\ Write(r, new)
        /\ updating' = [updating EXCEPT ![r] = {}]
        /\ Go(r, "updated")
        /\ upstream' = upstream /\ cache' = cache /\ quiet' = quiet
        /\ list' = list /\ creating' = creating
    BY <1>6 DEF Update
  <2>2. Moves(r, "updated") /\ OthersKeep(r) /\ updating'[r] = {}
    <3>1. Moves(r, "updated")
      BY <1>0, <2>1, GoMoves
    <3> QED BY <1>0, <2>1, <3>1 DEF Tables, OthersKeep
  <2>3. HasRead(r) /\ list[r] \in Lists
    BY <1>0, <2>1 DEF RunType, HasRead
  <2>4. /\ rows' = new
        /\ DOMAIN disturbed' = Processes
        /\ \A s \in Processes : disturbed'[s] \in BOOLEAN
        /\ disturbed'[r] <=> disturbed[r]
        /\ \A s \in Processes \ {r} :
             HasRead(s) => (~ disturbed'[s] => ~ disturbed[s] /\ rows' = rows)
    <3> HIDE DEF new
    <3> QED BY <2>1, <2>3, WriteDisturbs
  <2>5. updating[r] \subseteq Catalog(list[r])
    BY <1>0 DEF RunType
  <2>6. RowsType'
    <3>1. \A c \in updating[r] : c \in Coins
                   /\ Stored(list[r], c) \in [name : Names \cup {Clipped}, active : BOOLEAN]
      BY <2>3, <2>5, StoredType
    <3> QED BY <1>0, <2>4, <3>1 DEF RowsType
  <2>7. RunType(r)'
    BY <1>0, <2>1, <2>2, <2>3, <2>4 DEF RunType, Moves, HasRead
  <2>8. ASSUME ~ disturbed'[r] PROVE OnCourse(r)'
    <3> DEFINE catalog == Catalog(list[r])
    <3>1. /\ catalog \subseteq DOMAIN rows
          /\ \A c \in catalog \ updating[r] : rows[c] = Stored(list[r], c)
      BY <2>1, <2>4, <2>8 DEF SyncInv, OnCourse, StoredAs
    <3>2. \A c \in catalog : c \in DOMAIN rows' /\ rows'[c] = Stored(list[r], c)
      BY <2>4, <3>1
    <3>3. pc'[r] = "updated" /\ list'[r] = list[r]
      BY <2>1, <2>2 DEF Moves
    <3> HIDE DEF new
    <3> QED BY <3>2, <3>3 DEF OnCourse, StoredAs, Stored
  <2> HIDE DEF new
  <2> QED BY <1>0, <2>1, <2>2, <2>4, <2>6, <2>7, <2>8, OneRunSteps
<1>7. CASE Deactivate(r)
  <2> DEFINE new == [c \in DOMAIN rows |->
                       IF c \in Catalog(list[r]) THEN rows[c]
                       ELSE [rows[c] EXCEPT !.active = FALSE]]
  <2>1. /\ pc[r] = "updated" /\ Write(r, new) /\ End(r)
        /\ upstream' = upstream /\ cache' = cache /\ quiet' = quiet
    BY <1>7 DEF Deactivate
  <2>2. /\ Moves(r, "idle") /\ OthersKeep(r)
        /\ list'[r] = NoList /\ creating'[r] = {} /\ updating'[r] = {}
    BY <1>0, <2>1, EndMoves
  <2>3. /\ rows' = new
        /\ DOMAIN disturbed' = Processes
        /\ \A s \in Processes : disturbed'[s] \in BOOLEAN
        /\ \A s \in Processes \ {r} :
             HasRead(s) => (~ disturbed'[s] => ~ disturbed[s] /\ rows' = rows)
    <3>1. HasRead(r)
      BY <2>1 DEF HasRead
    <3> HIDE DEF new
    <3> QED BY <2>1, <3>1, WriteDisturbs
  <2>4. RowsType'
    BY <1>0, <2>3 DEF RowsType
  <2>5. RunType(r)'
    BY <2>2, <2>3 DEF RunType, Moves
  <2>6. OnCourse(r)'
    BY <2>2 DEF OnCourse, Moves
  <2> HIDE DEF new
  <2> QED BY <1>0, <2>1, <2>2, <2>3, <2>4, <2>5, <2>6, OneRunSteps
<1> QED BY <1>1, <1>2, <1>3, <1>4, <1>5, <1>6, <1>7 DEF Step

LEMMA SyncNext == SyncInv /\ [Next]_vars => SyncInv'
<1> SUFFICES ASSUME SyncInv, [Next]_vars PROVE SyncInv'
  OBVIOUS
<1>0. /\ Tables /\ RowsType /\ \A r \in Processes : RunType(r)
      /\ upstream \in Lists /\ cache \in Lists \cup {NoList} /\ quiet \in BOOLEAN
  BY TypeParts DEF SyncInv
<1>1. ASSUME NEW r \in Processes, Step(r) \/ Fail(r) PROVE SyncInv'
  BY <1>1, StepKeeps
<1>2. CASE ViewIndex \/ ExpireCache \/ ChangeList \/ BecomeQuiet \/ UNCHANGED vars
  <2>1. /\ rows' = rows /\ pc' = pc /\ list' = list /\ creating' = creating
        /\ updating' = updating /\ disturbed' = disturbed
        /\ upstream' \in Lists /\ cache' \in Lists \cup {NoList} /\ quiet' \in BOOLEAN
    BY <1>0, <1>2 DEF ViewIndex, ExpireCache, ChangeList, BecomeQuiet, vars, runVars
  <2>2. TypeOK'
    BY <1>0, <2>1 DEF TypeOK, RowsType, RunType, HasRead
  <2>3. Tables'
    BY <1>0, <2>1 DEF Tables
  <2> QED BY <2>1, <2>2, <2>3 DEF SyncInv, OnCourse, StoredAs, NeedsUpdate
<1>3. ASSUME NEW c \in Coins, EditFlag(c) PROVE SyncInv'
  <2>1. /\ c \in DOMAIN rows
        /\ rows' = [rows EXCEPT ![c].active = ~ @]
        /\ disturbed' = [r \in Processes |-> HasRead(r)]
        /\ upstream' = upstream /\ cache' = cache /\ quiet' = quiet /\ pc' = pc
        /\ list' = list /\ creating' = creating /\ updating' = updating
    BY <1>3 DEF EditFlag, runVars
  <2>2. RowsType'
    BY <1>0, <2>1 DEF RowsType
  <2>3. \A r \in Processes : disturbed'[r] \in BOOLEAN /\ (disturbed'[r] <=> HasRead(r))
    <3>1. \A r \in Processes : disturbed'[r] = HasRead(r)
      BY <2>1
    <3>2. \A r \in Processes : HasRead(r) \in BOOLEAN
      BY DEF HasRead
    <3> QED BY <3>1, <3>2
  <2>4. \A r \in Processes : RunType(r)'
    <3> SUFFICES ASSUME NEW r \in Processes PROVE RunType(r)'
      OBVIOUS
    <3>1. RunType(r) /\ disturbed'[r] \in BOOLEAN
      BY <1>0, <2>3
    <3>2. /\ pc'[r] = pc[r] /\ list'[r] = list[r]
          /\ creating'[r] = creating[r] /\ updating'[r] = updating[r]
      BY <2>1
    <3> QED BY <3>1, <3>2 DEF RunType, HasRead
  <2>5. TypeOK'
    BY <1>0, <2>1, <2>2, <2>4 DEF TypeOK, RowsType, RunType, HasRead
  <2>6. \A r \in Processes : ~ disturbed'[r] => OnCourse(r)'
    BY <2>1, <2>3 DEF HasRead, OnCourse
  <2>7. Tables'
    BY <1>0, <2>1 DEF Tables
  <2> QED BY <2>5, <2>6, <2>7 DEF SyncInv
<1> QED BY <1>1, <1>2, <1>3 DEF Next

\* What a run is about to write is in its list and an over-long name is never
\* stored, whatever overlaps, fails or is edited.
THEOREM SyncTypeOK == Spec => []TypeOK
<1>1. SyncInv => TypeOK
  BY DEF SyncInv
<1> QED BY <1>1, SyncInit, SyncNext, PTL DEF Spec

\* Mirror local active flags: the last statement of an undisturbed run leaves
\* exactly the coins of its list active, under the list's names.
THEOREM SyncMirrors == Spec => UndisturbedRunMirrors
<1>1. ASSUME SyncInv, NEW r \in Processes, Deactivate(r), ~ disturbed[r]
      PROVE  Mirrors(rows', list[r])
  <2>1. pc[r] = "updated" /\ RowsType
    BY <1>1, TypeParts DEF Deactivate, SyncInv
  <2>2. /\ Catalog(list[r]) \subseteq DOMAIN rows
        /\ \A c \in Catalog(list[r]) : rows[c] = Stored(list[r], c)
    BY <1>1, <2>1 DEF SyncInv, OnCourse, StoredAs
  <2>3. rows' = [c \in DOMAIN rows |-> IF c \in Catalog(list[r]) THEN rows[c]
                                       ELSE [rows[c] EXCEPT !.active = FALSE]]
    BY <1>1 DEF Deactivate, Write
  <2>4. \A c \in DOMAIN rows \ Catalog(list[r]) : ~ rows'[c].active
    BY <2>1, <2>3 DEF RowsType
  <2> QED BY <2>2, <2>3, <2>4 DEF Mirrors
<1>2. SyncInv /\ [Next]_vars =>
        [\A r \in Processes : Deactivate(r) /\ ~ disturbed[r] => Mirrors(rows', list[r])]_vars
  BY <1>1
<1> QED BY <1>2, SyncInit, SyncNext, PTL DEF Spec, UndisturbedRunMirrors
=============================================================================
