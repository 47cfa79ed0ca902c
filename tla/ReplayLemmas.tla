---------------------------- MODULE ReplayLemmas ----------------------------
(***************************************************************************)
(* Facts about the operators that the models of the ledger are built from, *)
(* for every ledger: sums over finite sets, balances of prefixes, what     *)
(* adding a row does to feasibility, and what is left of a buy.            *)
(***************************************************************************)
EXTENDS Fifo, FiniteSets, FiniteSetTheorems, TLAPS

-----------------------------------------------------------------------------
(* Sums.  The community definition of SumFunctionOnSet is a recursive      *)
(* function that takes the elements in an order of its own (CHOOSE).       *)
(* SumOn states its recursion, SumExists and SumUnique show that it        *)
(* defines one function, and the other lemmas follow by taking a smallest  *)
(* counterexample (MinimalSubset).                                         *)

\* A non-empty family of subsets of a finite set has a smallest member.
LEMMA MinimalSubset ==
  ASSUME NEW S, IsFiniteSet(S),
         NEW Bad, Bad \subseteq SUBSET S, Bad # {}
  PROVE  \E T \in Bad : \A U \in Bad : ~ (U \subseteq T /\ U # T)
<1> DEFINE R == StrictSubsetOrdering(S)
<1>1. IsWellFoundedOn(R, SUBSET S)
  BY FS_StrictSubsetOrderingWellFounded, FS_FiniteSubsetsOfFinite
<1>2. PICK T \in Bad : \A U \in Bad : ~ (<<U, T>> \in R)
  <2> HIDE DEF R
  <2> QED BY <1>1, WFMin
<1>3. \A U \in Bad : U \subseteq T /\ U # T => <<U, T>> \in R
  BY DEF StrictSubsetOrdering
<1>4. ASSUME NEW U \in Bad
      PROVE  ~ (U \subseteq T /\ U # T)
  <2> HIDE DEF R
  <2> QED BY <1>2, <1>3
<1> QED BY <1>4

\* The element of T that the sum takes first.
Pick(T) == CHOOSE x \in T : TRUE

\* A non-empty set has the element the sum takes first.
LEMMA PickIn ==
  ASSUME NEW T, T # {}
  PROVE  Pick(T) \in T
BY DEF Pick

\* g is the sum of f, for the subsets of S.
SumOn(g, f, S) ==
  g = [T \in SUBSET S |-> IF T = {} THEN 0 ELSE f[Pick(T)] + g[T \ {Pick(T)}]]

\* The community definition, with its recursion named.
LEMMA SumUnfold ==
  ASSUME NEW f, NEW S
  PROVE  SumFunctionOnSet(f, S) = (CHOOSE g : SumOn(g, f, S))[S]
BY DEF SumFunctionOnSet, FoldFunctionOnSet, MapThenFoldSet, SumOn, Pick

\* Such a function is 0 on the empty set.
LEMMA SumOnEmpty ==
  ASSUME NEW f, NEW S, NEW g, SumOn(g, f, S)
  PROVE  g[{}] = 0
<1>1. {} \in SUBSET S
  OBVIOUS
<1> QED BY <1>1 DEF SumOn

\* One step of the recursion.
LEMMA SumOnValue ==
  ASSUME NEW f, NEW S, NEW g, SumOn(g, f, S), NEW T \in SUBSET S
  PROVE  /\ T = {} => g[T] = 0
         /\ T # {} => /\ Pick(T) \in T
                      /\ T \ {Pick(T)} \in SUBSET S
                      /\ g[T] = f[Pick(T)] + g[T \ {Pick(T)}]
<1>1. g[T] = IF T = {} THEN 0 ELSE f[Pick(T)] + g[T \ {Pick(T)}]
  BY DEF SumOn
<1> QED BY <1>1, PickIn

\* The recursion has at most one solution on a finite set.
LEMMA SumUnique ==
  ASSUME NEW f, NEW S, IsFiniteSet(S), NEW g, NEW h, SumOn(g, f, S), SumOn(h, f, S)
  PROVE  \A T \in SUBSET S : g[T] = h[T]
<1> DEFINE Bad == {T \in SUBSET S : g[T] # h[T]}
<1> SUFFICES ASSUME Bad # {} PROVE FALSE
  OBVIOUS
<1>1. PICK T \in Bad : \A U \in Bad : ~ (U \subseteq T /\ U # T)
  <2>1. Bad \subseteq SUBSET S
    OBVIOUS
  <2> HIDE DEF Bad
  <2> QED BY <2>1, MinimalSubset
<1>2. T # {}
  <2>1. g[T] # h[T]
    BY <1>1
  <2>2. g[{}] = 0 /\ h[{}] = 0
    BY SumOnEmpty
  <2> HIDE DEF Bad
  <2> QED BY <2>1, <2>2, Zenon
<1>3. Pick(T) \in T
  BY <1>2, PickIn
<1>4. g[T \ {Pick(T)}] = h[T \ {Pick(T)}]
  BY <1>1, <1>3
<1>5. T \in SUBSET S /\ g[T] # h[T]
  BY <1>1
<1> HIDE DEF Bad
<1>6. g[T] = f[Pick(T)] + g[T \ {Pick(T)}]
  BY <1>2, <1>5, SumOnValue
<1>7. h[T] = f[Pick(T)] + h[T \ {Pick(T)}]
  BY <1>2, <1>5, SumOnValue
<1> QED BY <1>4, <1>5, <1>6, <1>7

\* A solution for a set is a solution for its subsets.
LEMMA SumRestrict ==
  ASSUME NEW f, NEW S, NEW g, SumOn(g, f, S), NEW T \in SUBSET S
  PROVE  SumOn([U \in SUBSET T |-> g[U]], f, T)
<1> DEFINE h == [U \in SUBSET T |-> g[U]]
<1>1. ASSUME NEW U \in SUBSET T
      PROVE  h[U] = IF U = {} THEN 0 ELSE f[Pick(U)] + h[U \ {Pick(U)}]
  <2>1. U \in SUBSET S /\ U \ {Pick(U)} \in SUBSET T
    OBVIOUS
  <2>2. h[U] = g[U] /\ h[U \ {Pick(U)}] = g[U \ {Pick(U)}]
    BY <2>1
  <2> QED BY <2>1, <2>2, SumOnValue
<1>2. h = [U \in SUBSET T |-> h[U]]
  OBVIOUS
<1> HIDE DEF h
<1>3. h = [U \in SUBSET T |-> IF U = {} THEN 0 ELSE f[Pick(U)] + h[U \ {Pick(U)}]]
  BY <1>1, <1>2
<1>4. SumOn(h, f, T)
  BY <1>3 DEF SumOn
<1> QED BY <1>4 DEF h

\* SumFunctionOnSet is any solution of the recursion.
LEMMA SumChoice ==
  ASSUME NEW f, NEW S, IsFiniteSet(S), NEW g, SumOn(g, f, S), NEW T \in SUBSET S
  PROVE  SumFunctionOnSet(f, T) = g[T]
<1> DEFINE h == [U \in SUBSET T |-> g[U]]
           c == CHOOSE k : SumOn(k, f, T)
<1>1. SumOn(h, f, T)
  BY SumRestrict
<1>2. h[T] = g[T]
  OBVIOUS
<1> HIDE DEF h
<1>3. SumOn(c, f, T)
  BY <1>1
<1>4. IsFiniteSet(T)
  BY FS_Subset
<1> HIDE DEF c
<1>5. c[T] = h[T]
  BY <1>1, <1>3, <1>4, SumUnique
<1> QED BY <1>2, <1>5, SumUnfold DEF c

\* The recursion has a solution on a finite set.
LEMMA SumExists ==
  ASSUME NEW f, NEW S, IsFiniteSet(S)
  PROVE  \E g : SumOn(g, f, S)
<1> DEFINE Bad == {T \in SUBSET S : ~ \E g : SumOn(g, f, T)}
<1> SUFFICES ASSUME Bad # {} PROVE FALSE
  OBVIOUS
<1>1. PICK T \in Bad : \A U \in Bad : ~ (U \subseteq T /\ U # T)
  <2>1. Bad \subseteq SUBSET S
    OBVIOUS
  <2> HIDE DEF Bad
  <2> QED BY <2>1, MinimalSubset
<1> DEFINE Total(U) == SumFunctionOnSet(f, U)
           Rec(U) == IF U = {} THEN 0 ELSE f[Pick(U)] + Total(U \ {Pick(U)})
           h == [U \in SUBSET T |-> Rec(U)]
<1>2. ASSUME NEW U \in SUBSET T, U # T
      PROVE  Total(U) = Rec(U)
  <2>1. U \in SUBSET S /\ IsFiniteSet(U)
    BY FS_Subset
  <2>2. U \notin Bad
    BY <1>1, <1>2
  <2>3. PICK g : SumOn(g, f, U)
    BY <2>1, <2>2
  <2>4. \A V \in SUBSET U : Total(V) = g[V]
    BY <2>1, <2>3, SumChoice
  <2>5. U \in SUBSET U
    OBVIOUS
  <2>6. CASE U = {}
    BY <2>3, <2>4, <2>5, <2>6, SumOnValue
  <2>7. CASE U # {}
    <3>1. U \ {Pick(U)} \in SUBSET U /\ g[U] = f[Pick(U)] + g[U \ {Pick(U)}]
      BY <2>3, <2>5, <2>7, SumOnValue
    <3>2. Total(U) = g[U] /\ Total(U \ {Pick(U)}) = g[U \ {Pick(U)}]
      BY <2>4, <3>1
    <3> QED BY <2>7, <3>1, <3>2
  <2> QED BY <2>6, <2>7
<1>3. ASSUME NEW U \in SUBSET T
      PROVE  h[U] = IF U = {} THEN 0 ELSE f[Pick(U)] + h[U \ {Pick(U)}]
  <2>1. CASE U = {}
    BY <2>1
  <2>2. CASE U # {}
    <3>1. Pick(U) \in U
      BY <2>2, PickIn
    <3>2. U \ {Pick(U)} \in SUBSET T /\ U \ {Pick(U)} # T
      BY <3>1
    <3>3. h[U \ {Pick(U)}] = Total(U \ {Pick(U)})
      <4>1. h[U \ {Pick(U)}] = Rec(U \ {Pick(U)})
        BY <3>2
      <4> QED BY <4>1, <3>2, <1>2
    <3> QED BY <2>2, <3>3
  <2> QED BY <2>1, <2>2
<1>4. h = [U \in SUBSET T |-> h[U]]
  OBVIOUS
<1> HIDE DEF h
<1>5. SumOn(h, f, T)
  <2>1. h = [U \in SUBSET T |-> IF U = {} THEN 0 ELSE f[Pick(U)] + h[U \ {Pick(U)}]]
    BY <1>3, <1>4
  <2> QED BY <2>1 DEF SumOn
<1> QED BY <1>5, <1>1

\* The recursion of SumFunctionOnSet itself.
LEMMA SumPick ==
  ASSUME NEW f, NEW S, IsFiniteSet(S)
  PROVE  /\ S = {} => SumFunctionOnSet(f, S) = 0
         /\ S # {} => /\ Pick(S) \in S
                      /\ SumFunctionOnSet(f, S) =
                           f[Pick(S)] + SumFunctionOnSet(f, S \ {Pick(S)})
<1>1. PICK g : SumOn(g, f, S)
  BY SumExists
<1>2. \A T \in SUBSET S : SumFunctionOnSet(f, T) = g[T]
  BY <1>1, SumChoice
<1> QED BY <1>1, <1>2, SumOnValue

\* The sum over no element.
LEMMA SumEmpty ==
  ASSUME NEW f
  PROVE  SumFunctionOnSet(f, {}) = 0
BY FS_EmptySet, SumPick

\* A sum of integers is an integer.
LEMMA SumType ==
  ASSUME NEW S, IsFiniteSet(S), NEW f, \A x \in S : f[x] \in Int
  PROVE  SumFunctionOnSet(f, S) \in Int
<1> DEFINE Bad == {T \in SUBSET S : SumFunctionOnSet(f, T) \notin Int}
<1> SUFFICES ASSUME Bad # {} PROVE FALSE
  OBVIOUS
<1>1. PICK T \in Bad : \A U \in Bad : ~ (U \subseteq T /\ U # T)
  <2>1. Bad \subseteq SUBSET S
    OBVIOUS
  <2> HIDE DEF Bad
  <2> QED BY <2>1, MinimalSubset
<1>2. IsFiniteSet(T)
  BY FS_Subset
<1>3. T # {} /\ Pick(T) \in T
  <2>1. SumFunctionOnSet(f, {}) = 0
    BY FS_EmptySet, SumPick
  <2>2. T # {}
    <3>1. SumFunctionOnSet(f, T) \notin Int
      BY <1>1
    <3>2. 0 \in Int
      OBVIOUS
    <3> HIDE DEF Bad
    <3> QED BY <2>1, <3>1, <3>2, Zenon
  <2> QED BY <2>2, PickIn
<1>4. T \ {Pick(T)} \notin Bad
  BY <1>1, <1>3
<1>5. SumFunctionOnSet(f, T \ {Pick(T)}) \in Int
  BY <1>4
<1>6. f[Pick(T)] \in Int
  BY <1>3
<1>7. SumFunctionOnSet(f, T) = f[Pick(T)] + SumFunctionOnSet(f, T \ {Pick(T)})
  BY <1>2, <1>3, SumPick
<1> QED BY <1>5, <1>6, <1>7

\* Any element, not only the one taken first, can be split off a sum.
LEMMA SumRemove ==
  ASSUME NEW S, IsFiniteSet(S), NEW f, \A y \in S : f[y] \in Int, NEW x \in S
  PROVE  SumFunctionOnSet(f, S) = f[x] + SumFunctionOnSet(f, S \ {x})
<1> DEFINE Total(T) == SumFunctionOnSet(f, T)
           Bad == {T \in SUBSET S : \E y \in T : Total(T) # f[y] + Total(T \ {y})}
<1> SUFFICES ASSUME Bad # {} PROVE FALSE
  OBVIOUS
<1>1. PICK T \in Bad : \A U \in Bad : ~ (U \subseteq T /\ U # T)
  <2>1. Bad \subseteq SUBSET S
    OBVIOUS
  <2> HIDE DEF Bad
  <2> QED BY <2>1, MinimalSubset
<1>2. PICK y \in T : Total(T) # f[y] + Total(T \ {y})
  BY <1>1
<1>3. \A U \in SUBSET T : IsFiniteSet(U) /\ Total(U) \in Int
  <2> TAKE U \in SUBSET T
  <2>1. IsFiniteSet(U)
    BY FS_Subset
  <2>2. \A z \in U : f[z] \in Int
    OBVIOUS
  <2> HIDE DEF Bad
  <2> QED BY <2>1, <2>2, SumType
<1> DEFINE p == Pick(T)
           Q == T \ {p}
           W == T \ {y}
           V == (T \ {p}) \ {y}
<1>4. p \in T /\ Total(T) = f[p] + Total(Q)
  BY <1>2, <1>3, SumPick
<1>5. p # y
  BY <1>2, <1>4
<1>6. Total(Q) = f[y] + Total(V)
  <2>1. Q \notin Bad
    BY <1>1, <1>4
  <2>2. y \in Q
    BY <1>2, <1>5
  <2> QED BY <2>1, <2>2
<1>7. Total(W) = f[p] + Total(V)
  <2>1. W \notin Bad
    BY <1>1, <1>2
  <2>2. p \in W /\ W \ {p} = V
    BY <1>4, <1>5
  <2> QED BY <2>1, <2>2
<1>8. f[p] \in Int /\ f[y] \in Int /\ Total(V) \in Int
  BY <1>2, <1>3, <1>4
<1>9. Total(T) # f[y] + Total(W)
  BY <1>2
<1> HIDE DEF p, Q, W, V, Total
<1> QED BY <1>4, <1>6, <1>7, <1>8, <1>9

\* A sum depends on the values summed and on nothing else.
LEMMA SumAgree ==
  ASSUME NEW S, IsFiniteSet(S), NEW f, NEW g, \A x \in S : f[x] = g[x]
  PROVE  SumFunctionOnSet(f, S) = SumFunctionOnSet(g, S)
<1> DEFINE Bad == {T \in SUBSET S : SumFunctionOnSet(f, T) # SumFunctionOnSet(g, T)}
<1> SUFFICES ASSUME Bad # {} PROVE FALSE
  OBVIOUS
<1>1. PICK T \in Bad : \A U \in Bad : ~ (U \subseteq T /\ U # T)
  <2>1. Bad \subseteq SUBSET S
    OBVIOUS
  <2> HIDE DEF Bad
  <2> QED BY <2>1, MinimalSubset
<1>2. IsFiniteSet(T)
  BY FS_Subset
<1>3. T # {} /\ Pick(T) \in T
  <2>1. SumFunctionOnSet(f, {}) = 0 /\ SumFunctionOnSet(g, {}) = 0
    BY FS_EmptySet, SumPick
  <2>2. T # {}
    BY <1>1, <2>1
  <2> QED BY <2>2, PickIn
<1>4. T \ {Pick(T)} \notin Bad
  BY <1>1, <1>3
<1> QED BY <1>2, <1>3, <1>4, SumPick

\* Larger summands, larger sum.
LEMMA SumMonotone ==
  ASSUME NEW S, IsFiniteSet(S), NEW f, NEW g,
         \A x \in S : f[x] \in Int /\ g[x] \in Int /\ f[x] <= g[x]
  PROVE  SumFunctionOnSet(f, S) <= SumFunctionOnSet(g, S)
<1> DEFINE Low(T) == SumFunctionOnSet(f, T)
           High(T) == SumFunctionOnSet(g, T)
           Bad == {T \in SUBSET S : ~ (Low(T) <= High(T))}
<1> SUFFICES ASSUME Bad # {} PROVE FALSE
  OBVIOUS
<1>1. PICK T \in Bad : \A U \in Bad : ~ (U \subseteq T /\ U # T)
  <2>1. Bad \subseteq SUBSET S
    OBVIOUS
  <2> HIDE DEF Bad
  <2> QED BY <2>1, MinimalSubset
<1>2. IsFiniteSet(T)
  BY FS_Subset
<1>3. T # {} /\ Pick(T) \in T
  <2>1. Low({}) = 0 /\ High({}) = 0
    BY SumEmpty
  <2>2. T # {}
    <3>1. ~ (Low(T) <= High(T)) /\ Low({}) <= High({})
      BY <1>1, <2>1
    <3> HIDE DEF Low, High, Bad
    <3> QED BY <3>1, Zenon
  <2> QED BY <2>2, PickIn
<1> DEFINE p == Pick(T)
           R == T \ {p}
<1>4. Low(R) <= High(R)
  BY <1>1, <1>3
<1>5. Low(T) = f[p] + Low(R) /\ High(T) = g[p] + High(R)
  BY <1>2, <1>3, SumPick
<1>6. Low(R) \in Int /\ High(R) \in Int
  <2>1. IsFiniteSet(R) /\ \A x \in R : f[x] \in Int /\ g[x] \in Int
    BY <1>2, FS_Subset
  <2> HIDE DEF R, Bad
  <2> QED BY <2>1, SumType
<1>7. f[p] \in Int /\ g[p] \in Int /\ f[p] <= g[p]
  BY <1>3
<1>8. ~ (Low(T) <= High(T))
  BY <1>1
<1> HIDE DEF p, R, Low, High, Bad
<1> QED BY <1>4, <1>5, <1>6, <1>7, <1>8

\* A sum of naturals is at least that of a part of them.
LEMMA SumSubset ==
  ASSUME NEW S, IsFiniteSet(S), NEW f, \A x \in S : f[x] \in Nat, NEW T \in SUBSET S
  PROVE  /\ SumFunctionOnSet(f, T) <= SumFunctionOnSet(f, S)
         /\ SumFunctionOnSet(f, S) \in Nat
<1> DEFINE Total(U) == SumFunctionOnSet(f, U)
           Bad(V) == {U \in SUBSET S : V \subseteq U /\ ~ (Total(V) <= Total(U))}
<1>1. ASSUME NEW U \in SUBSET S PROVE IsFiniteSet(U) /\ Total(U) \in Int
  <2>1. IsFiniteSet(U) /\ \A x \in U : f[x] \in Int
    BY FS_Subset
  <2> QED BY <2>1, SumType
<1>2. ASSUME NEW V \in SUBSET S PROVE Total(V) <= Total(S)
  <2> SUFFICES ASSUME Bad(V) # {} PROVE FALSE
    BY <1>2
  <2>1. PICK U \in Bad(V) : \A W \in Bad(V) : ~ (W \subseteq U /\ W # U)
    <3>1. Bad(V) \subseteq SUBSET S
      OBVIOUS
    <3> HIDE DEF Bad
    <3> QED BY <3>1, MinimalSubset
  <2>2. U \in SUBSET S /\ V \subseteq U /\ ~ (Total(V) <= Total(U))
    BY <2>1
  <2>3. Total(V) \in Int /\ Total(U) \in Int
    BY <1>1, <2>2
  <2>4. PICK x \in U : x \notin V
    <3>1. U # V
      <4> HIDE DEF Total, Bad
      <4> QED BY <2>2, <2>3
    <3> QED BY <2>2, <3>1
  <2>5. U \ {x} \notin Bad(V)
    BY <2>1, <2>4
  <2>6. Total(V) <= Total(U \ {x})
    BY <2>2, <2>4, <2>5
  <2>7. Total(U) = f[x] + Total(U \ {x})
    <3>1. IsFiniteSet(U) /\ \A y \in U : f[y] \in Int
      BY <1>1, <2>2
    <3> HIDE DEF Bad
    <3> QED BY <3>1, <2>4, SumRemove
  <2>8. Total(U \ {x}) \in Int /\ f[x] \in Nat
    BY <1>1, <2>2, <2>4
  <2> HIDE DEF Total, Bad
  <2> QED BY <2>2, <2>3, <2>6, <2>7, <2>8
<1>3. Total({}) = 0 /\ Total({}) <= Total(S) /\ Total(S) \in Int
  BY <1>1, <1>2, SumEmpty
<1> HIDE DEF Total
<1>4. Total(S) \in Nat
  BY <1>3
<1> QED BY <1>2, <1>4 DEF Total

\* Sums are taken off each other summand by summand.
LEMMA SumDifference ==
  ASSUME NEW S, IsFiniteSet(S), NEW f, NEW g, NEW h,
         \A x \in S : g[x] \in Int /\ h[x] \in Int /\ f[x] = g[x] - h[x]
  PROVE  SumFunctionOnSet(f, S) = SumFunctionOnSet(g, S) - SumFunctionOnSet(h, S)
<1> DEFINE F(T) == SumFunctionOnSet(f, T)
           G(T) == SumFunctionOnSet(g, T)
           H(T) == SumFunctionOnSet(h, T)
           Bad == {T \in SUBSET S : F(T) # G(T) - H(T)}
<1> SUFFICES ASSUME Bad # {} PROVE FALSE
  OBVIOUS
<1>1. PICK T \in Bad : \A U \in Bad : ~ (U \subseteq T /\ U # T)
  <2>1. Bad \subseteq SUBSET S
    OBVIOUS
  <2> HIDE DEF Bad
  <2> QED BY <2>1, MinimalSubset
<1>2. IsFiniteSet(T) /\ T \subseteq S /\ F(T) # G(T) - H(T)
  BY <1>1, FS_Subset
<1>3. PICK x \in T : TRUE
  <2>1. F({}) = 0 /\ G({}) = 0 /\ H({}) = 0
    BY SumEmpty
  <2>2. F({}) = G({}) - H({})
    BY <2>1
  <2>3. T # {}
    <3> HIDE DEF F, G, H, Bad
    <3> QED BY <1>2, <2>2, Zenon
  <2> QED BY <2>3
<1> DEFINE R == T \ {x}
<1>4. F(R) = G(R) - H(R)
  BY <1>1, <1>2, <1>3
<1>5. F(T) = f[x] + F(R) /\ G(T) = g[x] + G(R) /\ H(T) = h[x] + H(R)
  <2>1. \A y \in T : f[y] \in Int /\ g[y] \in Int /\ h[y] \in Int
    BY <1>2
  <2> HIDE DEF Bad
  <2> QED BY <1>2, <1>3, <2>1, SumRemove
<1>6. G(R) \in Int /\ H(R) \in Int
  <2>1. IsFiniteSet(R) /\ \A y \in R : g[y] \in Int /\ h[y] \in Int
    BY <1>2, FS_Subset
  <2> HIDE DEF R, Bad
  <2> QED BY <2>1, SumType
<1>7. g[x] \in Int /\ h[x] \in Int /\ f[x] = g[x] - h[x]
  BY <1>2, <1>3
<1> HIDE DEF F, G, H, R, Bad
<1> QED BY <1>2, <1>4, <1>5, <1>6, <1>7

-----------------------------------------------------------------------------
(* Rows, prefixes and feasibility.                                         *)

\* A row is signed with its type.
LEMMA SignedType ==
  ASSUME NEW row \in Row
  PROVE  /\ Signed(row) \in Int
         /\ row.type = "buy" => Signed(row) > 0
         /\ row.type # "buy" => Signed(row) = - row.amount
         /\ row.date \in Int
         /\ row.amount \in Nat
<1>1. row.amount \in Nat \ {0} /\ row.date \in Int
  BY AmountsAssumption, DatesAssumption DEF Row
<1> QED BY <1>1 DEF Signed

\* A timeline has finitely many rows: stored ids, and perhaps the stand-in.
LEMMA TimelineFinite ==
  /\ IsFiniteSet(Ids)
  /\ \A S \in SUBSET (Ids \cup {TieBreaker}) : IsFiniteSet(S)
<1>1. IsFiniteSet(Ids)
  BY FS_Interval, TieBreakerAssumption DEF Ids
<1>2. IsFiniteSet(Ids \cup {TieBreaker})
  BY <1>1, FS_AddElement
<1> QED BY <1>1, <1>2, FS_Subset

\* Timelines, as ReplayLoop takes them.
Timeline(e) ==
  /\ DOMAIN e \subseteq Ids \cup {TieBreaker}
  /\ e \in [DOMAIN e -> Row]

LEMMA LedgerIsTimeline ==
  ASSUME NEW rows, IsLedger(rows)
  PROVE  Timeline(rows)
BY DEF IsLedger, Timeline

LEMMA TimelineIds ==
  ASSUME NEW e, Timeline(e), NEW i \in DOMAIN e
  PROVE  i \in Nat /\ e[i] \in Row
BY TieBreakerAssumption DEF Timeline, Ids

\* The balance of any set of rows is an integer, and one row can be split off.
LEMMA BalanceSplit ==
  ASSUME NEW e, Timeline(e), NEW S \in SUBSET DOMAIN e
  PROVE  /\ Balance(e, S) \in Int
         /\ \A i \in S : Balance(e, S) = Signed(e[i]) + Balance(e, S \ {i})
<1>1. IsFiniteSet(S)
  BY TimelineFinite DEF Timeline
<1>2. \A i \in S : Deltas(e)[i] = Signed(e[i])
  BY DEF Deltas
<1>3. \A i \in S : Deltas(e)[i] \in Int
  BY <1>2, TimelineIds, SignedType
<1> QED BY <1>1, <1>2, <1>3, SumType, SumRemove DEF Balance

\* The balance of a set of rows depends on those rows only.
LEMMA BalanceAgree ==
  ASSUME NEW e, Timeline(e), NEW g, Timeline(g),
         NEW S, S \subseteq DOMAIN e, S \subseteq DOMAIN g,
         \A i \in S : e[i] = g[i]
  PROVE  Balance(e, S) = Balance(g, S)
<1>1. IsFiniteSet(S)
  BY TimelineFinite DEF Timeline
<1>2. \A i \in S : Deltas(e)[i] = Deltas(g)[i]
  BY DEF Deltas
<1> QED BY <1>1, <1>2, SumAgree DEF Balance

\* The sort key of the replay orders the rows of a timeline totally.
LEMMA BeforeOrder ==
  ASSUME NEW e, Timeline(e)
  PROVE  /\ \A i \in DOMAIN e : ~ Before(e, i, i)
         /\ \A i, j \in DOMAIN e : i = j \/ Before(e, i, j) \/ Before(e, j, i)
         /\ \A i, j, k \in DOMAIN e : Before(e, i, j) /\ Before(e, j, k) => Before(e, i, k)
<1>1. \A i \in DOMAIN e : i \in Int /\ e[i].date \in Int
  BY TimelineIds, SignedType
<1> QED BY <1>1 DEF Before

\* A non-empty set of rows has a last one.
LEMMA LastRow ==
  ASSUME NEW e, Timeline(e), NEW S \in SUBSET DOMAIN e, S # {}
  PROVE  \E m \in S : \A j \in S : j = m \/ Before(e, j, m)
<1> DEFINE After(m) == {j \in S : Before(e, m, j)}
           Afters == {After(m) : m \in S}
<1>1. IsFiniteSet(S)
  BY TimelineFinite DEF Timeline
<1>2. Afters \subseteq SUBSET S /\ Afters # {}
  OBVIOUS
<1>3. PICK T \in Afters : \A U \in Afters : ~ (U \subseteq T /\ U # T)
  <2> HIDE DEF Afters
  <2> QED BY <1>1, <1>2, MinimalSubset
<1>4. PICK m \in S : T = After(m)
  OBVIOUS
<1>5. ASSUME NEW j \in S, j # m, ~ Before(e, j, m)
      PROVE  FALSE
  <2>1. Before(e, m, j)
    BY <1>5, BeforeOrder
  <2>2. After(j) \subseteq After(m)
    BY <2>1, BeforeOrder
  <2>3. j \in After(m) /\ j \notin After(j)
    BY <2>1, BeforeOrder
  <2> QED BY <1>3, <1>4, <2>2, <2>3
<1> QED BY <1>5

\* A feasible timeline has no negative prefix, the empty one included.
LEMMA PrefixNotNegative ==
  ASSUME NEW e, Timeline(e), Feasible(e),
         NEW S \in SUBSET DOMAIN e,
         \A j \in S : \A k \in DOMAIN e : Before(e, k, j) => k \in S
  PROVE  Balance(e, S) >= 0
<1>1. CASE S = {}
  <2>1. Balance(e, {}) = 0
    BY SumEmpty DEF Balance
  <2> QED BY <1>1, <2>1
<1>2. CASE S # {}
  <2>1. PICK m \in S : \A j \in S : j = m \/ Before(e, j, m)
    BY <1>2, LastRow
  <2>2. Upto(e, m) = S
    BY <2>1 DEF Upto
  <2> QED BY <2>2 DEF Feasible
<1> QED BY <1>1, <1>2

-----------------------------------------------------------------------------
(* A timeline with one row more.                                           *)

LEMMA PutTimeline ==
  ASSUME NEW rows, IsLedger(rows), NEW n \in Ids \cup {TieBreaker}, NEW row \in Row
  PROVE  /\ Timeline(Put(rows, n, row))
         /\ n \in Ids => IsLedger(Put(rows, n, row))
         /\ DOMAIN Put(rows, n, row) = DOMAIN rows \cup {n}
         /\ Put(rows, n, row)[n] = row
         /\ \A i \in DOMAIN rows \ {n} : Put(rows, n, row)[i] = rows[i]
<1> DEFINE e == Put(rows, n, row)
<1>1. DOMAIN e = DOMAIN rows \cup {n}
  BY DEF Put
<1>2. e[n] = row /\ \A i \in DOMAIN rows \ {n} : e[i] = rows[i]
  BY DEF Put
<1>3. e \in [DOMAIN rows \cup {n} -> Row]
  BY DEF Put, IsLedger
<1> HIDE DEF e
<1>4. Timeline(e) /\ (n \in Ids => IsLedger(e))
  BY <1>1, <1>3 DEF Timeline, IsLedger
<1> QED BY <1>1, <1>2, <1>4 DEF e

\* The balance of rows among which the new one is, or is not.
LEMMA PutBalance ==
  ASSUME NEW rows, IsLedger(rows),
         NEW n \in (Ids \cup {TieBreaker}) \ DOMAIN rows, NEW row \in Row,
         NEW S \in SUBSET DOMAIN rows
  PROVE  /\ Balance(Put(rows, n, row), S) = Balance(rows, S)
         /\ Balance(Put(rows, n, row), S \cup {n}) = Signed(row) + Balance(rows, S)
<1> DEFINE e == Put(rows, n, row)
<1>1. Timeline(rows)
  BY LedgerIsTimeline
<1>2. /\ Timeline(e)
      /\ DOMAIN e = DOMAIN rows \cup {n}
      /\ e[n] = row
      /\ \A i \in DOMAIN rows : e[i] = rows[i]
  <2>1. n \in Ids \cup {TieBreaker} /\ DOMAIN rows = DOMAIN rows \ {n}
    OBVIOUS
  <2> QED BY <2>1, PutTimeline
<1> HIDE DEF e
<1>3. Balance(e, S) = Balance(rows, S)
  BY <1>1, <1>2, BalanceAgree
<1>4. Balance(e, S \cup {n}) = Signed(row) + Balance(e, S)
  <2>1. S \cup {n} \in SUBSET DOMAIN e /\ n \in S \cup {n} /\ (S \cup {n}) \ {n} = S
    BY <1>2
  <2>2. Balance(e, S \cup {n}) = Signed(e[n]) + Balance(e, (S \cup {n}) \ {n})
    BY <1>2, <2>1, BalanceSplit
  <2> QED BY <1>2, <2>1, <2>2
<1> QED BY <1>3, <1>4 DEF e

\* The prefix that ends with an old row gains the new row when it is before
\* it, and nothing else.
LEMMA PutUpto ==
  ASSUME NEW rows, IsLedger(rows),
         NEW n \in (Ids \cup {TieBreaker}) \ DOMAIN rows, NEW row \in Row
  PROVE  /\ \A i \in DOMAIN rows :
              Upto(Put(rows, n, row), i) =
                IF row.date < rows[i].date \/ (row.date = rows[i].date /\ n < i)
                THEN Upto(rows, i) \cup {n} ELSE Upto(rows, i)
         /\ Upto(Put(rows, n, row), n) =
              {j \in DOMAIN rows :
                 rows[j].date < row.date \/ (rows[j].date = row.date /\ j < n)} \cup {n}
         /\ \A i \in DOMAIN rows : Upto(rows, i) \in SUBSET DOMAIN rows
<1> DEFINE e == Put(rows, n, row)
<1>1. /\ DOMAIN e = DOMAIN rows \cup {n}
      /\ e[n] = row
      /\ \A i \in DOMAIN rows : e[i] = rows[i]
  <2>1. n \in Ids \cup {TieBreaker} /\ DOMAIN rows = DOMAIN rows \ {n}
    OBVIOUS
  <2> QED BY <2>1, PutTimeline
<1> HIDE DEF e
<1>2. ASSUME NEW i \in DOMAIN rows
      PROVE  Upto(e, i) = IF row.date < rows[i].date \/ (row.date = rows[i].date /\ n < i)
                          THEN Upto(rows, i) \cup {n} ELSE Upto(rows, i)
  BY <1>1 DEF Upto, Before
<1>3. Upto(e, n) = {j \in DOMAIN rows :
                      rows[j].date < row.date \/ (rows[j].date = row.date /\ j < n)} \cup {n}
  BY <1>1 DEF Upto, Before
<1> QED BY <1>2, <1>3 DEF e, Upto

\* One more buy, wherever it is dated, leaves a feasible ledger feasible.
LEMMA BuyKeepsFeasible ==
  ASSUME NEW rows, IsLedger(rows), Feasible(rows),
         NEW n \in (Ids \cup {TieBreaker}) \ DOMAIN rows,
         NEW row \in Row, row.type = "buy"
  PROVE  Feasible(Put(rows, n, row))
<1> DEFINE e == Put(rows, n, row)
<1>1. Timeline(rows) /\ DOMAIN e = DOMAIN rows \cup {n}
  BY LedgerIsTimeline, PutTimeline
<1>2. Signed(row) \in Int /\ Signed(row) > 0
  BY SignedType
<1>3. ASSUME NEW i \in DOMAIN rows
      PROVE  Balance(e, Upto(e, i)) >= 0
  <2>1. Balance(rows, Upto(rows, i)) \in Int /\ Balance(rows, Upto(rows, i)) >= 0
    BY <1>1, PutUpto, BalanceSplit DEF Feasible
  <2>2. \/ Balance(e, Upto(e, i)) = Balance(rows, Upto(rows, i))
        \/ Balance(e, Upto(e, i)) = Signed(row) + Balance(rows, Upto(rows, i))
    <3>1. Upto(rows, i) \in SUBSET DOMAIN rows
      BY DEF Upto
    <3>2. Upto(e, i) \in {Upto(rows, i), Upto(rows, i) \cup {n}}
      BY PutUpto
    <3>3. /\ Balance(e, Upto(rows, i)) = Balance(rows, Upto(rows, i))
          /\ Balance(e, Upto(rows, i) \cup {n}) = Signed(row) + Balance(rows, Upto(rows, i))
      BY <3>1, PutBalance
    <3> HIDE DEF e
    <3> QED BY <3>2, <3>3
  <2> HIDE DEF e
  <2> QED BY <1>2, <2>1, <2>2
<1>4. Balance(e, Upto(e, n)) >= 0
  <2> DEFINE S == {j \in DOMAIN rows :
                     rows[j].date < row.date \/ (rows[j].date = row.date /\ j < n)}
  <2>1. \A j \in S : \A k \in DOMAIN rows : Before(rows, k, j) => k \in S
    <3>1. \A j \in DOMAIN rows : j \in Int /\ rows[j].date \in Int
      BY <1>1, TimelineIds, SignedType
    <3>2. row.date \in Int /\ n \in Int
      BY SignedType, TieBreakerAssumption DEF Ids
    <3> QED BY <3>1, <3>2 DEF Before
  <2>2. S \in SUBSET DOMAIN rows
    OBVIOUS
  <2>3. Upto(e, n) = S \cup {n}
    BY PutUpto
  <2> HIDE DEF S
  <2>4. Balance(rows, S) >= 0 /\ Balance(rows, S) \in Int
    BY <1>1, <2>1, <2>2, PrefixNotNegative, BalanceSplit
  <2>5. Balance(e, Upto(e, n)) = Signed(row) + Balance(rows, S)
    BY <2>2, <2>3, PutBalance
  <2> QED BY <1>2, <2>4, <2>5
<1> HIDE DEF e
<1> QED BY <1>1, <1>3, <1>4 DEF Feasible, e

\* What feasibility asks of a row that is sorted after every row of its date.
\* The id it is stored under plays no part.
FitsLast(rows, row) ==
  /\ \A i \in DOMAIN rows :
       (IF row.date < rows[i].date THEN Signed(row) ELSE 0)
         + Balance(rows, Upto(rows, i)) >= 0
  /\ Signed(row) + Balance(rows, {j \in DOMAIN rows : rows[j].date <= row.date}) >= 0

LEMMA FeasibleLast ==
  ASSUME NEW rows, IsLedger(rows), NEW row \in Row,
         NEW n \in Ids \cup {TieBreaker}, \A i \in DOMAIN rows : i < n
  PROVE  Feasible(Put(rows, n, row)) <=> FitsLast(rows, row)
<1> DEFINE e == Put(rows, n, row)
           S == {j \in DOMAIN rows : rows[j].date <= row.date}
<1>1. Timeline(rows)
  BY LedgerIsTimeline
<1>2. \A j \in DOMAIN rows : j \in Int /\ rows[j].date \in Int
  BY <1>1, TimelineIds, SignedType
<1>3. n \in Int /\ row.date \in Int /\ Signed(row) \in Int
  BY SignedType, TieBreakerAssumption DEF Ids
<1>4. n \notin DOMAIN rows
  BY <1>2, <1>3
<1>5. DOMAIN e = DOMAIN rows \cup {n}
  BY PutTimeline
<1>6. ASSUME NEW i \in DOMAIN rows
      PROVE  Balance(e, Upto(e, i)) =
               (IF row.date < rows[i].date THEN Signed(row) ELSE 0)
                 + Balance(rows, Upto(rows, i))
  <2>1. ~ (n < i)
    BY <1>2, <1>3
  <2>2. Upto(e, i) = IF row.date < rows[i].date
                     THEN Upto(rows, i) \cup {n} ELSE Upto(rows, i)
    BY <1>4, <2>1, PutUpto
  <2>3. Upto(rows, i) \in SUBSET DOMAIN rows
    BY DEF Upto
  <2>4. Balance(rows, Upto(rows, i)) \in Int
    BY <1>1, <2>3, BalanceSplit
  <2>5. /\ Balance(e, Upto(rows, i)) = Balance(rows, Upto(rows, i))
        /\ Balance(e, Upto(rows, i) \cup {n}) = Signed(row) + Balance(rows, Upto(rows, i))
    BY <1>4, <2>3, PutBalance
  <2> HIDE DEF e
  <2> QED BY <2>2, <2>4, <2>5
<1>7. Balance(e, Upto(e, n)) = Signed(row) + Balance(rows, S)
  <2>1. S = {j \in DOMAIN rows :
               rows[j].date < row.date \/ (rows[j].date = row.date /\ j < n)}
    BY <1>2, <1>3
  <2>2. Upto(e, n) = S \cup {n}
    BY <1>4, <2>1, PutUpto
  <2>3. S \in SUBSET DOMAIN rows
    OBVIOUS
  <2> HIDE DEF S
  <2> QED BY <1>4, <2>2, <2>3, PutBalance
<1>8. Feasible(e) <=> /\ \A i \in DOMAIN rows : Balance(e, Upto(e, i)) >= 0
                      /\ Balance(e, Upto(e, n)) >= 0
  <2> HIDE DEF e
  <2> QED BY <1>5 DEF Feasible
<1> QED BY <1>6, <1>7, <1>8 DEF FitsLast

\* The stand-in decides as the id the row will get.
LEMMA StandInSound ==
  ASSUME NEW rows, IsLedger(rows), NEW row \in Row,
         NEW n \in Ids, \A i \in DOMAIN rows : i < n
  PROVE  Feasible(ProjectCreate(rows, row)) <=> Feasible(Put(rows, n, row))
<1>1. \A i \in DOMAIN rows : i < TieBreaker
  BY TieBreakerAssumption DEF IsLedger, Ids
<1> QED BY <1>1, FeasibleLast DEF ProjectCreate

\* Replacing a row by one of the same date that is worth at least as much
\* leaves a feasible ledger feasible.
LEMMA RaiseKeepsFeasible ==
  ASSUME NEW rows, IsLedger(rows), Feasible(rows),
         NEW id \in DOMAIN rows, NEW row \in Row,
         row.date = rows[id].date, Signed(rows[id]) <= Signed(row)
  PROVE  Feasible(Put(rows, id, row))
<1> DEFINE e == Put(rows, id, row)
<1>1. /\ DOMAIN e = DOMAIN rows
      /\ e[id] = row
      /\ \A i \in DOMAIN rows \ {id} : e[i] = rows[i]
  BY DEF Put
<1>2. Timeline(rows)
  BY LedgerIsTimeline
<1> HIDE DEF e
<1>3. \A i \in DOMAIN rows : e[i].date = rows[i].date
  BY <1>1
<1>4. ASSUME NEW i \in DOMAIN rows
      PROVE  Balance(e, Upto(e, i)) >= 0
  <2>1. Upto(e, i) = Upto(rows, i) /\ Upto(rows, i) \in SUBSET DOMAIN rows
    BY <1>1, <1>3 DEF Upto, Before
  <2> DEFINE U == Upto(rows, i)
  <2>2. IsFiniteSet(U)
    BY <1>2, <2>1, TimelineFinite DEF Timeline
  <2>3. ASSUME NEW j \in U
        PROVE  /\ Deltas(rows)[j] \in Int
               /\ Deltas(e)[j] \in Int
               /\ Deltas(rows)[j] <= Deltas(e)[j]
    <3>1. j \in DOMAIN rows /\ rows[j] \in Row
      BY <1>2, <2>1, TimelineIds
    <3>2. Deltas(rows)[j] = Signed(rows[j]) /\ Deltas(e)[j] = Signed(e[j])
      BY <1>1, <3>1 DEF Deltas
    <3>3. Signed(rows[j]) \in Int /\ Signed(row) \in Int
      BY <3>1, SignedType
    <3>4. e[j] = IF j = id THEN row ELSE rows[j]
      BY <1>1, <3>1
    <3> QED BY <3>2, <3>3, <3>4
  <2> HIDE DEF U
  <2>4. Balance(rows, U) <= Balance(e, U)
    BY <2>2, <2>3, SumMonotone DEF Balance
  <2>5. Balance(rows, U) \in Int /\ Balance(e, U) \in Int
    BY <2>2, <2>3, SumType DEF Balance
  <2>6. Balance(rows, U) >= 0
    BY DEF Feasible, U
  <2> QED BY <2>1, <2>4, <2>5, <2>6 DEF U
<1> QED BY <1>1, <1>4 DEF Feasible, e

-----------------------------------------------------------------------------
(* First in, first out.                                                   *)

\* Min and Max, where the numbers are known.
LEMMA LeastIsMin ==
  ASSUME NEW S \in SUBSET Int, NEW m \in S, \A y \in S : m <= y
  PROVE  Min(S) = m
<1> DEFINE P(x) == x \in S /\ \A y \in S : x =< y
<1>1. P(m)
  OBVIOUS
<1>2. P(Min(S))
  <2>1. Min(S) = CHOOSE x : P(x)
    BY DEF Min
  <2> HIDE DEF P
  <2> QED BY <1>1, <2>1
<1>3. m <= Min(S) /\ Min(S) <= m /\ m \in Int /\ Min(S) \in Int
  BY <1>2
<1> QED BY <1>3

LEMMA GreatestIsMax ==
  ASSUME NEW S \in SUBSET Int, NEW m \in S, \A y \in S : m >= y
  PROVE  Max(S) = m
<1> DEFINE P(x) == x \in S /\ \A y \in S : x >= y
<1>1. P(m)
  OBVIOUS
<1>2. P(Max(S))
  <2>1. Max(S) = CHOOSE x : P(x)
    BY DEF Max
  <2> HIDE DEF P
  <2> QED BY <1>1, <2>1
<1>3. m >= Max(S) /\ Max(S) >= m /\ m \in Int /\ Max(S) \in Int
  BY <1>2
<1> QED BY <1>3

LEMMA LesserOfTwo ==
  ASSUME NEW a \in Int, NEW b \in Int
  PROVE  Min({a, b}) = IF a <= b THEN a ELSE b
<1>1. CASE a <= b
  BY <1>1, LeastIsMin
<1>2. CASE ~ (a <= b)
  <2>1. b <= a
    BY <1>2
  <2> QED BY <1>2, <2>1, LeastIsMin
<1> QED BY <1>1, <1>2

LEMMA GreaterThanZero ==
  ASSUME NEW a \in Int
  PROVE  Max({0, a}) = IF a > 0 THEN a ELSE 0
<1>1. CASE a > 0
  BY <1>1, GreatestIsMax
<1>2. CASE ~ (a > 0)
  <2>1. 0 >= a
    BY <1>2
  <2> QED BY <1>2, <2>1, GreatestIsMax
<1> QED BY <1>1, <1>2

\* What was bought after a row is the sum of those buys.
LEMMA BoughtIsSum ==
  ASSUME NEW e, Timeline(e), NEW S \in SUBSET DOMAIN e, NEW i \in S
  PROVE  LET A == {j \in Buys(e, S) : Before(e, i, j)}
         IN  /\ IsFiniteSet(A)
             /\ A \subseteq DOMAIN e
             /\ \A j \in A : Deltas(e)[j] = e[j].amount /\ e[j].amount \in Nat
             /\ BoughtAfter(e, S, i) = SumFunctionOnSet(Deltas(e), A)
             /\ BoughtAfter(e, S, i) \in Nat
<1> DEFINE A == {j \in Buys(e, S) : Before(e, i, j)}
<1>1. IsFiniteSet(A) /\ A \subseteq DOMAIN e
  <2>1. A \in SUBSET DOMAIN e
    BY DEF Buys
  <2> QED BY <2>1, TimelineFinite DEF Timeline
<1>2. ASSUME NEW j \in A PROVE Deltas(e)[j] = e[j].amount /\ e[j].amount \in Nat
  <2>1. j \in DOMAIN e /\ e[j].type = "buy"
    BY DEF Buys
  <2>2. e[j] \in Row
    BY <2>1, TimelineIds
  <2> QED BY <2>1, <2>2, SignedType DEF Deltas, Signed
<1>3. BoughtAfter(e, S, i) = SumFunctionOnSet(Deltas(e), A)
  BY DEF BoughtAfter, Balance
<1>4. SumFunctionOnSet(Deltas(e), A) \in Nat
  <2> HIDE DEF A
  <2> QED BY <1>1, <1>2, SumSubset
<1> QED BY <1>1, <1>2, <1>3, <1>4

\* Of a feasible ledger all the balance is left of its buys.
LEMMA BackedIsBalance ==
  ASSUME NEW e, Timeline(e), Feasible(e)
  PROVE  Backed(e, DOMAIN e) = CoinBalance(e) /\ CoinBalance(e) \in Nat
<1> DEFINE D == {0} \cup {Balance(e, Upto(e, i)) : i \in DOMAIN e}
<1>1. ASSUME NEW i \in DOMAIN e
      PROVE  Balance(e, Upto(e, i)) \in Int /\ Balance(e, Upto(e, i)) >= 0
  <2>1. Upto(e, i) \in SUBSET DOMAIN e
    BY DEF Upto
  <2> QED BY <2>1, BalanceSplit DEF Feasible
<1>2. D \in SUBSET Int /\ 0 \in D /\ \A y \in D : 0 <= y
  BY <1>1
<1>3. Min(D) = 0
  <2> HIDE DEF D
  <2> QED BY <1>2, LeastIsMin
<1>4. CoinBalance(e) \in Int /\ CoinBalance(e) >= 0
  BY BalanceSplit, PrefixNotNegative DEF CoinBalance
<1> QED BY <1>3, <1>4 DEF Backed, CoinBalance

\* So is what is left of each of them.
LEMMA LeftOfFeasible ==
  ASSUME NEW e, Timeline(e), Feasible(e), NEW i \in Buys(e, DOMAIN e)
  PROVE  LET rest == CoinBalance(e) - BoughtAfter(e, DOMAIN e, i)
         IN  /\ rest \in Int
             /\ Left(e, DOMAIN e, i) =
                  IF e[i].amount <= rest THEN e[i].amount ELSE IF rest > 0 THEN rest ELSE 0
             /\ Left(e, DOMAIN e, i) \in Nat
<1> DEFINE rest == CoinBalance(e) - BoughtAfter(e, DOMAIN e, i)
<1>1. i \in DOMAIN e
  BY DEF Buys
<1>2. e[i].amount \in Nat
  BY <1>1, TimelineIds, SignedType
<1>3. rest \in Int /\ Backed(e, DOMAIN e) = CoinBalance(e)
  <2>1. BoughtAfter(e, DOMAIN e, i) \in Nat
    BY <1>1, BoughtIsSum
  <2> QED BY <2>1, BackedIsBalance
<1>4. Left(e, DOMAIN e, i) = Max({0, Min({e[i].amount, rest})})
  BY <1>3 DEF Left
<1> HIDE DEF rest
<1>5. Min({e[i].amount, rest}) = IF e[i].amount <= rest THEN e[i].amount ELSE rest
  BY <1>2, <1>3, LesserOfTwo
<1>6. Left(e, DOMAIN e, i) =
        IF e[i].amount <= rest THEN e[i].amount ELSE IF rest > 0 THEN rest ELSE 0
  <2>1. Min({e[i].amount, rest}) \in Int
    BY <1>2, <1>3, <1>5
  <2> QED BY <1>2, <1>3, <1>4, <1>5, <2>1, GreaterThanZero
<1> QED BY <1>2, <1>3, <1>6 DEF rest

\* A positive balance comes from a buy.
LEMMA PositiveHasBuy ==
  ASSUME NEW e, Timeline(e), CoinBalance(e) > 0
  PROVE  Buys(e, DOMAIN e) # {}
<1> SUFFICES ASSUME Buys(e, DOMAIN e) = {} PROVE FALSE
  OBVIOUS
<1> DEFINE Bad == {T \in SUBSET DOMAIN e : Balance(e, T) > 0}
<1>1. DOMAIN e \in Bad /\ IsFiniteSet(DOMAIN e)
  BY TimelineFinite DEF CoinBalance, Timeline
<1>2. PICK T \in Bad : \A U \in Bad : ~ (U \subseteq T /\ U # T)
  <2>1. Bad \subseteq SUBSET DOMAIN e /\ Bad # {}
    BY <1>1
  <2> HIDE DEF Bad
  <2> QED BY <1>1, <2>1, MinimalSubset
<1>3. PICK i \in T : TRUE
  <2>1. Balance(e, {}) = 0
    BY SumEmpty DEF Balance
  <2> QED BY <2>1
<1>4. /\ Balance(e, T) = Signed(e[i]) + Balance(e, T \ {i})
      /\ Balance(e, T) \in Int /\ Balance(e, T \ {i}) \in Int
  <2>1. T \ {i} \in SUBSET DOMAIN e
    OBVIOUS
  <2> QED BY <2>1, BalanceSplit
<1>5. Signed(e[i]) \in Int /\ Signed(e[i]) <= 0
  <2>1. e[i] \in Row /\ e[i].type # "buy"
    BY TimelineIds DEF Buys
  <2> QED BY <2>1, SignedType
<1>6. Balance(e, T \ {i}) > 0
  BY <1>4, <1>5
<1>7. T \ {i} \in Bad
  BY <1>6
<1> QED BY <1>2, <1>3, <1>7

\* Something is left of the last buy of a ledger with a positive balance.
LEMMA PositiveHasLot ==
  ASSUME NEW e, Timeline(e), Feasible(e), CoinBalance(e) > 0
  PROVE  \E i \in Buys(e, DOMAIN e) : Left(e, DOMAIN e, i) > 0
<1>1. PICK i \in Buys(e, DOMAIN e) : \A j \in Buys(e, DOMAIN e) : j = i \/ Before(e, j, i)
  <2>1. Buys(e, DOMAIN e) \in SUBSET DOMAIN e
    BY DEF Buys
  <2> QED BY <2>1, PositiveHasBuy, LastRow
<1>2. i \in DOMAIN e
  BY DEF Buys
<1>3. {j \in Buys(e, DOMAIN e) : Before(e, i, j)} = {}
  <2>1. Buys(e, DOMAIN e) \subseteq DOMAIN e
    BY DEF Buys
  <2> QED BY <1>1, <1>2, <2>1, BeforeOrder
<1>4. BoughtAfter(e, DOMAIN e, i) = 0
  BY <1>3, SumEmpty DEF BoughtAfter, Balance
<1>5. CoinBalance(e) \in Nat
  BY BackedIsBalance
<1>6. e[i].amount \in Nat /\ e[i].amount > 0
  <2>1. e[i] \in Row /\ e[i].type = "buy"
    BY <1>2, TimelineIds DEF Buys
  <2> QED BY <2>1, SignedType DEF Signed
<1>7. Left(e, DOMAIN e, i) =
        IF e[i].amount <= CoinBalance(e) THEN e[i].amount
        ELSE IF CoinBalance(e) > 0 THEN CoinBalance(e) ELSE 0
  <2>1. CoinBalance(e) - BoughtAfter(e, DOMAIN e, i) = CoinBalance(e)
    BY <1>4, <1>5
  <2> QED BY <2>1, LeftOfFeasible
<1>8. Left(e, DOMAIN e, i) > 0
  BY <1>5, <1>6, <1>7
<1> QED BY <1>8
=============================================================================
