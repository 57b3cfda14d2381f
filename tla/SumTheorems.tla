---------------------------- MODULE SumTheorems ----------------------------
(***************************************************************************)
(* What the library's sum of a function over a finite set is, for the      *)
(* proofs about ledgers and scores.  The library defines it by recursion   *)
(* on a set from which it takes one element after another.  Each fact that *)
(* takes an induction is proved from a smallest counterexample, which      *)
(* needs sets and no predicate: finite subsets are well-founded.           *)
(***************************************************************************)
EXTENDS Functions, FiniteSetTheorems, TLAPS

Pick(s) == CHOOSE x \in s : TRUE

\* The recursion: it is the table of the sums over the subsets of S.
IsSum(it, f, S) ==
  it = [s \in SUBSET S |-> IF s = {} THEN 0 ELSE f[Pick(s)] + it[s \ {Pick(s)}]]

\* Of some subsets of a finite set one contains no other.
LEMMA SmallestSet ==
  ASSUME NEW U, IsFiniteSet(U), NEW Bad \in SUBSET (SUBSET U), Bad # {}
  PROVE  \E T \in Bad : \A V \in Bad : V \subseteq T => V = T
<1>1. /\ IsWellFoundedOn(StrictSubsetOrdering(U), FiniteSubsetsOf(U))
      /\ FiniteSubsetsOf(U) = SUBSET U
  BY FS_StrictSubsetOrderingWellFounded, FS_FiniteSubsetsOfFinite
<1>2. PICK T \in Bad : \A V \in Bad : ~(<<V, T>> \in StrictSubsetOrdering(U))
  BY <1>1, WFMin
<1> QED
  BY <1>2 DEF StrictSubsetOrdering

\* The library's definition in these terms.
LEMMA SumUnfolds ==
  ASSUME NEW f, NEW S
  PROVE  SumFunctionOnSet(f, S) = (CHOOSE it : IsSum(it, f, S))[S]
  BY Zenon DEF SumFunctionOnSet, FoldFunctionOnSet, MapThenFoldSet, IsSum, Pick

LEMMA SumRow ==
  ASSUME NEW it, NEW f, NEW S, IsSum(it, f, S), NEW V \in SUBSET S
  PROVE  it[V] = IF V = {} THEN 0 ELSE f[Pick(V)] + it[V \ {Pick(V)}]
  BY DEF IsSum

LEMMA PickIsIn ==
  ASSUME NEW V, V # {}
  PROVE  Pick(V) \in V
  BY DEF Pick

\* Two tables agree where both are defined.
LEMMA SumsAgree ==
  ASSUME NEW f, NEW S, NEW T, NEW it, NEW jt, IsSum(it, f, S), IsSum(jt, f, T),
         NEW U \in SUBSET (S \cap T), IsFiniteSet(U)
  PROVE  it[U] = jt[U]
<1> DEFINE Bad == {V \in SUBSET U : it[V] # jt[V]}
<1>1. SUFFICES ASSUME Bad # {} PROVE FALSE
  OBVIOUS
<1>2. PICK V \in Bad : \A W \in Bad : W \subseteq V => W = V
  <2>1. Bad \in SUBSET (SUBSET U)
    OBVIOUS
  <2> HIDE DEF Bad
  <2> QED
    BY <1>1, <2>1, SmallestSet
<1>3. V # {}
  BY SumRow
<1>4. /\ Pick(V) \in V
      /\ it[V \ {Pick(V)}] = jt[V \ {Pick(V)}]
  BY <1>2, <1>3, PickIsIn
<1>5. V \in SUBSET S /\ V \in SUBSET T
  OBVIOUS
<1>6. /\ it[V] = f[Pick(V)] + it[V \ {Pick(V)}]
      /\ jt[V] = f[Pick(V)] + jt[V \ {Pick(V)}]
  BY <1>3, <1>5 DEF IsSum
<1> QED
  BY <1>4, <1>6

\* A finite set has a table.
LEMMA SumExists ==
  ASSUME NEW f, NEW S, IsFiniteSet(S)
  PROVE  \E it : IsSum(it, f, S)
<1> DEFINE Bad == {T \in SUBSET S : ~\E it : IsSum(it, f, T)}
<1>1. SUFFICES ASSUME Bad # {} PROVE FALSE
  OBVIOUS
<1>2. PICK T \in Bad : \A V \in Bad : V \subseteq T => V = T
  <2>1. Bad \in SUBSET (SUBSET S)
    OBVIOUS
  <2> HIDE DEF Bad
  <2> QED
    BY <1>1, <2>1, SmallestSet
<1> DEFINE Sum(V) == SumFunctionOnSet(f, V)
           Table == [V \in SUBSET T |->
                       IF V = {} THEN 0 ELSE f[Pick(V)] + Sum(V \ {Pick(V)})]
<1>3. ASSUME NEW V \in SUBSET T, V # T
      PROVE  /\ IsFiniteSet(V)
             /\ \E it : IsSum(it, f, V) /\ Sum(V) = it[V]
  BY <1>2, <1>3, SumUnfolds, FS_Subset
<1>4. ASSUME NEW V \in SUBSET T, V # T
      PROVE  Sum(V) = IF V = {} THEN 0 ELSE f[Pick(V)] + Sum(V \ {Pick(V)})
  <2>1. PICK it : IsSum(it, f, V) /\ Sum(V) = it[V]
    BY <1>3, <1>4
  <2>2. CASE V = {}
    BY <2>1, <2>2, SumRow
  <2>3. CASE V # {}
    <3> DEFINE W == V \ {Pick(V)}
    <3>1. W \in SUBSET T /\ W # T /\ W \in SUBSET V
      BY <1>4
    <3>2. PICK jt : IsSum(jt, f, W) /\ Sum(W) = jt[W]
      BY <3>1, <1>3
    <3>3. it[W] = jt[W]
      BY <2>1, <3>1, <3>2, <1>3, SumsAgree
    <3> QED
      BY <2>1, <2>3, <3>2, <3>3, SumRow
  <2> QED
    BY <2>2, <2>3
<1>5. ASSUME NEW V \in SUBSET T, V # {}
      PROVE  Table[V \ {Pick(V)}] = Sum(V \ {Pick(V)})
  <2>1. V \ {Pick(V)} \in SUBSET T /\ V \ {Pick(V)} # T
    BY <1>5, PickIsIn
  <2> QED
    BY <2>1, <1>4
<1>6. IsSum(Table, f, T)
  BY <1>5 DEF IsSum
<1> QED
  BY <1>2, <1>6

\* What the library's sum is: nothing for no element, ...
LEMMA SumOfNone ==
  ASSUME NEW f
  PROVE  SumFunctionOnSet(f, {}) = 0
  BY SumExists, SumUnfolds, SumRow, FS_EmptySet

\* ... and the table's entry, of whatever table.
LEMMA SumIsEntry ==
  ASSUME NEW f, NEW S, IsFiniteSet(S), NEW it, IsSum(it, f, S), NEW V \in SUBSET S
  PROVE  SumFunctionOnSet(f, V) = it[V]
<1>1. IsFiniteSet(V)
  BY FS_Subset
<1>2. PICK jt : IsSum(jt, f, V) /\ SumFunctionOnSet(f, V) = jt[V]
  BY <1>1, SumExists, SumUnfolds
<1> QED
  BY <1>1, <1>2, SumsAgree

LEMMA SumRecurs ==
  ASSUME NEW f, NEW S, IsFiniteSet(S), S # {}
  PROVE  SumFunctionOnSet(f, S) = f[Pick(S)] + SumFunctionOnSet(f, S \ {Pick(S)})
<1>1. PICK it : IsSum(it, f, S)
  BY SumExists
<1> QED
  BY <1>1, SumIsEntry, SumRow

\* A sum of integers is one.
LEMMA SumIsInt ==
  ASSUME NEW f, NEW S, IsFiniteSet(S), \A x \in S : f[x] \in Int
  PROVE  SumFunctionOnSet(f, S) \in Int
<1> DEFINE Bad == {T \in SUBSET S : SumFunctionOnSet(f, T) \notin Int}
<1>1. SUFFICES ASSUME Bad # {} PROVE FALSE
  OBVIOUS
<1>2. PICK T \in Bad : \A V \in Bad : V \subseteq T => V = T
  <2>1. Bad \in SUBSET (SUBSET S)
    OBVIOUS
  <2> HIDE DEF Bad
  <2> QED
    BY <1>1, <2>1, SmallestSet
<1>3. T \in SUBSET S /\ SumFunctionOnSet(f, T) \notin Int
  OBVIOUS
<1>4. T # {} /\ IsFiniteSet(T)
  <2>1. T # {}
    <3>1. 0 \in Int
      OBVIOUS
    <3> HIDE DEF Bad
    <3> QED
      BY <1>3, <3>1, SumOfNone
  <2>2. IsFiniteSet(T)
    <3> HIDE DEF Bad
    <3> QED
      BY <1>3, FS_Subset
  <2> QED
    BY <2>1, <2>2
<1>5. Pick(T) \in T /\ SumFunctionOnSet(f, T \ {Pick(T)}) \in Int
  BY <1>2, <1>4, PickIsIn
<1> QED
  BY <1>3, <1>4, <1>5, SumRecurs

\* Any element may be taken off: the sum does not depend on the order.
LEMMA SumWithout ==
  ASSUME NEW f, NEW S, IsFiniteSet(S), \A y \in S : f[y] \in Int, NEW x \in S
  PROVE  SumFunctionOnSet(f, S) = f[x] + SumFunctionOnSet(f, S \ {x})
<1> DEFINE Sum(T) == SumFunctionOnSet(f, T)
           Bad == {T \in SUBSET S : \E y \in T : Sum(T) # f[y] + Sum(T \ {y})}
<1>1. SUFFICES ASSUME Bad # {} PROVE FALSE
  OBVIOUS
<1>2. PICK T \in Bad : \A V \in Bad : V \subseteq T => V = T
  <2>1. Bad \in SUBSET (SUBSET S)
    OBVIOUS
  <2> HIDE DEF Bad
  <2> QED
    BY <1>1, <2>1, SmallestSet
<1>3. PICK y \in T : Sum(T) # f[y] + Sum(T \ {y})
  OBVIOUS
<1> DEFINE p == Pick(T)
           Rest == T \ {p, y}
<1>4. IsFiniteSet(T) /\ IsFiniteSet(Rest) /\ p \in T
  BY <1>3, FS_Subset, PickIsIn
<1>5. Sum(T) = f[p] + Sum(T \ {p})
  BY <1>3, <1>4, SumRecurs
<1>6. p # y
  BY <1>3, <1>5
<1>7. (T \ {p}) \ {y} = Rest /\ (T \ {y}) \ {p} = Rest
  OBVIOUS
<1>8. Sum(T \ {p}) = f[y] + Sum(Rest) /\ Sum(T \ {y}) = f[p] + Sum(Rest)
  BY <1>2, <1>4, <1>6, <1>7
<1>9. f[p] \in Int /\ f[y] \in Int /\ Sum(Rest) \in Int
  BY <1>4, SumIsInt
<1> QED
  BY <1>3, <1>5, <1>8, <1>9

\* Adding an element adds its value.
LEMMA SumWith ==
  ASSUME NEW f, NEW S, IsFiniteSet(S), NEW x, x \notin S,
         \A y \in S \cup {x} : f[y] \in Int
  PROVE  SumFunctionOnSet(f, S \cup {x}) = f[x] + SumFunctionOnSet(f, S)
<1>1. IsFiniteSet(S \cup {x}) /\ (S \cup {x}) \ {x} = S
  BY FS_AddElement
<1> QED
  BY <1>1, SumWithout

\* Only the values on the set count.
LEMMA SumSame ==
  ASSUME NEW f, NEW g, NEW S, IsFiniteSet(S), \A x \in S : f[x] = g[x]
  PROVE  SumFunctionOnSet(f, S) = SumFunctionOnSet(g, S)
<1> DEFINE Bad == {T \in SUBSET S : SumFunctionOnSet(f, T) # SumFunctionOnSet(g, T)}
<1>1. SUFFICES ASSUME Bad # {} PROVE FALSE
  OBVIOUS
<1>2. PICK T \in Bad : \A V \in Bad : V \subseteq T => V = T
  <2>1. Bad \in SUBSET (SUBSET S)
    OBVIOUS
  <2> HIDE DEF Bad
  <2> QED
    BY <1>1, <2>1, SmallestSet
<1>3. T \in SUBSET S /\ SumFunctionOnSet(f, T) # SumFunctionOnSet(g, T)
  OBVIOUS
<1>4. IsFiniteSet(T)
  <2> HIDE DEF Bad
  <2> QED
    BY <1>3, FS_Subset
<1>5. T # {}
  <2> HIDE DEF Bad
  <2> QED
    BY <1>3, SumOfNone
<1>6. /\ Pick(T) \in T
      /\ SumFunctionOnSet(f, T \ {Pick(T)}) = SumFunctionOnSet(g, T \ {Pick(T)})
  BY <1>2, <1>5, PickIsIn
<1>7. /\ SumFunctionOnSet(f, T) = f[Pick(T)] + SumFunctionOnSet(f, T \ {Pick(T)})
      /\ SumFunctionOnSet(g, T) = g[Pick(T)] + SumFunctionOnSet(g, T \ {Pick(T)})
  <2> HIDE DEF Bad
  <2> QED
    BY <1>4, <1>5, SumRecurs
<1> QED
  BY <1>3, <1>6, <1>7

\* A sum lies between the number of its elements times their bounds.
LEMMA SumBounds ==
  ASSUME NEW f, NEW S, IsFiniteSet(S), NEW lo \in Int, NEW hi \in Int,
         \A x \in S : f[x] \in Int /\ lo <= f[x] /\ f[x] <= hi
  PROVE  /\ SumFunctionOnSet(f, S) \in Int
         /\ lo * Cardinality(S) <= SumFunctionOnSet(f, S)
         /\ SumFunctionOnSet(f, S) <= hi * Cardinality(S)
<1> DEFINE Sum(T) == SumFunctionOnSet(f, T)
           Within(T) == /\ lo * Cardinality(T) <= Sum(T)
                        /\ Sum(T) <= hi * Cardinality(T)
           Bad == {T \in SUBSET S : ~Within(T)}
<1>1. SUFFICES ASSUME Bad # {} PROVE FALSE
  BY SumIsInt
<1>2. PICK T \in Bad : \A V \in Bad : V \subseteq T => V = T
  <2>1. Bad \in SUBSET (SUBSET S)
    OBVIOUS
  <2> HIDE DEF Bad
  <2> QED
    BY <1>1, <2>1, SmallestSet
<1>3. T \in SUBSET S /\ ~Within(T)
  OBVIOUS
<1>4. IsFiniteSet(T)
  <2> HIDE DEF Bad
  <2> QED
    BY <1>3, FS_Subset
<1>5. T # {}
  <2>1. lo * 0 = 0 /\ hi * 0 = 0
    OBVIOUS
  <2>2. Sum({}) = 0 /\ Cardinality({}) = 0
    BY SumOfNone, FS_EmptySet
  <2> QED
    BY <1>3, <2>1, <2>2
<1> DEFINE x == Pick(T)
           Rest == T \ {x}
<1>6. x \in T /\ Within(Rest)
  BY <1>2, <1>5, PickIsIn
<1>7. Sum(T) = f[x] + Sum(Rest)
  <2> HIDE DEF Bad
  <2> QED
    BY <1>4, <1>5, SumRecurs
<1>8. /\ IsFiniteSet(Rest) /\ Cardinality(Rest) \in Nat
      /\ Cardinality(T) = Cardinality(Rest) + 1
  <2>1. /\ IsFiniteSet(Rest)
        /\ Cardinality(Rest) = Cardinality(T) - 1
    BY <1>4, <1>6, FS_RemoveElement
  <2>2. Cardinality(Rest) \in Nat /\ Cardinality(T) \in Nat
    BY <1>4, <2>1, FS_CardinalityType
  <2> HIDE DEF Rest, Bad
  <2> QED
    BY <2>1, <2>2
<1>9. Sum(Rest) \in Int /\ f[x] \in Int /\ lo <= f[x] /\ f[x] <= hi
  BY <1>3, <1>6, <1>8, SumIsInt
<1>10. ASSUME NEW a \in Int, NEW n \in Int
       PROVE  a * (n + 1) = a * n + a /\ a * n \in Int
  OBVIOUS
<1>11. /\ lo * Cardinality(T) = lo * Cardinality(Rest) + lo
       /\ hi * Cardinality(T) = hi * Cardinality(Rest) + hi
       /\ lo * Cardinality(Rest) \in Int /\ hi * Cardinality(Rest) \in Int
  <2> DEFINE k == Cardinality(Rest)
  <2>1. k \in Int /\ Cardinality(T) = k + 1
    BY <1>8
  <2> HIDE DEF k
  <2>2. /\ lo * (k + 1) = lo * k + lo /\ lo * k \in Int
        /\ hi * (k + 1) = hi * k + hi /\ hi * k \in Int
    BY <1>10, <2>1
  <2>3. /\ lo * Cardinality(T) = lo * k + lo
        /\ hi * Cardinality(T) = hi * k + hi
    BY <2>1, <2>2
  <2> QED
    BY <2>2, <2>3 DEF k
<1> HIDE DEF Bad, Sum, Rest, x
<1> QED
  BY <1>3, <1>6, <1>7, <1>9, <1>11
============================================================================
