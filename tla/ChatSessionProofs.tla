------------------------- MODULE ChatSessionProofs -------------------------
(***************************************************************************)
(* Proofs about ChatSession and VendorRanking, for any turns, polls,       *)
(* plans, listings, assessments and bounds.                                *)
(*                                                                         *)
(* First the lists: what the search for vendors returns, what a list       *)
(* comprehension and a sort by risk do.  Then the quotes: however turns    *)
(* and polls overlap, none is passed over.  The argument is in PollNote:   *)
(* the mark moves to what this poll read, and what lies between the mark   *)
(* as it is now and what was read is reported, so it does not matter that  *)
(* the mark moved, or went back, between the read and the note.  Last the  *)
(* RFQs: a confirmation goes on with the search it began with.             *)
(***************************************************************************)
EXTENDS ChatSession, FiniteSetTheorems, SequenceTheorems, TLAPS

----------------------------------------------------------------------------
(* Lists: VendorRanking *)

\* R puts the positions I into an order.
Orders(R, I) ==
  /\ \A i \in I : <<i, i>> \notin R
  /\ \A i, j \in I : i # j => <<i, j>> \in R \/ <<j, i>> \in R
  /\ \A i, j, k \in I : <<i, j>> \in R /\ <<j, k>> \in R => <<i, k>> \in R

\* The positions that come before i.
Preds(i, I, R) == {j \in I : <<j, i>> \in R}

\* Who comes later has more before it.
LEMMA MoreBefore ==
  ASSUME NEW I, IsFiniteSet(I), NEW R, Orders(R, I), NEW i \in I, NEW j \in I,
         <<i, j>> \in R
  PROVE  /\ Cardinality(Preds(i, I, R)) \in Nat
         /\ Cardinality(Preds(j, I, R)) \in Nat
         /\ Cardinality(Preds(i, I, R)) < Cardinality(Preds(j, I, R))
<1> DEFINE P == Preds(i, I, R)
           Q == Preds(j, I, R)
<1>1. IsFiniteSet(P) /\ IsFiniteSet(Q)
  BY FS_Subset DEF Preds
<1>2. P \subseteq Q /\ i \in Q /\ i \notin P
  BY DEF Preds, Orders
<1>3. Cardinality(P) <= Cardinality(Q) /\ Cardinality(P) # Cardinality(Q)
  BY <1>1, <1>2, FS_Subset
<1> QED
  BY <1>1, <1>3, FS_CardinalityType

\* For each number of positions before, one has it.
LEMMA RankBijects ==
  ASSUME NEW I, IsFiniteSet(I), NEW R, Orders(R, I)
  PROVE  /\ \A i \in I : Cardinality(Preds(i, I, R)) \in 0..(Cardinality(I) - 1)
         /\ \A k \in 1..Cardinality(I) :
              \E i \in I : Cardinality(Preds(i, I, R)) = k - 1
<1> DEFINE n == Cardinality(I)
           D == 0..(n - 1)
           f == [i \in I |-> Cardinality(Preds(i, I, R))]
<1>1. n \in Nat
  BY FS_CardinalityType
<1>2. ASSUME NEW i \in I PROVE f[i] \in D
  <2>1. Preds(i, I, R) \subseteq I \ {i}
    BY DEF Preds, Orders
  <2>2. IsFiniteSet(I \ {i}) /\ Cardinality(I \ {i}) = n - 1
    BY FS_RemoveElement
  <2>3. IsFiniteSet(Preds(i, I, R)) /\ Cardinality(Preds(i, I, R)) <= n - 1
    BY <2>1, <2>2, FS_Subset
  <2> QED
    BY <1>1, <2>3, FS_CardinalityType
<1>3. f \in Injection(I, D)
  <2>1. f \in [I -> D]
    BY <1>2
  <2>2. ASSUME NEW i \in I, NEW j \in I, i # j PROVE f[i] # f[j]
    <3>1. CASE <<i, j>> \in R
      BY <3>1, MoreBefore
    <3>2. CASE <<j, i>> \in R
      BY <3>2, MoreBefore
    <3> QED
      BY <2>2, <3>1, <3>2 DEF Orders
  <2> HIDE DEF f
  <2> QED
    BY <2>1, <2>2 DEF Injection, IsInjective
<1>4. IsFiniteSet(D) /\ Cardinality(D) = n
  BY <1>1, FS_Interval
<1>5. f \in Surjection(I, D)
  BY <1>3, <1>4, FS_Injection
<1>6. ASSUME NEW k \in 1..n PROVE \E i \in I : f[i] = k - 1
  <2>1. k - 1 \in D
    BY <1>1
  <2> HIDE DEF f, D
  <2> QED
    BY <1>5, <2>1 DEF Surjection
<1> QED
  BY <1>2, <1>6

\* A listing goes through its positions, each once and in order.
LEMMA ListedProperties ==
  ASSUME NEW I, IsFiniteSet(I), NEW R, Orders(R, I)
  PROVE  /\ Cardinality(I) \in Nat
         /\ DOMAIN Listed(I, R) = 1..Cardinality(I)
         /\ \A k \in 1..Cardinality(I) : Listed(I, R)[k] \in I
         /\ \A i \in I : \E k \in 1..Cardinality(I) : Listed(I, R)[k] = i
         /\ \A k, l \in 1..Cardinality(I) :
              k < l => <<Listed(I, R)[k], Listed(I, R)[l]>> \in R
<1> DEFINE n == Cardinality(I)
           L == Listed(I, R)
           r(i) == Cardinality(Preds(i, I, R))
<1>1. n \in Nat
  BY FS_CardinalityType
<1>2. L = [k \in 1..n |-> CHOOSE i \in I : r(i) = k - 1]
  BY DEF Listed, Preds
<1>3. ASSUME NEW k \in 1..n PROVE L[k] \in I /\ r(L[k]) = k - 1
  <2>1. \E i \in I : r(i) = k - 1
    BY RankBijects
  <2>2. L[k] = CHOOSE i \in I : r(i) = k - 1
    BY <1>2
  <2> HIDE DEF r, L
  <2> QED
    BY <2>1, <2>2
<1>4. ASSUME NEW i \in I, NEW j \in I, r(i) <= r(j), i # j PROVE <<i, j>> \in R
  <2>1. CASE <<j, i>> \in R
    BY <1>4, <2>1, MoreBefore
  <2> QED
    BY <1>4, <2>1 DEF Orders
<1>5. ASSUME NEW i \in I PROVE \E k \in 1..n : L[k] = i
  <2>1. r(i) \in 0..(n - 1)
    BY RankBijects
  <2>2. r(i) + 1 \in 1..n /\ r(L[r(i) + 1]) = r(i) /\ L[r(i) + 1] \in I
    <3>1. r(i) + 1 \in 1..n /\ (r(i) + 1) - 1 = r(i)
      BY <1>1, <2>1
    <3> QED
      BY <1>3, <3>1
  <2>3. L[r(i) + 1] = i
    <3> SUFFICES ASSUME L[r(i) + 1] # i PROVE FALSE
      OBVIOUS
    <3>1. <<L[r(i) + 1], i>> \in R /\ <<i, L[r(i) + 1]>> \in R
      BY <1>4, <2>1, <2>2
    <3> QED
      BY <3>1, <2>2 DEF Orders
  <2> QED
    BY <2>2, <2>3
<1>6. ASSUME NEW k \in 1..n, NEW l \in 1..n, k < l PROVE <<L[k], L[l]>> \in R
  <2>1. r(L[k]) = k - 1 /\ r(L[l]) = l - 1 /\ L[k] \in I /\ L[l] \in I
    BY <1>3
  <2>2. r(L[k]) <= r(L[l]) /\ L[k] # L[l]
    BY <1>1, <1>6, <2>1
  <2> HIDE DEF r, L
  <2> QED
    BY <1>4, <2>1, <2>2
<1> QED
  BY <1>1, <1>2, <1>3, <1>5, <1>6

\* A list, as Python's are.
IsList(s) == \E n \in Nat : DOMAIN s = 1..n

\* There are finitely many positions.
LEMMA ListIsFinite ==
  ASSUME NEW s, IsList(s), NEW I \in SUBSET DOMAIN s
  PROVE  IsFiniteSet(I) /\ I \subseteq Nat
<1>1. PICK n \in Nat : DOMAIN s = 1..n
  BY DEF IsList
<1>2. IsFiniteSet(1..n)
  BY FS_Interval
<1> QED
  BY <1>1, <1>2, FS_Subset

\* t are the elements of s at the positions I, in their order.
IsSelection(t, s, I) ==
  /\ IsList(t)
  /\ \A k \in DOMAIN t : \E i \in I : t[k] = s[i]
  /\ \A i \in I : \E k \in DOMAIN t : t[k] = s[i]
  /\ \A k, l \in DOMAIN t :
       k < l => \E i, j \in I : i < j /\ t[k] = s[i] /\ t[l] = s[j]
  /\ t # <<>> => I # {} /\ 1 \in DOMAIN t
  /\ t = <<>> => I = {}

\* A list comprehension selects what it says.
LEMMA SelectedProperties ==
  ASSUME NEW s, IsList(s), NEW I \in SUBSET DOMAIN s
  PROVE  IsSelection(Selected(s, I), s, I)
<1> DEFINE R == {p \in I \X I : p[1] < p[2]}
           L == Listed(I, R)
           n == Cardinality(I)
           t == Selected(s, I)
<1>1. IsFiniteSet(I) /\ I \subseteq Nat
  BY ListIsFinite
<1>2. \A i, j : <<i, j>> \in R <=> i \in I /\ j \in I /\ i < j
  OBVIOUS
<1>3. Orders(R, I)
  <2> HIDE DEF R
  <2> QED
    BY <1>1, <1>2 DEF Orders
<1>4. /\ n \in Nat
      /\ \A k \in 1..n : L[k] \in I
      /\ \A i \in I : \E k \in 1..n : L[k] = i
      /\ \A k, l \in 1..n : k < l => <<L[k], L[l]>> \in R
  <2> HIDE DEF R
  <2> QED
    BY <1>1, <1>3, ListedProperties
<1>5. t = [k \in 1..n |-> s[L[k]]]
  BY DEF Selected
<1> HIDE DEF L, R, t
<1>6. IsList(t) /\ DOMAIN t = 1..n
  BY <1>4, <1>5 DEF IsList
<1>7. /\ \A k \in DOMAIN t : \E i \in I : t[k] = s[i]
      /\ \A i \in I : \E k \in DOMAIN t : t[k] = s[i]
  BY <1>4, <1>5
<1>8. ASSUME NEW k \in DOMAIN t, NEW l \in DOMAIN t, k < l
      PROVE  \E i, j \in I : i < j /\ t[k] = s[i] /\ t[l] = s[j]
  <2>1. L[k] \in I /\ L[l] \in I /\ L[k] < L[l]
    BY <1>2, <1>4, <1>6, <1>8
  <2> QED
    BY <1>5, <1>6, <2>1
<1>9. ASSUME t # <<>> PROVE I # {} /\ 1 \in DOMAIN t
  <2>1. CASE n = 0
    <3>1. t = <<>>
      BY <1>5, <2>1
    <3> QED
      BY <1>9, <3>1
  <2>2. CASE n # 0
    BY <1>4, <1>6, <2>2
  <2> QED
    BY <2>1, <2>2
<1>10. ASSUME t = <<>> PROVE I = {}
  <2>1. DOMAIN t = {}
    BY <1>10
  <2> QED
    BY <1>7, <2>1
<1> QED
  BY <1>6, <1>7, <1>8, <1>9, <1>10 DEF t, IsSelection

\* B is a strict weak order of D, as a sort key gives.
Weak(B, D) ==
  /\ \A i, j \in D : <<i, j>> \in B => <<j, i>> \notin B
  /\ \A i, j, k \in D : <<i, j>> \notin B /\ <<j, k>> \notin B => <<i, k>> \notin B

\* t lists every element of s, and none before one that B puts before it.
IsStableSort(t, s, B) ==
  /\ IsList(t) /\ DOMAIN t = DOMAIN s
  /\ \A k \in DOMAIN t : \E i \in DOMAIN s : t[k] = s[i]
  /\ \A i \in DOMAIN s : \E k \in DOMAIN t : t[k] = s[i]
  /\ \A k, l \in DOMAIN t : k < l =>
       \E i, j \in DOMAIN s :
         i # j /\ t[k] = s[i] /\ t[l] = s[j] /\ <<j, i>> \notin B

\* A strict weak order, and the position among equals, is what a stable sort
\* lists by.
LEMMA StableSort ==
  ASSUME NEW s, IsList(s), NEW B, Weak(B, DOMAIN s), NEW R,
         \A i, j \in DOMAIN s :
           <<i, j>> \in R <=> <<i, j>> \in B \/ (<<j, i>> \notin B /\ i < j),
         NEW t, t = [k \in DOMAIN s |-> s[Listed(DOMAIN s, R)[k]]]
  PROVE  IsStableSort(t, s, B)
<1> USE DEF IsStableSort
<1> DEFINE D == DOMAIN s
           L == Listed(D, R)
<1>1. IsFiniteSet(D) /\ D \subseteq Nat
  BY ListIsFinite
<1>3. Orders(R, D)
  <2>1. ASSUME NEW i \in D PROVE <<i, i>> \notin R
    BY <1>1 DEF Weak
  <2>2. ASSUME NEW i \in D, NEW j \in D, i # j
        PROVE  <<i, j>> \in R \/ <<j, i>> \in R
    <3>1. i < j \/ j < i
      BY <1>1, <2>2
    <3>2. i \in DOMAIN s /\ j \in DOMAIN s
      OBVIOUS
    <3>3. <<i, j>> \in R <=> <<i, j>> \in B \/ (<<j, i>> \notin B /\ i < j)
      BY <3>2, Zenon
    <3>4. <<j, i>> \in R <=> <<j, i>> \in B \/ (<<i, j>> \notin B /\ j < i)
      BY <3>2, Zenon
    <3> QED
      BY <3>1, <3>3, <3>4, Zenon
  <2>3. ASSUME NEW i \in D, NEW j \in D, NEW k \in D, <<i, j>> \in R, <<j, k>> \in R
        PROVE  <<i, k>> \in R
    <3>1. i \in Nat /\ j \in Nat /\ k \in Nat
      BY <1>1
    <3>2. i < j /\ j < k => i < k
      BY <3>1
    <3>3. /\ <<i, j>> \in B \/ (<<j, i>> \notin B /\ i < j)
          /\ <<j, k>> \in B \/ (<<k, j>> \notin B /\ j < k)
          /\ <<i, k>> \in R <=> <<i, k>> \in B \/ (<<k, i>> \notin B /\ i < k)
      BY <2>3, Zenon
    <3>4. /\ \A x, y \in {i, j, k} : <<x, y>> \in B => <<y, x>> \notin B
          /\ \A x, y, z \in {i, j, k} :
               <<x, y>> \notin B /\ <<y, z>> \notin B => <<x, z>> \notin B
      BY Zenon DEF Weak
    <3> QED
      BY <3>2, <3>3, <3>4, Zenon
  <2> QED
    BY <2>1, <2>2, <2>3 DEF Orders
<1>4. PICK n \in Nat : D = 1..n
  BY DEF IsList
<1>5. Cardinality(D) = n
  BY <1>4, FS_Interval
<1>6. /\ \A k \in D : L[k] \in D
      /\ \A i \in D : \E k \in D : L[k] = i
      /\ \A k, l \in D : k < l => <<L[k], L[l]>> \in R
  <2> DEFINE c == Cardinality(D)
  <2>1. /\ \A k \in 1..c : L[k] \in D
        /\ \A i \in D : \E k \in 1..c : L[k] = i
        /\ \A k, l \in 1..c : k < l => <<L[k], L[l]>> \in R
    BY <1>1, <1>3, ListedProperties
  <2>2. 1..c = D
    BY <1>4, <1>5
  <2> HIDE DEF c, D, L
  <2> QED
    BY <2>1, <2>2
<1> HIDE DEF L
<1>7. ASSUME NEW k \in D, NEW l \in D, k < l
      PROVE  \E i, j \in D :
               i # j /\ t[k] = s[i] /\ t[l] = s[j] /\ <<j, i>> \notin B
  <2>1. L[k] \in D /\ L[l] \in D /\ L[k] # L[l] /\ <<L[l], L[k]>> \notin B
    BY <1>3, <1>6, <1>7 DEF Weak, Orders
  <2>2. t[k] = s[L[k]] /\ t[l] = s[L[l]]
    BY DEF L
  <2> QED
    BY <2>1, <2>2
<1>8. DOMAIN t = D /\ \A k \in D : t[k] = s[L[k]]
  BY DEF L
<1>9. /\ \A k \in D : \E i \in D : t[k] = s[i]
      /\ \A i \in D : \E k \in D : t[k] = s[i]
  <2> HIDE DEF D
  <2> QED
    BY <1>6, <1>8
<1>10. IsList(t)
  BY <1>4, <1>8 DEF IsList
<1> QED
  BY <1>7, <1>8, <1>9, <1>10

\* The sort by risk and score.
LEMMA SortedByRisk ==
  ASSUME NEW s, IsList(s), \A i \in DOMAIN s : s[i].risk.score \in Int
  PROVE  LET t == SortedBy(s, LessRisky)
         IN  /\ IsList(t)
             /\ \A k \in DOMAIN t : \E i \in DOMAIN s : t[k] = s[i]
             /\ \A k, l \in DOMAIN t : k < l => ~LessRisky(t[l], t[k])
<1> DEFINE B == {p \in (DOMAIN s) \X (DOMAIN s) : LessRisky(s[p[1]], s[p[2]])}
           R == {p \in (DOMAIN s) \X (DOMAIN s) :
                   \/ LessRisky(s[p[1]], s[p[2]])
                   \/ ~LessRisky(s[p[2]], s[p[1]]) /\ p[1] < p[2]}
           t == SortedBy(s, LessRisky)
<1>1. \A i, j \in DOMAIN s : <<i, j>> \in B <=> LessRisky(s[i], s[j])
  OBVIOUS
<1>2. \A i \in DOMAIN s : RankOf(s[i].risk) \in Int
  BY DEF RankOf, RiskRank
<1>3. Weak(B, DOMAIN s)
  <2> HIDE DEF B
  <2>1. \A i, j \in DOMAIN s : <<i, j>> \in B <=>
           \/ RankOf(s[i].risk) < RankOf(s[j].risk)
           \/ RankOf(s[i].risk) = RankOf(s[j].risk) /\ s[i].risk.score > s[j].risk.score
    BY <1>1 DEF LessRisky
  <2> QED
    BY <1>2, <2>1 DEF Weak
<1>4. t = [k \in DOMAIN s |-> s[Listed(DOMAIN s, R)[k]]]
  BY DEF SortedBy
<1>5. \A i, j \in DOMAIN s : <<i, j>> \in R <=>
         LessRisky(s[i], s[j]) \/ (~LessRisky(s[j], s[i]) /\ i < j)
  <2> TAKE i, j \in DOMAIN s
  <2> DEFINE p == <<i, j>>
  <2>1. p \in (DOMAIN s) \X (DOMAIN s) /\ p[1] = i /\ p[2] = j
    OBVIOUS
  <2>2. p \in R <=> \/ LessRisky(s[p[1]], s[p[2]])
                    \/ ~LessRisky(s[p[2]], s[p[1]]) /\ p[1] < p[2]
    <3> HIDE DEF p
    <3> QED
      BY <2>1, Zenon
  <2> QED
    BY <2>1, <2>2
<1> HIDE DEF t, B, R
<1>6. \A i, j \in DOMAIN s :
        <<i, j>> \in R <=> <<i, j>> \in B \/ (<<j, i>> \notin B /\ i < j)
  BY <1>1, <1>5
<1>7. IsStableSort(t, s, B)
  BY <1>3, <1>4, <1>6, StableSort
<1>8. \A k, l \in DOMAIN t : k < l => ~LessRisky(t[l], t[k])
  BY <1>1, <1>7 DEF IsStableSort
<1> QED
  BY <1>7, <1>8 DEF t, IsStableSort

\* Multiplying fractions with positive denominators out keeps their order.
LEMMA FractionsAreOrdered ==
  ASSUME NEW a \in Int, NEW b \in Nat \ {0}, NEW c \in Int, NEW d \in Nat \ {0},
         NEW e \in Int, NEW f \in Nat \ {0}, a * d <= b * c, c * f <= d * e
  PROVE  a * f <= b * e
<1>1. (a * d) * f <= (b * c) * f
  OBVIOUS
<1>2. (c * f) * b <= (d * e) * b
  OBVIOUS
<1>3. (a * f) * d <= (b * e) * d
  <2>1. (a * d) * f = (a * f) * d /\ (b * c) * f = (c * f) * b /\ (d * e) * b = (b * e) * d
    OBVIOUS
  <2> QED
    BY <1>1, <1>2, <2>1
<1>4. ASSUME NEW x \in Int, NEW y \in Int, x * d <= y * d PROVE x <= y
  BY <1>4
<1>5. a * f \in Int /\ b * e \in Int
  OBVIOUS
<1> QED
  BY <1>3, <1>4, <1>5

\* A credibility has a positive denominator.
LEMMA CredibilityIsAFraction ==
  ASSUME NEW c, c.rating \in Int, c.reviews \in Nat
  PROVE  Credibility(c)[1] \in Int /\ Credibility(c)[2] \in Nat \ {0}
<1>1. c.reviews * c.rating + 20 * 40 \in Int /\ c.reviews + 20 \in Nat \ {0}
  OBVIOUS
<1>2. CASE c.rating = None
  <2>1. Credibility(c) = <<0, 1>>
    BY <1>2 DEF Credibility
  <2> QED
    BY <2>1
<1>3. CASE c.rating # None /\ c.reviews = 0
  <2>1. Credibility(c) = <<c.rating, 1>>
    BY <1>3 DEF Credibility
  <2> QED
    BY <2>1
<1>4. CASE c.rating # None /\ c.reviews # 0
  <2>1. Credibility(c) = <<c.reviews * c.rating + 20 * 40, c.reviews + 20>>
    BY <1>4 DEF Credibility
  <2> QED
    BY <1>1, <2>1
<1> QED
  BY <1>2, <1>3, <1>4

\* Scores, and then credibilities, order vendors.
LEMMA TrustIsAnOrder ==
  ASSUME NEW c, c.rating \in Int, c.reviews \in Nat,
         NEW d, d.rating \in Int, d.reviews \in Nat,
         NEW e, e.rating \in Int, e.reviews \in Nat
  PROVE  /\ MoreTrusted(c, d) => ~MoreTrusted(d, c)
         /\ ~MoreTrusted(c, d) /\ ~MoreTrusted(d, e) => ~MoreTrusted(c, e)
<1> DEFINE cn == Credibility(c)[1]  cq == Credibility(c)[2]
           dn == Credibility(d)[1]  dq == Credibility(d)[2]
           en == Credibility(e)[1]  eq == Credibility(e)[2]
<1>1. /\ cn \in Int /\ cq \in Nat \ {0} /\ dn \in Int /\ dq \in Nat \ {0}
      /\ en \in Int /\ eq \in Nat \ {0}
  BY CredibilityIsAFraction
<1>2. Score(c) \in Int /\ Score(d) \in Int /\ Score(e) \in Int
  BY KnownAssumption DEF Score, None
<1>3. /\ MoreTrusted(c, d) <=> \/ Score(c) > Score(d)
                               \/ Score(c) = Score(d) /\ cn * dq > dn * cq
      /\ MoreTrusted(d, c) <=> \/ Score(d) > Score(c)
                               \/ Score(d) = Score(c) /\ dn * cq > cn * dq
      /\ MoreTrusted(d, e) <=> \/ Score(d) > Score(e)
                               \/ Score(d) = Score(e) /\ dn * eq > en * dq
      /\ MoreTrusted(c, e) <=> \/ Score(c) > Score(e)
                               \/ Score(c) = Score(e) /\ cn * eq > en * cq
  BY DEF MoreTrusted
<1> HIDE DEF cn, cq, dn, dq, en, eq
<1>4. /\ cn * dq \in Int /\ dn * cq \in Int /\ dn * eq \in Int /\ en * dq \in Int
      /\ cn * eq \in Int /\ en * cq \in Int
      /\ dn * cq = cq * dn /\ en * dq = dq * en /\ en * cq = cq * en
  BY <1>1
<1>5. cn * dq <= cq * dn /\ dn * eq <= dq * en => cn * eq <= cq * en
  BY <1>1, FractionsAreOrdered
<1> QED
  BY <1>2, <1>3, <1>4, <1>5

\* The sort by score and credibility.
LEMMA SortedByTrust ==
  ASSUME NEW s, IsList(s),
         \A i \in DOMAIN s : s[i].rating \in Int /\ s[i].reviews \in Nat
  PROVE  LET t == SortedBy(s, MoreTrusted)
         IN  /\ IsList(t) /\ DOMAIN t = DOMAIN s
             /\ \A k \in DOMAIN t : \E i \in DOMAIN s : t[k] = s[i]
             /\ \A i \in DOMAIN s : \E k \in DOMAIN t : t[k] = s[i]
             /\ \A k, l \in DOMAIN t : k < l =>
                  /\ ~MoreTrusted(t[l], t[k])
                  /\ \E i, j \in DOMAIN s : i # j /\ t[k] = s[i] /\ t[l] = s[j]
<1> DEFINE B == {p \in (DOMAIN s) \X (DOMAIN s) : MoreTrusted(s[p[1]], s[p[2]])}
           R == {p \in (DOMAIN s) \X (DOMAIN s) :
                   \/ MoreTrusted(s[p[1]], s[p[2]])
                   \/ ~MoreTrusted(s[p[2]], s[p[1]]) /\ p[1] < p[2]}
           t == SortedBy(s, MoreTrusted)
<1>1. \A i, j \in DOMAIN s : <<i, j>> \in B <=> MoreTrusted(s[i], s[j])
  OBVIOUS
<1>2. \A i, j \in DOMAIN s : <<i, j>> \in R <=>
         MoreTrusted(s[i], s[j]) \/ (~MoreTrusted(s[j], s[i]) /\ i < j)
  <2> TAKE i, j \in DOMAIN s
  <2> DEFINE p == <<i, j>>
  <2>1. p \in (DOMAIN s) \X (DOMAIN s) /\ p[1] = i /\ p[2] = j
    OBVIOUS
  <2>2. p \in R <=> \/ MoreTrusted(s[p[1]], s[p[2]])
                    \/ ~MoreTrusted(s[p[2]], s[p[1]]) /\ p[1] < p[2]
    <3> HIDE DEF p
    <3> QED
      BY <2>1, Zenon
  <2> QED
    BY <2>1, <2>2
<1>3. t = [k \in DOMAIN s |-> s[Listed(DOMAIN s, R)[k]]]
  BY DEF SortedBy
<1> HIDE DEF t, B, R
<1>4. Weak(B, DOMAIN s)
  <2>1. \A i, j \in DOMAIN s : MoreTrusted(s[i], s[j]) => ~MoreTrusted(s[j], s[i])
    BY TrustIsAnOrder
  <2>2. \A i, j, k \in DOMAIN s :
          ~MoreTrusted(s[i], s[j]) /\ ~MoreTrusted(s[j], s[k]) => ~MoreTrusted(s[i], s[k])
    BY TrustIsAnOrder
  <2> QED
    BY <1>1, <2>1, <2>2 DEF Weak
<1>5. \A i, j \in DOMAIN s :
        <<i, j>> \in R <=> <<i, j>> \in B \/ (<<j, i>> \notin B /\ i < j)
  BY <1>1, <1>2
<1>6. IsStableSort(t, s, B)
  BY <1>3, <1>4, <1>5, StableSort
<1>7. \A k, l \in DOMAIN t : k < l => ~MoreTrusted(t[l], t[k])
  BY <1>1, <1>6 DEF IsStableSort
<1>8. \A k, l \in DOMAIN t : k < l =>
        \E i, j \in DOMAIN s : i # j /\ t[k] = s[i] /\ t[l] = s[j]
  <2> TAKE k, l \in DOMAIN t
  <2> HAVE k < l
  <2>1. PICK i \in DOMAIN s, j \in DOMAIN s :
          i # j /\ t[k] = s[i] /\ t[l] = s[j] /\ <<j, i>> \notin B
    BY <1>6 DEF IsStableSort
  <2> QED
    BY <2>1
<1>9. /\ IsList(t) /\ DOMAIN t = DOMAIN s
      /\ \A k \in DOMAIN t : \E i \in DOMAIN s : t[k] = s[i]
      /\ \A i \in DOMAIN s : \E k \in DOMAIN t : t[k] = s[i]
  BY <1>6 DEF IsStableSort
<1> QED
  BY <1>7, <1>8, <1>9 DEF t

\* ds are the best of the candidates cs: no more than the limit, each place
\* once, the most trusted first; and whom it leaves out is no more trusted
\* than anybody in it.
BestOf(ds, cs, limit) ==
  /\ IsList(ds) /\ Len(ds) \in 0..limit
  /\ \A k \in DOMAIN ds : \E i \in DOMAIN cs : ds[k] = cs[i]
  /\ \A k, l \in DOMAIN ds : k < l =>
       /\ ~MoreTrusted(ds[l], ds[k])
       /\ ds[k].place = ds[l].place => ds[k].place = NoPlace
  /\ \A i \in DOMAIN Deduped(cs) :
       \/ \E k \in DOMAIN ds : ds[k] = Deduped(cs)[i]
       \/ /\ Len(ds) = limit
          /\ \A k \in DOMAIN ds : ~MoreTrusted(Deduped(cs)[i], ds[k])

\* Each place once.
LEMMA DedupedProperties ==
  ASSUME NEW cs, IsList(cs)
  PROVE  LET ds == Deduped(cs)
         IN  /\ IsList(ds)
             /\ \A k \in DOMAIN ds : \E i \in DOMAIN cs : ds[k] = cs[i]
             /\ \A k, l \in DOMAIN ds : k # l =>
                  (ds[k].place = ds[l].place => ds[k].place = NoPlace)
<1> DEFINE I == {i \in DOMAIN cs :
                   cs[i].place = NoPlace
                     \/ \A j \in 1..(i - 1) : cs[j].place # cs[i].place}
           ds == Deduped(cs)
<1>1. IsSelection(ds, cs, I)
  BY SelectedProperties DEF Deduped
<1>2. ASSUME NEW i \in I, NEW j \in I, i < j, cs[i].place = cs[j].place
      PROVE  cs[i].place = NoPlace
  <2>1. i \in 1..(j - 1)
    BY <1>2 DEF IsList
  <2> QED
    BY <1>2, <2>1
<1> HIDE DEF I, ds
<1>3. DOMAIN ds \subseteq Nat
  BY <1>1 DEF IsSelection, IsList
<1>4. ASSUME NEW k \in DOMAIN ds, NEW l \in DOMAIN ds, k < l,
             ds[k].place = ds[l].place
      PROVE  ds[k].place = NoPlace
  BY <1>1, <1>2, <1>4 DEF IsSelection
<1>5. ASSUME NEW k \in DOMAIN ds, NEW l \in DOMAIN ds, k # l,
             ds[k].place = ds[l].place
      PROVE  ds[k].place = NoPlace
  BY <1>3, <1>4, <1>5
<1>6. \A k \in DOMAIN ds : \E i \in DOMAIN cs : ds[k] = cs[i]
  BY <1>1 DEF IsSelection, I
<1> QED
  BY <1>1, <1>5, <1>6 DEF IsSelection, ds

\* For any list of candidates with ratings and any limit.
LEMMA DiscoveredIsBest ==
  ASSUME NEW cs, IsList(cs), NEW limit \in Nat,
         \A i \in DOMAIN cs : cs[i].rating \in Int /\ cs[i].reviews \in Nat
  PROVE  BestOf(Discovered(cs, limit), cs, limit)
<1> DEFINE s == Deduped(cs)
           t == SortedBy(s, MoreTrusted)
           m == IF Len(t) < limit THEN Len(t) ELSE limit
           ds == Discovered(cs, limit)
<1>1. /\ IsList(s)
      /\ \A k \in DOMAIN s : \E i \in DOMAIN cs : s[k] = cs[i]
      /\ \A k, l \in DOMAIN s : k # l =>
           (s[k].place = s[l].place => s[k].place = NoPlace)
  BY DedupedProperties
<1>2. PICK n \in Nat : DOMAIN s = 1..n
  BY <1>1 DEF IsList
<1>3. Len(t) = n /\ DOMAIN t = 1..n
  BY <1>2 DEF SortedBy
<1> HIDE DEF s
<1>4. /\ \A k \in DOMAIN t : \E i \in DOMAIN s : t[k] = s[i]
      /\ \A i \in DOMAIN s : \E k \in DOMAIN t : t[k] = s[i]
      /\ \A k, l \in DOMAIN t : k < l =>
           /\ ~MoreTrusted(t[l], t[k])
           /\ \E i, j \in DOMAIN s : i # j /\ t[k] = s[i] /\ t[l] = s[j]
  BY <1>1, SortedByTrust
<1> HIDE DEF t
<1>5. m \in 0..n /\ m <= limit /\ (m < n => m = limit)
  BY <1>3
<1>6. ds = SubSeq(t, 1, m)
  BY DEF Discovered, s, t
<1> HIDE DEF m, ds
<1>7. /\ ds \in Seq({t[k] : k \in 1..m}) /\ Len(ds) = m
      /\ \A k \in 1..m : ds[k] = t[k]
  BY <1>5, <1>6, SubSeqProperties
<1>8. DOMAIN ds = 1..m /\ IsList(ds)
  BY <1>5, <1>7, LenProperties DEF IsList
<1>9. \A k \in DOMAIN ds : k \in DOMAIN t /\ ds[k] = t[k]
  BY <1>3, <1>5, <1>7, <1>8
<1>10. \A k \in DOMAIN ds : \E i \in DOMAIN cs : ds[k] = cs[i]
  BY <1>1, <1>4, <1>9
<1>11. \A k, l \in DOMAIN ds : k < l =>
         /\ ~MoreTrusted(ds[l], ds[k])
         /\ ds[k].place = ds[l].place => ds[k].place = NoPlace
  BY <1>1, <1>4, <1>9
<1>12. ASSUME NEW i \in DOMAIN s
       PROVE  \/ \E k \in DOMAIN ds : ds[k] = s[i]
              \/ Len(ds) = limit /\ \A k \in DOMAIN ds : ~MoreTrusted(s[i], ds[k])
  <2>1. PICK l \in DOMAIN t : t[l] = s[i]
    BY <1>4
  <2>2. CASE l \in DOMAIN ds
    BY <1>9, <2>1, <2>2
  <2>3. CASE l \notin DOMAIN ds
    <3>1. l \in Nat /\ m < l /\ m = limit
      BY <1>3, <1>5, <1>8, <2>3
    <3>2. \A k \in DOMAIN ds : k < l
      BY <1>5, <1>8, <3>1
    <3> QED
      BY <1>4, <1>7, <1>9, <2>1, <3>1, <3>2
  <2> QED
    BY <2>2, <2>3
<1> QED
  BY <1>5, <1>7, <1>8, <1>10, <1>11, <1>12 DEF BestOf, ds, s

\* Whatever Google lists, the search for vendors returns the best of it
\* (PlacesAgent.search).
THEOREM DiscoveredThm ==
  \A r \in Requirements : \A cs \in Listings[r.topic] :
    BestOf(Discovered(cs, TopN), cs, TopN)
<1> SUFFICES ASSUME NEW r \in Requirements, NEW cs \in Listings[r.topic]
             PROVE  BestOf(Discovered(cs, TopN), cs, TopN)
  OBVIOUS
<1>1. IsList(cs) /\ TopN \in Nat
  BY SearchAssumption DEF IsList
<1>2. \A i \in DOMAIN cs : cs[i].rating \in Int /\ cs[i].reviews \in Nat
  BY SearchAssumption
<1> QED
  BY <1>1, <1>2, DiscoveredIsBest

----------------------------------------------------------------------------
(* The invariant of the marks *)

\* The session's hub: marks of registered goals.
HubInv ==
  /\ goals \in Seq(Goals)
  /\ seen \in [Goals -> Nat]
  /\ NoQuoteSkipped

Statuses == {"none"} \cup GoalState
Rows(F) == [status : Statuses, from : F, quotes : Nat]

\* Rows of the goals table count their quotes.
StoreInv == \E F : store \in [Goals -> Rows(F)]

Positions ==
  [at : {"off", "status", "quotes", "note"}, next : Nat \ {0},
   status : Statuses, quotes : Nat]

\* A poll is at a position of the session's list and has read a number.
ReadInv == reading \in [Polls -> Positions]

Order(I, K, S, V) == [goal : Nat, intent : I, pick : K, search : S, targets : V]

\* A confirmation that saved its goal knows it.
OrderInv ==
  /\ pc = [t \in Turns |-> pc[t]]
  /\ order = [t \in Turns |-> order[t]]
  /\ \A t \in Turns :
       /\ pc[t] = "save" => \E I, K, S, V : order[t] \in Order(I, K, S, V)
       /\ pc[t] \in {"send", "register"} => order[t].goal \in Goals

ChatInv == HubInv /\ StoreInv /\ ReadInv /\ OrderInv

----------------------------------------------------------------------------
(* Each part is left alone by most steps *)

\* Whoever leaves the hub alone keeps its invariant.
LEMMA HubFrame ==
  ASSUME HubInv, UNCHANGED <<goals, seen, told>>
  PROVE  HubInv'
  BY DEF HubInv, NoQuoteSkipped

\* The same for the table, ...
LEMMA StoreFrame ==
  ASSUME StoreInv, UNCHANGED store
  PROVE  StoreInv'
  BY DEF StoreInv

\* ... the polls ...
LEMMA ReadFrame ==
  ASSUME ReadInv, UNCHANGED reading
  PROVE  ReadInv'
  BY DEF ReadInv

\* ... and the turns, ...
LEMMA OrderFrame ==
  ASSUME OrderInv, UNCHANGED <<pc, order>>
  PROVE  OrderInv'
  BY DEF OrderInv

\* ... which may also move to where no goal is being made.
LEMMA TurnFrame ==
  ASSUME OrderInv, NEW t \in Turns,
         NEW l \in {"idle", "ask", "refused", "tool"},
         pc' = [pc EXCEPT ![t] = l],
         order' = order \/ order' = [order EXCEPT ![t] = Unsearched]
  PROVE  OrderInv'
<1>1. /\ pc' = [u \in Turns |-> pc'[u]]
      /\ pc'[t] = l /\ \A u \in Turns \ {t} : pc'[u] = pc[u]
  BY DEF OrderInv
<1>2. /\ order' = [u \in Turns |-> order'[u]]
      /\ \A u \in Turns \ {t} : order'[u] = order[u]
  BY DEF OrderInv
<1> QED
  BY <1>1, <1>2 DEF OrderInv

\* What a tool's result does to the turn.
LEMMA ResultMoves ==
  ASSUME OrderInv, NEW t \in Turns, Result(t)
  PROVE  OrderInv'
<1>1. order' = [order EXCEPT ![t] = Unsearched]
  BY DEF Result
<1>2. \E l \in {"idle", "ask", "refused", "tool"} : pc' = [pc EXCEPT ![t] = l]
  BY DEF Result, Goto, End, Ask
<1> QED
  BY <1>1, <1>2, TurnFrame

----------------------------------------------------------------------------
(* Turns *)

\* A turn outside of a confirmation.
LEMMA TalkStep ==
  ASSUME ChatInv, NEW t \in Turns,
         \/ Message(t) \/ Answer(t) \/ CallTools(t) \/ NoAnswer(t)
         \/ UnknownTool(t) \/ FindVendors(t) \/ SearchRaises(t) \/ NothingFound(t)
  PROVE  ChatInv'
<1>1. UNCHANGED <<goals, seen, told, store, reading>>
  BY DEF Message, Answer, CallTools, NoAnswer, UnknownTool, FindVendors,
         SearchRaises, NothingFound, hubVars, pollVars
<1>2. CASE Message(t) \/ Answer(t) \/ CallTools(t) \/ NoAnswer(t) \/ SearchRaises(t)
  <2>1. order' = order
    BY <1>2 DEF Message, Answer, CallTools, NoAnswer, SearchRaises
  <2>2. \E l \in {"idle", "ask", "refused", "tool"} : pc' = [pc EXCEPT ![t] = l]
    BY <1>2 DEF Message, Answer, CallTools, NoAnswer, SearchRaises, Goto, End, Ask
  <2> QED
    BY <2>1, <2>2, <1>1, TurnFrame, HubFrame, StoreFrame, ReadFrame DEF ChatInv
<1>3. CASE UnknownTool(t) \/ FindVendors(t) \/ NothingFound(t)
  <2>1. Result(t)
    BY <1>3 DEF UnknownTool, FindVendors, NothingFound
  <2> QED
    BY <2>1, <1>1, ResultMoves, HubFrame, StoreFrame, ReadFrame DEF ChatInv
<1> QED
  BY <1>2, <1>3

\* A row that is written for a confirmation counts no quotes.
LEMMA CreatedRow ==
  ASSUME StoreInv, NEW t, NEW g \in Goals, NEW s \in Statuses,
         store' = [store EXCEPT ![g] = Created(t, s)]
  PROVE  StoreInv'
<1>1. PICK F : store \in [Goals -> Rows(F)]
  BY DEF StoreInv
<1> DEFINE E == F \cup {order[t]}
<1>2. Created(t, s) \in Rows(E)
  BY DEF Created, Rows
<1>3. Rows(F) \subseteq Rows(E)
  BY DEF Rows
<1>4. store' \in [Goals -> Rows(E)]
  BY <1>1, <1>2, <1>3
<1> QED
  BY <1>4 DEF StoreInv

\* A step of a confirmation.
LEMMA ConfirmStep ==
  ASSUME ChatInv, NEW t \in Turns,
         Confirm(t) \/ SaveGoal(t) \/ SaveFails(t) \/ Send(t) \/ Register(t)
  PROVE  ChatInv'
<1>1. CASE Confirm(t)
  <2>1. UNCHANGED <<goals, seen, told, store, reading>>
        /\ pc' = [pc EXCEPT ![t] = "save"]
    BY <1>1 DEF Confirm, hubVars, pollVars, Goto
  <2>2. PICK k, v :
          order' = [order EXCEPT ![t] = [goal |-> 0, intent |-> last.intent,
                                         pick |-> k, search |-> last, targets |-> v]]
    BY <1>1 DEF Confirm
  <2>3. order'[t] \in Order({last.intent}, {k}, {last}, {v})
    BY <2>2 DEF ChatInv, OrderInv, Order
  <2>4. OrderInv'
    BY <2>1, <2>2, <2>3 DEF ChatInv, OrderInv
  <2> QED
    BY <2>1, <2>4, HubFrame, StoreFrame, ReadFrame DEF ChatInv
<1>2. CASE SaveGoal(t)
  <2>1. PICK g \in Goals : /\ store' = [store EXCEPT ![g] = Created(t, "pending_rfq")]
                           /\ order' = [order EXCEPT ![t].goal = g]
    BY <1>2 DEF SaveGoal, Free
  <2>2. UNCHANGED <<goals, seen, told, reading>> /\ pc[t] = "save"
        /\ pc' = [pc EXCEPT ![t] = "send"]
    BY <1>2 DEF SaveGoal, hubVars, pollVars, Goto
  <2>3. order'[t].goal = g
    <3>1. PICK I, K, S, V : order[t] \in Order(I, K, S, V)
      BY <2>2 DEF ChatInv, OrderInv
    <3>2. order'[t] = [order[t] EXCEPT !.goal = g]
      BY <2>1 DEF ChatInv, OrderInv
    <3>3. g \in Nat
      BY DEF Goals
    <3> QED
      BY <3>1, <3>2, <3>3 DEF Order
  <2>4. order' = [u \in Turns |-> order'[u]] /\ \A u \in Turns \ {t} : order'[u] = order[u]
    BY <2>1 DEF ChatInv, OrderInv
  <2>5. OrderInv'
    BY <2>2, <2>3, <2>4 DEF ChatInv, OrderInv
  <2> QED
    BY <2>1, <2>2, <2>5, CreatedRow, HubFrame, ReadFrame DEF ChatInv, Statuses, GoalState
<1>3. CASE SaveFails(t)
  <2>1. Result(t) /\ UNCHANGED <<goals, seen, told, reading>>
    BY <1>3 DEF SaveFails, hubVars, pollVars
  <2>2. \/ UNCHANGED store
        \/ \E g \in Goals : store' = [store EXCEPT ![g] = Created(t, "processing")]
    BY <1>3 DEF SaveFails, Free
  <2>3. StoreInv'
    BY <2>2, CreatedRow, StoreFrame DEF ChatInv, Statuses, GoalState
  <2> QED
    BY <2>1, <2>3, ResultMoves, HubFrame, ReadFrame DEF ChatInv
<1>4. CASE Send(t)
  <2>1. UNCHANGED <<goals, seen, told, store, reading, order>> /\ pc[t] = "send"
        /\ pc' = [pc EXCEPT ![t] = "register"]
    BY <1>4 DEF Send, hubVars, pollVars, Goto
  <2>2. OrderInv'
    BY <2>1 DEF ChatInv, OrderInv
  <2> QED
    BY <2>1, <2>2, HubFrame, StoreFrame, ReadFrame DEF ChatInv
<1>5. CASE Register(t)
  <2> DEFINE g == order[t].goal
  <2>1. Result(t) /\ goals' = Append(goals, g) /\ seen' = [seen EXCEPT ![g] = 0]
        /\ UNCHANGED <<store, reading, told>>
    BY <1>5 DEF Register, MarkUnseen, pollVars
  <2>2. g \in Goals
    BY <1>5 DEF Register, ChatInv, OrderInv
  <2>3. /\ goals' \in Seq(Goals) /\ Len(goals') = Len(goals) + 1
        /\ \A i \in 1..Len(goals) : goals'[i] = goals[i]
        /\ goals'[Len(goals) + 1] = g
    BY <2>1, <2>2, AppendProperties DEF ChatInv, HubInv
  <2>4. seen' \in [Goals -> Nat]
    BY <2>1, <2>2 DEF ChatInv, HubInv
  <2>5. ASSUME NEW i \in DOMAIN goals', NEW n \in 1..seen'[goals'[i]]
        PROVE  <<goals'[i], n>> \in told'
    <3>1. goals'[i] # g
      BY <2>1, <2>2, <2>5 DEF ChatInv, HubInv
    <3>2. DOMAIN goals' = 1..(Len(goals) + 1) /\ DOMAIN goals = 1..Len(goals)
          /\ Len(goals) \in Nat
      BY <2>3, LenProperties DEF ChatInv, HubInv
    <3>3. i \in DOMAIN goals /\ goals'[i] = goals[i] /\ goals[i] \in Goals
      BY <2>3, <2>5, <3>1, <3>2, ElementOfSeq DEF ChatInv, HubInv
    <3>4. seen'[goals[i]] = seen[goals[i]]
      BY <2>1, <3>1, <3>3 DEF ChatInv, HubInv
    <3> QED
      BY <2>1, <2>5, <3>3, <3>4 DEF ChatInv, HubInv, NoQuoteSkipped
  <2>6. HubInv'
    BY <2>3, <2>4, <2>5 DEF HubInv, NoQuoteSkipped
  <2> QED
    BY <2>1, <2>6, ResultMoves, StoreFrame, ReadFrame DEF ChatInv
<1> QED
  BY <1>1, <1>2, <1>3, <1>4, <1>5

----------------------------------------------------------------------------
(* Polls *)

\* A poll that starts, ends or goes on to another position of the list.
LEMMA PollMoves ==
  ASSUME ReadInv, NEW p \in Polls, NEW a \in {"off", "status"}, NEW i \in Nat \ {0},
         reading' = [reading EXCEPT ![p] = [Off EXCEPT !.at = a, !.next = i]]
  PROVE  ReadInv'
<1>1. Off \in Positions
  BY DEF Off, Positions, Statuses
<1>2. [Off EXCEPT !.at = a, !.next = i] \in Positions
  BY <1>1 DEF Positions
<1> QED
  BY <1>2 DEF ReadInv

\* The goal a poll looks at is one of the session's.
LEMMA LookedIsAGoal ==
  ASSUME ChatInv, NEW p \in Polls, reading[p].next <= Len(goals)
  PROVE  reading[p].next \in DOMAIN goals /\ Looked(p) \in Goals
<1>1. reading[p].next \in Nat \ {0}
  BY DEF ChatInv, ReadInv, Positions
<1>2. reading[p].next \in 1..Len(goals) /\ DOMAIN goals = 1..Len(goals)
  BY <1>1, LenProperties DEF ChatInv, HubInv
<1> QED
  BY <1>2, ElementOfSeq DEF Looked, ChatInv, HubInv

\* What a poll notes.
LEMMA NoteStep ==
  ASSUME ChatInv, NEW p \in Polls, PollNote(p)
  PROVE  ChatInv'
<1> DEFINE g == Looked(p)
           i == reading[p].next
           n == reading[p].quotes
<1>1. i \in Nat \ {0} /\ n \in Nat
  BY DEF ChatInv, ReadInv, Positions
<1>2. g \in Goals /\ i \in DOMAIN goals /\ g = goals[i]
  BY <1>1, LookedIsAGoal DEF PollNote, Looks, Looked
<1>a. seen' = [seen EXCEPT ![g] = n]
  BY DEF PollNote
<1>b. told' = told \cup {<<g, m>> : m \in (seen[g] + 1)..n}
  BY Zenon DEF PollNote, Fresh
<1>c. UNCHANGED <<goals, store, pc, order>>
  BY DEF PollNote, turnVars
<1>d. reading' = [reading EXCEPT ![p] = [Off EXCEPT !.at = "status", !.next = i + 1]]
  BY DEF PollNote, NextGoal
<1>3. /\ seen' = [seen EXCEPT ![g] = n]
      /\ told' = told \cup {<<g, m>> : m \in (seen[g] + 1)..n}
      /\ UNCHANGED <<goals, store, pc, order>>
  BY <1>a, <1>b, <1>c
<1>4. ReadInv'
  <2>1. i + 1 \in Nat \ {0}
    BY <1>1
  <2> QED
    BY <1>d, <2>1, PollMoves DEF ChatInv
<1>5. seen' \in [Goals -> Nat]
  BY <1>1, <1>2, <1>3 DEF ChatInv, HubInv
<1>6. ASSUME NEW j \in DOMAIN goals, NEW m \in 1..seen'[goals[j]]
      PROVE  <<goals[j], m>> \in told'
  <2>1. goals[j] \in Goals
    BY ElementOfSeq, LenProperties DEF ChatInv, HubInv
  <2>2. CASE goals[j] # g
    BY <1>3, <1>6, <2>1, <2>2 DEF ChatInv, HubInv, NoQuoteSkipped
  <2>3. CASE goals[j] = g
    <3>1. m \in 1..n /\ seen[g] \in Nat
      BY <1>2, <1>3, <1>6, <2>3 DEF ChatInv, HubInv
    <3>2. CASE m <= seen[g]
      BY <1>3, <2>3, <3>1, <3>2 DEF ChatInv, HubInv, NoQuoteSkipped
    <3>3. CASE ~(m <= seen[g])
      <4>1. m \in (seen[g] + 1)..n
        BY <3>1, <3>3
      <4> QED
        BY <1>3, <2>3, <4>1
    <3> QED
      BY <3>2, <3>3
  <2> QED
    BY <2>2, <2>3
<1>7. HubInv'
  BY <1>3, <1>5, <1>6 DEF ChatInv, HubInv, NoQuoteSkipped
<1> QED
  BY <1>3, <1>4, <1>7, StoreFrame, OrderFrame DEF ChatInv

\* The other steps of a poll.
LEMMA PollStep ==
  ASSUME ChatInv, NEW p \in Polls,
         PollStart(p) \/ PollStatus(p) \/ PollQuotes(p) \/ PollFails(p) \/ PollEnd(p)
  PROVE  ChatInv'
<1>1. UNCHANGED <<goals, seen, told, store, pc, order>>
  BY DEF PollStart, PollStatus, PollQuotes, PollFails, PollEnd, hubVars, turnVars
<1>2. reading \in [Polls -> Positions] /\ reading[p] \in Positions
  BY DEF ChatInv, ReadInv
<1>3. ReadInv'
  <2>1. Off \in Positions
    BY DEF Off, Positions, Statuses
  <2>2. CASE PollStart(p)
    <3>1. [Off EXCEPT !.at = "status"] \in Positions
      BY <2>1 DEF Positions
    <3> QED
      BY <1>2, <2>2, <3>1 DEF PollStart, ReadInv
  <2>3. CASE PollStatus(p)
    <3> DEFINE s == store[Looked(p)].status
    <3>1. reading' = [reading EXCEPT ![p].at = "quotes", ![p].status = s]
      BY <2>3 DEF PollStatus
    <3>2. s \in Statuses
      BY <2>3, LookedIsAGoal DEF PollStatus, Looks, ChatInv, StoreInv, Rows
    <3> HIDE DEF s
    <3> QED
      BY <1>2, <3>1, <3>2 DEF ReadInv, Positions
  <2>4. CASE PollQuotes(p)
    <3> DEFINE n == store[Looked(p)].quotes
    <3>1. reading' = [reading EXCEPT ![p].at = "note", ![p].quotes = n]
      BY <2>4 DEF PollQuotes
    <3>2. n \in Nat
      BY <2>4, LookedIsAGoal DEF PollQuotes, Looks, ChatInv, StoreInv, Rows
    <3> HIDE DEF n
    <3> QED
      BY <1>2, <3>1, <3>2 DEF ReadInv, Positions
  <2>5. CASE PollFails(p)
    <3>1. reading' = [reading EXCEPT ![p] =
            [Off EXCEPT !.at = "status", !.next = reading[p].next + 1]]
      BY <2>5 DEF PollFails, NextGoal
    <3>2. reading[p].next + 1 \in Nat \ {0}
      BY <1>2 DEF Positions
    <3> QED
      BY <3>1, <3>2, PollMoves DEF ChatInv
  <2>6. CASE PollEnd(p)
    BY <1>2, <2>1, <2>6 DEF PollEnd, ReadInv
  <2> QED
    BY <2>2, <2>3, <2>4, <2>5, <2>6
<1> QED
  BY <1>1, <1>3, HubFrame, StoreFrame, OrderFrame DEF ChatInv

----------------------------------------------------------------------------
(* The whole session *)

\* A quote arrives, or a goal moves on.
LEMMA StoreStep ==
  ASSUME ChatInv, NEW g \in Goals, Reply(g) \/ Advance(g)
  PROVE  ChatInv'
<1>1. UNCHANGED <<goals, seen, told, reading, pc, order>>
  BY DEF Reply, Advance, hubVars, pollVars, turnVars
<1>2. PICK F : store \in [Goals -> Rows(F)]
  BY DEF ChatInv, StoreInv
<1>3. CASE Reply(g)
  <2>1. store' = [store EXCEPT ![g].quotes = @ + 1]
    BY <1>3 DEF Reply
  <2>2. store' \in [Goals -> Rows(F)]
    BY <1>2, <2>1 DEF Rows
  <2> QED
    BY <1>1, <2>2, HubFrame, ReadFrame, OrderFrame DEF ChatInv, StoreInv
<1>4. CASE Advance(g)
  <2>1. PICK s \in GoalState : store' = [store EXCEPT ![g].status = s]
    BY <1>4 DEF Advance
  <2>2. s \in Statuses
    BY DEF Statuses
  <2>3. store' \in [Goals -> Rows(F)]
    BY <1>2, <2>1, <2>2 DEF Rows
  <2> QED
    BY <1>1, <2>3, HubFrame, ReadFrame, OrderFrame DEF ChatInv, StoreInv
<1> QED
  BY <1>3, <1>4

\* Every step keeps the invariant.
LEMMA ChatStep ==
  ASSUME ChatInv, [Next]_vars
  PROVE  ChatInv'
<1>1. CASE UNCHANGED vars
  <2>1. UNCHANGED <<goals, seen, told, store, reading, pc, order>>
    BY <1>1 DEF vars, turnVars, hubVars, pollVars
  <2> QED
    BY <2>1, HubFrame, StoreFrame, ReadFrame, OrderFrame DEF ChatInv
<1>2. ASSUME NEW t \in Turns, Turn(t)
      PROVE  ChatInv'
  BY <1>2, TalkStep, ConfirmStep DEF Turn, Tool
<1>3. ASSUME NEW p \in Polls, Poll(p)
      PROVE  ChatInv'
  BY <1>3, NoteStep, PollStep DEF Poll
<1>4. ASSUME NEW g \in Goals, Reply(g) \/ Advance(g)
      PROVE  ChatInv'
  BY <1>4, StoreStep
<1> QED
  BY <1>1, <1>2, <1>3, <1>4 DEF Next

\* Nothing is registered at first.
LEMMA ChatStart == Init => ChatInv
<1> SUFFICES ASSUME Init PROVE ChatInv
  OBVIOUS
<1>1. HubInv
  BY DEF Init, HubInv, NoQuoteSkipped
<1>2. StoreInv
  <2>1. Blank \in Rows({Unsearched})
    BY DEF Blank, Rows, Statuses
  <2> QED
    BY <2>1 DEF Init, StoreInv
<1>3. ReadInv
  BY DEF Init, ReadInv, Off, Positions, Statuses
<1>4. OrderInv
  BY DEF Init, OrderInv
<1> QED
  BY <1>1, <1>2, <1>3, <1>4 DEF ChatInv

\* The high-water mark passes no quote that was not reported, whatever turns
\* and polls of the session overlap, whenever goals are registered and
\* quotes come in, and whatever read fails.
THEOREM NoQuoteSkippedThm == Spec => []NoQuoteSkipped
<1>1. ChatInv /\ [Next]_vars => ChatInv'
  BY ChatStep
<1>2. ChatInv => NoQuoteSkipped
  BY DEF ChatInv, HubInv
<1> QED
  BY <1>1, <1>2, ChatStart, PTL DEF Spec

----------------------------------------------------------------------------
(* Whom an RFQ goes to *)

\* There is nobody but high-risk vendors.
AllHigh(vs) == \A i \in DOMAIN vs : vs[i].risk.level = "high"

\* What a search leaves: the vendors to write to are for its requirement, and
\* the first is high-risk only if all are; the recipient was asked for, or is
\* not high-risk, or there is no such vendor.
DraftOk(s) ==
  s.recipient # NoName =>
    /\ IsList(s.dispatch) /\ 1 \in DOMAIN s.dispatch
    /\ \A i \in DOMAIN s.dispatch : s.dispatch[i].intent = s.intent
    /\ s.dispatch[1].risk.level = "high" => AllHigh(s.dispatch)
    /\ \/ <<s.advice, s.recipient>> \in Within
       \/ \E i \in DOMAIN s.dispatch :
            s.dispatch[i].name = s.recipient /\ s.dispatch[i].risk.level # "high"
       \/ AllHigh(s.dispatch)

\* A vendor an RFQ of the confirmation "from" may go to.
Fits(from, v) ==
  /\ v.intent = from.intent
  /\ v.risk.level = "high" =>
       \/ from.pick = "all"
       \/ \E text \in {from.pick, from.search.advice} : <<text, v.name>> \in Within
       \/ \A w \in ToSet(from.search.dispatch) : w.risk.level = "high"
       \/ /\ <<from.search.recipient, v.name>> \in Within
          /\ \E w \in ToSet(from.search.dispatch) :
               w.name = from.search.recipient /\ w.risk.level # "high"

\* Vetting orders vendors by risk.
LEMMA VettedIsSorted ==
  ASSUME NEW cs, IsList(cs), NEW a \in Assessments
  PROVE  LET vs == Vetted(cs, a)
         IN  /\ IsList(vs)
             /\ \A k, l \in DOMAIN vs : k < l => ~LessRisky(vs[l], vs[k])
<1>1. IsList(Assessed(cs, a)) /\ DOMAIN Assessed(cs, a) = DOMAIN cs
  BY DEF Assessed, IsList
<1>2. ASSUME NEW i \in DOMAIN cs PROVE Assessed(cs, a)[i].risk.score \in Int
  <2>1. Assessed(cs, a)[i].risk = IF i \in DOMAIN a THEN a[i] ELSE DefaultRisk
    BY DEF Assessed
  <2> QED
    BY <2>1, SearchAssumption DEF DefaultRisk, None
<1>3. /\ IsList(SortedBy(Assessed(cs, a), LessRisky))
      /\ \A k, l \in DOMAIN SortedBy(Assessed(cs, a), LessRisky) :
           k < l => ~LessRisky(SortedBy(Assessed(cs, a), LessRisky)[l],
                               SortedBy(Assessed(cs, a), LessRisky)[k])
  BY <1>1, <1>2, SortedByRisk
<1> QED
  BY <1>3 DEF Vetted

\* So that there is something to vet.
LEMMA DiscoveredIsAList ==
  ASSUME NEW cs, IsList(cs)
  PROVE  IsList(Discovered(cs, TopN))
<1> DEFINE ranked == SortedBy(Deduped(cs), MoreTrusted)
           m == IF Len(ranked) < TopN THEN Len(ranked) ELSE TopN
<1>1. IsList(Deduped(cs))
  BY SelectedProperties DEF Deduped, IsSelection
<1>2. PICK n \in Nat : DOMAIN Deduped(cs) = 1..n
  BY <1>1 DEF IsList
<1>3. DOMAIN ranked = 1..n /\ Len(ranked) = n
  BY <1>2 DEF SortedBy
<1>4. m \in Nat
  BY <1>3, SearchAssumption
<1> HIDE DEF ranked, m
<1>5. SubSeq(ranked, 1, m) \in Seq({ranked[i] : i \in 1..m})
  BY <1>4, SubSeqProperties
<1> QED
  BY <1>5, LenProperties DEF Discovered, ranked, m, IsList

\* The first of a list by risk is high-risk only if all are.
LEMMA FirstIsLeastRisky ==
  ASSUME NEW vs, IsList(vs), \A k, l \in DOMAIN vs : k < l => ~LessRisky(vs[l], vs[k]),
         1 \in DOMAIN vs, vs[1].risk.level = "high"
  PROVE  AllHigh(vs)
<1> SUFFICES ASSUME NEW l \in DOMAIN vs, vs[l].risk.level # "high" PROVE FALSE
  BY DEF AllHigh
<1>1. RankOf(vs[1].risk) = 3
  BY DEF RankOf, RiskRank
<1>2. RankOf(vs[l].risk) \in 0..2
  BY DEF RankOf, RiskRank
<1>3. l # 1 /\ l \in Nat \ {0}
  BY DEF IsList
<1>4. ~LessRisky(vs[l], vs[1])
  BY <1>3
<1> QED
  BY <1>1, <1>2, <1>4 DEF LessRisky

\* A list of vendors ordered by risk has an adequate recipient.
LEMMA RecipientIsAdequate ==
  ASSUME NEW vs, IsList(vs), 1 \in DOMAIN vs, NEW advice
  PROVE  LET c == Recipient(vs, advice)
         IN  \/ <<advice, c.name>> \in Within
             \/ \E i \in DOMAIN vs : vs[i].name = c.name /\ vs[i].risk.level # "high"
             \/ AllHigh(vs)
<1> DEFINE I == {i \in DOMAIN vs : <<advice, vs[i].name>> \in Within}
           J == {i \in DOMAIN vs : vs[i].risk.level # "high"}
<1>a. IsSelection(Named(vs, advice), vs, I)
  BY SelectedProperties DEF Named
<1>b. IsSelection(NonHigh(vs), vs, J)
  BY SelectedProperties DEF NonHigh
<1>1. CASE Named(vs, advice) # <<>>
  <2>1. Recipient(vs, advice) = Named(vs, advice)[1]
    BY <1>1 DEF Recipient
  <2>2. \E i \in I : Named(vs, advice)[1] = vs[i]
    BY <1>a, <1>1 DEF IsSelection
  <2> QED
    BY <2>1, <2>2
<1>2. CASE Named(vs, advice) = <<>> /\ NonHigh(vs) # <<>>
  <2>1. Recipient(vs, advice) = NonHigh(vs)[1]
    BY <1>2 DEF Recipient
  <2>2. \E i \in J : NonHigh(vs)[1] = vs[i]
    BY <1>b, <1>2 DEF IsSelection
  <2> QED
    BY <2>1, <2>2
<1>3. CASE NonHigh(vs) = <<>>
  <2>1. J = {}
    BY <1>b, <1>3 DEF IsSelection
  <2> QED
    BY <2>1 DEF AllHigh
<1> QED
  BY <1>1, <1>2, <1>3

\* What find_vendors leaves is in order.
LEMMA FoundIsOk ==
  ASSUME NEW r, NEW vs, IsList(vs),
         \A k, l \in DOMAIN vs : k < l => ~LessRisky(vs[l], vs[k]), NEW advice
  PROVE  DraftOk(Found(r, vs, advice))
<1> DEFINE R == Reachable(vs)
           f == Found(r, vs, advice)
           I == {i \in DOMAIN vs : vs[i].phone}
<1>a. IsSelection(R, vs, I)
  BY SelectedProperties DEF Reachable
<1>1. CASE ~r.specific \/ R = <<>>
  <2>1. f.recipient = NoName
    BY <1>1 DEF Found, Unsearched
  <2> QED
    BY <2>1 DEF DraftOk
<1>2. CASE r.specific /\ R # <<>>
  <2>1. f = [intent |-> r, advice |-> advice, recipient |-> Recipient(R, advice).name,
             dispatch |-> Addressed(R, r)]
    BY <1>2 DEF Found
  <2>2. IsList(R) /\ 1 \in DOMAIN R
    BY <1>a, <1>2 DEF IsSelection
  <2>3. \A k, l \in DOMAIN R : k < l => ~LessRisky(R[l], R[k])
    <3>1. \A k, l \in DOMAIN R :
            k < l => \E i, j \in I : i < j /\ R[k] = vs[i] /\ R[l] = vs[j]
      BY <1>a DEF IsSelection
    <3> HIDE DEF R
    <3> QED
      BY <3>1
  <2> DEFINE D == Addressed(R, r)
  <2> HIDE DEF R, f
  <2>4. /\ DOMAIN D = DOMAIN R
        /\ \A i \in DOMAIN D : D[i].name = R[i].name /\ D[i].risk = R[i].risk
                               /\ D[i].intent = r
    BY DEF Addressed
  <2> HIDE DEF D
  <2>5. IsList(D) /\ 1 \in DOMAIN D
    BY <2>2, <2>4 DEF IsList
  <2>6. D[1].risk.level = "high" => AllHigh(D)
    BY <2>2, <2>3, <2>4, FirstIsLeastRisky DEF AllHigh
  <2>7. LET c == Recipient(R, advice)
        IN  \/ <<advice, c.name>> \in Within
            \/ \E i \in DOMAIN D : D[i].name = c.name /\ D[i].risk.level # "high"
            \/ AllHigh(D)
    BY <2>2, <2>4, RecipientIsAdequate DEF AllHigh
  <2>8. f.intent = r /\ f.advice = advice /\ f.recipient = Recipient(R, advice).name
        /\ f.dispatch = D
    BY <2>1 DEF D
  <2>9. DraftOk(f)
    BY <2>4, <2>5, <2>6, <2>7, <2>8 DEF DraftOk
  <2> QED
    BY <2>9 DEF f
<1> QED
  BY <1>1, <1>2

\* Whoever an RFQ goes to may get one.
LEMMA TargetsFit ==
  ASSUME NEW s, DraftOk(s), s.recipient # NoName, NEW pick, NEW from,
         from.intent = s.intent, from.pick = pick, from.search = s
  PROVE  LET ts == PickTargets(s.dispatch, s.recipient, pick)
         IN  /\ IsList(ts) /\ 1 \in DOMAIN ts
             /\ \A i \in DOMAIN ts : Fits(from, ts[i])
<1> DEFINE vs == s.dispatch
           ts == PickTargets(vs, s.recipient, pick)
<1>1. /\ IsList(vs) /\ 1 \in DOMAIN vs /\ vs # <<>>
      /\ \A i \in DOMAIN vs : vs[i].intent = from.intent
      /\ vs[1].risk.level = "high" => AllHigh(vs)
      /\ \/ <<s.advice, s.recipient>> \in Within
         \/ \E i \in DOMAIN vs : vs[i].name = s.recipient /\ vs[i].risk.level # "high"
         \/ AllHigh(vs)
  BY DEF DraftOk
<1>2. \A w : w \in ToSet(vs) <=> \E i \in DOMAIN vs : w = vs[i]
  BY DEF ToSet
<1> HIDE DEF vs, ts
<1>3. CASE pick = "all"
  <2>1. ts = vs
    BY <1>3 DEF ts, PickTargets
  <2> QED
    BY <1>1, <1>3, <2>1 DEF Fits, ts, vs
<1>4. CASE pick # "all" /\ Named(vs, pick) # <<>>
  <2>1. ts = Named(vs, pick)
    BY <1>4 DEF ts, PickTargets
  <2>2. IsList(ts) /\ 1 \in DOMAIN ts
        /\ \A k \in DOMAIN ts : \E i \in DOMAIN vs : <<pick, vs[i].name>> \in Within /\ ts[k] = vs[i]
    <3> DEFINE I == {i \in DOMAIN vs : <<pick, vs[i].name>> \in Within}
    <3>1. IsSelection(ts, vs, I)
      BY <1>1, <2>1, SelectedProperties DEF Named
    <3>2. ts # <<>>
      BY <1>4, <2>1
    <3> QED
      BY <3>1, <3>2 DEF IsSelection
  <2>3. ASSUME NEW k \in DOMAIN ts PROVE Fits(from, ts[k])
    <3>1. PICK i \in DOMAIN vs : <<pick, vs[i].name>> \in Within /\ ts[k] = vs[i]
      BY <2>2
    <3>2. <<from.pick, ts[k].name>> \in Within /\ ts[k].intent = from.intent
      BY <1>1, <3>1
    <3> QED
      BY <3>2 DEF Fits
  <2> QED
    BY <2>2, <2>3 DEF ts, vs
<1>5. CASE pick # "all" /\ Named(vs, pick) = <<>> /\ Named(vs, s.recipient) # <<>>
  <2>1. ts = Named(vs, s.recipient)
    BY <1>5 DEF ts, PickTargets
  <2>2. IsList(ts) /\ 1 \in DOMAIN ts
        /\ \A k \in DOMAIN ts : \E i \in DOMAIN vs :
             <<s.recipient, vs[i].name>> \in Within /\ ts[k] = vs[i]
    <3> DEFINE I == {i \in DOMAIN vs : <<s.recipient, vs[i].name>> \in Within}
    <3>1. IsSelection(ts, vs, I)
      BY <1>1, <2>1, SelectedProperties DEF Named
    <3>2. ts # <<>>
      BY <1>5, <2>1
    <3> QED
      BY <3>1, <3>2 DEF IsSelection
  <2>3. ASSUME NEW k \in DOMAIN ts PROVE Fits(from, ts[k])
    <3>1. PICK i \in DOMAIN vs : <<s.recipient, vs[i].name>> \in Within /\ ts[k] = vs[i]
      BY <2>2
    <3>2. CASE <<s.advice, s.recipient>> \in Within
      <4>1. <<s.advice, vs[i].name>> \in Within
        BY <3>1, <3>2, WithinAssumption
      <4> QED
        BY <1>1, <3>1, <4>1 DEF Fits
    <3>3. CASE \E j \in DOMAIN vs : vs[j].name = s.recipient /\ vs[j].risk.level # "high"
      BY <1>1, <1>2, <3>1, <3>3 DEF Fits, vs
    <3>4. CASE AllHigh(vs)
      BY <1>1, <1>2, <3>1, <3>4 DEF Fits, vs, AllHigh
    <3> QED
      BY <1>1, <3>2, <3>3, <3>4
  <2> QED
    BY <2>2, <2>3 DEF ts, vs
<1>6. CASE pick # "all" /\ Named(vs, pick) = <<>> /\ Named(vs, s.recipient) = <<>>
  <2>1. ts = <<vs[1]>>
    BY <1>1, <1>6 DEF ts, PickTargets
  <2>2. IsList(ts) /\ DOMAIN ts = {1} /\ ts[1] = vs[1]
    BY <2>1 DEF IsList
  <2>3. Fits(from, vs[1])
    BY <1>1, <1>2 DEF Fits, vs, AllHigh
  <2> QED
    BY <2>2, <2>3 DEF ts, vs
<1> QED
  BY <1>3, <1>4, <1>5, <1>6

\* Every one of the targets may get an RFQ of the confirmation "from".
MayGet(from, ts) == \A v \in ToSet(ts) : Fits(from, v)

\* The draft is in order; so are the targets of a confirmation, first with its
\* own locals and then with the goal that was saved; and so is who got an RFQ.
RfqInv ==
  /\ DraftOk(last)
  /\ \A t \in Turns :
       /\ pc[t] = "save" => MayGet(order[t], order[t].targets)
       /\ pc[t] = "send" =>
            /\ store[order[t].goal].status # "none"
            /\ MayGet(store[order[t].goal].from, order[t].targets)
  /\ \A s \in sent : /\ s[1] \in Goals /\ store[s[1]].status # "none"
                     /\ Fits(store[s[1]].from, s[2])

\* A goal that is there stays, with the confirmation it is from.
Kept ==
  \A g \in Goals : store[g].status # "none" =>
    store'[g].status # "none" /\ store'[g].from = store[g].from

\* A turn that is not in a confirmation after the step, and the others.
Apart(t) ==
  /\ pc'[t] \notin {"save", "send"}
  /\ \A u \in Turns \ {t} : pc'[u] = pc[u] /\ order'[u] = order[u]

\* What was sent stays in order, ...
LEMMA SentStay ==
  ASSUME RfqInv, Kept, sent' = sent
  PROVE  \A s \in sent' : /\ s[1] \in Goals /\ store'[s[1]].status # "none"
                          /\ Fits(store'[s[1]].from, s[2])
  BY DEF RfqInv, Kept, Fits

\* ... and so do the targets of a turn that does not move.
LEMMA OthersStay ==
  ASSUME ChatInv, RfqInv, Kept, NEW u \in Turns, pc'[u] = pc[u], order'[u] = order[u]
  PROVE  /\ pc'[u] = "save" => MayGet(order'[u], order'[u].targets)
         /\ pc'[u] = "send" =>
              /\ store'[order'[u].goal].status # "none"
              /\ MayGet(store'[order'[u].goal].from, order'[u].targets)
<1>1. CASE pc[u] = "save"
  BY <1>1 DEF RfqInv
<1>2. CASE pc[u] = "send"
  <2>1. order[u].goal \in Goals
    BY <1>2 DEF ChatInv, OrderInv
  <2>2. /\ store[order[u].goal].status # "none"
        /\ MayGet(store[order[u].goal].from, order[u].targets)
    BY <1>2 DEF RfqInv
  <2>3. /\ store'[order[u].goal].status # "none"
        /\ store'[order[u].goal].from = store[order[u].goal].from
    BY <2>1, <2>2 DEF Kept
  <2> QED
    BY <1>2, <2>2, <2>3
<1> QED
  BY <1>1, <1>2

\* A step of one turn outside of a confirmation.
LEMMA ApartStep ==
  ASSUME ChatInv, RfqInv, Kept, sent' = sent, DraftOk(last)', NEW t \in Turns, Apart(t)
  PROVE  RfqInv'
<1>1. ASSUME NEW u \in Turns
      PROVE  /\ pc'[u] = "save" => MayGet(order'[u], order'[u].targets)
             /\ pc'[u] = "send" =>
                  /\ store'[order'[u].goal].status # "none"
                  /\ MayGet(store'[order'[u].goal].from, order'[u].targets)
  <2>1. CASE u = t
    BY <2>1 DEF Apart
  <2>2. CASE u # t
    BY <2>2, OthersStay DEF Apart
  <2> QED
    BY <2>1, <2>2
<1> QED
  BY <1>1, SentStay DEF RfqInv

\* Where the turn goes, and what becomes of its order.
LEMMA MovesApart ==
  ASSUME OrderInv, NEW t \in Turns,
         NEW l \in {"idle", "ask", "refused", "tool", "register"},
         pc' = [pc EXCEPT ![t] = l],
         order' = order \/ order' = [order EXCEPT ![t] = Unsearched]
  PROVE  Apart(t)
<1>1. pc'[t] = l /\ \A u \in Turns \ {t} : pc'[u] = pc[u]
  BY DEF OrderInv
<1>2. \A u \in Turns \ {t} : order'[u] = order[u]
  BY DEF OrderInv
<1> QED
  BY <1>1, <1>2 DEF Apart

\* The result of a tool is outside of a confirmation.
LEMMA ResultApart ==
  ASSUME OrderInv, NEW t \in Turns, Result(t)
  PROVE  Apart(t)
<1>1. order' = [order EXCEPT ![t] = Unsearched]
  BY DEF Result
<1>2. \E l \in {"idle", "ask", "refused", "tool"} : pc' = [pc EXCEPT ![t] = l]
  BY DEF Result, Goto, End, Ask
<1> QED
  BY <1>1, <1>2, MovesApart

\* A step that leaves the table alone keeps every goal.
LEMMA NothingKept == ASSUME store' = store PROVE Kept
  BY DEF Kept

\* A search: the draft is as find_vendors leaves it.
LEMMA SearchIsOk ==
  ASSUME NEW t, FindVendors(t)
  PROVE  DraftOk(last)'
<1>1. PICK r \in Requirements, a \in Assessments, advice \in Recommendations :
        \E cs \in Listings[r.topic] :
          last' = Found(r, Vetted(Discovered(cs, TopN), a), advice)
  BY DEF FindVendors
<1>2. PICK cs \in Listings[r.topic] :
        last' = Found(r, Vetted(Discovered(cs, TopN), a), advice)
  BY <1>1
<1>3. IsList(cs)
  BY SearchAssumption DEF IsList
<1>4. IsList(Discovered(cs, TopN))
  BY <1>3, DiscoveredIsAList
<1> DEFINE vs == Vetted(Discovered(cs, TopN), a)
<1>5. /\ IsList(vs)
      /\ \A k, l \in DOMAIN vs : k < l => ~LessRisky(vs[l], vs[k])
  BY <1>4, VettedIsSorted
<1> HIDE DEF vs
<1>6. DraftOk(Found(r, vs, advice))
  BY <1>5, FoundIsOk
<1>7. last' = Found(r, vs, advice)
  BY <1>2 DEF vs
<1>8. DraftOk(last')
  BY <1>6, <1>7
<1> QED
  BY <1>8 DEF DraftOk

\* A turn outside of a confirmation.
LEMMA TalkKeepsRfqs ==
  ASSUME ChatInv, RfqInv, NEW t \in Turns,
         \/ Message(t) \/ Answer(t) \/ CallTools(t) \/ NoAnswer(t)
         \/ UnknownTool(t) \/ FindVendors(t) \/ SearchRaises(t) \/ NothingFound(t)
  PROVE  RfqInv'
<1>1. store' = store /\ sent' = sent
  BY DEF Message, Answer, CallTools, NoAnswer, UnknownTool, FindVendors,
         SearchRaises, NothingFound
<1>2. DraftOk(last)'
  <2>1. CASE FindVendors(t)
    BY <2>1, SearchIsOk
  <2>2. CASE ~FindVendors(t)
    <3>1. last' = last
      BY <2>2 DEF Message, Answer, CallTools, NoAnswer, UnknownTool,
           SearchRaises, NothingFound, talkVars
    <3> QED
      BY <3>1 DEF RfqInv, DraftOk
  <2> QED
    BY <2>1, <2>2
<1>3. Apart(t)
  <2>1. CASE Message(t) \/ Answer(t) \/ CallTools(t) \/ NoAnswer(t) \/ SearchRaises(t)
    <3>1. order' = order
      BY <2>1 DEF Message, Answer, CallTools, NoAnswer, SearchRaises
    <3>2. \E l \in {"idle", "ask", "refused", "tool"} : pc' = [pc EXCEPT ![t] = l]
      BY <2>1 DEF Message, Answer, CallTools, NoAnswer, SearchRaises, Goto, End, Ask
    <3> QED
      BY <3>1, <3>2, MovesApart DEF ChatInv
  <2>2. CASE UnknownTool(t) \/ FindVendors(t) \/ NothingFound(t)
    <3>1. Result(t)
      BY <2>2 DEF UnknownTool, FindVendors, NothingFound
    <3> QED
      BY <3>1, ResultApart DEF ChatInv
  <2> QED
    BY <2>1, <2>2
<1> QED
  BY <1>1, <1>2, <1>3, NothingKept, ApartStep

\* Where only turn t moves, the rest stays as it is.
LEMMA OneTurnStep ==
  ASSUME ChatInv, RfqInv, Kept, sent' = sent, last' = last, NEW t \in Turns,
         \A u \in Turns \ {t} : pc'[u] = pc[u] /\ order'[u] = order[u],
         pc'[t] = "save" => MayGet(order'[t], order'[t].targets),
         pc'[t] = "send" =>
           /\ store'[order'[t].goal].status # "none"
           /\ MayGet(store'[order'[t].goal].from, order'[t].targets)
  PROVE  RfqInv'
<1>1. ASSUME NEW u \in Turns
      PROVE  /\ pc'[u] = "save" => MayGet(order'[u], order'[u].targets)
             /\ pc'[u] = "send" =>
                  /\ store'[order'[u].goal].status # "none"
                  /\ MayGet(store'[order'[u].goal].from, order'[u].targets)
  <2>1. CASE u # t
    BY <2>1, OthersStay
  <2> QED
    BY <2>1
<1>2. DraftOk(last)'
  BY DEF RfqInv, DraftOk
<1> QED
  BY <1>1, <1>2, SentStay DEF RfqInv

\* The first of the targets, or all of them.
LEMMA TargetsMayGet ==
  ASSUME NEW from, NEW ts, IsList(ts), 1 \in DOMAIN ts,
         \A i \in DOMAIN ts : Fits(from, ts[i])
  PROVE  MayGet(from, ts) /\ MayGet(from, SubSeq(ts, 1, 1))
<1>1. MayGet(from, ts)
  BY DEF MayGet, ToSet
<1>2. /\ SubSeq(ts, 1, 1) \in Seq({ts[1]}) /\ Len(SubSeq(ts, 1, 1)) = 1
      /\ SubSeq(ts, 1, 1)[1] = ts[1]
  BY SubSeqProperties
<1>3. DOMAIN SubSeq(ts, 1, 1) = {1}
  BY <1>2, LenProperties
<1> QED
  BY <1>1, <1>2, <1>3 DEF MayGet, ToSet

\* A confirmation picks its targets from the last search.
LEMMA ConfirmKeepsRfqs ==
  ASSUME ChatInv, RfqInv, NEW t \in Turns, Confirm(t)
  PROVE  RfqInv'
<1>1. /\ store' = store /\ sent' = sent /\ last' = last /\ last.recipient # NoName
      /\ pc' = [pc EXCEPT ![t] = "save"]
  BY DEF Confirm, talkVars, Goto
<1>2. PICK pick \in Picks :
        order' = [order EXCEPT ![t] =
          [goal |-> 0, intent |-> last.intent, pick |-> pick, search |-> last,
           targets |-> IF TestRecipient
                       THEN SubSeq(PickTargets(last.dispatch, last.recipient, pick), 1, 1)
                       ELSE PickTargets(last.dispatch, last.recipient, pick)]]
  BY DEF Confirm
<1> DEFINE ts == PickTargets(last.dispatch, last.recipient, pick)
           taken == IF TestRecipient THEN SubSeq(ts, 1, 1) ELSE ts
           o == [goal |-> 0, intent |-> last.intent, pick |-> pick,
                 search |-> last, targets |-> taken]
<1>3. /\ pc'[t] = "save" /\ order'[t] = o
      /\ \A u \in Turns \ {t} : pc'[u] = pc[u] /\ order'[u] = order[u]
  BY <1>1, <1>2 DEF ChatInv, OrderInv
<1>4. o.intent = last.intent /\ o.pick = pick /\ o.search = last /\ o.targets = taken
  OBVIOUS
<1> HIDE DEF o
<1>5. IsList(ts) /\ 1 \in DOMAIN ts /\ \A i \in DOMAIN ts : Fits(o, ts[i])
  BY <1>1, <1>4, TargetsFit DEF RfqInv
<1> HIDE DEF ts
<1>6. MayGet(o, taken)
  BY <1>5, TargetsMayGet
<1> HIDE DEF taken
<1>7. MayGet(order'[t], order'[t].targets)
  BY <1>3, <1>4, <1>6
<1> QED
  BY <1>1, <1>3, <1>7, NothingKept, OneTurnStep

\* A goal is saved in a row that was free.
LEMMA CreatedKept ==
  ASSUME StoreInv, NEW t, NEW g \in Free, NEW s \in Statuses \ {"none"},
         store' = [store EXCEPT ![g] = Created(t, s)]
  PROVE  /\ Kept
         /\ store'[g].status = s /\ store'[g].from = order[t]
<1>1. g \in Goals /\ store[g].status = "none"
  BY DEF Free
<1>2. PICK F : store \in [Goals -> Rows(F)]
  BY DEF StoreInv
<1>3. store'[g] = Created(t, s) /\ \A h \in Goals \ {g} : store'[h] = store[h]
  BY <1>1, <1>2
<1> QED
  BY <1>1, <1>3 DEF Kept, Created

\* The goal that is saved is that of the confirmation.
LEMMA SaveKeepsRfqs ==
  ASSUME ChatInv, RfqInv, NEW t \in Turns, SaveGoal(t)
  PROVE  RfqInv'
<1>1. PICK g \in Free : /\ store' = [store EXCEPT ![g] = Created(t, "pending_rfq")]
                        /\ order' = [order EXCEPT ![t].goal = g]
  BY DEF SaveGoal
<1>2. /\ sent' = sent /\ last' = last /\ pc[t] = "save"
      /\ pc' = [pc EXCEPT ![t] = "send"]
  BY DEF SaveGoal, talkVars, Goto
<1>0. "pending_rfq" \in Statuses \ {"none"}
  BY DEF Statuses, GoalState
<1>3. Kept /\ store'[g].status = "pending_rfq" /\ store'[g].from = order[t]
  BY <1>0, <1>1, CreatedKept DEF ChatInv, Statuses, GoalState
<1>4. order'[t].goal = g /\ order'[t].targets = order[t].targets
  <2>1. PICK I, K, S, V : order[t] \in Order(I, K, S, V)
    BY <1>2 DEF ChatInv, OrderInv
  <2>2. order'[t] = [order[t] EXCEPT !.goal = g]
    BY <1>1 DEF ChatInv, OrderInv
  <2> QED
    BY <2>1, <2>2 DEF Order
<1>5. pc'[t] = "send" /\ \A u \in Turns \ {t} : pc'[u] = pc[u] /\ order'[u] = order[u]
  BY <1>1, <1>2 DEF ChatInv, OrderInv
<1>6. MayGet(order[t], order[t].targets)
  BY <1>2 DEF RfqInv
<1>7. MayGet(store'[order'[t].goal].from, order'[t].targets)
  BY <1>3, <1>4, <1>6
<1> QED
  BY <1>2, <1>3, <1>4, <1>5, <1>7, OneTurnStep

\* A goal that is left behind by a failure gets no RFQ.
LEMMA SaveFailsKeepsRfqs ==
  ASSUME ChatInv, RfqInv, NEW t \in Turns, SaveFails(t)
  PROVE  RfqInv'
<1>1. Result(t) /\ sent' = sent /\ last' = last
  BY DEF SaveFails
<1>2. Kept
  <2>1. CASE store' = store
    BY <2>1, NothingKept
  <2>2. CASE store' # store
    <3>1. \E g \in Free : store' = [store EXCEPT ![g] = Created(t, "processing")]
      BY <2>2 DEF SaveFails
    <3> QED
      BY <3>1, CreatedKept DEF ChatInv, Statuses, GoalState
  <2> QED
    BY <2>1, <2>2
<1>3. DraftOk(last)'
  BY <1>1 DEF RfqInv, DraftOk
<1> QED
  BY <1>1, <1>2, <1>3, ResultApart, ApartStep DEF ChatInv

\* Whoever gets the RFQ is one of the targets.
LEMMA SendKeepsRfqs ==
  ASSUME ChatInv, RfqInv, NEW t \in Turns, Send(t)
  PROVE  RfqInv'
<1> DEFINE g == order[t].goal
<1>1. /\ store' = store /\ last' = last /\ order' = order /\ pc[t] = "send"
      /\ pc' = [pc EXCEPT ![t] = "register"]
  BY DEF Send, talkVars, Goto
<1>2. PICK delivered \in SUBSET ToSet(order[t].targets) :
        sent' = sent \cup {<<g, v>> : v \in delivered}
  BY DEF Send
<1>3. g \in Goals /\ store[g].status # "none" /\ MayGet(store[g].from, order[t].targets)
  BY <1>1 DEF RfqInv, ChatInv, OrderInv
<1>4. ASSUME NEW s \in sent'
      PROVE  s[1] \in Goals /\ store'[s[1]].status # "none" /\ Fits(store'[s[1]].from, s[2])
  <2>1. CASE s \in sent
    BY <1>1, <2>1 DEF RfqInv
  <2>2. CASE s \notin sent
    <3>1. PICK v \in delivered : s = <<g, v>>
      BY <1>2, <2>2
    <3>2. s[1] = g /\ s[2] = v
      BY <3>1
    <3> QED
      BY <1>1, <1>2, <1>3, <3>2 DEF MayGet
  <2> QED
    BY <2>1, <2>2
<1>5. Apart(t)
  BY <1>1, MovesApart DEF ChatInv
<1>6. ASSUME NEW u \in Turns
      PROVE  /\ pc'[u] = "save" => MayGet(order'[u], order'[u].targets)
             /\ pc'[u] = "send" =>
                  /\ store'[order'[u].goal].status # "none"
                  /\ MayGet(store'[order'[u].goal].from, order'[u].targets)
  <2>1. CASE u = t
    BY <1>5, <2>1 DEF Apart
  <2>2. CASE u # t
    BY <1>1, <1>5, <2>2, NothingKept, OthersStay DEF Apart
  <2> QED
    BY <2>1, <2>2
<1>7. DraftOk(last)'
  BY <1>1 DEF RfqInv, DraftOk
<1> QED
  BY <1>4, <1>6, <1>7 DEF RfqInv

\* A goal is registered.
LEMMA RegisterKeepsRfqs ==
  ASSUME ChatInv, RfqInv, NEW t \in Turns, Register(t)
  PROVE  RfqInv'
<1>1. Result(t) /\ store' = store /\ sent' = sent /\ last' = last
  BY DEF Register
<1>2. DraftOk(last)'
  BY <1>1 DEF RfqInv, DraftOk
<1> QED
  BY <1>1, <1>2, NothingKept, ResultApart, ApartStep DEF ChatInv

\* Polls, quotes and rankings move no turn and keep goals.
LEMMA ElsewhereStep ==
  ASSUME ChatInv, RfqInv, Kept, UNCHANGED <<pc, order, last, sent>>
  PROVE  RfqInv'
<1>1. \A u \in Turns : /\ pc'[u] = "save" => MayGet(order'[u], order'[u].targets)
                       /\ pc'[u] = "send" =>
                            /\ store'[order'[u].goal].status # "none"
                            /\ MayGet(store'[order'[u].goal].from, order'[u].targets)
  BY OthersStay
<1>2. DraftOk(last)'
  BY DEF RfqInv, DraftOk
<1> QED
  BY <1>1, <1>2, SentStay DEF RfqInv

\* Every step keeps the invariant.
LEMMA RfqStep ==
  ASSUME ChatInv, RfqInv, [Next]_vars
  PROVE  RfqInv'
<1>1. CASE UNCHANGED vars
  <2>1. UNCHANGED <<pc, order, last, sent, store>>
    BY <1>1 DEF vars, turnVars, talkVars
  <2> QED
    BY <2>1, NothingKept, ElsewhereStep
<1>2. ASSUME NEW t \in Turns, Turn(t)
      PROVE  RfqInv'
  BY <1>2, TalkKeepsRfqs, ConfirmKeepsRfqs, SaveKeepsRfqs, SaveFailsKeepsRfqs,
     SendKeepsRfqs, RegisterKeepsRfqs DEF Turn, Tool
<1>3. ASSUME NEW p \in Polls, Poll(p)
      PROVE  RfqInv'
  <2>1. UNCHANGED <<pc, order, last, sent, store>>
    BY <1>3 DEF Poll, PollStart, PollStatus, PollQuotes, PollNote, PollFails, PollEnd,
         turnVars, talkVars
  <2> QED
    BY <2>1, NothingKept, ElsewhereStep
<1>4. ASSUME NEW g \in Goals, Reply(g) \/ Advance(g)
      PROVE  RfqInv'
  <2>1. UNCHANGED <<pc, order, last, sent>>
    BY <1>4 DEF Reply, Advance, turnVars, talkVars
  <2>2. PICK F : store \in [Goals -> Rows(F)]
    BY DEF ChatInv, StoreInv
  <2>3. \/ store' = [store EXCEPT ![g].quotes = @ + 1]
        \/ \E s \in GoalState : store' = [store EXCEPT ![g].status = s]
    BY <1>4 DEF Reply, Advance
  <2>4. Kept
    <3>1. "none" \notin GoalState
      BY DEF GoalState
    <3>2. \A h \in Goals \ {g} : store'[h] = store[h]
      BY <2>2, <2>3
    <3>3. CASE store' = [store EXCEPT ![g].quotes = @ + 1]
      BY <2>2, <3>2, <3>3 DEF Kept, Rows
    <3>4. CASE \E s \in GoalState : store' = [store EXCEPT ![g].status = s]
      BY <2>2, <3>1, <3>2, <3>4 DEF Kept, Rows
    <3> QED
      BY <2>3, <3>3, <3>4
  <2> QED
    BY <2>1, <2>4, ElsewhereStep
<1> QED
  BY <1>1, <1>2, <1>3, <1>4 DEF Next

\* Nothing is searched or sent at first.
LEMMA RfqStart == Init => RfqInv
<1> SUFFICES ASSUME Init PROVE RfqInv
  OBVIOUS
<1>1. DraftOk(last)
  BY DEF Init, DraftOk, Unsearched
<1> QED
  BY <1>1 DEF Init, RfqInv

\* Both invariants together.
LEMMA RfqInvHolds == Spec => [](ChatInv /\ RfqInv)
<1>1. ChatInv /\ RfqInv /\ [Next]_vars => (ChatInv /\ RfqInv)'
  BY ChatStep, RfqStep
<1>2. Init => ChatInv /\ RfqInv
  BY ChatStart, RfqStart
<1> QED
  BY <1>1, <1>2, PTL DEF Spec

\* However turns overlap and whatever they search for meanwhile, an RFQ goes to
\* vendors that were found for the requirement of its goal.
THEOREM RfqMatchesSearchThm == Spec => []RfqMatchesSearch
<1>1. RfqInv => RfqMatchesSearch
  BY DEF RfqInv, RfqMatchesSearch, Fits
<1> QED
  BY <1>1, RfqInvHolds, PTL

\* Nobody whose reviews speak against it gets an RFQ that nobody asked for,
\* unless there was no other or its name contains that of the recipient, for
\* any listings, assessments, recommendations and picks.
THEOREM HighRiskOnlyOnRequestThm == Spec => []HighRiskOnlyOnRequest
<1>1. RfqInv => HighRiskOnlyOnRequest
  BY DEF RfqInv, HighRiskOnlyOnRequest, Fits
<1> QED
  BY <1>1, RfqInvHolds, PTL
============================================================================
