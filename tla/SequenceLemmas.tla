--------------------------- MODULE SequenceLemmas ---------------------------
(***************************************************************************)
(* Facts about numbers, sequences and what is kept of them, which the      *)
(* proofs of several modules rest on.                                      *)
(***************************************************************************)
EXTENDS Integers, Selection, FunctionTheorems, FiniteSetTheorems, SequenceTheorems, TLAPS

-----------------------------------------------------------------------------
(* Every non-empty set of natural numbers has a least element, in a form   *)
(* that the provers can use: the induction theorems of the library take an *)
(* operator as a parameter, and this one takes a set.                      *)

\* The numbers below n, whose strict inclusion is the order of the numbers.
Below(n) == {m \in Nat : m < n}

LEMMA BelowIsFinite ==
    ASSUME NEW n \in Nat
    PROVE  Below(n) \in FiniteSubsetsOf(Nat)
<1>1. Below(n) \in SUBSET Nat /\ \A s \in Below(n) : s <= n
  BY DEF Below
<1>2. IsFiniteSet(Below(n))
  BY <1>1, FS_BoundedSetOfNaturals
<1> QED BY <1>1, <1>2 DEF FiniteSubsetsOf

\* Any non-empty set of natural numbers has a least element.
THEOREM LeastElement ==
    ASSUME NEW T \in SUBSET Nat, T # {}
    PROVE  \E n \in T : \A m \in T : n <= m
<1> DEFINE B == {Below(n) : n \in T}
<1>1. B \subseteq FiniteSubsetsOf(Nat) /\ B # {}
  BY BelowIsFinite
<1>2. IsWellFoundedOn(StrictSubsetOrdering(Nat), FiniteSubsetsOf(Nat))
  BY FS_StrictSubsetOrderingWellFounded
<1>3. PICK b \in B : \A y \in B : <<y, b>> \notin StrictSubsetOrdering(Nat)
  <2> HIDE DEF B
  <2> QED BY <1>1, <1>2, WFMin
<1>4. PICK n \in T : b = Below(n)
  BY <1>3
<1>5. ASSUME NEW m \in T, m < n
      PROVE  FALSE
  <2>1. m \in Nat /\ n \in Nat
    OBVIOUS
  <2>2. Below(m) \subseteq Below(n) /\ m \in Below(n) /\ m \notin Below(m)
    BY <1>5, <2>1 DEF Below
  <2>3. Below(m) \in SUBSET Nat /\ Below(n) \in SUBSET Nat
    BY DEF Below
  <2>4. <<Below(m), Below(n)>> \in StrictSubsetOrdering(Nat)
    BY <2>2, <2>3 DEF StrictSubsetOrdering
  <2> QED BY <1>3, <1>4, <2>4
<1>6. \A m \in T : n <= m
  BY <1>5
<1> QED BY <1>6

-----------------------------------------------------------------------------
(* Slices                                                                  *)

\* What appending a slice of t to s gives, element by element.
LEMMA AppendSlice ==
    ASSUME NEW S, NEW s \in Seq(S), NEW t \in Seq(S), NEW m \in Nat, NEW k \in Nat,
           m + k <= Len(t)
    PROVE  /\ s \o SubSeq(t, m + 1, m + k) \in Seq(S)
           /\ Len(s \o SubSeq(t, m + 1, m + k)) = Len(s) + k
           /\ \A i \in 1..Len(s) : (s \o SubSeq(t, m + 1, m + k))[i] = s[i]
           /\ \A i \in 1..k : (s \o SubSeq(t, m + 1, m + k))[Len(s) + i] = t[m + i]
<1> DEFINE v == SubSeq(t, m + 1, m + k)
<1>1. v \in Seq(S) /\ Len(v) = k /\ \A i \in 1..k : v[i] = t[m + i]
  <2>1. \A i \in m + 1..m + k : t[i] \in S
    BY ElementOfSeq
  <2> HIDE DEF v
  <2>2. v = SubSeq(t, m + 1, m + k)
    BY DEF v
  <2> QED BY <2>1, <2>2, SubSeqProperties
<1>2. ASSUME NEW i \in 1..k
      PROVE  (s \o v)[Len(s) + i] = v[i]
  <2> HIDE DEF v
  <2>1. Len(s) \in Nat /\ Len(s) + i \in 1..Len(s) + Len(v) /\ ~(Len(s) + i <= Len(s))
    BY <1>1, LenProperties
  <2>2. Len(s) + i - Len(s) = i
    BY <2>1
  <2> QED BY <1>1, <2>1, <2>2, ConcatProperties
<1> QED BY <1>1, <1>2, ConcatProperties

\* Two sequences of one element each.
LEMMA OneAndOne ==
    ASSUME NEW x, NEW y
    PROVE  <<x>> \o <<y>> = <<x, y>>
<1>1. PICK s, t, S : s = <<x>> /\ t = <<y>> /\ S = {x, y}
  OBVIOUS
<1>2. s \in Seq(S) /\ t \in Seq(S) /\ Len(s) = 1 /\ Len(t) = 1 /\ s[1] = x /\ t[1] = y
  BY <1>1
<1>3. PICK u : u = s \o t
  OBVIOUS
<1>4. u \in Seq(S) /\ Len(u) = 2 /\ u[1] = x /\ u[2] = y
  BY <1>2, <1>3, ConcatProperties
<1>5. PICK v : v = <<x, y>>
  OBVIOUS
<1>6. v \in Seq(S) /\ Len(v) = 2 /\ v[1] = x /\ v[2] = y
  BY <1>1, <1>5
<1>7. u = v
  <2>1. \A i \in 1..Len(u) : u[i] = v[i]
    <3>1. \A i \in 1..2 : i = 1 \/ i = 2
      OBVIOUS
    <3> QED BY <1>4, <1>6, <3>1
  <2> QED BY <1>4, <1>6, <2>1, SeqEqual
<1> QED BY <1>1, <1>3, <1>5, <1>7

-----------------------------------------------------------------------------
(* Selections                                                              *)

\* How many numbers of I are no greater than i.
Rank(I, i) == Cardinality({j \in I : j <= i})

\* Ranks tell numbers apart, in their order.
LEMMA Ranks ==
    ASSUME NEW n \in Nat, NEW I \in SUBSET (1..n)
    PROVE  /\ IsFiniteSet(I) /\ Cardinality(I) \in Nat /\ Cardinality(I) <= n
           /\ \A i \in I : Rank(I, i) \in 1..Cardinality(I) /\ Rank(I, i) <= i
           /\ \A i, j \in I : i < j => Rank(I, i) < Rank(I, j)
           /\ \A k \in 1..Cardinality(I) : \E i \in I : Rank(I, i) = k
<1>0. \A i \in I : i \in Nat /\ 1 <= i /\ i <= n
  OBVIOUS
<1>1. IsFiniteSet(I) /\ Cardinality(I) \in Nat /\ Cardinality(I) <= n
  <2>1. IsFiniteSet(1..n) /\ Cardinality(1..n) = n
    BY FS_Interval
  <2> QED BY <2>1, FS_Subset, FS_CardinalityType
<1>2. ASSUME NEW i \in I
      PROVE  /\ IsFiniteSet({j \in I : j <= i}) /\ Rank(I, i) \in Nat
             /\ Rank(I, i) \in 1..Cardinality(I) /\ Rank(I, i) <= i
  <2> DEFINE R == {j \in I : j <= i}
  <2>1. R \in SUBSET I /\ R # {} /\ i \in Nat
    BY <1>0
  <2>2. IsFiniteSet(R) /\ Cardinality(R) <= Cardinality(I) /\ Cardinality(R) \in Nat
    BY <1>1, <2>1, FS_Subset, FS_CardinalityType
  <2>3. Cardinality(R) # 0
    BY <2>1, <2>2, FS_EmptySet
  <2>4. R \in SUBSET (1..i) /\ IsFiniteSet(1..i) /\ Cardinality(1..i) = i
    <3>1. \A j \in R : j \in 1..i
      BY <1>0, <2>1
    <3>2. IsFiniteSet(1..i) /\ Cardinality(1..i) = i
      BY <2>1, FS_Interval
    <3> QED BY <3>1, <3>2
  <2>5. Cardinality(R) <= i
    BY <2>4, FS_Subset
  <2>6. Rank(I, i) = Cardinality(R)
    BY DEF Rank
  <2> QED BY <1>1, <2>2, <2>3, <2>5, <2>6
<1>3. ASSUME NEW i \in I, NEW j \in I, i < j
      PROVE  Rank(I, i) < Rank(I, j)
  <2> DEFINE R == {m \in I : m <= i}
             T == {m \in I : m <= j}
  <2>1. R \in SUBSET T /\ j \in T /\ j \notin R
    <3>1. \A m \in R : m \in T
      BY <1>0, <1>3
    <3>2. j \in T /\ j \notin R
      <4>1. j <= j /\ ~(j <= i)
        BY <1>0, <1>3
      <4> QED BY <4>1
    <3> HIDE DEF R, T
    <3> QED BY <3>1, <3>2
  <2>2. IsFiniteSet(T) /\ Rank(I, i) = Cardinality(R) /\ Rank(I, j) = Cardinality(T)
    BY <1>2 DEF Rank
  <2>3. Cardinality(R) <= Cardinality(T) /\ Cardinality(R) # Cardinality(T)
    BY <2>1, <2>2, FS_Subset
  <2> QED BY <1>2, <2>2, <2>3
<1>4. ASSUME NEW k \in 1..Cardinality(I)
      PROVE  \E i \in I : Rank(I, i) = k
  <2> DEFINE f == [i \in I |-> Rank(I, i)]
             K == 1..Cardinality(I)
  <2>1. f \in [I -> K]
    BY <1>2
  <2>2. \A i, j \in I : f[i] = f[j] => i = j
    <3> TAKE i, j \in I
    <3>1. i < j \/ j < i \/ i = j
      BY <1>0
    <3>2. Rank(I, i) \in Nat /\ Rank(I, j) \in Nat
      BY <1>2
    <3>3. f[i] = Rank(I, i) /\ f[j] = Rank(I, j)
      OBVIOUS
    <3>4. (i < j => Rank(I, i) < Rank(I, j)) /\ (j < i => Rank(I, j) < Rank(I, i))
      BY <1>3
    <3> HIDE DEF f
    <3> QED BY <3>1, <3>2, <3>3, <3>4
  <2>3. IsFiniteSet(K) /\ Cardinality(K) = Cardinality(I)
    BY <1>1, FS_Interval
  <2>4. f \in Injection(I, K)
    <3> HIDE DEF f, K
    <3> QED BY <2>1, <2>2, Fun_IsInj
  <2>5. f \in Surjection(I, K)
    BY <2>3, <2>4, FS_Injection
  <2>6. \A y \in K : \E i \in I : f[i] = y
    BY <2>5 DEF Surjection
  <2> QED BY <2>6
<1> QED BY <1>1, <1>2, <1>3, <1>4

\* The number that NthOf chooses has the rank asked for.
LEMMA NthRank ==
    ASSUME NEW n \in Nat, NEW I \in SUBSET (1..n)
    PROVE  \A k \in 1..Cardinality(I) : NthOf(I, k) \in I /\ Rank(I, NthOf(I, k)) = k
<1> TAKE k \in 1..Cardinality(I)
<1>1. PICK i \in I : Rank(I, i) = k
  BY Ranks
<1>2. NthOf(I, k) = CHOOSE j \in I : Rank(I, j) = k
  BY DEF NthOf, Rank
<1> QED BY <1>1, <1>2

\* Two numbers of one rank are the same.
LEMMA SameRank ==
    ASSUME NEW n \in Nat, NEW I \in SUBSET (1..n), NEW i \in I, NEW j \in I,
           Rank(I, i) = Rank(I, j)
    PROVE  ~(i < j) /\ ~(j < i)
<1>1. Rank(I, i) \in Nat /\ Rank(I, j) \in Nat
  BY Ranks
<1> QED BY <1>1, Ranks

\* NthOf lists the numbers of I in their order.
LEMMA NthPlaces ==
    ASSUME NEW n \in Nat, NEW I \in SUBSET (1..n)
    PROVE  /\ Cardinality(I) \in Nat /\ Cardinality(I) <= n
           /\ \A k \in 1..Cardinality(I) : NthOf(I, k) \in I /\ k <= NthOf(I, k)
           /\ \A k, l \in 1..Cardinality(I) : k < l => NthOf(I, k) < NthOf(I, l)
           /\ \A i \in I : \E k \in 1..Cardinality(I) : NthOf(I, k) = i
<1>0. \A i \in I : i \in Nat
  OBVIOUS
<1>1. \A k \in 1..Cardinality(I) : NthOf(I, k) \in I /\ Rank(I, NthOf(I, k)) = k
  BY NthRank
<1>2. ASSUME NEW k \in 1..Cardinality(I), NEW l \in 1..Cardinality(I), k < l
      PROVE  NthOf(I, k) < NthOf(I, l)
  <2>1. PICK i \in I, j \in I : i = NthOf(I, k) /\ j = NthOf(I, l) /\ Rank(I, i) = k /\ Rank(I, j) = l
    BY <1>1
  <2>2. i # j /\ ~(j < i)
    BY <1>2, <2>1, Ranks
  <2>3. i \in Nat /\ j \in Nat
    BY <1>0
  <2> QED BY <2>1, <2>2, <2>3
<1>3. ASSUME NEW i \in I PROVE \E k \in 1..Cardinality(I) : NthOf(I, k) = i
  <2>1. PICK k \in 1..Cardinality(I) : k = Rank(I, i)
    BY Ranks
  <2>2. PICK j \in I : j = NthOf(I, k) /\ Rank(I, j) = k
    BY <1>1
  <2>3. ~(i < j) /\ ~(j < i) /\ i \in Nat /\ j \in Nat
    BY <1>0, <2>1, <2>2, SameRank
  <2> QED BY <2>2, <2>3
<1> QED BY <1>1, <1>2, <1>3, Ranks

\* g lists the m numbers of I in their order.
Lists(g, m, I) ==
    /\ m \in Nat /\ g \in [1..m -> I]
    /\ \A k, l \in 1..m : k < l => g[k] < g[l]
    /\ \A i \in I : \E k \in 1..m : g[k] = i

\* Only NthOf does.
LEMMA OnlyList ==
    ASSUME NEW n \in Nat, NEW I \in SUBSET (1..n), NEW m, NEW g, Lists(g, m, I)
    PROVE  m = Cardinality(I) /\ \A k \in 1..m : NthOf(I, k) = g[k]
<1> /\ m \in Nat /\ g \in [1..m -> I]
    /\ \A k, l \in 1..m : k < l => g[k] < g[l]
    /\ \A i \in I : \E k \in 1..m : g[k] = i
  BY DEF Lists
<1>a. \A i \in I : i \in Nat
  OBVIOUS
<1>b. \A k \in 1..m : g[k] \in Nat /\ k \in Nat
  <2> TAKE k \in 1..m
  <2>1. g[k] \in I /\ k \in Nat
    OBVIOUS
  <2>2. g[k] \in Nat
    BY <1>a, <2>1, Zenon
  <2> QED BY <2>1, <2>2
<1>0. \A k, l \in 1..m : g[k] = g[l] => k = l
  <2> TAKE k, l \in 1..m
  <2>1. k < l \/ l < k \/ k = l
    OBVIOUS
  <2> QED BY <1>b, <2>1
<1>1. ASSUME NEW k \in 1..m
      PROVE  Rank(I, g[k]) = k
  <2> DEFINE R == {j \in I : j <= g[k]}
             h == [j \in 1..k |-> g[j]]
  <2>1. \A j \in 1..k : j \in 1..m /\ g[j] \in R
    <3> TAKE j \in 1..k
    <3>1. j \in 1..m /\ (j = k \/ j < k) /\ g[j] \in Nat /\ g[k] \in Nat
      BY <1>b
    <3> QED BY <1>b, <3>1
  <2>2. \A i \in R : \E j \in 1..k : h[j] = i
    <3> TAKE i \in R
    <3>1. PICK j \in 1..m : g[j] = i
      OBVIOUS
    <3>2. ~(k < j) /\ j \in Nat
      <4>1. g[k] \in Nat /\ g[j] \in Nat /\ g[j] <= g[k]
        BY <1>b, <3>1
      <4> QED BY <1>b, <4>1
    <3> QED BY <3>1, <3>2
  <2>3. h \in Bijection(1..k, R)
    BY <1>0, <2>1, <2>2, Fun_IsBij
  <2>4. IsFiniteSet(1..k) /\ Cardinality(1..k) = k
    BY FS_Interval
  <2>5. Cardinality(R) = k
    BY <2>3, <2>4, FS_Bijection DEF ExistsBijection
  <2> QED BY <2>5 DEF Rank
<1>2. m = Cardinality(I)
  <2>1. g \in Bijection(1..m, I)
    BY <1>0, Fun_IsBij
  <2>2. IsFiniteSet(1..m) /\ Cardinality(1..m) = m
    BY FS_Interval
  <2> QED BY <2>1, <2>2, FS_Bijection DEF ExistsBijection
<1>3. ASSUME NEW k \in 1..m
      PROVE  NthOf(I, k) = g[k]
  <2>1. PICK j \in I : j = NthOf(I, k) /\ Rank(I, j) = k
    BY <1>2, NthRank
  <2>2. PICK i \in I : i = g[k] /\ Rank(I, i) = k
    BY <1>1
  <2>3. ~(i < j) /\ ~(j < i) /\ i \in Nat /\ j \in Nat
    BY <1>a, <2>1, <2>2, SameRank
  <2> QED BY <2>1, <2>2, <2>3
<1> QED BY <1>2, <1>3

\* What is kept of a sequence, element by element.
LEMMA KeptElements ==
    ASSUME NEW S, NEW s \in Seq(S), NEW I \in SUBSET (1..Len(s))
    PROVE  /\ Kept(s, I) \in Seq(S) /\ Len(Kept(s, I)) = Cardinality(I)
           /\ Cardinality(I) \in Nat /\ Cardinality(I) <= Len(s)
           /\ \A k \in 1..Cardinality(I) : Kept(s, I)[k] = s[NthOf(I, k)]
<1>1. Cardinality(I) \in Nat /\ Cardinality(I) <= Len(s)
      /\ \A k \in 1..Cardinality(I) : NthOf(I, k) \in I
  BY NthPlaces
<1>2. \A k \in 1..Cardinality(I) : s[NthOf(I, k)] \in S
  BY <1>1, ElementOfSeq
<1>3. Kept(s, I) \in [1..Cardinality(I) -> S]
  BY <1>2 DEF Kept
<1>4. Kept(s, I) \in Seq(S) /\ Len(Kept(s, I)) = Cardinality(I)
  <2>1. PICK c \in Nat : c = Cardinality(I)
    BY <1>1
  <2>2. PICK t : t = Kept(s, I)
    OBVIOUS
  <2>3. t \in [1..c -> S]
    BY <1>3, <2>1, <2>2
  <2>4. t \in Seq(S) /\ Len(t) = c
    BY <2>3, IsASeq, LenProperties
  <2> QED BY <2>1, <2>2, <2>4
<1> QED BY <1>1, <1>4 DEF Kept

\* A sequence of the elements at the places in I, in their order, is what is
\* kept.
LEMMA KeptIs ==
    ASSUME NEW S, NEW s \in Seq(S), NEW I \in SUBSET (1..Len(s)),
           NEW m, NEW g, Lists(g, m, I)
    PROVE  \A v \in Seq(S) :
              Len(v) = m /\ (\A k \in 1..m : v[k] = s[g[k]]) => v = Kept(s, I)
<1>1. Len(s) \in Nat
  BY LenProperties
<1>2. m = Cardinality(I) /\ \A k \in 1..m : NthOf(I, k) = g[k]
  <2>1. \A n \in Nat : I \in SUBSET (1..n) =>
            m = Cardinality(I) /\ \A k \in 1..m : NthOf(I, k) = g[k]
    BY OnlyList
  <2> QED BY <1>1, <2>1, Zenon
<1>3. PICK w : w = Kept(s, I)
  OBVIOUS
<1>4. w \in Seq(S) /\ Len(w) = m /\ \A k \in 1..m : w[k] = s[NthOf(I, k)]
  BY <1>2, <1>3, KeptElements
<1>5. ASSUME NEW v \in Seq(S), Len(v) = m, \A k \in 1..m : v[k] = s[g[k]]
      PROVE  v = w
  <2>1. \A k \in 1..m : w[k] = v[k]
    BY <1>2, <1>4, <1>5
  <2> QED BY <1>4, <1>5, <2>1, SeqEqual
<1> QED BY <1>3, <1>5

\* All of it.
LEMMA KeptAll ==
    ASSUME NEW S, NEW s \in Seq(S)
    PROVE  Kept(s, 1..Len(s)) = s
<1>1. PICK m \in Nat : m = Len(s)
  BY LenProperties
<1>2. PICK I : I = 1..m
  OBVIOUS
<1>3. PICK g : g = [k \in 1..m |-> k]
  OBVIOUS
<1>4. g \in [1..m -> I] /\ \A k \in 1..m : g[k] = k
  BY <1>2, <1>3
<1>5. I \in SUBSET (1..Len(s)) /\ \A i \in I : \E k \in 1..m : g[k] = i
  BY <1>1, <1>2, <1>4
<1>6. \A k, l \in 1..m : k < l => g[k] < g[l]
  BY <1>4
<1>7. Lists(g, m, I) /\ \A k \in 1..m : s[k] = s[g[k]]
  BY <1>4, <1>5, <1>6 DEF Lists
<1>8. s = Kept(s, I)
  BY <1>1, <1>5, <1>7, KeptIs
<1> QED BY <1>1, <1>2, <1>8

\* What is kept of what is kept.
LEMMA KeptTwice ==
    ASSUME NEW S, NEW s \in Seq(S), NEW I \in SUBSET (1..Len(s)),
           NEW J \in SUBSET (1..Cardinality(I))
    PROVE  Kept(Kept(s, I), J) = Kept(s, {NthOf(I, j) : j \in J})
<1>1. PICK n, c, t, f : /\ n \in Nat /\ n = Len(s) /\ I \in SUBSET (1..n)
                        /\ c = Cardinality(I) /\ t = Kept(s, I) /\ f = [j \in 1..c |-> NthOf(I, j)]
  BY LenProperties
<1>2. /\ c \in Nat /\ \A j \in 1..c : f[j] \in I
      /\ \A j, k \in 1..c : j < k => f[j] < f[k]
  BY <1>1, NthPlaces
<1>3. t \in Seq(S) /\ Len(t) = c /\ \A j \in 1..c : t[j] = s[f[j]]
  BY <1>1, KeptElements
<1>4. PICK m, v, h : m = Cardinality(J) /\ v = Kept(t, J) /\ h = [k \in 1..m |-> NthOf(J, k)]
  OBVIOUS
<1>5. J \in SUBSET (1..c) /\ J \in SUBSET (1..Len(t))
  BY <1>1, <1>3
<1>6. /\ m \in Nat /\ \A k \in 1..m : h[k] \in J
      /\ \A k, l \in 1..m : k < l => h[k] < h[l]
      /\ \A j \in J : \E k \in 1..m : h[k] = j
  <2>1. /\ Cardinality(J) \in Nat /\ \A k \in 1..Cardinality(J) : NthOf(J, k) \in J
        /\ \A k, l \in 1..Cardinality(J) : k < l => NthOf(J, k) < NthOf(J, l)
        /\ \A j \in J : \E k \in 1..Cardinality(J) : NthOf(J, k) = j
    BY <1>2, <1>5, NthPlaces
  <2> QED BY <1>4, <2>1
<1>7. v \in Seq(S) /\ Len(v) = m /\ \A k \in 1..m : v[k] = t[h[k]]
  BY <1>3, <1>4, <1>5, KeptElements
<1>8. PICK K, g : K = {f[j] : j \in J} /\ g = [k \in 1..m |-> f[h[k]]]
  OBVIOUS
<1>9. K \in SUBSET (1..Len(s)) /\ g \in [1..m -> K] /\ \A k \in 1..m : g[k] = f[h[k]]
  BY <1>1, <1>2, <1>5, <1>6, <1>8
<1>10. \A k, l \in 1..m : k < l => g[k] < g[l]
  <2> TAKE k, l \in 1..m
  <2>1. h[k] \in 1..c /\ h[l] \in 1..c
    BY <1>5, <1>6
  <2>2. k < l => h[k] < h[l]
    BY <1>6
  <2>3. h[k] < h[l] => f[h[k]] < f[h[l]]
    BY <1>2, <2>1
  <2> QED BY <1>9, <2>2, <2>3
<1>11. \A i \in K : \E k \in 1..m : g[k] = i
  BY <1>6, <1>8, <1>9
<1>12. \A k \in 1..m : v[k] = s[g[k]]
  <2> TAKE k \in 1..m
  <2>1. h[k] \in 1..c
    BY <1>5, <1>6
  <2> QED BY <1>3, <1>7, <1>9, <2>1
<1>13. v = Kept(s, K)
  <2>1. Lists(g, m, K)
    BY <1>6, <1>9, <1>10, <1>11 DEF Lists
  <2> QED BY <1>7, <1>9, <1>12, <2>1, KeptIs
<1>14. K = {NthOf(I, j) : j \in J}
  BY <1>1, <1>5, <1>8
<1> QED BY <1>1, <1>4, <1>13, <1>14

\* What is kept of a sequence that has grown by an element that is kept.
LEMMA KeptAppend ==
    ASSUME NEW S, NEW s \in Seq(S), NEW e \in S, NEW I \in SUBSET (1..Len(s))
    PROVE  Kept(Append(s, e), I \cup {Len(s) + 1}) = Append(Kept(s, I), e)
<1>1. PICK n, c, t, f : /\ n \in Nat /\ n = Len(s) /\ I \in SUBSET (1..n)
                        /\ c = Cardinality(I) /\ t = Kept(s, I) /\ f = [j \in 1..c |-> NthOf(I, j)]
  BY LenProperties
<1>2. /\ c \in Nat /\ \A j \in 1..c : f[j] \in I
      /\ \A j, k \in 1..c : j < k => f[j] < f[k]
      /\ \A i \in I : \E j \in 1..c : f[j] = i
  BY <1>1, NthPlaces
<1>3. t \in Seq(S) /\ Len(t) = c /\ \A j \in 1..c : t[j] = s[f[j]]
  BY <1>1, KeptElements
<1>4. PICK u, v, K : u = Append(s, e) /\ v = Append(t, e) /\ K = I \cup {n + 1}
  OBVIOUS
<1>5. /\ u \in Seq(S) /\ Len(u) = n + 1 /\ u[n + 1] = e /\ \A i \in 1..n : u[i] = s[i]
      /\ v \in Seq(S) /\ Len(v) = c + 1 /\ v[c + 1] = e /\ \A i \in 1..c : v[i] = t[i]
  BY <1>1, <1>3, <1>4, AppendProperties
<1>6. PICK g : g = [k \in 1..c + 1 |-> IF k = c + 1 THEN n + 1 ELSE f[k]]
  OBVIOUS
<1>7. \A k \in 1..c + 1 : k # c + 1 => k \in 1..c
  BY <1>2
<1>8. /\ c + 1 \in 1..c + 1 /\ c + 1 \in Nat /\ g[c + 1] = n + 1
      /\ \A k \in 1..c : g[k] = f[k] /\ k \in 1..c + 1
  BY <1>2, <1>6
<1>9. g \in [1..c + 1 -> K] /\ K \in SUBSET (1..Len(u))
  <2>1. n + 1 \in K /\ \A k \in 1..c : f[k] \in K
    BY <1>2, <1>4
  <2>2. \A k \in 1..c + 1 : (IF k = c + 1 THEN n + 1 ELSE f[k]) \in K
    BY <1>7, <2>1
  <2>3. I \subseteq 1..n + 1 /\ n + 1 \in 1..n + 1
    BY <1>1
  <2> QED BY <1>4, <1>5, <1>6, <2>2, <2>3
<1>10. \A k, l \in 1..c + 1 : k < l => g[k] < g[l]
  <2> TAKE k, l \in 1..c + 1
  <2>1. ASSUME k < l PROVE g[k] < g[l]
    <3>0. k \in 1..c
      BY <1>2, <2>1
    <3>1. k \in 1..c /\ g[k] = f[k] /\ f[k] \in 1..n
      BY <1>1, <1>2, <1>8, <3>0
    <3>2. CASE l = c + 1
      BY <1>1, <1>8, <3>1, <3>2
    <3>3. CASE l \in 1..c
      BY <1>2, <1>8, <2>1, <3>1, <3>3
    <3> QED BY <1>7, <3>2, <3>3
  <2> QED BY <2>1
<1>11. \A i \in K : \E k \in 1..c + 1 : g[k] = i
  BY <1>2, <1>4, <1>8
<1>12. \A k \in 1..c + 1 : v[k] = u[g[k]]
  <2> TAKE k \in 1..c + 1
  <2>1. CASE k = c + 1
    BY <1>5, <1>8, <2>1
  <2>2. CASE k \in 1..c
    <3>1. f[k] \in 1..n
      BY <1>1, <1>2, <2>2
    <3> QED BY <1>3, <1>5, <1>8, <2>2, <3>1
  <2> QED BY <1>7, <2>1, <2>2
<1>13. v = Kept(u, K)
  <2>1. Lists(g, c + 1, K)
    BY <1>8, <1>9, <1>10, <1>11 DEF Lists
  <2> QED BY <1>5, <1>9, <1>12, <2>1, KeptIs
<1> QED BY <1>1, <1>4, <1>13
=============================================================================
