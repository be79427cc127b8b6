----------------------------- MODULE ListsProofs -----------------------------
(***************************************************************************)
(* What the list operators return, for all lists.  What is shown by        *)
(* induction on a number n is shown by the least n for which it fails.     *)
(***************************************************************************)
EXTENDS Lists, FiniteSetTheorems, SequenceTheorems, WellFoundedInduction, TLAPS

\* The order of the numbers is well founded, stated of a set of pairs.
LEMMA NatOrder ==
  \E R : IsWellFoundedOn(R, Nat) /\ \A x, y \in Nat : <<y, x>> \in R <=> y < x
<1>1. IsWellFoundedOn(OpToRel(<, Nat), Nat)
  BY NatLessThanWellFounded
<1>2. \A x, y \in Nat : <<y, x>> \in OpToRel(<, Nat) <=> y < x
  BY DEF OpToRel
<1> QED BY <1>1, <1>2, Zenon

\* A set of numbers that is not empty has a least one.
LEMMA Least ==
  ASSUME NEW T, T \subseteq Nat, T # {}
  PROVE  \E m \in T : \A y \in T : m <= y
<1>1. PICK R : IsWellFoundedOn(R, Nat) /\ \A x, y \in Nat : <<y, x>> \in R <=> y < x
  BY NatOrder, Zenon
<1>2. PICK x \in T : \A y \in T : ~ (<<y, x>> \in R)
  BY <1>1, WFMin, Zenon
<1>3. \A y \in T : ~(y < x)
  BY <1>1, <1>2, Zenon
<1>4. \A y \in T : x <= y
  BY <1>3
<1> QED BY <1>4

\* The positions that are kept are ranked 1, 2, ... without a gap.
LEMMA RankBounds ==
  ASSUME NEW n \in Nat, NEW K \in SUBSET (1 .. n)
  PROVE  /\ IsFiniteSet(K)
         /\ Cardinality(K) \in Nat
         /\ \A i \in K : Rank(K, i) \in 1 .. Cardinality(K)
         /\ \A i, j \in K : i < j => Rank(K, i) < Rank(K, j)
<1>1. IsFiniteSet(1 .. n)
  BY FS_Interval
<1>2. IsFiniteSet(K) /\ Cardinality(K) \in Nat
  BY <1>1, FS_Subset, FS_CardinalityType
<1>3. \A i \in K : Rank(K, i) \in 1 .. Cardinality(K)
  <2> SUFFICES ASSUME NEW i \in K PROVE Rank(K, i) \in 1 .. Cardinality(K)
    OBVIOUS
  <2> DEFINE L == {k \in K : k <= i}
  <2>0. \A k \in K : k \in Int
    OBVIOUS
  <2>1. L \in SUBSET K /\ i \in L
    BY <2>0
  <2>2. IsFiniteSet(L) /\ Cardinality(L) \in Nat /\ Cardinality(L) <= Cardinality(K)
    BY <1>2, <2>1, FS_Subset, FS_CardinalityType
  <2>3. Cardinality(L) # 0
    <3> HIDE DEF L
    <3> QED BY <2>1, <2>2, FS_EmptySet
  <2> QED BY <1>2, <2>2, <2>3 DEF Rank
<1>4. ASSUME NEW i \in K, NEW j \in K, i < j
      PROVE  Rank(K, i) < Rank(K, j)
  <2> DEFINE L == {k \in K : k <= i}
             M == {k \in K : k <= j}
  <2>0. \A k \in K : k \in Int
    OBVIOUS
  <2>1. L \in SUBSET M /\ M \in SUBSET K
    <3>1. ASSUME NEW k \in K, k <= i PROVE k <= j
      BY <1>4, <2>0, <3>1
    <3> QED BY <3>1
  <2>2. j \in M /\ j \notin L
    BY <1>4, <2>0
  <2>3. IsFiniteSet(M)
    BY <1>2, <2>1, FS_Subset
  <2>4. Cardinality(L) \in Nat /\ Cardinality(M) \in Nat
    BY <2>1, <2>3, FS_Subset, FS_CardinalityType
  <2>5. Cardinality(L) <= Cardinality(M) /\ Cardinality(M) # Cardinality(L)
    <3> HIDE DEF L, M
    <3> QED BY <2>1, <2>2, <2>3, FS_Subset
  <2> QED BY <2>4, <2>5 DEF Rank
<1> QED BY <1>2, <1>3, <1>4

\* Every rank is that of a position.
LEMMA RankOnto ==
  ASSUME NEW n \in Nat, NEW K \in SUBSET (1 .. n), NEW j \in 1 .. Cardinality(K)
  PROVE  \E i \in K : Rank(K, i) = j
<1> SUFFICES ASSUME \A i \in K : Rank(K, i) # j PROVE FALSE
  OBVIOUS
<1> DEFINE T == (1 .. Cardinality(K)) \ {j}
           f == [i \in K |-> Rank(K, i)]
<1>0. /\ IsFiniteSet(K) /\ Cardinality(K) \in Nat
      /\ \A i \in K : Rank(K, i) \in 1 .. Cardinality(K)
      /\ \A i, k \in K : i < k => Rank(K, i) < Rank(K, k)
  BY RankBounds
<1>1. IsFiniteSet(K) /\ Cardinality(K) \in Nat
  BY <1>0
<1>2. f \in [K -> T]
  BY <1>0
<1>3. IsFiniteSet(1 .. Cardinality(K)) /\ Cardinality(1 .. Cardinality(K)) = Cardinality(K)
  BY <1>1, FS_Interval
<1>4. IsFiniteSet(T) /\ Cardinality(T) < Cardinality(K)
  <2>1. Cardinality(T) = Cardinality(1 .. Cardinality(K)) - 1 /\ IsFiniteSet(T)
    BY <1>3, FS_RemoveElement
  <2> QED BY <1>1, <1>3, <2>1
<1> HIDE DEF T, f
<1>5. PICK x \in K, y \in K : x # y /\ f[x] = f[y]
  BY <1>1, <1>2, <1>4, FS_PigeonHole
<1>6. Rank(K, x) = Rank(K, y)
  BY <1>5 DEF f
<1>7. x \in Int /\ y \in Int /\ (x < y \/ y < x)
  BY <1>5
<1>8. Rank(K, x) \in Int /\ Rank(K, y) \in Int
  BY <1>0
<1> QED BY <1>0, <1>6, <1>7, <1>8

\* A set of positions that is not empty has a first one.
LEMMA FirstPosition ==
  ASSUME NEW n \in Nat, NEW K \in SUBSET (1 .. n), K # {}
  PROVE  \E i \in K : \A j \in K : i <= j
<1>1. IsFiniteSet(K) /\ Cardinality(K) \in Nat
  BY RankBounds
<1>2. 1 \in 1 .. Cardinality(K)
  BY <1>1, FS_EmptySet
<1>3. PICK i \in K : Rank(K, i) = 1
  BY <1>2, RankOnto
<1> SUFFICES ASSUME NEW j \in K, ~(i <= j) PROVE FALSE
  BY <1>3
<1>4. j < i
  OBVIOUS
<1>5. /\ \A h \in K : Rank(K, h) \in 1 .. Cardinality(K)
      /\ \A h, l \in K : h < l => Rank(K, h) < Rank(K, l)
  BY RankBounds
<1> QED
  BY <1>1, <1>3, <1>4, <1>5

\* The positions Filter reads: one for each place of the result, each kept,
\* in increasing order.
LEMMA FilterIndex ==
  ASSUME NEW A, NEW s \in Seq(A), NEW S
  PROVE  \E g \in [1 .. Cardinality(Kept(s, S)) -> Kept(s, S)] :
           /\ Filter(s, S) = [j \in 1 .. Cardinality(Kept(s, S)) |-> s[g[j]]]
           /\ \A j \in 1 .. Cardinality(Kept(s, S)) : Rank(Kept(s, S), g[j]) = j
<1> DEFINE K == Kept(s, S)
           g == [j \in 1 .. Cardinality(K) |-> CHOOSE i \in K : Rank(K, i) = j]
<1>1. Len(s) \in Nat /\ K \in SUBSET (1 .. Len(s))
  BY LenProperties DEF Kept
<1>2. \A j \in 1 .. Cardinality(K) : \E i \in K : Rank(K, i) = j
  BY <1>1, RankOnto
<1>3. \A j \in 1 .. Cardinality(K) : g[j] \in K /\ Rank(K, g[j]) = j
  BY <1>2
<1>4. Filter(s, S) = [j \in 1 .. Cardinality(K) |-> s[g[j]]]
  BY DEF Filter
<1>5. g \in [1 .. Cardinality(K) -> K]
  BY <1>3
<1> QED BY <1>3, <1>4, <1>5

\* Filter keeps exactly the elements asked for, and links none twice.
THEOREM FilterProperties ==
  ASSUME NEW A, NEW s \in Seq(A), NEW S
  PROVE  /\ Filter(s, S) \in Seq(A)
         /\ Range(Filter(s, S)) = Range(s) \cap S
         /\ NoDup(s) => NoDup(Filter(s, S))
<1> DEFINE K == Kept(s, S)
           F == Filter(s, S)
<1>1. PICK g \in [1 .. Cardinality(K) -> K] :
        /\ F = [j \in 1 .. Cardinality(K) |-> s[g[j]]]
        /\ \A j \in 1 .. Cardinality(K) : Rank(K, g[j]) = j
  BY FilterIndex
<1>2. Len(s) \in Nat /\ K \in SUBSET (1 .. Len(s)) /\ DOMAIN s = 1 .. Len(s)
  BY LenProperties DEF Kept
<1>3. Cardinality(K) \in Nat
  BY <1>2, RankBounds
<1>4. \A i \in K : s[i] \in A /\ s[i] \in S
  BY <1>2, LenProperties DEF Kept
<1>5. F \in [1 .. Cardinality(K) -> A]
  BY <1>1, <1>4
<1>6. F \in Seq(A) /\ Len(F) = Cardinality(K) /\ DOMAIN F = 1 .. Cardinality(K)
  BY <1>3, <1>5, SeqDef, LenProperties
<1>7. Range(F) \subseteq Range(s) \cap S
  BY <1>1, <1>2, <1>4, <1>6 DEF Range
<1>8. Range(s) \cap S \subseteq Range(F)
  <2> SUFFICES ASSUME NEW x \in Range(s), x \in S PROVE x \in Range(F)
    OBVIOUS
  <2>1. PICK i \in 1 .. Len(s) : s[i] = x
    BY <1>2 DEF Range
  <2>2. i \in K
    BY <2>1 DEF Kept
  <2> DEFINE j == Rank(K, i)
  <2>0. /\ \A k \in K : Rank(K, k) \in 1 .. Cardinality(K)
        /\ \A k, l \in K : k < l => Rank(K, k) < Rank(K, l)
    BY <1>2, RankBounds
  <2>3. j \in 1 .. Cardinality(K)
    BY <2>0, <2>2
  <2>4. g[j] \in K /\ Rank(K, g[j]) = Rank(K, i)
    BY <1>1, <2>3
  <2>5. g[j] = i
    <3>1. g[j] \in Int /\ i \in Int /\ Rank(K, i) \in Int
      BY <1>2, <2>0, <2>2, <2>4
    <3> QED BY <2>0, <2>2, <2>4, <3>1
  <2>6. F[j] = x
    BY <1>1, <2>1, <2>3, <2>5
  <2> QED BY <1>6, <2>3, <2>6 DEF Range
<1>9. ASSUME NoDup(s) PROVE NoDup(F)
  <2> SUFFICES ASSUME NEW i \in 1 .. Cardinality(K), NEW j \in 1 .. Cardinality(K),
                      F[i] = F[j]
               PROVE  i = j
    BY <1>6 DEF NoDup
  <2>1. s[g[i]] = s[g[j]] /\ g[i] \in 1 .. Len(s) /\ g[j] \in 1 .. Len(s)
    BY <1>1, <1>2
  <2>2. g[i] = g[j]
    BY <1>9, <2>1 DEF NoDup
  <2> QED BY <1>1, <2>2
<1> QED BY <1>6, <1>7, <1>8, <1>9

\* Erasing an element leaves all the others.
COROLLARY EraseProperties ==
  ASSUME NEW A, NEW s \in Seq(A), NEW p
  PROVE  /\ Erase(s, p) \in Seq(A)
         /\ Range(Erase(s, p)) = Range(s) \ {p}
         /\ NoDup(s) => NoDup(Erase(s, p))
BY FilterProperties DEF Erase

\* A list that gets a new last element.
LEMMA AppendNoDup ==
  ASSUME NEW A, NEW s \in Seq(A), NEW p \in A
  PROVE  /\ Append(s, p) \in Seq(A)
         /\ Range(Append(s, p)) = Range(s) \cup {p}
         /\ NoDup(s) /\ p \notin Range(s) => NoDup(Append(s, p))
<1>1. /\ Append(s, p) \in Seq(A)
      /\ Len(Append(s, p)) = Len(s) + 1
      /\ \A i \in 1 .. Len(s) : Append(s, p)[i] = s[i]
      /\ Append(s, p)[Len(s) + 1] = p
  BY AppendProperties
<1>2. Len(s) \in Nat /\ DOMAIN s = 1 .. Len(s)
      /\ DOMAIN Append(s, p) = 1 .. Len(s) + 1
  BY <1>1, LenProperties
<1>3. Range(Append(s, p)) = Range(s) \cup {p}
  <2>1. ASSUME NEW x \in Range(Append(s, p)) PROVE x \in Range(s) \cup {p}
    <3>1. PICK i \in 1 .. Len(s) + 1 : Append(s, p)[i] = x
      BY <1>2 DEF Range
    <3>2. CASE i = Len(s) + 1
      BY <1>1, <3>1, <3>2
    <3>3. CASE i \in 1 .. Len(s)
      BY <1>1, <1>2, <3>1, <3>3 DEF Range
    <3> QED BY <1>2, <3>2, <3>3
  <2>2. ASSUME NEW x \in Range(s) PROVE x \in Range(Append(s, p))
    <3>1. PICK i \in 1 .. Len(s) : s[i] = x
      BY <1>2 DEF Range
    <3> QED BY <1>1, <1>2, <3>1 DEF Range
  <2>3. p \in Range(Append(s, p))
    BY <1>1, <1>2 DEF Range
  <2> QED BY <2>1, <2>2, <2>3
<1>4. ASSUME NoDup(s), p \notin Range(s) PROVE NoDup(Append(s, p))
  <2>1. \A i \in 1 .. Len(s) : s[i] # p
    BY <1>2, <1>4 DEF Range
  <2> QED BY <1>1, <1>2, <1>4, <2>1 DEF NoDup
<1> QED BY <1>1, <1>3, <1>4

\* Two lists without a common element, one behind the other.
LEMMA ConcatNoDup ==
  ASSUME NEW A, NEW s \in Seq(A), NEW t \in Seq(A)
  PROVE  /\ s \o t \in Seq(A)
         /\ Range(s \o t) = Range(s) \cup Range(t)
         /\ NoDup(s) /\ NoDup(t) /\ Range(s) \cap Range(t) = {} => NoDup(s \o t)
<1>1. /\ s \o t \in Seq(A)
      /\ Len(s \o t) = Len(s) + Len(t)
      /\ \A i \in 1 .. Len(s) + Len(t) : (s \o t)[i] =
           IF i <= Len(s) THEN s[i] ELSE t[i - Len(s)]
  BY ConcatProperties
<1>2. Range(s \o t) = Range(s) \cup Range(t)
  BY RangeConcatenation
<1>3. /\ Len(s) \in Nat /\ DOMAIN s = 1 .. Len(s)
      /\ Len(t) \in Nat /\ DOMAIN t = 1 .. Len(t)
  BY LenProperties
<1>4. ASSUME NoDup(s), NoDup(t), Range(s) \cap Range(t) = {},
             NEW i \in 1 .. Len(s) + Len(t), NEW j \in 1 .. Len(s) + Len(t),
             (s \o t)[i] = (s \o t)[j]
      PROVE  i = j
  <2>1. \A k \in 1 .. Len(s), l \in 1 .. Len(t) : s[k] # t[l]
    BY <1>3, <1>4 DEF Range
  <2>2. CASE i <= Len(s) /\ j <= Len(s)
    BY <1>1, <1>3, <1>4, <2>2 DEF NoDup
  <2>3. CASE i > Len(s) /\ j > Len(s)
    <3>1. t[i - Len(s)] = t[j - Len(s)] /\ i - Len(s) \in 1 .. Len(t)
          /\ j - Len(s) \in 1 .. Len(t)
      BY <1>1, <1>3, <1>4, <2>3
    <3>2. i - Len(s) = j - Len(s)
      BY <1>4, <3>1 DEF NoDup
    <3> QED BY <1>3, <3>2
  <2>4. CASE i <= Len(s) /\ j > Len(s)
    BY <1>1, <1>3, <1>4, <2>1, <2>4
  <2>5. CASE i > Len(s) /\ j <= Len(s)
    BY <1>1, <1>3, <1>4, <2>1, <2>5
  <2> QED BY <1>3, <2>2, <2>3, <2>4, <2>5
<1> QED BY <1>1, <1>2, <1>4 DEF NoDup
-----------------------------------------------------------------------------
(***************************************************************************)
(* Order in a list, and a queue cut in two.                                *)
(***************************************************************************)

\* a comes before b in the list s.
Before(s, a, b) == \E i, j \in 1 .. Len(s) : i < j /\ s[i] = a /\ s[j] = b

\* Erasing keeps the order of what is left.
LEMMA BeforeFilter ==
  ASSUME NEW A, NEW s \in Seq(A), NEW S, NEW a, NEW b
  PROVE  Before(Filter(s, S), a, b) <=> Before(s, a, b) /\ a \in S /\ b \in S
<1> DEFINE K == Kept(s, S)
           n == Cardinality(K)
           F == Filter(s, S)
<1>1. Len(s) \in Nat /\ K \in SUBSET (1 .. Len(s)) /\ n \in Nat
  BY LenProperties, RankBounds DEF Kept
<1>2. PICK g \in [1 .. n -> K] :
        /\ F = [j \in 1 .. n |-> s[g[j]]]
        /\ \A j \in 1 .. n : Rank(K, g[j]) = j
  BY FilterIndex
<1>3. Len(F) = n
  BY <1>1, <1>2
<1>4. \A i, j \in K : i < j <=> Rank(K, i) < Rank(K, j)
  <2>1. \A i, j \in K : i < j => Rank(K, i) < Rank(K, j)
    BY <1>1, RankBounds
  <2>2. \A i \in K : Rank(K, i) \in 1 .. n
    BY <1>1, RankBounds
  <2>3. \A i \in K : Rank(K, i) \in Nat /\ i \in Nat
    BY <1>1, <2>2
  <2> QED BY <2>1, <2>3
<1>5. \A i \in K : \E j \in 1 .. n : g[j] = i
  <2> SUFFICES ASSUME NEW i \in K PROVE \E j \in 1 .. n : g[j] = i
    OBVIOUS
  <2>1. Rank(K, i) \in 1 .. n
    BY <1>1, RankBounds
  <2> DEFINE j == Rank(K, i)
  <2>2. g[j] \in K /\ Rank(K, g[j]) = j /\ g[j] \in Nat /\ i \in Nat
    BY <1>1, <1>2, <2>1
  <2>3. ~(g[j] < i) /\ ~(i < g[j])
    BY <1>1, <1>4, <2>1, <2>2
  <2> QED BY <2>1, <2>2, <2>3
<1>6. ASSUME NEW i \in 1 .. n, NEW j \in 1 .. n
      PROVE  i < j <=> g[i] < g[j]
  BY <1>2, <1>4
<1>7. \A i \in K : i \in 1 .. Len(s) /\ s[i] \in S
  BY DEF Kept
<1>8. \A i \in 1 .. Len(s) : s[i] \in S => i \in K
  BY DEF Kept
<1> HIDE DEF K, n, F
<1>9. ASSUME Before(F, a, b)
      PROVE  Before(s, a, b) /\ a \in S /\ b \in S
  <2>1. PICK i, j \in 1 .. n : i < j /\ F[i] = a /\ F[j] = b
    BY <1>3, <1>9 DEF Before
  <2>2. g[i] \in K /\ g[j] \in K /\ g[i] < g[j] /\ s[g[i]] = a /\ s[g[j]] = b
    BY <1>2, <1>6, <2>1
  <2> QED BY <1>7, <2>2 DEF Before
<1>10. ASSUME Before(s, a, b), a \in S, b \in S
       PROVE  Before(F, a, b)
  <2>1. PICK i, j \in 1 .. Len(s) : i < j /\ s[i] = a /\ s[j] = b
    BY <1>10 DEF Before
  <2>2. i \in K /\ j \in K
    BY <1>8, <1>10, <2>1
  <2>3. PICK h \in 1 .. n : g[h] = i
    BY <1>5, <2>2
  <2>4. PICK l \in 1 .. n : g[l] = j
    BY <1>5, <2>2
  <2>5. h < l /\ F[h] = a /\ F[l] = b
    BY <1>2, <1>6, <2>1, <2>3, <2>4
  <2> QED BY <1>3, <2>5 DEF Before
<1> QED BY <1>9, <1>10 DEF F

\* Who is before somebody is in the list.
LEMMA BeforeMembers ==
  ASSUME NEW A, NEW s \in Seq(A), NEW a, NEW b, Before(s, a, b)
  PROVE  a \in Range(s) /\ b \in Range(s)
<1>1. DOMAIN s = 1 .. Len(s)
  BY LenProperties
<1> QED BY <1>1 DEF Before, Range

\* Erasing one element keeps the order of the others.
LEMMA BeforeErase ==
  ASSUME NEW A, NEW s \in Seq(A), NEW p, NEW a, NEW b
  PROVE  Before(Erase(s, p), a, b) <=> Before(s, a, b) /\ a # p /\ b # p
<1>1. Before(Erase(s, p), a, b) <=> Before(s, a, b) /\ a \in Range(s) \ {p} /\ b \in Range(s) \ {p}
  BY BeforeFilter DEF Erase
<1> QED BY <1>1, BeforeMembers

\* The new last element comes after all others.
LEMMA BeforeAppend ==
  ASSUME NEW A, NEW s \in Seq(A), NEW x \in A, NEW a, NEW b
  PROVE  Before(Append(s, x), a, b) <=> Before(s, a, b) \/ (a \in Range(s) /\ b = x)
<1>1. /\ Append(s, x) \in Seq(A) /\ Len(s) \in Nat /\ Len(Append(s, x)) = Len(s) + 1
      /\ \A i \in 1 .. Len(s) : Append(s, x)[i] = s[i]
      /\ Append(s, x)[Len(s) + 1] = x /\ DOMAIN s = 1 .. Len(s)
  BY AppendProperties, LenProperties
<1> DEFINE t == Append(s, x)
<1>2. ASSUME Before(t, a, b) PROVE Before(s, a, b) \/ (a \in Range(s) /\ b = x)
  <2>1. PICK i, j \in 1 .. Len(s) + 1 : i < j /\ t[i] = a /\ t[j] = b
    BY <1>1, <1>2 DEF Before
  <2>2. i \in 1 .. Len(s) /\ s[i] = a
    BY <1>1, <2>1
  <2>3. CASE j = Len(s) + 1
    BY <1>1, <2>1, <2>2, <2>3 DEF Range
  <2>4. CASE j \in 1 .. Len(s)
    BY <1>1, <2>1, <2>2, <2>4 DEF Before
  <2> QED BY <1>1, <2>3, <2>4
<1>3. ASSUME Before(s, a, b) PROVE Before(t, a, b)
  <2>1. PICK i, j \in 1 .. Len(s) : i < j /\ s[i] = a /\ s[j] = b
    BY <1>3 DEF Before
  <2>2. i \in 1 .. Len(t) /\ j \in 1 .. Len(t) /\ t[i] = a /\ t[j] = b
    BY <1>1, <2>1
  <2> QED BY <2>1, <2>2 DEF Before
<1>4. ASSUME a \in Range(s), b = x PROVE Before(t, a, b)
  <2>1. PICK i \in 1 .. Len(s) : s[i] = a
    BY <1>1, <1>4 DEF Range
  <2>2. i \in 1 .. Len(t) /\ Len(s) + 1 \in 1 .. Len(t) /\ t[i] = a /\ i < Len(s) + 1
    BY <1>1, <2>1
  <2> QED BY <1>1, <1>4, <2>2 DEF Before
<1> QED BY <1>2, <1>3, <1>4

\* Everybody else comes after the head.
LEMMA BeforeHead ==
  ASSUME NEW A, NEW s \in Seq(A), NoDup(s), s # <<>>, NEW b
  PROVE  Before(s, Head(s), b) <=> b \in Range(s) \ {Head(s)}
<1>1. Len(s) \in Nat \ {0} /\ DOMAIN s = 1 .. Len(s) /\ Head(s) = s[1]
  BY LenProperties, EmptySeq
<1>2. ASSUME b \in Range(s), b # Head(s) PROVE Before(s, Head(s), b)
  <2>1. PICK j \in 1 .. Len(s) : s[j] = b
    BY <1>1, <1>2 DEF Range
  <2>2. 1 < j /\ 1 \in 1 .. Len(s)
    BY <1>1, <1>2, <2>1
  <2> QED BY <1>1, <2>1, <2>2 DEF Before
<1>3. ASSUME Before(s, Head(s), b) PROVE b \in Range(s) /\ b # Head(s)
  BY <1>1, <1>3, BeforeMembers DEF Before, NoDup
<1> QED BY <1>2, <1>3

\* The first element.
LEMMA HeadInRange ==
  ASSUME NEW A, NEW s \in Seq(A), s # <<>>
  PROVE  Head(s) \in Range(s)
<1>1. Len(s) \in Nat \ {0} /\ DOMAIN s = 1 .. Len(s) /\ Head(s) = s[1]
  BY LenProperties, EmptySeq
<1> QED BY <1>1 DEF Range

\* What a message at the end of a mailbox adds to its two parts.
LEMMA SubSeqAppend ==
  ASSUME NEW A, NEW s \in Seq(A), NEW x \in A, NEW n \in 0 .. Len(s)
  PROVE  /\ SubSeq(Append(s, x), 1, n) = SubSeq(s, 1, n)
         /\ SubSeq(Append(s, x), n + 1, Len(s) + 1) = Append(SubSeq(s, n + 1, Len(s)), x)
<1> DEFINE t == Append(s, x)
<1>1. /\ Len(s) \in Nat /\ n \in Nat /\ t \in Seq(A) /\ Len(t) = Len(s) + 1
      /\ t[Len(s) + 1] = x /\ t = s \o <<x>> /\ <<x>> \in Seq(A)
  BY LenProperties, AppendProperties, AppendIsConcat
<1>2. SubSeq(t, 1, n) = SubSeq(s, 1, n)
  <2>1. CASE n = 0
    BY <1>1, <2>1, SubSeqEmpty
  <2>2. CASE n \in 1 .. Len(s)
    <3>1. 1 \in 1 .. Len(s)
      BY <1>1, <2>2
    <3> QED BY <1>1, <2>2, <3>1, SubSeqOfConcat1
  <2> QED BY <1>1, <2>1, <2>2
<1>3. SubSeq(t, n + 1, Len(s)) = SubSeq(s, n + 1, Len(s))
  <2>1. CASE n = Len(s)
    BY <1>1, <2>1, SubSeqEmpty
  <2>2. CASE n < Len(s)
    <3>1. n + 1 \in 1 .. Len(s) /\ Len(s) \in 1 .. Len(s)
      BY <1>1, <2>2
    <3> QED BY <1>1, <3>1, SubSeqOfConcat1
  <2> QED BY <1>1, <2>1, <2>2
<1>4. SubSeq(t, n + 1, Len(s) + 1) = SubSeq(t, n + 1, Len(s)) \o <<x>>
  <2>1. n + 1 \in 1 .. Len(t) /\ Len(s) + 1 \in n + 1 .. Len(t) /\ (Len(s) + 1) - 1 = Len(s)
    BY <1>1
  <2> HIDE DEF t
  <2> QED BY <1>1, <2>1, SubSeqRecursiveSecond
<1>5. SubSeq(s, n + 1, Len(s)) \in Seq(A)
  <2>1. \A i \in n + 1 .. Len(s) : s[i] \in A
    BY <1>1, ElementOfSeq
  <2> QED BY <1>1, <2>1, SubSeqProperties
<1> QED BY <1>2, <1>3, <1>4, <1>5, AppendIsConcat

\* A mailbox, split at any place.
LEMMA SplitWhole ==
  ASSUME NEW A, NEW s \in Seq(A), NEW n \in 0 .. Len(s)
  PROVE  SubSeq(s, 1, n) \o SubSeq(s, n + 1, Len(s)) = s
<1>1. Len(s) \in Nat /\ n \in Nat
  BY LenProperties
<1>2. 1 \in 1 .. Len(s) + 1 /\ n \in 1 - 1 .. Len(s) /\ Len(s) \in n .. Len(s)
  BY <1>1
<1>3. SubSeq(s, 1, n) \o SubSeq(s, n + 1, Len(s)) = SubSeq(s, 1, Len(s))
  BY <1>2, ConcatAdjacentSubSeq
<1>4. SubSeq(s, 1, Len(s)) = s
  BY SubSeqFull
<1> QED BY <1>3, <1>4

\* The first element of the second part moves to the first part.
LEMMA SplitNext ==
  ASSUME NEW A, NEW s \in Seq(A), NEW n \in Nat, n < Len(s)
  PROVE  /\ SubSeq(s, n + 1, Len(s)) # <<>>
         /\ Head(SubSeq(s, n + 1, Len(s))) = s[n + 1]
         /\ Tail(SubSeq(s, n + 1, Len(s))) = SubSeq(s, n + 2, Len(s))
         /\ SubSeq(s, 1, n + 1) = Append(SubSeq(s, 1, n), s[n + 1])
<1>1. Len(s) \in Nat
  BY LenProperties
<1>2. /\ n + 1 \in 1 .. Len(s) /\ Len(s) \in n + 1 .. Len(s) /\ (n + 1) + 1 = n + 2
      /\ 1 \in 1 .. Len(s) /\ n + 1 \in 1 .. Len(s) /\ (n + 1) - 1 = n
  BY <1>1
<1>3. \A i \in 1 .. Len(s) : s[i] \in A
  BY ElementOfSeq
<1>4. /\ Head(SubSeq(s, n + 1, Len(s))) = s[n + 1]
      /\ Tail(SubSeq(s, n + 1, Len(s))) = SubSeq(s, (n + 1) + 1, Len(s))
  BY <1>2, HeadTailOfSubSeq
<1>5. SubSeq(s, n + 1, Len(s)) # <<>>
  <2>1. \A i \in n + 1 .. Len(s) : s[i] \in A
    BY <1>1, <1>3
  <2>2. Len(SubSeq(s, n + 1, Len(s))) = Len(s) - (n + 1) + 1
    BY <1>1, <2>1, SubSeqProperties
  <2> DEFINE u == SubSeq(s, n + 1, Len(s))
  <2>3. Len(<<>>) = 0 /\ Len(u) > 0
    BY <1>1, <2>2
  <2> HIDE DEF u
  <2>4. u # <<>>
    BY <2>3
  <2> QED BY <2>4 DEF u
<1>6. SubSeq(s, 1, n + 1) = SubSeq(s, 1, (n + 1) - 1) \o <<s[n + 1]>>
  BY <1>1, <1>2, SubSeqRecursiveSecond
<1>7. SubSeq(s, 1, n) \in Seq(A)
  <2>1. \A i \in 1 .. n : s[i] \in A
    BY <1>1, <1>3
  <2> QED BY <2>1, SubSeqProperties
<1>8. SubSeq(s, 1, n + 1) = Append(SubSeq(s, 1, n), s[n + 1])
  <2>1. SubSeq(s, 1, n) \o <<s[n + 1]>> = Append(SubSeq(s, 1, n), s[n + 1])
    BY <1>2, <1>3, <1>7, AppendIsConcat
  <2> QED BY <1>2, <1>6, <2>1
<1> QED BY <1>2, <1>4, <1>5, <1>8

\* The first part without its last element.
LEMMA SplitDrop ==
  ASSUME NEW A, NEW s \in Seq(A), NEW n \in 1 .. Len(s)
  PROVE  /\ Len(SubSeq(s, 1, n)) = n
         /\ SubSeq(s, 1, n) # <<>>
         /\ SubSeq(SubSeq(s, 1, n), 1, n - 1) = SubSeq(s, 1, n - 1)
<1>1. Len(s) \in Nat /\ n \in Nat
  BY LenProperties
<1>2. \A i \in 1 .. n : s[i] \in A
  BY <1>1, ElementOfSeq
<1>3. Len(SubSeq(s, 1, n)) = n
  BY <1>1, <1>2, SubSeqProperties
<1>4. SubSeq(s, 1, n) # <<>>
  BY <1>3, EmptySeq
<1>5. CASE n = 1
  <2>1. 0 < 1 /\ n - 1 = 0 /\ n - 1 \in Int /\ n - 1 < 1
    BY <1>5
  <2>2. SubSeq(s, 1, n - 1) = <<>>
    BY <2>1, SubSeqEmpty
  <2>3. SubSeq(SubSeq(s, 1, n), 1, n - 1) = <<>>
    BY <2>1, SubSeqEmpty
  <2> QED BY <1>3, <1>4, <2>2, <2>3
<1>6. CASE n # 1
  <2>1. /\ 1 \in 1 .. Len(s) /\ n \in 1 .. Len(s) /\ 1 \in 1 .. n - 1 + 1
        /\ n - 1 \in 1 .. n - 1 + 1 /\ 1 + 1 - 1 = 1 /\ 1 + (n - 1) - 1 = n - 1
    BY <1>1, <1>6
  <2>2. SubSeq(SubSeq(s, 1, n), 1, n - 1) = SubSeq(s, 1 + 1 - 1, 1 + (n - 1) - 1)
    BY <2>1, SubSeqOfSubSeq
  <2> QED BY <1>3, <1>4, <2>1, <2>2
<1> QED BY <1>5, <1>6
=============================================================================
