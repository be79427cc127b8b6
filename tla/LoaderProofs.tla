---------------------------- MODULE LoaderProofs -----------------------------
(***************************************************************************)
(* What loading and linking guarantee, for every set of chunks, modules,   *)
(* imports and libraries.  The inductive invariant says of the three lists *)
(* that they are apart, and of the imports that after a link that          *)
(* succeeded they are what aloader_find returns and that a chunk nobody    *)
(* has linked has none.                                                    *)
(*                                                                         *)
(* Then what the debug server, which has chunks loaded and linked,         *)
(* promises its subscribers, for every number of clients and slots.  The   *)
(* inductive invariant says who uses the slots: the active ones are used   *)
(* by different clients, none of which is away, and a web socket has the   *)
(* mark of a subscriber.                                                   *)
(***************************************************************************)
EXTENDS LoaderProperties, DebugServerProperties, ListsProofs

\* The three lists hold chunks, each at most once, none of them freed.
Apart ==
  /\ pendings \in Seq(Chunks) /\ runnings \in Seq(Chunks) /\ garbages \in Seq(Chunks)
  /\ ListsApart
  /\ freed \subseteq Chunks

\* The imports of every chunk have their slots; a chunk that was never added,
\* and after a link every chunk that waits, has not set one of them.
Slotted == /\ DOMAIN imp = Chunks
           /\ \A c \in Chunks : DOMAIN imp[c] = DOMAIN Imports[c]
Unlinked(c) == \A k \in DOMAIN Imports[c] : imp[c][k] = UNSET
NewOnesUnlinked ==
  /\ \A c \in Chunks \ (Loaded \cup freed) : Unlinked(c)
  /\ outcome = "linked" => \A c \in Range(pendings) : Unlinked(c)

IInv == Apart /\ Slotted /\ NewOnesUnlinked /\ ImportsAgreeWithFind
-----------------------------------------------------------------------------
(***************************************************************************)
(* Lists.                                                                  *)
(***************************************************************************)

\* find_in_list returns the first chunk that provides the function.
LEMMA FirstOfProvides ==
  ASSUME NEW s \in Seq(Chunks), NEW i, Providers(s, i) # {}
  PROVE  \E k \in Providers(s, i) :
           /\ \A j \in Providers(s, i) : k <= j
           /\ FirstOf(s, i) = s[k]
<1> DEFINE k == CHOOSE k \in Providers(s, i) : \A j \in Providers(s, i) : k <= j
<1>1. Len(s) \in Nat /\ Providers(s, i) \subseteq 1 .. Len(s)
  BY LenProperties DEF Providers
<1>2. k \in Providers(s, i) /\ \A j \in Providers(s, i) : k <= j
  BY <1>1, FirstPosition
<1> QED
  BY <1>2 DEF FirstOf

LEMMA FirstOfIsAMember ==
  ASSUME NEW s \in Seq(Chunks), NEW i, Providers(s, i) # {}
  PROVE  FirstOf(s, i) \in Range(s)
<1>1. PICK k \in Providers(s, i) : FirstOf(s, i) = s[k]
  BY FirstOfProvides
<1>2. k \in 1 .. Len(s)
  BY <1>1 DEF Providers
<1> QED
  BY <1>1, <1>2, RangeEquality

\* Whoever is first is the only one with its position: two lists in which the
\* positions of the providers correspond have the same first provider.
LEMMA FirstOfUnique ==
  ASSUME NEW s \in Seq(Chunks), NEW i, NEW k \in Providers(s, i),
         \A j \in Providers(s, i) : k <= j
  PROVE  FirstOf(s, i) = s[k]
<1>1. PICK h \in Providers(s, i) :
        /\ \A j \in Providers(s, i) : h <= j
        /\ FirstOf(s, i) = s[h]
  BY FirstOfProvides
<1>2. h \in 1 .. Len(s) /\ k \in 1 .. Len(s) /\ Len(s) \in Nat
  BY LenProperties DEF Providers
<1>3. h <= k /\ k <= h
  BY <1>1
<1> QED
  BY <1>1, <1>2, <1>3

\* A list from which no provider is taken out keeps its first provider.
LEMMA FilterKeepsFirst ==
  ASSUME NEW s \in Seq(Chunks), NEW S, NEW i, Providers(s, i) # {},
         \A k \in Providers(s, i) : s[k] \in S
  PROVE  /\ Providers(Filter(s, S), i) # {}
         /\ FirstOf(Filter(s, S), i) = FirstOf(s, i)
<1> DEFINE K == Kept(s, S)
           F == Filter(s, S)
           n == Cardinality(K)
<1>1. PICK g \in [1 .. n -> K] :
        /\ F = [j \in 1 .. n |-> s[g[j]]]
        /\ \A j \in 1 .. n : Rank(K, g[j]) = j
  BY FilterIndex
<1>2. Len(s) \in Nat /\ K \in SUBSET (1 .. Len(s))
  BY LenProperties DEF Kept
<1>3. /\ n \in Nat
      /\ \A j \in K : Rank(K, j) \in 1 .. n
      /\ \A j, k \in K : j < k => Rank(K, j) < Rank(K, k)
  BY <1>2, RankBounds
<1>4. F \in Seq(Chunks) /\ Len(F) = n
  <2>1. F \in Seq(Chunks)
    BY FilterProperties
  <2>2. DOMAIN F = 1 .. n
    BY <1>1
  <2> QED
    BY <1>3, <2>1, <2>2, LenProperties
<1>5. PICK h \in Providers(s, i) :
        /\ \A k \in Providers(s, i) : h <= k
        /\ FirstOf(s, i) = s[h]
  BY FirstOfProvides
<1>6. h \in K
  BY <1>5 DEF Providers, Kept
<1> DEFINE m == Rank(K, h)
<1>7. m \in 1 .. n /\ g[m] \in K /\ Rank(K, g[m]) = m
  BY <1>1, <1>3, <1>6
<1>8. g[m] = h
  <2>1. g[m] \in Int /\ h \in Int
    BY <1>2, <1>6, <1>7
  <2>2. ~(g[m] < h) /\ ~(h < g[m])
    BY <1>3, <1>6, <1>7
  <2> QED
    BY <2>1, <2>2
<1> HIDE DEF n, m, F, K
<1>9. F[m] = s[h]
  BY <1>1, <1>7, <1>8
<1>10. m \in Providers(F, i)
  BY <1>4, <1>5, <1>7, <1>9 DEF Providers
<1>11. ASSUME NEW j \in Providers(F, i) PROVE m <= j
  <2>1. j \in 1 .. n /\ ModOf[F[j]] = i.module /\ i.name \in Exports[F[j]]
    BY <1>4 DEF Providers
  <2>2. F[j] = s[g[j]] /\ g[j] \in K /\ g[j] \in 1 .. Len(s) /\ Rank(K, g[j]) = j
    BY <1>1, <1>2, <2>1
  <2>3. g[j] \in Providers(s, i)
    BY <2>1, <2>2 DEF Providers
  <2>4. h <= g[j]
    BY <1>5, <2>3
  <2>5. h = g[j] \/ h < g[j]
    BY <1>2, <1>6, <2>2, <2>4
  <2>6. m = j \/ m < j
    <3>1. CASE h = g[j]
      BY <2>2, <3>1 DEF m
    <3>2. CASE h < g[j]
      <4>1. Rank(K, h) < Rank(K, g[j])
        BY <1>3, <1>6, <2>2, <3>2
      <4> QED
        BY <2>2, <4>1 DEF m
    <3> QED
      BY <2>5, <3>1, <3>2
  <2> QED
    BY <1>3, <1>7, <2>1, <2>6
<1>12. FirstOf(F, i) = F[m]
  BY <1>4, <1>10, <1>11, FirstOfUnique
<1> QED
  BY <1>5, <1>9, <1>10, <1>12 DEF F

\* With the pendings behind the running chunks, and no running chunk of a
\* module that is pending, a lookup finds what it found in the two lists.
LEMMA FoundBehind ==
  ASSUME NEW R \in Seq(Chunks), NEW P \in Seq(Chunks), NEW i,
         \A c \in Range(R), p \in Range(P) : ModOf[c] # ModOf[p]
  PROVE  Resolved(i, <<>>, R \o P) = Resolved(i, P, R)
<1> DEFINE S == R \o P
<1>1. /\ S \in Seq(Chunks)
      /\ Len(R) \in Nat /\ Len(P) \in Nat /\ Len(S) = Len(R) + Len(P)
      /\ \A k \in 1 .. Len(S) : S[k] = IF k <= Len(R) THEN R[k] ELSE P[k - Len(R)]
  BY ConcatProperties, LenProperties
<1>2. Providers(<<>>, i) = {}
  BY EmptySeq DEF Providers
<1>3. CASE Providers(P, i) # {}
  <2>1. PICK k \in Providers(P, i) :
          /\ \A j \in Providers(P, i) : k <= j
          /\ FirstOf(P, i) = P[k]
    BY <1>3, FirstOfProvides
  <2>2. k \in 1 .. Len(P) /\ ModOf[P[k]] = i.module
    BY <2>1 DEF Providers
  <2>3. P[k] \in Range(P)
    BY <2>2, RangeEquality
  <2>4. Len(R) + k \in 1 .. Len(S) /\ S[Len(R) + k] = P[k]
    BY <1>1, <2>2
  <2>5. Len(R) + k \in Providers(S, i)
    BY <2>1, <2>4 DEF Providers
  <2>6. ASSUME NEW j \in Providers(S, i) PROVE Len(R) + k <= j
    <3>1. j \in 1 .. Len(S) /\ ModOf[S[j]] = i.module /\ i.name \in Exports[S[j]]
      BY DEF Providers
    <3>2. CASE j <= Len(R)
      <4>1. j \in 1 .. Len(R) /\ S[j] = R[j]
        BY <1>1, <3>1, <3>2
      <4>2. R[j] \in Range(R)
        BY <4>1, RangeEquality
      <4> QED
        BY <2>2, <2>3, <3>1, <4>1, <4>2
    <3>3. CASE ~(j <= Len(R))
      <4>1. j - Len(R) \in 1 .. Len(P) /\ S[j] = P[j - Len(R)]
        BY <1>1, <3>1, <3>3
      <4>2. j - Len(R) \in Providers(P, i)
        BY <3>1, <4>1 DEF Providers
      <4>3. k <= j - Len(R)
        BY <2>1, <4>2
      <4> QED
        BY <1>1, <2>2, <3>1, <4>3
    <3> QED
      BY <3>2, <3>3
  <2>7. FirstOf(S, i) = S[Len(R) + k]
    BY <1>1, <2>5, <2>6, FirstOfUnique
  <2> QED
    BY <1>2, <1>3, <2>1, <2>4, <2>5, <2>7 DEF Resolved
<1>4. CASE Providers(P, i) = {} /\ Providers(R, i) # {}
  <2>1. PICK k \in Providers(R, i) :
          /\ \A j \in Providers(R, i) : k <= j
          /\ FirstOf(R, i) = R[k]
    BY <1>4, FirstOfProvides
  <2>2. k \in 1 .. Len(R)
    BY <2>1 DEF Providers
  <2>3. k \in 1 .. Len(S) /\ S[k] = R[k]
    BY <1>1, <2>2
  <2>4. k \in Providers(S, i)
    BY <2>1, <2>3 DEF Providers
  <2>5. ASSUME NEW j \in Providers(S, i) PROVE k <= j
    <3>1. j \in 1 .. Len(S) /\ ModOf[S[j]] = i.module /\ i.name \in Exports[S[j]]
      BY DEF Providers
    <3>2. CASE j <= Len(R)
      <4>1. j \in Providers(R, i)
        BY <1>1, <3>1, <3>2 DEF Providers
      <4> QED
        BY <2>1, <4>1
    <3>3. CASE ~(j <= Len(R))
      BY <1>1, <2>2, <3>1, <3>3
    <3> QED
      BY <3>2, <3>3
  <2>6. FirstOf(S, i) = S[k]
    BY <1>1, <2>4, <2>5, FirstOfUnique
  <2> QED
    BY <1>2, <1>4, <2>1, <2>3, <2>4, <2>6 DEF Resolved
<1>5. CASE Providers(P, i) = {} /\ Providers(R, i) = {}
  <2>1. ASSUME NEW j \in Providers(S, i) PROVE FALSE
    <3>1. j \in 1 .. Len(S) /\ ModOf[S[j]] = i.module /\ i.name \in Exports[S[j]]
      BY DEF Providers
    <3>2. CASE j <= Len(R)
      BY <1>1, <1>5, <3>1, <3>2 DEF Providers
    <3>3. CASE ~(j <= Len(R))
      <4>1. j - Len(R) \in 1 .. Len(P) /\ S[j] = P[j - Len(R)]
        BY <1>1, <3>1, <3>3
      <4> QED
        BY <1>5, <3>1, <4>1 DEF Providers
    <3> QED
      BY <3>2, <3>3
  <2> QED
    BY <1>2, <1>5, <2>1 DEF Resolved
<1> QED
  BY <1>3, <1>4, <1>5
-----------------------------------------------------------------------------
(***************************************************************************)
(* What linking does to the lists.                                         *)
(***************************************************************************)

\* The chunks that stay and the ones that are displaced share the running ones.
LEMMA KeptAndOld ==
  ASSUME Apart
  PROVE  /\ Kept_ \in Seq(Chunks) /\ NoDup(Kept_)
         /\ Range(Kept_) = Range(runnings) \ Displaced
         /\ Old \in Seq(Chunks) /\ NoDup(Old)
         /\ Range(Old) = Displaced
         /\ Displaced \subseteq Range(runnings)
<1>1. runnings \in Seq(Chunks) /\ Range(runnings) \subseteq Chunks /\ NoDup(runnings)
  BY DEF Apart, ListsApart
<1>2. Displaced \subseteq Range(runnings)
  BY DEF Displaced
<1>3. /\ Kept_ \in Seq(Chunks) /\ NoDup(Kept_)
      /\ Range(Kept_) = Range(runnings) \cap (Chunks \ Displaced)
  BY <1>1, FilterProperties DEF Kept_
<1>4. /\ Old \in Seq(Chunks) /\ NoDup(Old)
      /\ Range(Old) = Range(runnings) \cap Displaced
  BY <1>1, FilterProperties DEF Old
<1> QED
  BY <1>1, <1>2, <1>3, <1>4

\* No chunk that stays has a module that is pending.
LEMMA KeptModules ==
  ASSUME Apart, NEW c \in Range(Kept_), NEW p \in Range(pendings)
  PROVE  ModOf[c] # ModOf[p]
<1>1. c \in Range(runnings) /\ c \notin Displaced
  BY KeptAndOld
<1> QED
  BY <1>1 DEF Displaced

\* A list without its last element.
LEMMA FrontAndLast ==
  ASSUME NEW s \in Seq(Chunks), NoDup(s), s # <<>>
  PROVE  /\ Front(s) \in Seq(Chunks) /\ NoDup(Front(s))
         /\ <<Last(s)>> \in Seq(Chunks) /\ NoDup(<<Last(s)>>)
         /\ Range(<<Last(s)>>) = {Last(s)}
         /\ Last(s) \in Range(s)
         /\ Range(Front(s)) = Range(s) \ {Last(s)}
<1> DEFINE n == Len(s)
<1>1. n \in Nat /\ n >= 1 /\ s \in [1 .. n -> Chunks]
  BY EmptySeq, LenProperties
<1>2. Range(s) = {s[i] : i \in 1 .. n}
  BY RangeEquality
<1>3. Last(s) = s[n] /\ s[n] \in Range(s) /\ s[n] \in Chunks
  BY <1>1, <1>2 DEF Last
<1>4. /\ Front(s) \in Seq(Chunks) /\ Len(Front(s)) = n - 1
      /\ \A i \in 1 .. n - 1 : Front(s)[i] = s[i]
  <2>1. \A i \in 1 .. n - 1 : s[i] \in Chunks
    BY <1>1
  <2>2. 1 \in Int /\ n - 1 \in Int
    BY <1>1
  <2>3. /\ SubSeq(s, 1, n - 1) \in Seq(Chunks)
        /\ Len(SubSeq(s, 1, n - 1)) = IF 1 <= n - 1 THEN (n - 1) - 1 + 1 ELSE 0
        /\ \A i \in 1 .. (n - 1) - 1 + 1 : SubSeq(s, 1, n - 1)[i] = s[1 + i - 1]
    BY <2>1, <2>2, SubSeqProperties
  <2> QED
    BY <1>1, <2>3 DEF Front
<1>5. Range(Front(s)) = {s[i] : i \in 1 .. n - 1}
  <2>1. Range(Front(s)) = {Front(s)[i] : i \in 1 .. n - 1}
    BY <1>4, RangeEquality
  <2> QED
    BY <1>4, <2>1
<1>6. \A i, j \in 1 .. n : s[i] = s[j] => i = j
  BY DEF NoDup
<1>7. NoDup(Front(s))
  BY <1>1, <1>4, <1>6 DEF NoDup
<1>8. Range(Front(s)) = Range(s) \ {s[n]}
  BY <1>1, <1>2, <1>5, <1>6
<1>9. /\ <<Last(s)>> \in Seq(Chunks) /\ NoDup(<<Last(s)>>)
      /\ Range(<<Last(s)>>) = {Last(s)}
  <2>1. <<Last(s)>> \in Seq(Chunks) /\ Len(<<Last(s)>>) = 1 /\ <<Last(s)>>[1] = Last(s)
    BY <1>3
  <2>2. Range(<<Last(s)>>) = {<<Last(s)>>[i] : i \in 1 .. 1}
    BY <2>1, RangeEquality
  <2> QED
    BY <2>1, <2>2 DEF NoDup
<1> QED
  BY <1>3, <1>4, <1>7, <1>8, <1>9

LEMMA EmptyRange == Range(<<>>) = {} /\ NoDup(<<>>) /\ <<>> \in Seq(Chunks)
<1>1. <<>> \in Seq(Chunks) /\ Len(<<>>) = 0
  OBVIOUS
<1>2. Range(<<>>) = {<<>>[i] : i \in 1 .. 0}
  BY <1>1, RangeEquality
<1> QED
  BY <1>1, <1>2 DEF NoDup

\* "rollback garbages" moves chunks between two lists and loses none.
LEMMA RollbackLists ==
  ASSUME Apart, rollback_garbages
  PROVE  /\ runnings' \in Seq(Chunks) /\ NoDup(runnings')
         /\ garbages' \in Seq(Chunks) /\ NoDup(garbages')
         /\ Range(runnings') \cap Range(garbages') = {}
         /\ Range(runnings') \cup Range(garbages') = Range(runnings) \cup Range(garbages)
<1> USE KeptAndOld
<1>1. garbages \in Seq(Chunks) /\ NoDup(garbages) /\ Range(runnings) \cap Range(garbages) = {}
  BY DEF Apart, ListsApart
<1>2. CASE garbages = <<>>
  <2>1. runnings' = Kept_ /\ garbages' = Old
    BY <1>2 DEF rollback_garbages
  <2>2. Range(garbages) = {}
    BY <1>2, EmptyRange
  <2> QED
    BY <2>1, <2>2
<1>3. CASE garbages # <<>>
  <2> DEFINE L == <<Last(garbages)>>
  <2>1. runnings' = (Kept_ \o L) \o Old /\ garbages' = Front(garbages)
    BY <1>3 DEF rollback_garbages
  <2>2. /\ Front(garbages) \in Seq(Chunks) /\ NoDup(Front(garbages))
        /\ L \in Seq(Chunks) /\ NoDup(L) /\ Range(L) = {Last(garbages)}
        /\ Last(garbages) \in Range(garbages)
        /\ Range(Front(garbages)) = Range(garbages) \ {Last(garbages)}
    BY <1>1, <1>3, FrontAndLast
  <2> HIDE DEF L
  <2>3. Range(Kept_) \cap Range(L) = {}
    BY <1>1, <2>2
  <2>4. /\ Kept_ \o L \in Seq(Chunks) /\ NoDup(Kept_ \o L)
        /\ Range(Kept_ \o L) = Range(Kept_) \cup Range(L)
    BY <2>2, <2>3, ConcatNoDup
  <2>5. Range(Kept_ \o L) \cap Range(Old) = {}
    BY <1>1, <2>2, <2>4
  <2>6. /\ (Kept_ \o L) \o Old \in Seq(Chunks) /\ NoDup((Kept_ \o L) \o Old)
        /\ Range((Kept_ \o L) \o Old) = Range(Kept_ \o L) \cup Range(Old)
    <3> DEFINE T == Kept_ \o L
    <3>1. T \in Seq(Chunks) /\ NoDup(T) /\ Range(T) \cap Range(Old) = {}
      BY <2>4, <2>5
    <3>2. Old \in Seq(Chunks) /\ NoDup(Old)
      OBVIOUS
    <3> HIDE DEF T
    <3>3. /\ T \o Old \in Seq(Chunks) /\ NoDup(T \o Old)
          /\ Range(T \o Old) = Range(T) \cup Range(Old)
      BY ONLY <3>1, <3>2, ConcatNoDup
    <3> QED
      BY <3>3 DEF T
  <2> QED
    BY <1>1, <2>1, <2>2, <2>4, <2>6
<1> QED
  BY <1>2, <1>3

\* Without the rollback, and after success, the displaced ones are garbages.
LEMMA GarbagesGrow ==
  ASSUME Apart
  PROVE  /\ garbages \o Old \in Seq(Chunks) /\ NoDup(garbages \o Old)
         /\ Range(garbages \o Old) = Range(garbages) \cup Displaced
<1> USE KeptAndOld
<1>1. garbages \in Seq(Chunks) /\ NoDup(garbages) /\ Range(runnings) \cap Range(garbages) = {}
  BY DEF Apart, ListsApart
<1> QED
  BY <1>1, ConcatNoDup
-----------------------------------------------------------------------------
(***************************************************************************)
(* The lists stay apart: one lemma per kind of step.                       *)
(***************************************************************************)
LEMMA ApartInit == Init => Apart
<1> SUFFICES ASSUME Init PROVE Apart
  OBVIOUS
<1>1. pendings = <<>> /\ runnings = <<>> /\ garbages = <<>> /\ freed = {}
  BY DEF Init
<1> QED
  BY <1>1, EmptyRange DEF Apart, ListsApart, Loaded

LEMMA ApartAdd ==
  ASSUME Apart, NEW c \in Chunks, AddChunk(c)
  PROVE  /\ Apart'
         /\ Range(pendings') = Range(pendings) \cup {c}
<1>1. /\ c \notin Loaded \cup freed
      /\ pendings' = Append(pendings, c)
      /\ UNCHANGED <<runnings, garbages, freed>>
  BY DEF AddChunk
<1>2. pendings \in Seq(Chunks) /\ NoDup(pendings) /\ c \notin Range(pendings)
  BY <1>1 DEF Apart, ListsApart, Loaded
<1>3. /\ pendings' \in Seq(Chunks) /\ NoDup(pendings')
      /\ Range(pendings') = Range(pendings) \cup {c}
  BY <1>1, <1>2, AppendNoDup
<1> QED
  BY <1>1, <1>3 DEF Apart, ListsApart, Loaded

LEMMA ApartFailure ==
  ASSUME Apart, NEW safe \in BOOLEAN, ListsAfterFailure(safe)
  PROVE  /\ Apart'
         /\ Loaded' \cup freed' = Loaded \cup freed
         /\ outcome' # "linked"
<1> USE KeptAndOld, GarbagesGrow
<1>1. CASE safe
  <2>1. /\ rollback_garbages /\ pendings' = <<>>
        /\ freed' = freed \cup Range(pendings) /\ outcome' = "rolledback"
    BY <1>1 DEF ListsAfterFailure
  <2>2. /\ runnings' \in Seq(Chunks) /\ NoDup(runnings')
        /\ garbages' \in Seq(Chunks) /\ NoDup(garbages')
        /\ Range(runnings') \cap Range(garbages') = {}
        /\ Range(runnings') \cup Range(garbages') = Range(runnings) \cup Range(garbages)
    BY <2>1, RollbackLists
  <2>3. Range(pendings') = {} /\ NoDup(pendings') /\ pendings' \in Seq(Chunks)
    BY <2>1, EmptyRange
  <2> QED
    BY <2>1, <2>2, <2>3 DEF Apart, ListsApart, Loaded
<1>2. CASE ~safe
  <2>1. /\ runnings' = Kept_ /\ garbages' = garbages \o Old
        /\ UNCHANGED <<pendings, freed>> /\ outcome' = "failed"
    BY <1>2 DEF ListsAfterFailure
  <2> QED
    BY <2>1 DEF Apart, ListsApart, Loaded
<1> QED
  BY <1>1, <1>2

LEMMA ApartSuccess ==
  ASSUME Apart, LinkSucceeds
  PROVE  /\ Apart'
         /\ Range(pendings') = {}
         /\ Range(runnings') = Range(Kept_) \cup Range(pendings)
         /\ Range(garbages') = Range(garbages) \cup Displaced
         /\ Loaded' \cup freed' = Loaded \cup freed
<1> USE KeptAndOld, GarbagesGrow
<1>1. /\ runnings' = Kept_ \o pendings /\ garbages' = garbages \o Old
      /\ pendings' = <<>> /\ freed' = freed
  BY DEF LinkSucceeds
<1>2. pendings \in Seq(Chunks) /\ NoDup(pendings) /\ Range(Kept_) \cap Range(pendings) = {}
  BY DEF Apart, ListsApart
<1>3. /\ runnings' \in Seq(Chunks) /\ NoDup(runnings')
      /\ Range(runnings') = Range(Kept_) \cup Range(pendings)
  BY <1>1, <1>2, ConcatNoDup
<1>4. Range(pendings') = {} /\ NoDup(pendings') /\ pendings' \in Seq(Chunks)
  BY <1>1, EmptyRange
<1> QED
  BY <1>1, <1>3, <1>4 DEF Apart, ListsApart, Loaded

LEMMA ApartSweep ==
  ASSUME Apart, Sweep
  PROVE  /\ Apart'
         /\ Range(garbages') = Range(garbages) \cap retained
         /\ Loaded' \cup freed' = Loaded \cup freed
<1>1. /\ garbages' = Filter(garbages, retained)
      /\ freed' = freed \cup (Range(garbages) \ retained)
      /\ UNCHANGED <<pendings, runnings>>
  BY DEF Sweep
<1>2. garbages \in Seq(Chunks) /\ NoDup(garbages)
  BY DEF Apart, ListsApart
<1>3. /\ garbages' \in Seq(Chunks) /\ NoDup(garbages')
      /\ Range(garbages') = Range(garbages) \cap retained
  BY <1>1, <1>2, FilterProperties
<1> QED
  BY <1>1, <1>3 DEF Apart, ListsApart, Loaded

LEMMA ApartCleanup ==
  ASSUME Apart, Cleanup
  PROVE  /\ Apart'
         /\ Range(pendings') = {}
         /\ Loaded' \cup freed' = Loaded \cup freed
<1>1. /\ pendings' = <<>> /\ runnings' = <<>> /\ garbages' = <<>>
      /\ freed' = freed \cup Loaded
  BY DEF Cleanup
<1> QED
  BY <1>1, EmptyRange DEF Apart, ListsApart, Loaded
-----------------------------------------------------------------------------
(***************************************************************************)
(* The imports.                                                            *)
(***************************************************************************)

\* A chunk of which every import can be resolved has all of them resolved.
LEMMA ResolveComplete ==
  ASSUME NEW c \in Chunks, NEW P, NEW R, Complete(c, P, R),
         NEW k \in DOMAIN Imports[c]
  PROVE  resolve(c, P, R)[k] = Resolved(Imports[c][k], P, R)
<1>1. DOMAIN Imports[c] = 1 .. Len(Imports[c]) /\ Len(Imports[c]) \in Nat
  BY LoaderAssumption
<1>2. \A j \in 1 .. k : Resolvable(Imports[c][j], P, R)
  BY <1>1 DEF Complete
<1> QED
  BY <1>2 DEF resolve

\* After a link that succeeds, every import of every chunk that is running or
\* garbage was resolved in the pendings and the chunks that stay.
LEMMA RelinkedIsResolved ==
  ASSUME Apart, LinkSucceeds,
         NEW c \in Range(runnings') \cup Range(garbages'),
         NEW k \in DOMAIN Imports[c]
  PROVE  imp'[c][k] = Resolved(Imports[c][k], pendings, Kept_)
<1>1. c \in Chunks /\ imp'[c] = Relinked(c)
  <2>1. c \in Chunks
    BY ApartSuccess DEF Apart, ListsApart
  <2> QED
    BY <2>1 DEF LinkSucceeds
<1>2. CASE c \in Range(pendings) \cup Range(Kept_)
  <2>1. Complete(c, pendings, Kept_)
    BY <1>2 DEF LinkSucceeds, AllComplete
  <2>2. imp'[c] = resolve(c, pendings, Kept_)
    BY <1>1, <1>2 DEF Relinked
  <2> QED
    BY <1>1, <2>1, <2>2, ResolveComplete
<1>3. CASE c \notin Range(pendings) \cup Range(Kept_)
  <2>1. c \in Range(garbages) \cup Displaced
    BY <1>3, ApartSuccess
  <2>2. imp'[c] = resolve_as_nil(c, pendings, Kept_)
    BY <1>1, <1>3, <2>1 DEF Relinked
  <2> QED
    BY <2>2 DEF resolve_as_nil
<1> QED
  BY <1>2, <1>3

\* ... which is where aloader_find looks afterwards.
LEMMA AgreeAfterLink ==
  ASSUME Apart, LinkSucceeds
  PROVE  ImportsAgreeWithFind'
<1>1. /\ pendings \in Seq(Chunks) /\ Kept_ \in Seq(Chunks)
      /\ \A c \in Range(Kept_), p \in Range(pendings) : ModOf[c] # ModOf[p]
  BY KeptAndOld, KeptModules DEF Apart
<1>2. runnings' = Kept_ \o pendings /\ libs' = libs
  BY DEF LinkSucceeds
<1>3. ASSUME NEW i PROVE Found(i)' = Resolved(i, pendings, Kept_)
  <2>1. Resolved(i, <<>>, Kept_ \o pendings) = Resolved(i, pendings, Kept_)
    BY <1>1, FoundBehind
  <2>2. Found(i)' = Resolved(i, <<>>, Kept_ \o pendings)
    BY <1>2 DEF Found, Resolved, InLibs, FirstOf, Providers
  <2> QED
    BY <2>1, <2>2
<1> QED
  BY <1>3, RelinkedIsResolved DEF ImportsAgreeWithFind

\* What a lookup returns is running, or no chunk.
LEMMA FoundIsRunning ==
  ASSUME Apart, NEW i
  PROVE  Found(i) \in Range(runnings) \cup {NIL, NATIVE}
<1>1. Providers(<<>>, i) = {}
  BY EmptySeq DEF Providers
<1>2. runnings \in Seq(Chunks)
  BY DEF Apart
<1> QED
  BY <1>1, <1>2, FirstOfIsAMember DEF Found, Resolved

\* A step that changes neither libraries nor running chunks nor imports, and
\* adds no garbage, keeps the agreement.
LEMMA AgreeKept ==
  ASSUME ImportsAgreeWithFind, UNCHANGED <<libs, runnings, imp, outcome>>,
         Range(garbages') \subseteq Range(garbages)
  PROVE  ImportsAgreeWithFind'
<1>1. ASSUME NEW i PROVE Found(i)' = Found(i)
  BY DEF Found, Resolved, InLibs, FirstOf, Providers
<1> QED
  BY <1>1 DEF ImportsAgreeWithFind

\* Chunks that a link does not know keep their imports.
LEMMA UnknownKept ==
  ASSUME Apart, Slotted, NEW safe \in BOOLEAN, Link(safe)
  PROVE  /\ Slotted'
         /\ \A c \in Chunks \ Loaded : imp'[c] = imp[c]
<1>1. /\ Range(Kept_) \subseteq Range(runnings) /\ Displaced \subseteq Range(runnings)
      /\ pendings \in Seq(Chunks) /\ Kept_ \in Seq(Chunks)
  BY KeptAndOld DEF Apart
<1>2. ASSUME NEW s \in Seq(Chunks), NEW P, NEW R
      PROVE  Visited(s, P, R) \subseteq Range(s)
  BY RangeEquality DEF Visited
<1>3. CASE LinkFailsOnPending(safe)
  <2>1. imp' = [c \in Chunks |->
          IF c \in Visited(pendings, pendings, Kept_)
          THEN resolve(c, pendings, Kept_) ELSE imp[c]]
    BY <1>3 DEF LinkFailsOnPending
  <2>2. Visited(pendings, pendings, Kept_) \subseteq Range(pendings)
    BY <1>1, <1>2
  <2> QED
    BY <2>1, <2>2 DEF Slotted, resolve, Loaded
<1>4. CASE LinkFailsOnRunning(safe)
  <2>1. imp' = [c \in Chunks |->
          IF c \in Range(pendings) THEN resolve(c, pendings, Kept_)
          ELSE IF c \notin Range(Kept_) THEN imp[c]
          ELSE IF safe THEN rollback_imports(c)
          ELSE IF c \in Visited(Kept_, pendings, Kept_)
          THEN resolve(c, pendings, Kept_) ELSE imp[c]]
    BY <1>4 DEF LinkFailsOnRunning
  <2> QED
    BY <1>1, <2>1 DEF Slotted, resolve, rollback_imports, Loaded
<1>5. CASE LinkSucceeds
  <2>1. imp' = [c \in Chunks |-> Relinked(c)]
    BY <1>5 DEF LinkSucceeds
  <2> QED
    BY <1>1, <2>1 DEF Slotted, Relinked, resolve, resolve_as_nil, Loaded
<1> QED
  BY <1>3, <1>4, <1>5 DEF Link
-----------------------------------------------------------------------------
(***************************************************************************)
(* The invariant.                                                          *)
(***************************************************************************)
LEMMA InvInit == Init => IInv
<1> SUFFICES ASSUME Init PROVE IInv
  OBVIOUS
<1>1. Apart
  BY ApartInit
<1>2. Slotted /\ NewOnesUnlinked
  <2>1. imp = [c \in Chunks |-> [k \in DOMAIN Imports[c] |-> UNSET]] /\ outcome = "none"
    BY DEF Init
  <2> QED
    BY <2>1 DEF Slotted, NewOnesUnlinked, Unlinked
<1>3. ImportsAgreeWithFind
  BY DEF Init, ImportsAgreeWithFind
<1> QED
  BY <1>1, <1>2, <1>3 DEF IInv

LEMMA InvNext == IInv /\ [Next]_vars => IInv'
<1> SUFFICES ASSUME IInv, [Next]_vars PROVE IInv'
  OBVIOUS
<1> USE DEF IInv
<1>1. CASE UNCHANGED vars
  <2>1. UNCHANGED <<libs, pendings, runnings, garbages, imp, retained, freed, outcome>>
    BY <1>1 DEF vars, lists
  <2>2. Apart' /\ Slotted' /\ NewOnesUnlinked'
    BY <2>1 DEF Apart, ListsApart, Slotted, NewOnesUnlinked, Unlinked, Loaded
  <2> QED
    BY <2>1, <2>2, AgreeKept
<1>2. ASSUME NEW c \in Chunks, AddChunk(c) PROVE IInv'
  <2>1. /\ UNCHANGED <<libs, runnings, garbages, imp, freed, outcome>>
        /\ c \in Chunks \ (Loaded \cup freed)
    BY <1>2 DEF AddChunk
  <2>2. Apart' /\ Range(pendings') = Range(pendings) \cup {c}
    BY <1>2, ApartAdd
  <2>3. Slotted' /\ NewOnesUnlinked'
    BY <2>1, <2>2 DEF Slotted, NewOnesUnlinked, Unlinked, Loaded
  <2> QED
    BY <2>1, <2>2, <2>3, AgreeKept
<1>3. ASSUME NEW l \in Libs, AddLib(l) PROVE IInv'
  <2>1. /\ UNCHANGED <<pendings, runnings, garbages, imp, retained, freed>>
        /\ outcome' = "none"
    BY <1>3 DEF AddLib, lists
  <2> QED
    BY <2>1 DEF Apart, ListsApart, Slotted, NewOnesUnlinked, Unlinked, Loaded,
                ImportsAgreeWithFind
<1>4. ASSUME NEW c \in Chunks, Retain(c) PROVE IInv'
  <2>1. UNCHANGED <<libs, pendings, runnings, garbages, imp, freed, outcome>>
    BY <1>4 DEF Retain, lists
  <2>2. Apart' /\ Slotted' /\ NewOnesUnlinked'
    BY <2>1 DEF Apart, ListsApart, Slotted, NewOnesUnlinked, Unlinked, Loaded
  <2> QED
    BY <2>1, <2>2, AgreeKept
<1>5. ASSUME NEW safe \in BOOLEAN, Link(safe) PROVE IInv'
  <2>1. Slotted' /\ \A c \in Chunks \ Loaded : imp'[c] = imp[c]
    BY <1>5, UnknownKept
  <2>2. CASE LinkSucceeds
    <3>1. /\ Apart' /\ Range(pendings') = {}
          /\ Loaded' \cup freed' = Loaded \cup freed
      BY <2>2, ApartSuccess
    <3>2. NewOnesUnlinked'
      BY <2>1, <3>1 DEF NewOnesUnlinked, Unlinked
    <3> QED
      BY <2>1, <2>2, <3>1, <3>2, AgreeAfterLink
  <2>3. CASE LinkFailsOnPending(safe) \/ LinkFailsOnRunning(safe)
    <3>1. ListsAfterFailure(safe)
      BY <2>3 DEF LinkFailsOnPending, LinkFailsOnRunning
    <3>2. /\ Apart' /\ Loaded' \cup freed' = Loaded \cup freed
          /\ outcome' # "linked"
      BY <3>1, ApartFailure
    <3>3. NewOnesUnlinked' /\ ImportsAgreeWithFind'
      BY <2>1, <3>2 DEF NewOnesUnlinked, Unlinked, ImportsAgreeWithFind
    <3> QED
      BY <2>1, <3>2, <3>3
  <2> QED
    BY <1>5, <2>2, <2>3 DEF Link
<1>6. CASE Sweep
  <2>1. UNCHANGED <<libs, pendings, runnings, imp, outcome>>
    BY <1>6 DEF Sweep
  <2>2. /\ Apart' /\ Range(garbages') = Range(garbages) \cap retained
        /\ Loaded' \cup freed' = Loaded \cup freed
    BY <1>6, ApartSweep
  <2>3. Slotted' /\ NewOnesUnlinked'
    BY <2>1, <2>2 DEF Slotted, NewOnesUnlinked, Unlinked
  <2> QED
    BY <2>1, <2>2, <2>3, AgreeKept
<1>7. CASE Cleanup
  <2>1. imp' = imp /\ outcome' = "none"
    BY <1>7 DEF Cleanup
  <2>2. Apart' /\ Loaded' \cup freed' = Loaded \cup freed
    BY <1>7, ApartCleanup
  <2> QED
    BY <2>1, <2>2 DEF Slotted, NewOnesUnlinked, Unlinked, ImportsAgreeWithFind
<1> QED
  BY <1>1, <1>2, <1>3, <1>4, <1>5, <1>6, <1>7 DEF Next

\* The inductive invariant holds in every reachable state.
THEOREM InvHolds == Spec => []IInv
BY InvInit, InvNext, PTL DEF Spec

\* Each loaded chunk is linked into exactly one of the lists, once, whatever
\* links succeeded or failed, and its memory is not released.
THEOREM ListsAreApart == Spec => []ListsApart
<1>1. IInv => ListsApart
  BY DEF IInv, Apart
<1> QED
  BY <1>1, InvHolds, PTL

\* After a link that succeeded, imports and lookups agree (aloader_link,
\* aloader_find), for every program.
THEOREM ImportsAgree == Spec => []ImportsAgreeWithFind
<1>1. IInv => ImportsAgreeWithFind
  BY DEF IInv
<1> QED
  BY <1>1, InvHolds, PTL

\* After a link that succeeded no loaded chunk imports from a freed one,
\* whatever was swept since (aloader_sweep), for every program.
THEOREM FreedIsUnreachable == Spec => []NothingFreedIsReachable
<1>1. IInv => NothingFreedIsReachable
  <2> SUFFICES ASSUME IInv PROVE NothingFreedIsReachable
    OBVIOUS
  <2> SUFFICES ASSUME outcome = "linked", NEW c \in Loaded,
                      NEW k \in DOMAIN Imports[c]
               PROVE  imp[c][k] \notin freed
    <3>1. \A c \in Loaded : DOMAIN imp[c] = DOMAIN Imports[c]
      BY DEF IInv, Apart, ListsApart, Slotted, Loaded
    <3> QED
      BY <3>1 DEF NothingFreedIsReachable, Range
  <2>1. freed \cap {NIL, NATIVE, UNSET} = {} /\ freed \cap Range(runnings) = {}
    BY LoaderAssumption DEF IInv, Apart, ListsApart, Loaded
  <2>2. CASE c \in Range(pendings)
    BY <2>1, <2>2 DEF IInv, NewOnesUnlinked, Unlinked
  <2>3. CASE c \in Range(runnings) \cup Range(garbages)
    <3>1. imp[c][k] = Found(Imports[c][k])
      BY <2>3 DEF IInv, ImportsAgreeWithFind
    <3>2. Found(Imports[c][k]) \in Range(runnings) \cup {NIL, NATIVE}
      BY FoundIsRunning DEF IInv
    <3> QED
      BY <2>1, <3>1, <3>2
  <2> QED
    BY <2>2, <2>3 DEF Loaded
<1> QED
  BY <1>1, InvHolds, PTL

\* A link that succeeds does not take away what was found before, of no module
\* but the ones that come in: the loops of aloader_link over the running chunks
\* keep their order.
THEOREM UntouchedModulesStay == Spec => LinkKeepsUntouchedModules
<1>1. ASSUME IInv, LinkSucceeds, NEW c \in Range(runnings), NEW n \in Exports[c],
             \A p \in Range(pendings) : ModOf[p] # ModOf[c]
      PROVE  LET i == [module |-> ModOf[c], name |-> n] IN Found(i)' = Found(i)
  <2> DEFINE i == [module |-> ModOf[c], name |-> n]
  <2>1. /\ pendings \in Seq(Chunks) /\ runnings \in Seq(Chunks) /\ Kept_ \in Seq(Chunks)
        /\ \A k \in Range(Kept_), p \in Range(pendings) : ModOf[k] # ModOf[p]
    BY <1>1, KeptAndOld, KeptModules DEF IInv, Apart
  <2>2. Providers(pendings, i) = {}
    BY <1>1, <2>1, RangeEquality DEF Providers
  <2>3. Providers(runnings, i) # {}
    <3>1. PICK k \in 1 .. Len(runnings) : c = runnings[k]
      BY <2>1, RangeEquality
    <3> QED
      BY <3>1 DEF Providers
  <2>4. \A k \in Providers(runnings, i) : runnings[k] \in Chunks \ Displaced
    <3> SUFFICES ASSUME NEW k \in Providers(runnings, i)
                 PROVE  runnings[k] \in Chunks \ Displaced
      OBVIOUS
    <3>1. k \in 1 .. Len(runnings) /\ ModOf[runnings[k]] = ModOf[c]
      BY DEF Providers
    <3>2. runnings[k] \in Chunks
      BY <2>1, <3>1, ElementOfSeq
    <3> QED
      BY <1>1, <3>1, <3>2 DEF Displaced
  <2>5. /\ Providers(Kept_, i) # {}
        /\ FirstOf(Kept_, i) = FirstOf(runnings, i)
    BY <2>1, <2>3, <2>4, FilterKeepsFirst DEF Kept_
  <2>6. Resolved(i, <<>>, Kept_ \o pendings) = Resolved(i, pendings, Kept_)
    BY <2>1, FoundBehind
  <2>7. Found(i)' = Resolved(i, <<>>, Kept_ \o pendings)
    BY <1>1 DEF LinkSucceeds, Found, Resolved, InLibs, FirstOf, Providers
  <2>8. Providers(<<>>, i) = {}
    BY EmptySeq DEF Providers
  <2> HIDE DEF i
  <2>9. Found(i)' = Found(i)
    BY <2>2, <2>3, <2>5, <2>6, <2>7, <2>8 DEF Found, Resolved
  <2> QED
    BY <2>9 DEF i
<1>2. IInv /\ [Next]_vars =>
        [LinkSucceeds =>
           \A c \in Range(runnings) : \A n \in Exports[c] :
             LET i == [module |-> ModOf[c], name |-> n]
             IN  (\A p \in Range(pendings) : ModOf[p] # ModOf[c])
                   => Found(i)' = Found(i)]_vars
  BY <1>1
<1> QED
  BY <1>2, InvHolds, PTL DEF Spec, LinkKeepsUntouchedModules
-----------------------------------------------------------------------------
(***************************************************************************)
(* Types.                                                                  *)
(***************************************************************************)

\* The set S has the concatenation of any two of its members.
Joinable(S) == \A a, b \in S : a \o b \in S

\* Some function gives, for each place, what the first sequences make together.
JoinsWithin(N, S, ss) ==
  \E f \in [1 .. N -> S] :
    \A i \in 1 .. N : f[i] = IF i = 1 THEN ss[i] ELSE f[i - 1] \o ss[i]

\* A recursive function over 1 .. N has the values that its rule gives.
LEMMA Joined ==
  ASSUME NEW N \in Nat \ {0}, NEW S, NEW ss \in [1 .. N -> S], Joinable(S)
  PROVE  JoinsWithin(N, S, ss)
<1> DEFINE Rule(f, i) == f[i] = IF i = 1 THEN ss[i] ELSE f[i - 1] \o ss[i]
           UpTo(m) == {f \in [1 .. m -> S] : \A i \in 1 .. m : Rule(f, i)}
           Failed == {m \in 1 .. N : UpTo(m) = {}}
<1>1. UpTo(1) # {}
  <2> DEFINE f == [i \in 1 .. 1 |-> ss[1]]
  <2>1. f \in [1 .. 1 -> S] /\ \A i \in 1 .. 1 : Rule(f, i)
    OBVIOUS
  <2> HIDE DEF f, Rule
  <2> QED BY <2>1
<1>2. ASSUME NEW m \in 1 .. N, m # 1, UpTo(m - 1) # {} PROVE UpTo(m) # {}
  <2>1. PICK f \in [1 .. m - 1 -> S] : \A i \in 1 .. m - 1 : Rule(f, i)
    BY <1>2
  <2> DEFINE g == [i \in 1 .. m |-> IF i = m THEN f[m - 1] \o ss[m] ELSE f[i]]
  <2>2. m \in Nat /\ m - 1 \in 1 .. m - 1 /\ ss[m] \in S
    BY <1>2
  <2>3. f[m - 1] \o ss[m] \in S
    BY <2>1, <2>2 DEF Joinable
  <2>4. g \in [1 .. m -> S]
    BY <2>1, <2>2, <2>3
  <2>5. ASSUME NEW i \in 1 .. m PROVE Rule(g, i)
    <3>1. CASE i = m
      <4>1. g[m] = f[m - 1] \o ss[m] /\ g[m - 1] = f[m - 1]
        BY <2>2
      <4> QED BY <1>2, <3>1, <4>1
    <3>2. CASE i # m
      <4>1. i \in 1 .. m - 1 /\ (i # 1 => i - 1 \in 1 .. m - 1)
        BY <2>2, <3>2
      <4>2. g[i] = f[i]
        BY <3>2
      <4>3. i # 1 => g[i - 1] = f[i - 1]
        <5>1. i # 1 => i - 1 \in 1 .. m /\ i - 1 # m
          BY <2>2, <4>1
        <5> QED BY <5>1
      <4>4. Rule(f, i)
        <5> HIDE DEF Rule
        <5> QED BY <2>1, <4>1
      <4> HIDE DEF g
      <4> QED BY <4>2, <4>3, <4>4
    <3> QED BY <3>1, <3>2
  <2> HIDE DEF g, Rule
  <2> QED BY <2>4, <2>5
<1>3. Failed = {}
  <2> SUFFICES ASSUME Failed # {} PROVE FALSE
    OBVIOUS
  <2> HIDE DEF UpTo
  <2>1. PICK m \in Failed : \A y \in Failed : m <= y
    BY Least, Failed \subseteq Nat
  <2>2. m \in 1 .. N /\ m # 1 /\ UpTo(m) = {}
    BY <1>1, <2>1
  <2>3. m - 1 \in 1 .. N /\ m - 1 \notin Failed
    BY <2>1, <2>2
  <2> QED BY <1>2, <2>2, <2>3
<1>4. PICK f \in [1 .. N -> S] : \A i \in 1 .. N : Rule(f, i)
  <2>1. UpTo(N) # {}
    <3> HIDE DEF UpTo
    <3> QED BY <1>3
  <2> QED BY <2>1
<1> QED BY <1>4 DEF JoinsWithin

\* The backup is a sequence of imports that reaches as far as those of every
\* chunk in it.
LEMMA FlattenIs ==
  ASSUME NEW T, NEW ss \in Seq(Seq(T)), Len(ss) # 0
  PROVE  /\ FlattenSeq(ss) \in Seq(T)
         /\ \A j \in 1 .. Len(ss) : Len(ss[j]) <= Len(FlattenSeq(ss))
<1> DEFINE N == Len(ss)
           G == CHOOSE g : g = [i \in 1 .. N |-> IF i = 1 THEN ss[i] ELSE g[i - 1] \o ss[i]]
           n(j) == Len(ss[j])
           size(j) == Len(G[j])
           Fails == {m \in 1 .. N : \E j \in 1 .. m : ~(n(j) <= size(m))}
<1>1. N \in Nat \ {0} /\ ss \in [1 .. N -> Seq(T)]
  OBVIOUS
<1>2. FlattenSeq(ss) = G[N]
  BY <1>1 DEF FlattenSeq
<1> HIDE DEF N
<1>3. \A a, b \in Seq(T) : a \o b \in Seq(T)
  BY ConcatProperties
<1>4. G = [i \in 1 .. N |-> IF i = 1 THEN ss[i] ELSE G[i - 1] \o ss[i]]
  <2> DEFINE S == Seq(T)
  <2>1. ss \in [1 .. N -> S] /\ Joinable(S) /\ N \in Nat \ {0}
    BY <1>1, <1>3 DEF Joinable
  <2> HIDE DEF S, G, n, size, Fails
  <2>2. JoinsWithin(N, S, ss)
    BY <2>1, Joined, Zenon
  <2>3. PICK f \in [1 .. N -> S] :
          \A i \in 1 .. N : f[i] = IF i = 1 THEN ss[i] ELSE f[i - 1] \o ss[i]
    BY <2>2 DEF JoinsWithin
  <2>4. f = [i \in 1 .. N |-> IF i = 1 THEN ss[i] ELSE f[i - 1] \o ss[i]]
    BY <2>3
  <2> QED BY <2>4, Zenon DEF G
<1> HIDE DEF G
<1>5. /\ G \in [1 .. N -> Seq(T)] /\ G[1] = ss[1]
      /\ \A i \in 1 .. N : i # 1 => G[i] = G[i - 1] \o ss[i]
  <2> DEFINE Others == {m \in 1 .. N : G[m] \notin Seq(T)}
  <2>1. G[1] = ss[1] /\ 1 \in 1 .. N
    BY <1>1, <1>4
  <2>2. \A i \in 1 .. N : i # 1 => G[i] = G[i - 1] \o ss[i]
    BY <1>4
  <2>3. \A i \in 1 .. N : ss[i] \in Seq(T)
    BY <1>1
  <2>4. Others = {}
    <3> SUFFICES ASSUME Others # {} PROVE FALSE
      OBVIOUS
    <3>1. PICK m \in Others : \A y \in Others : m <= y
      BY Least, Others \subseteq Nat
    <3>2. m \in 1 .. N /\ m # 1
      BY <2>1, <2>3, <3>1
    <3>3. m - 1 \in 1 .. N /\ ~(m <= m - 1)
      BY <1>1, <3>2
    <3>4. G[m - 1] \in Seq(T)
      BY <3>1, <3>3
    <3> QED BY <1>3, <2>2, <2>3, <3>1, <3>2, <3>4
  <2>5. \A i \in 1 .. N : G[i] \in Seq(T)
    BY <2>4
  <2>6. DOMAIN G = 1 .. N /\ G = [i \in DOMAIN G |-> G[i]]
    BY <1>4
  <2> QED BY <2>1, <2>2, <2>5, <2>6
<1>6. \A j \in 1 .. N : n(j) \in Nat /\ size(j) \in Nat
  BY <1>1, <1>5, LenProperties
<1>7. size(1) = n(1) /\ \A i \in 1 .. N : i # 1 => size(i) = size(i - 1) + n(i)
  <2>1. ASSUME NEW i \in 1 .. N, i # 1 PROVE size(i) = size(i - 1) + n(i)
    <3>1. i - 1 \in 1 .. N
      BY <1>1, <2>1
    <3>2. G[i - 1] \in Seq(T) /\ ss[i] \in Seq(T) /\ G[i] = G[i - 1] \o ss[i]
      BY <1>1, <1>5, <2>1, <3>1
    <3> QED BY <3>2, ConcatProperties
  <2> QED BY <1>5, <2>1
<1>8. FlattenSeq(ss) \in Seq(T) /\ N \in 1 .. N
  BY <1>1, <1>2, <1>5
<1> HIDE DEF n, size
<1>9. Fails = {}
  <2> SUFFICES ASSUME Fails # {} PROVE FALSE
    OBVIOUS
  <2>1. PICK m \in Fails : \A y \in Fails : m <= y
    BY Least, <1>1, Fails \subseteq Nat
  <2>2. m \in 1 .. N /\ m \in Nat
    BY <1>1, <2>1
  <2>3. PICK j \in 1 .. m : ~(n(j) <= size(m))
    BY <2>1
  <2>4. j \in 1 .. N /\ n(m) \in Nat /\ size(m) \in Nat /\ n(j) \in Nat
    BY <1>1, <1>6, <2>2
  <2>5. m # 1
    <3> SUFFICES ASSUME m = 1 PROVE FALSE
      OBVIOUS
    <3>1. j = 1
      BY <2>3
    <3> QED BY <1>7, <2>3, <2>4, <3>1
  <2>6. m - 1 \in 1 .. N /\ m - 1 \notin Fails
    BY <1>1, <2>1, <2>2, <2>5
  <2>7. size(m) = size(m - 1) + n(m) /\ size(m - 1) \in Nat
    BY <1>6, <1>7, <2>2, <2>5, <2>6
  <2>8. j # m
    BY <2>3, <2>4, <2>7
  <2>9. j \in 1 .. m - 1
    BY <2>2, <2>8
  <2>10. n(j) <= size(m - 1)
    BY <2>6, <2>9
  <2> QED BY <2>3, <2>4, <2>7, <2>10
<1>10. \A j \in 1 .. N : n(j) <= size(N)
  BY <1>8, <1>9
<1> QED BY <1>2, <1>8, <1>10 DEF N, n, size

\* Every import is unset, nil, or has a provider.
Provided == Chunks \cup {NIL, NATIVE, UNSET}
ImportsTyped == \A c \in Chunks : imp[c] \in [DOMAIN Imports[c] -> Provided]
Typed == libs \subseteq Libs /\ retained \subseteq Chunks /\ outcome \in Outcomes /\ ImportsTyped

\* What a lookup returns is a chunk or no chunk.
LEMMA ResolvedTyped ==
  ASSUME NEW P \in Seq(Chunks), NEW R \in Seq(Chunks), NEW i
  PROVE  Resolved(i, P, R) \in Provided
<1>1. \A s \in Seq(Chunks) : Range(s) \subseteq Chunks
  BY RangeEquality
<1> QED BY <1>1, FirstOfIsAMember DEF Resolved, Provided

\* So are the imports that a link resolves.
LEMMA ResolveTyped ==
  ASSUME ImportsTyped, NEW c \in Chunks, NEW P \in Seq(Chunks), NEW R \in Seq(Chunks)
  PROVE  /\ resolve(c, P, R) \in [DOMAIN Imports[c] -> Provided]
         /\ resolve_as_nil(c, P, R) \in [DOMAIN Imports[c] -> Provided]
BY ResolvedTyped DEF ImportsTyped, resolve, resolve_as_nil

\* And those it rolls back, though they are those of the first chunks.
LEMMA RollbackTyped ==
  ASSUME ImportsTyped, Kept_ \in Seq(Chunks), NEW c \in Range(Kept_)
  PROVE  rollback_imports(c) \in [DOMAIN Imports[c] -> Provided]
<1> DEFINE ss == [k \in 1 .. Len(Kept_) |-> imp[Kept_[k]]]
<1>1. Len(Kept_) \in Nat /\ \A k \in 1 .. Len(Kept_) : Kept_[k] \in Chunks
  BY ElementOfSeq, LenProperties
<1>2. \A d \in Chunks : imp[d] \in Seq(Provided) /\ Len(imp[d]) = Len(Imports[d])
  <2> SUFFICES ASSUME NEW d \in Chunks
               PROVE  imp[d] \in Seq(Provided) /\ Len(imp[d]) = Len(Imports[d])
    OBVIOUS
  <2> DEFINE n == Len(Imports[d])
             f == imp[d]
  <2>1. n \in Nat /\ f \in [1 .. n -> Provided]
    BY LoaderAssumption DEF ImportsTyped
  <2> HIDE DEF n, f
  <2>2. f \in Seq(Provided) /\ Len(f) = n
    BY <2>1
  <2> QED BY <2>2 DEF f, n
<1>3. PICK j \in 1 .. Len(Kept_) : c = Kept_[j]
  BY RangeEquality
<1>4. ss \in Seq(Seq(Provided)) /\ Len(ss) = Len(Kept_) /\ ss[j] = imp[c] /\ c \in Chunks
  BY <1>1, <1>2, <1>3
<1> HIDE DEF ss
<1>5. Backup = FlattenSeq(ss)
  BY DEF Backup, ss
<1>6. Len(ss) # 0 /\ j \in 1 .. Len(ss)
  BY <1>1, <1>4
<1>7. Backup \in Seq(Provided) /\ Len(imp[c]) <= Len(Backup)
  BY <1>4, <1>5, <1>6, FlattenIs
<1>8. Len(imp[c]) = Len(Imports[c]) /\ DOMAIN Imports[c] = 1 .. Len(Imports[c]) /\ Len(Imports[c]) \in Nat
  BY <1>2, <1>4, LoaderAssumption
<1>9. \A k \in DOMAIN Imports[c] : Backup[k] \in Provided
  <2> DEFINE b == Backup
             n == Len(Imports[c])
  <2>1. b \in Seq(Provided) /\ n <= Len(b) /\ n \in Nat /\ DOMAIN Imports[c] = 1 .. n
    BY <1>7, <1>8
  <2> HIDE DEF b, n
  <2>2. \A k \in 1 .. n : b[k] \in Provided
    BY <2>1
  <2> QED BY <2>1, <2>2 DEF b
<1> QED BY <1>9 DEF rollback_imports

\* Types are kept, next to IInv.
LEMMA TypedNext == IInv /\ Typed /\ [Next]_vars => Typed'
<1> SUFFICES ASSUME IInv, Typed, [Next]_vars PROVE Typed'
  OBVIOUS
<1>1. /\ pendings \in Seq(Chunks) /\ Kept_ \in Seq(Chunks) /\ ImportsTyped
      /\ Range(pendings) \subseteq Chunks /\ Range(runnings) \subseteq Chunks
      /\ Range(garbages) \subseteq Chunks
  BY KeptAndOld DEF IInv, Apart, ListsApart, Typed
<1>2. \A c \in Chunks :
        /\ resolve(c, pendings, Kept_) \in [DOMAIN Imports[c] -> Provided]
        /\ resolve_as_nil(c, pendings, Kept_) \in [DOMAIN Imports[c] -> Provided]
        /\ imp[c] \in [DOMAIN Imports[c] -> Provided]
  BY <1>1, ResolveTyped DEF ImportsTyped
<1>3. CASE UNCHANGED vars
  BY <1>3 DEF vars, Typed, ImportsTyped
<1>4. ASSUME NEW c \in Chunks, AddChunk(c) \/ Retain(c) PROVE Typed'
  BY <1>4 DEF AddChunk, Retain, Typed, ImportsTyped
<1>5. ASSUME NEW l \in Libs, AddLib(l) PROVE Typed'
  BY <1>5 DEF AddLib, Typed, ImportsTyped, Outcomes
<1>6. CASE Sweep \/ Cleanup
  BY <1>6 DEF Sweep, Cleanup, Typed, ImportsTyped, Outcomes
<1>7. ASSUME NEW safe \in BOOLEAN, LinkFailsOnPending(safe) PROVE Typed'
  <2>1. outcome' \in Outcomes /\ libs' = libs /\ retained' = retained
    BY <1>7 DEF LinkFailsOnPending, ListsAfterFailure, Outcomes
  <2>2. ImportsTyped'
    BY <1>2, <1>7 DEF LinkFailsOnPending, ImportsTyped
  <2> QED BY <2>1, <2>2 DEF Typed
<1>8. ASSUME NEW safe \in BOOLEAN, LinkFailsOnRunning(safe) PROVE Typed'
  <2>1. outcome' \in Outcomes /\ libs' = libs /\ retained' = retained
    BY <1>8 DEF LinkFailsOnRunning, ListsAfterFailure, Outcomes
  <2>2. \A c \in Range(Kept_) : rollback_imports(c) \in [DOMAIN Imports[c] -> Provided]
    BY <1>1, RollbackTyped
  <2>3. ImportsTyped'
    BY <1>2, <1>8, <2>2 DEF LinkFailsOnRunning, ImportsTyped
  <2> QED BY <2>1, <2>3 DEF Typed
<1>9. CASE LinkSucceeds
  <2>1. ImportsTyped'
    BY <1>2, <1>9 DEF LinkSucceeds, Relinked, ImportsTyped
  <2> QED BY <1>9, <2>1 DEF LinkSucceeds, Typed, Outcomes
<1> QED BY <1>3, <1>4, <1>5, <1>6, <1>7, <1>8, <1>9 DEF Next, Link

\* Types hold: every import leads to a chunk, to a native function or nowhere,
\* also after a rollback that gives each chunk the imports of the first ones.
THEOREM LoaderTypes == Spec => []LoaderTypeOK
<1>1. Init => Typed
  BY DEF Init, Typed, ImportsTyped, Provided, Outcomes
<1>2. IInv /\ Typed /\ [Next]_vars => Typed'
  BY TypedNext
<1>3. IInv /\ Typed => LoaderTypeOK
  BY DEF IInv, Apart, Typed, ImportsTyped, Provided, LoaderTypeOK, Range
<1> QED BY <1>1, <1>2, <1>3, InvHolds, PTL DEF Spec

-----------------------------------------------------------------------------
\* The debug server.

Con == [who : Clients \cup {NOBODY}, alive : BOOLEAN, websocket : BOOLEAN,
        push : BOOLEAN, head : Slots, used : 0 .. 2, alone : BOOLEAN]
Part == [from : Clients \cup {NOBODY}, ask : Asks \cup {NOBODY}]
Client == [at : {"away", "calling", "served", "subscribed", "left"},
           ask : Asks \cup {NOBODY}, sent : 0 .. 3]

WebTypeOK ==
  /\ con \in [Slots -> Con]
  /\ con_count \in 0 .. ConnectionMax
  /\ header_data \in [Slots -> [1 .. 2 -> Part]]
  /\ turn \in Nat
  /\ phase = "dispatch" => turn \in Active
  /\ client \in [Clients -> Client]

\* The client of an active slot has been accepted and has that slot only.
Users ==
  \A i \in Active :
    /\ con[i].who \in Clients
    /\ client[con[i].who].at \in {"served", "subscribed", "left"}
    /\ \A j \in Active : con[i].who = con[j].who => i = j

Marks == \A i \in Active : con[i].websocket => con[i].push

WebInv == WebTypeOK /\ Users /\ Marks

\* A slot is read from.
Read(i) ==
  \/ ReadClosed(i) \/ ReadNothing(i) \/ ReadParts(i)
  \/ phase = "dispatch" /\ turn = i /\ BodyLost

\* A step of the web server or of a client.
WebStep ==
  \/ phase = "host" /\ (wby_start \/ wby_stop \/ UpdateBegins)
  \/ \E c \in Clients :
       \/ Call(c) \/ SendMore(c) \/ Leave(c) \/ wby_on_incoming(c)
       \/ \E ask \in Asks : Ask(c, ask)
  \/ AcceptEnds \/ ServeEnds \/ UpdateEnds
  \/ \E i \in Slots : Read(i) \/ Compact(i)
  \/ phase = "dispatch" /\ (Respond \/ Upgrade)
-----------------------------------------------------------------------------
\* The bytes that are forgotten change no type.
LEMMA StillReadType ==
  ASSUME NEW d \in [Slots -> [1 .. 2 -> Part]], NEW slots, NEW n
  PROVE  StillRead(d, slots, n) \in [Slots -> [1 .. 2 -> Part]]
<1>1. Nothing \in Part
  BY DEF Nothing, Part
<1> QED
  BY <1>1 DEF StillRead

\* What a slot has read stays.
LEMMA StillReadKeeps ==
  ASSUME NEW d, NEW slots, NEW n, NEW i \in 1 .. n, slots[i].head \in Slots,
         NEW k \in 1 .. 2, slots[i].used >= k
  PROVE  StillRead(d, slots, n)[slots[i].head][k] = d[slots[i].head][k]
BY DEF StillRead

\* One field of a slot or of a client changes, the others stay.
LEMMA NewWho ==
  ASSUME NEW s \in Con, NEW x \in Clients \cup {NOBODY}
  PROVE  LET r == [s EXCEPT !.who = x]
         IN  /\ r \in Con /\ r.who = x
             /\ r.alive = s.alive /\ r.websocket = s.websocket /\ r.push = s.push
             /\ r.head = s.head /\ r.used = s.used /\ r.alone = s.alone
BY DEF Con

LEMMA NewAlive ==
  ASSUME NEW s \in Con, NEW x \in BOOLEAN
  PROVE  LET r == [s EXCEPT !.alive = x]
         IN  /\ r \in Con /\ r.alive = x
             /\ r.who = s.who /\ r.websocket = s.websocket /\ r.push = s.push
             /\ r.head = s.head /\ r.used = s.used /\ r.alone = s.alone
BY DEF Con

LEMMA NewWebsocket ==
  ASSUME NEW s \in Con, NEW x \in BOOLEAN
  PROVE  LET r == [s EXCEPT !.websocket = x]
         IN  /\ r \in Con /\ r.websocket = x
             /\ r.who = s.who /\ r.alive = s.alive /\ r.push = s.push
             /\ r.head = s.head /\ r.used = s.used /\ r.alone = s.alone
BY DEF Con

LEMMA NewPush ==
  ASSUME NEW s \in Con, NEW x \in BOOLEAN
  PROVE  LET r == [s EXCEPT !.push = x]
         IN  /\ r \in Con /\ r.push = x
             /\ r.who = s.who /\ r.alive = s.alive /\ r.websocket = s.websocket
             /\ r.head = s.head /\ r.used = s.used /\ r.alone = s.alone
BY DEF Con

LEMMA NewUsed ==
  ASSUME NEW s \in Con, NEW x \in 0 .. 2
  PROVE  LET r == [s EXCEPT !.used = x]
         IN  /\ r \in Con /\ r.used = x
             /\ r.who = s.who /\ r.alive = s.alive /\ r.websocket = s.websocket
             /\ r.push = s.push /\ r.head = s.head /\ r.alone = s.alone
BY DEF Con

LEMMA NewAlone ==
  ASSUME NEW s \in Con, NEW x \in BOOLEAN
  PROVE  LET r == [s EXCEPT !.alone = x]
         IN  /\ r \in Con /\ r.alone = x
             /\ r.who = s.who /\ r.alive = s.alive /\ r.websocket = s.websocket
             /\ r.push = s.push /\ r.head = s.head /\ r.used = s.used
BY DEF Con

LEMMA NewAt ==
  ASSUME NEW s \in Client,
         NEW x \in {"away", "calling", "served", "subscribed", "left"}
  PROVE  [s EXCEPT !.at = x] \in Client /\ [s EXCEPT !.at = x].at = x
BY DEF Client

LEMMA NewAsk ==
  ASSUME NEW s \in Client, NEW x \in Asks \cup {NOBODY}
  PROVE  [s EXCEPT !.ask = x] \in Client /\ [s EXCEPT !.ask = x].at = s.at
BY DEF Client

LEMMA NewSent ==
  ASSUME NEW s \in Client, NEW x \in 0 .. 3
  PROVE  [s EXCEPT !.sent = x] \in Client /\ [s EXCEPT !.sent = x].at = s.at
BY DEF Client

LEMMA ResetType ==
  ASSUME NEW s \in Con
  PROVE  LET r == wby_connection_reset(s)
         IN  /\ r \in Con /\ r.used = 0 /\ r.push = (s.push /\ s.websocket)
             /\ r.who = s.who /\ r.head = s.head
             /\ r.alive = s.alive /\ r.websocket = s.websocket
             /\ r.alone = s.alone
<1> DEFINE b == s.push /\ s.websocket
           t == [s EXCEPT !.push = b]
<1>1. b \in BOOLEAN
  BY DEF Con
<1>2. /\ t \in Con /\ t.push = b /\ t.who = s.who /\ t.head = s.head
      /\ t.alive = s.alive /\ t.websocket = s.websocket /\ t.alone = s.alone
  BY <1>1, NewPush
<1>3. wby_connection_reset(s) = [t EXCEPT !.used = 0]
  <2> HIDE DEF b
  <2>1. [[s EXCEPT !.push = b] EXCEPT !.used = 0] = [s EXCEPT !.push = b, !.used = 0]
    BY <1>1 DEF Con
  <2>2. wby_connection_reset(s) = [s EXCEPT !.push = b, !.used = 0]
    BY DEF wby_connection_reset, Con, b
  <2> QED
    BY <2>1, <2>2
<1> DEFINE u == [t EXCEPT !.used = 0]
<1> HIDE DEF t, b
<1>4. 0 \in 0 .. 2
  OBVIOUS
<1>5. /\ u \in Con /\ u.used = 0 /\ u.push = t.push /\ u.who = t.who
      /\ u.head = t.head /\ u.alive = t.alive /\ u.websocket = t.websocket
      /\ u.alone = t.alone
  BY <1>2, <1>4, NewUsed
<1> HIDE DEF u
<1>6. wby_connection_reset(s) = u
  BY <1>3 DEF u
<1>7. u.push = b
  BY <1>2, <1>5
<1>8. u.push = (s.push /\ s.websocket)
  BY <1>7 DEF b
<1> QED
  BY <1>2, <1>5, <1>6, <1>8

LEMMA WebInit == WInit => WebInv
<1> SUFFICES ASSUME WInit PROVE WebInv
  OBVIOUS
<1> USE WebServerAssumption
<1>1. /\ con = Unused /\ con_count = 0 /\ header_data = Zero /\ turn = 1
      /\ phase = "host"
      /\ client = [c \in Clients |-> Idle]
  BY DEF WInit
<1>2. con \in [Slots -> Con]
  BY <1>1 DEF Unused, Con, Slots
<1>3. header_data \in [Slots -> [1 .. 2 -> Part]]
  BY <1>1 DEF Zero, Nothing, Part
<1>4. client \in [Clients -> Client]
  BY <1>1 DEF Idle, Client
<1> QED
  BY <1>1, <1>2, <1>3, <1>4 DEF WebInv, WebTypeOK, Users, Marks, Active

\* Clients do not touch the slots; one that has a slot does not lose it.
LEMMA WebClient ==
  ASSUME WebInv, NEW c \in Clients,
         \/ Call(c) \/ SendMore(c) \/ Leave(c)
         \/ \E ask \in Asks : Ask(c, ask)
  PROVE  WebInv'
<1> USE DEF WebInv
<1>1. UNCHANGED <<con, con_count, header_data, turn, phase>>
  BY DEF Call, SendMore, Leave, Ask
<1>2. client \in [Clients -> Client] /\ client[c] \in Client
  BY DEF WebTypeOK
<1>3. PICK s \in Client :
        /\ client' = [client EXCEPT ![c] = s]
        /\ client[c].at \in {"served", "subscribed", "left"} =>
             s.at \in {"served", "subscribed", "left"}
  <2>1. CASE Call(c)
    BY <1>2, <2>1, NewAt DEF Call
  <2>2. CASE SendMore(c)
    <3>1. client[c].sent + 1 \in 0 .. 3
      BY <1>2, <2>2 DEF SendMore, Parts, Client
    <3>2. client' = [client EXCEPT ![c] = [client[c] EXCEPT !.sent = client[c].sent + 1]]
      BY <2>2 DEF SendMore
    <3> QED
      BY <1>2, <3>1, <3>2, NewSent
  <2>3. CASE Leave(c)
    <3>1. Idle \in Client
      BY DEF Idle, Client
    <3>2. client' = [client EXCEPT ![c] = [Idle EXCEPT !.at = "left"]]
      BY <2>3 DEF Leave
    <3> QED
      BY <3>1, <3>2, NewAt
  <2>4. ASSUME NEW ask \in Asks, Ask(c, ask)
        PROVE  \E s \in Client :
                 /\ client' = [client EXCEPT ![c] = s]
                 /\ client[c].at \in {"served", "subscribed", "left"} =>
                      s.at \in {"served", "subscribed", "left"}
    <3> DEFINE t == [client[c] EXCEPT !.ask = ask]
               u == [t EXCEPT !.sent = 1]
    <3>1. t \in Client /\ t.at = client[c].at
      BY <1>2, NewAsk
    <3>2. client' = [client EXCEPT ![c] = [client[c] EXCEPT !.ask = ask, !.sent = 1]]
      <4>1. client' = [client EXCEPT ![c].ask = ask, ![c].sent = 1]
        BY <2>4 DEF Ask
      <4> QED
        BY <1>2, <4>1 DEF Client
    <3>3. [client[c] EXCEPT !.ask = ask, !.sent = 1] = u
      BY <1>2 DEF Client
    <3> HIDE DEF t
    <3>4. 1 \in 0 .. 3
      OBVIOUS
    <3>5. u \in Client /\ u.at = t.at
      BY <3>1, <3>4, NewSent
    <3> QED
      BY <3>1, <3>2, <3>3, <3>5
  <2> QED
    BY <2>1, <2>2, <2>3, <2>4
<1>4. /\ client' \in [Clients -> Client]
      /\ \A d \in Clients :
           client[d].at \in {"served", "subscribed", "left"} =>
             client'[d].at \in {"served", "subscribed", "left"}
  BY <1>2, <1>3
<1> QED
  BY <1>1, <1>4 DEF WebTypeOK, Users, Marks, Active

\* One slot changes and keeps its client, nobody who has a slot is sent away.
LEMMA WebSlot ==
  ASSUME WebInv, NEW i \in Slots, NEW r \in Con,
         r.who = con[i].who, r.websocket => r.push,
         con' = [con EXCEPT ![i] = r], con_count' = con_count,
         header_data' \in [Slots -> [1 .. 2 -> Part]],
         turn' \in Nat, phase' = "dispatch" => turn' \in Active,
         client' \in [Clients -> Client],
         \A d \in Clients : client[d].at \in {"served", "subscribed", "left"}
           => client'[d].at \in {"served", "subscribed", "left"}
  PROVE  WebInv'
<1> USE DEF WebInv
<1>1. con' \in [Slots -> Con] /\ \A k \in Slots : con'[k] = IF k = i THEN r ELSE con[k]
  BY DEF WebTypeOK
<1>2. Active \subseteq Slots /\ Active' = Active
  BY WebServerAssumption DEF Active, Slots, WebTypeOK
<1>3. \A k \in Slots : con'[k].who = con[k].who
  BY <1>1
<1>4. Users'
  BY <1>2, <1>3 DEF Users
<1>5. Marks'
  BY <1>1, <1>2 DEF Marks
<1>6. WebTypeOK'
  BY <1>1, <1>2 DEF WebTypeOK
<1> QED
  BY <1>4, <1>5, <1>6

\* The slots do not change.
LEMMA WebControl ==
  ASSUME WebInv, UNCHANGED <<con, con_count, client>>,
         header_data' \in [Slots -> [1 .. 2 -> Part]],
         turn' \in Nat, phase' = "dispatch" => turn' \in Active
  PROVE  WebInv'
BY DEF WebInv, WebTypeOK, Users, Marks, Active

\* What has been received has its type.
LEMMA RecvType ==
  ASSUME WebInv, NEW i \in Active, NEW n
  PROVE  wby_socket_recv(con[i], header_data, n) \in [Slots -> [1 .. 2 -> Part]]
<1>1. i \in Slots /\ con[i] \in Con /\ con[i].who \in Clients
  BY WebServerAssumption DEF Active, Slots, WebInv, WebTypeOK, Users
<1>2. client[con[i].who].ask \in Asks \cup {NOBODY}
  BY <1>1 DEF WebInv, WebTypeOK, Client
<1>3. [from |-> con[i].who, ask |-> client[con[i].who].ask] \in Part
  BY <1>1, <1>2 DEF Part
<1>4. header_data \in [Slots -> [1 .. 2 -> Part]]
  BY DEF WebInv, WebTypeOK
<1> HIDE DEF Part
<1> QED
  BY <1>3, <1>4 DEF wby_socket_recv

\* wby_start and wby_stop empty the table.
LEMMA WebRestart ==
  ASSUME WebInv, phase = "host", wby_start \/ wby_stop
  PROVE  WebInv'
<1> USE WebServerAssumption DEF WebInv
<1>1. /\ con' = Unused /\ con_count' = 0 /\ header_data' = Zero
      /\ turn' = turn /\ phase' = phase
      /\ client' = client \/ client' = [c \in Clients |-> Idle]
  BY DEF wby_start, wby_stop
<1>2. con' \in [Slots -> Con]
  BY <1>1 DEF Unused, Con, Slots
<1>3. header_data' \in [Slots -> [1 .. 2 -> Part]]
  BY <1>1 DEF Zero, Nothing, Part
<1>4. client' \in [Clients -> Client]
  BY <1>1 DEF Idle, Client, WebTypeOK
<1> QED
  BY <1>1, <1>2, <1>3, <1>4 DEF WebTypeOK, Users, Marks, Active

\* wby_on_incoming: the slot behind the active ones gets a client that has
\* none; the others keep all but their history.
LEMMA WebIncoming ==
  ASSUME WebInv, NEW c \in Clients, wby_on_incoming(c)
  PROVE  /\ WebInv'
         /\ header_data' = header_data
         /\ con_count + 1 \in Slots \ Active
         /\ \A k \in Active' : k \in Active \/ k = con_count + 1
         /\ Active \subseteq Active'
         /\ \A k \in Slots : k # con_count + 1 =>
              /\ con'[k].who = con[k].who /\ con'[k].head = con[k].head
              /\ con'[k].websocket = con[k].websocket /\ con'[k].push = con[k].push
              /\ con'[k].used = con[k].used
         /\ LET s == con[con_count + 1]
                r == con'[con_count + 1]
            IN  /\ r.head = s.head /\ r.websocket = FALSE
                /\ r.used = 0 /\ r.push = (s.push /\ s.websocket)
         /\ \A k \in Slots : con'[k].alone = StillAlone(con_count + 1)[k]
<1> USE WebServerAssumption DEF WebInv
<1> DEFINE n == con_count + 1
           r == wby_connection_reset(con[n])
           t == [r EXCEPT !.who = c]
           u == [t EXCEPT !.alive = TRUE]
           w == [u EXCEPT !.websocket = FALSE]
           b == con[n].push /\ con[n].websocket
           h(k) == StillAlone(n)[k]
<1>1. /\ con_count \in Nat /\ con_count < ConnectionMax
      /\ n \in Slots /\ con[n] \in Con /\ n \notin Active
      /\ client[c].at = "calling" /\ client[c] \in Client
  BY DEF wby_on_incoming, WebTypeOK, Slots, Active
<1>2. r \in Con /\ r.head = con[n].head /\ r.used = 0 /\ r.push = b
  BY <1>1, ResetType
<1>3. con' = [k \in Slots |-> [(IF k = n THEN w ELSE con[k]) EXCEPT !.alone = h(k)]]
  <2>1. con' = [k \in Slots |->
          [(IF k = n THEN [r EXCEPT !.who = c, !.alive = TRUE, !.websocket = FALSE]
            ELSE con[k]) EXCEPT !.alone = h(k)]]
    BY <1>1 DEF wby_on_incoming
  <2> HIDE DEF r, h
  <2>2. [r EXCEPT !.who = c, !.alive = TRUE, !.websocket = FALSE] = w
    BY <1>2 DEF Con
  <2> QED
    BY <2>1, <2>2
<1>4. \A k \in Slots : h(k) \in BOOLEAN
  BY DEF StillAlone, WebTypeOK, Con
<1> HIDE DEF r, b, h
<1>5. t \in Con /\ t.who = c /\ t.head = r.head /\ t.used = r.used /\ t.push = r.push
  BY <1>2, NewWho
<1> HIDE DEF t
<1>6. u \in Con /\ u.who = c /\ u.head = t.head /\ u.used = t.used /\ u.push = t.push
  BY <1>5, NewAlive
<1> HIDE DEF u
<1>7. /\ w \in Con /\ w.who = c /\ w.websocket = FALSE
      /\ w.head = u.head /\ w.used = u.used /\ w.push = u.push
  BY <1>6, NewWebsocket
<1> HIDE DEF w
<1> DEFINE old(k) == IF k = n THEN w ELSE con[k]
           new(k) == [old(k) EXCEPT !.alone = h(k)]
<1>8. \A k \in Slots : old(k) \in Con
  BY <1>7 DEF WebTypeOK
<1>9. con' = [k \in Slots |-> new(k)] /\ con_count' = n
  BY <1>3 DEF wby_on_incoming
<1> HIDE DEF old
<1>10. ASSUME NEW k \in Slots
       PROVE  /\ new(k) \in Con /\ new(k).who = old(k).who /\ new(k).head = old(k).head
              /\ new(k).websocket = old(k).websocket /\ new(k).push = old(k).push
              /\ new(k).used = old(k).used /\ new(k).alone = h(k)
  BY <1>4, <1>8, NewAlone
<1> HIDE DEF new
<1>11. ASSUME NEW k \in Slots
       PROVE  /\ con'[k] \in Con /\ con'[k].who = old(k).who /\ con'[k].head = old(k).head
              /\ con'[k].websocket = old(k).websocket /\ con'[k].push = old(k).push
              /\ con'[k].used = old(k).used /\ con'[k].alone = h(k)
  BY <1>9, <1>10
<1>12. con' \in [Slots -> Con]
  BY <1>9, <1>10
<1>13. old(n) = w /\ \A k \in Slots : k # n => old(k) = con[k]
  BY DEF old
<1>14. \A k \in Slots : con'[k].who = IF k = n THEN c ELSE con[k].who
  BY <1>7, <1>11, <1>13
<1> DEFINE s == [client[c] EXCEPT !.at = "served"]
<1>15. s \in Client /\ s.at = "served"
  BY <1>1, NewAt
<1>16. client' = [client EXCEPT ![c] = s]
  BY DEF wby_on_incoming
<1> HIDE DEF s
<1>17. /\ client' \in [Clients -> Client]
       /\ \A d \in Clients : client'[d] = IF d = c THEN s ELSE client[d]
  BY <1>15, <1>16 DEF WebTypeOK
<1>18. UNCHANGED <<header_data, phase, turn>> /\ phase = "accept"
  BY DEF wby_on_incoming
<1>19. \A k \in Active' : k \in Slots /\ (k = n \/ k \in Active)
  BY <1>1, <1>9 DEF Active, Slots
<1>20. \A k \in Active : con[k].who # c
  BY <1>1 DEF Users
<1>21. Users'
  <2> SUFFICES ASSUME NEW k \in Active'
               PROVE  /\ con'[k].who \in Clients
                      /\ client'[con'[k].who].at \in {"served", "subscribed", "left"}
                      /\ \A j \in Active' : con'[k].who = con'[j].who => k = j
    BY DEF Users
  <2>1. CASE k = n
    BY <1>14, <1>15, <1>17, <1>19, <1>20, <2>1
  <2>2. CASE k # n
    BY <1>14, <1>17, <1>19, <1>20, <2>2 DEF Users
  <2> QED
    BY <2>1, <2>2
<1>22. Marks'
  <2> SUFFICES ASSUME NEW k \in Active', con'[k].websocket PROVE con'[k].push
    BY DEF Marks
  <2>1. k \in Slots /\ k # n /\ k \in Active
    BY <1>7, <1>11, <1>13, <1>19
  <2> QED
    BY <1>11, <1>13, <2>1 DEF Marks
<1>23. WebTypeOK'
  BY <1>1, <1>9, <1>12, <1>17, <1>18 DEF WebTypeOK
<1>24. con'[n].head = con[n].head /\ con'[n].used = 0 /\ ~con'[n].websocket
       /\ con'[n].websocket = FALSE /\ con'[n].push = b
  BY <1>1, <1>2, <1>5, <1>6, <1>7, <1>11, <1>13
<1>25. Active \subseteq Active'
  BY <1>1, <1>9 DEF Active
<1>26. con'[n].push = (con[n].push /\ con[n].websocket)
  BY <1>24 DEF b
<1>27. \A k \in Slots : con'[k].alone = StillAlone(n)[k]
  BY <1>11 DEF h
<1>28. \A k \in Slots : k # n =>
         /\ con'[k].who = con[k].who /\ con'[k].head = con[k].head
         /\ con'[k].websocket = con[k].websocket /\ con'[k].push = con[k].push
         /\ con'[k].used = con[k].used
  BY <1>11, <1>13
<1> QED
  BY <1>1, <1>18, <1>19, <1>21, <1>22, <1>23, <1>24, <1>25, <1>26, <1>27, <1>28

\* Serving a slot, up to its request.
LEMMA WebRead ==
  ASSUME WebInv, NEW i \in Slots, Read(i)
  PROVE  /\ WebInv' /\ con_count' = con_count /\ i \in Active
         /\ \E r \in Con :
              /\ con' = [con EXCEPT ![i] = r]
              /\ r.who = con[i].who /\ r.head = con[i].head
              /\ r.websocket = con[i].websocket /\ r.push = con[i].push
              /\ r.alone = con[i].alone
              /\ \/ header_data' = header_data /\ r.used = con[i].used
                 \/ /\ header_data' = wby_socket_recv(con[i], header_data, r.used)
                    /\ r.used \in 1 .. 2
<1>1. /\ i \in Active /\ con \in [Slots -> Con] /\ con[i] \in Con
      /\ header_data \in [Slots -> [1 .. 2 -> Part]]
      /\ client \in [Clients -> Client] /\ i \in Nat /\ turn \in Nat
      /\ con[i].websocket => con[i].push
  BY DEF WebInv, WebTypeOK, Marks, Read, ReadClosed, ReadNothing, ReadParts, Slots
<1>2. CASE ReadClosed(i) \/ (phase = "dispatch" /\ turn = i /\ BodyLost)
  <2> DEFINE r == [con[i] EXCEPT !.alive = FALSE]
  <2>1. /\ r \in Con /\ r.who = con[i].who /\ r.head = con[i].head
        /\ r.websocket = con[i].websocket /\ r.push = con[i].push
        /\ r.used = con[i].used /\ r.alone = con[i].alone
    BY <1>1, NewAlive
  <2>2. /\ con' = [con EXCEPT ![i] = r] /\ con_count' = con_count
        /\ turn' \in {i, i + 1} /\ UNCHANGED <<phase, client, header_data>>
        /\ phase' = "dispatch" => turn' \in Active
    BY <1>1, <1>2 DEF ReadClosed, BodyLost
  <2> HIDE DEF r
  <2>3. /\ r.websocket => r.push
        /\ turn' \in Nat
        /\ header_data' \in [Slots -> [1 .. 2 -> Part]]
        /\ client' \in [Clients -> Client]
        /\ \A d \in Clients : client'[d] = client[d]
    BY <1>1, <2>1, <2>2
  <2>4. WebInv'
    BY <2>1, <2>2, <2>3, WebSlot
  <2> QED
    BY <1>1, <2>1, <2>2, <2>4
<1>3. CASE ReadNothing(i)
  <2>1. /\ UNCHANGED <<con, con_count, client, header_data>> /\ turn' = i + 1
        /\ phase' # "dispatch"
    BY <1>3 DEF ReadNothing
  <2>2. WebInv'
    BY <1>1, <2>1, WebControl
  <2>3. con' = [con EXCEPT ![i] = con[i]]
    BY <1>1, <2>1
  <2> QED
    BY <1>1, <2>1, <2>2, <2>3
<1>4. CASE ReadParts(i)
  <2>1. PICK n \in 1 .. 2 :
          /\ header_data' = wby_socket_recv(con[i], header_data, n)
          /\ con' = [con EXCEPT ![i] = [con[i] EXCEPT !.used = n]]
          /\ UNCHANGED <<con_count, client>>
          /\ turn' \in {turn, i + 1}
          /\ phase' = "dispatch" => turn' = i
    <3> DEFINE n == IF client[con[i].who].sent = 1 THEN 1 ELSE 2
    <3>1. /\ header_data' = wby_socket_recv(con[i], header_data, n)
          /\ con' = [con EXCEPT ![i].used = n]
          /\ UNCHANGED <<con_count, client>>
          /\ IF n = 2 THEN phase' = "dispatch" /\ UNCHANGED turn
                      ELSE turn' = i + 1 /\ UNCHANGED phase
          /\ phase = "serve" /\ turn = i
      BY <1>4 DEF ReadParts
    <3>2. n \in 1 .. 2
      OBVIOUS
    <3> HIDE DEF n
    <3>3. con' = [con EXCEPT ![i] = [con[i] EXCEPT !.used = n]]
      BY <1>1, <3>1
    <3> QED
      BY <3>1, <3>2, <3>3
  <2> DEFINE r == [con[i] EXCEPT !.used = n]
  <2>2. n \in 0 .. 2
    OBVIOUS
  <2>3. /\ r \in Con /\ r.who = con[i].who /\ r.head = con[i].head
        /\ r.websocket = con[i].websocket /\ r.push = con[i].push
        /\ r.used = n /\ r.alone = con[i].alone
    BY <1>1, <2>2, NewUsed
  <2>4. header_data' \in [Slots -> [1 .. 2 -> Part]]
    BY <1>1, <2>1, RecvType
  <2>5. con' = [con EXCEPT ![i] = r]
    BY <2>1
  <2> HIDE DEF r
  <2>6. r.websocket => r.push
    BY <1>1, <2>3
  <2>7. /\ turn' \in Nat
        /\ phase' = "dispatch" => turn' \in Active
        /\ client' \in [Clients -> Client]
        /\ \A d \in Clients : client'[d] = client[d]
    BY <1>1, <2>1
  <2>8. r \in Con /\ r.who = con[i].who /\ con_count' = con_count
    BY <2>1, <2>3
  <2>9. WebInv'
    BY <2>4, <2>5, <2>6, <2>7, <2>8, WebSlot
  <2> QED
    BY <1>1, <2>1, <2>3, <2>5, <2>9
<1> QED
  BY <1>2, <1>3, <1>4 DEF Read

\* What a slot holds when the gap of slot i has been closed.
LEMMA Moved ==
  ASSUME WebInv, NEW i \in Active, con' = Closed(i), con_count' = con_count - 1
  PROVE  /\ con' \in [Slots -> Con] /\ con_count' \in 0 .. ConnectionMax
         /\ \A k \in Active' :
              /\ k \in Active /\ k + 1 \in Active
              /\ con'[k] = con[IF k < i THEN k ELSE k + 1]
         /\ \A k \in Slots :
              /\ k > con_count => con'[k] = con[k]
              /\ k = con_count =>
                   /\ con'[k].head = con[k].head
                   /\ i = k => ~con'[k].websocket
                   /\ i < k => k - 1 \in Slots /\ con'[k - 1] = con[k]
<1> USE WebServerAssumption DEF Active, Slots
<1>1. /\ con \in [Slots -> Con] /\ con_count \in 0 .. ConnectionMax
      /\ i \in 1 .. con_count
  BY DEF WebInv, WebTypeOK
<1>2. con[i] \in Con
  BY <1>1
<1> DEFINE t == [con[i] EXCEPT !.alive = FALSE]
           u == [t EXCEPT !.websocket = FALSE]
<1>3. t \in Con /\ t.head = con[i].head
  BY <1>2, NewAlive
<1>4. [con[i] EXCEPT !.alive = FALSE, !.websocket = FALSE] = u
  BY <1>2 DEF Con
<1>5. Closed(i) = [k \in Slots |-> IF k \in i .. con_count - 1 THEN con[k + 1]
                                   ELSE IF k = i THEN u ELSE con[k]]
  BY <1>4 DEF Closed
<1> HIDE DEF t
<1>6. u \in Con /\ u.head = con[i].head /\ u.websocket = FALSE
  BY <1>3, NewWebsocket
<1> HIDE DEF u
<1>7. con' \in [Slots -> Con]
  BY <1>1, <1>5, <1>6
<1>8. ASSUME NEW k \in Active'
      PROVE  /\ k \in Active /\ k + 1 \in Active
             /\ con'[k] = con[IF k < i THEN k ELSE k + 1]
  <2>1. k \in Int /\ 1 <= k /\ k <= con_count - 1
    BY <1>1
  <2> QED
    BY <1>1, <1>5, <2>1
<1>9. ASSUME NEW k \in Slots
      PROVE  /\ k > con_count => con'[k] = con[k]
             /\ k = con_count =>
                  /\ con'[k].head = con[k].head
                  /\ i = k => ~con'[k].websocket
                  /\ i < k => k - 1 \in Slots /\ con'[k - 1] = con[k]
  <2>1. k \in Int /\ i \in Int /\ con_count \in Int /\ i <= con_count
    BY <1>1
  <2>2. CASE k > con_count
    BY <1>5, <2>1, <2>2
  <2>3. CASE k = con_count /\ i = k
    <3>1. con'[k] = u
      BY <1>5, <2>1, <2>3
    <3> QED
      BY <1>6, <2>1, <2>3, <3>1
  <2>4. CASE k = con_count /\ i < k
    <3>1. /\ k - 1 \in Slots /\ k - 1 \in i .. con_count - 1
          /\ k \notin i .. con_count - 1 /\ k # i /\ (k - 1) + 1 = k
      BY <1>1, <2>1, <2>4
    <3>2. con'[k] = con[k]
      BY <1>5, <3>1
    <3>3. con'[k - 1] = con[(k - 1) + 1]
      BY <1>5, <3>1
    <3> QED
      BY <2>4, <3>1, <3>2, <3>3
  <2> QED
    BY <2>1, <2>2, <2>3, <2>4
<1> QED
  BY <1>1, <1>7, <1>8, <1>9

LEMMA WebCompact ==
  ASSUME WebInv, NEW i \in Slots, Compact(i)
  PROVE  WebInv'
<1>1. /\ i \in Active /\ i \in Nat /\ turn \in Nat /\ phase' # "dispatch"
      /\ con_count \in Nat
  BY DEF WebInv, WebTypeOK, Compact, Slots
<1>2. header_data' \in [Slots -> [1 .. 2 -> Part]]
  BY StillReadType DEF WebInv, WebTypeOK, Compact, Forget
<1>3. CASE con[i].alive
  BY <1>1, <1>2, <1>3, WebControl DEF Compact
<1>4. CASE ~con[i].alive
  <2>1. /\ con' = Closed(i) /\ con_count' = con_count - 1 /\ turn' = turn
        /\ client' = [client EXCEPT ![con[i].who] = Idle]
    BY <1>4 DEF Compact
  <2>2. /\ con' \in [Slots -> Con] /\ con_count' \in 0 .. ConnectionMax
        /\ \A k \in Active' :
             /\ k \in Active /\ k + 1 \in Active
             /\ con'[k] = con[IF k < i THEN k ELSE k + 1]
    BY <1>1, <2>1, Moved
  <2>3. con[i].who \in Clients /\ Idle \in Client
    BY <1>1 DEF WebInv, Users, Idle, Client
  <2>4. /\ client' \in [Clients -> Client]
        /\ \A d \in Clients : d # con[i].who => client'[d] = client[d]
    BY <2>1, <2>3 DEF WebInv, WebTypeOK
  <2> DEFINE from(k) == IF k < i THEN k ELSE k + 1
  <2>5. ASSUME NEW k \in Active'
        PROVE  from(k) \in Active /\ from(k) # i /\ con'[k] = con[from(k)]
    BY <1>1, <2>2 DEF Active
  <2>6. ASSUME NEW j \in Active', NEW k \in Active', from(j) = from(k)
        PROVE  j = k
    BY <1>1, <2>2, <2>6 DEF Active
  <2> HIDE DEF from
  <2>7. Users'
    <3> SUFFICES ASSUME NEW k \in Active'
                 PROVE  /\ con'[k].who \in Clients
                        /\ client'[con'[k].who].at \in {"served", "subscribed", "left"}
                        /\ \A j \in Active' : con'[k].who = con'[j].who => k = j
      BY DEF Users
    <3>1. /\ con[from(k)].who \in Clients /\ con[from(k)].who # con[i].who
          /\ client[con[from(k)].who].at \in {"served", "subscribed", "left"}
      BY <1>1, <2>5 DEF WebInv, Users
    <3>2. ASSUME NEW j \in Active', con'[k].who = con'[j].who PROVE k = j
      <4>1. from(k) = from(j)
        BY <2>5, <3>2 DEF WebInv, Users
      <4> QED
        BY <2>6, <4>1
    <3> QED
      BY <2>4, <2>5, <3>1, <3>2
  <2>8. Marks'
    BY <2>5 DEF WebInv, Marks
  <2>9. WebTypeOK'
    BY <1>1, <1>2, <2>1, <2>2, <2>4 DEF WebTypeOK, WebInv
  <2> QED
    BY <2>7, <2>8, <2>9 DEF WebInv
<1> QED
  BY <1>3, <1>4

\* An answer, and the upgrade to a web socket.
LEMMA WebAnswer ==
  ASSUME WebInv, phase = "dispatch", Respond \/ Upgrade
  PROVE  /\ WebInv'
         /\ con_count' = con_count
         /\ turn \in Active
         /\ header_data' = StillRead(header_data, con', con_count')
         /\ \E r \in Con :
              /\ con' = [con EXCEPT ![turn] = r]
              /\ r.who = con[turn].who /\ r.head = con[turn].head
              /\ r.alone = con[turn].alone
              /\ \/ r.used = 0 /\ (r.websocket <=> r.push)
                 \/ /\ r.used = con[turn].used
                    /\ r.push = con[turn].push /\ r.websocket = con[turn].websocket
              /\ Respond => r.websocket = con[turn].websocket
<1>1. /\ turn \in Active /\ turn \in Slots /\ con \in [Slots -> Con] /\ con[turn] \in Con
      /\ client \in [Clients -> Client] /\ con[turn].who \in Clients
      /\ client[con[turn].who] \in Client /\ turn \in Nat
      /\ con[turn].websocket => con[turn].push
      /\ Active \subseteq Slots
  BY WebServerAssumption DEF WebInv, WebTypeOK, Users, Marks, Active, Slots
<1>2. header_data' \in [Slots -> [1 .. 2 -> Part]]
  BY StillReadType DEF WebInv, WebTypeOK, Respond, Upgrade, Forget
<1>3. /\ con_count' = con_count /\ turn' \in {turn, turn + 1} /\ phase' # "dispatch"
  BY DEF Respond, Upgrade
<1>4. /\ client' \in [Clients -> Client]
      /\ \A d \in Clients : client[d].at \in {"served", "subscribed", "left"}
           => client'[d].at \in {"served", "subscribed", "left"}
  <2>1. Idle \in Client
    BY DEF Idle, Client
  <2>2. PICK x \in {"served", "subscribed"} :
          client' = [client EXCEPT ![con[turn].who] =
            IF client[con[turn].who].at = "served" THEN [Idle EXCEPT !.at = x]
            ELSE client[con[turn].who]]
    BY DEF Respond, Upgrade
  <2> DEFINE s == [Idle EXCEPT !.at = x]
  <2>3. s \in Client /\ s.at = x
    BY <2>1, NewAt
  <2> HIDE DEF s
  <2>4. client' = [client EXCEPT ![con[turn].who] =
            IF client[con[turn].who].at = "served" THEN s ELSE client[con[turn].who]]
    BY <2>2 DEF s
  <2> QED
    BY <1>1, <2>3, <2>4
<1>5. PICK r \in Con :
        /\ con' = [con EXCEPT ![turn] = r]
        /\ r.who = con[turn].who /\ r.head = con[turn].head
        /\ r.alone = con[turn].alone
        /\ \/ r.used = 0 /\ (r.websocket <=> r.push)
           \/ /\ r.used = con[turn].used
              /\ r.push = con[turn].push /\ r.websocket = con[turn].websocket
        /\ Respond => r.websocket = con[turn].websocket
  <2>0. CASE Respond /\ con' = [con EXCEPT ![turn].alive = FALSE]
    <3> DEFINE r == [con[turn] EXCEPT !.alive = FALSE]
    <3>1. /\ r \in Con /\ r.who = con[turn].who /\ r.head = con[turn].head
          /\ r.used = con[turn].used /\ r.alone = con[turn].alone
          /\ r.push = con[turn].push /\ r.websocket = con[turn].websocket
      BY <1>1, NewAlive
    <3>2. con' = [con EXCEPT ![turn] = r]
      BY <2>0
    <3> HIDE DEF r
    <3> QED
      BY <3>1, <3>2
  <2>1. CASE Respond /\ con' = [con EXCEPT ![turn] = wby_connection_reset(@)]
    <3> DEFINE r == wby_connection_reset(con[turn])
    <3>1. /\ r \in Con /\ r.who = con[turn].who /\ r.head = con[turn].head
          /\ r.websocket = con[turn].websocket /\ r.used = 0
          /\ r.push = (con[turn].push /\ con[turn].websocket)
          /\ r.alone = con[turn].alone
      BY <1>1, ResetType
    <3>2. con' = [con EXCEPT ![turn] = r]
      BY <2>1
    <3> HIDE DEF r
    <3>3. r.websocket <=> r.push
      BY <1>1, <3>1
    <3> QED
      BY <3>1, <3>2, <3>3
  <2>2. CASE ~Respond
    <3> DEFINE s == [con[turn] EXCEPT !.websocket = TRUE]
               t == [s EXCEPT !.push = TRUE]
               r == wby_connection_reset(t)
    <3>1. /\ s \in Con /\ s.who = con[turn].who /\ s.head = con[turn].head
          /\ s.websocket = TRUE /\ s.alone = con[turn].alone
      BY <1>1, NewWebsocket
    <3>2. con' = [con EXCEPT ![turn] = r]
      <4>1. [con[turn] EXCEPT !.websocket = TRUE, !.push = TRUE] = t
        BY <1>1 DEF Con
      <4> QED
        BY <2>2, <4>1 DEF Upgrade
    <3> HIDE DEF s
    <3>3. /\ t \in Con /\ t.who = con[turn].who /\ t.head = con[turn].head
          /\ t.websocket = TRUE /\ t.push = TRUE /\ t.alone = con[turn].alone
      BY <3>1, NewPush
    <3> HIDE DEF t
    <3>4. /\ r \in Con /\ r.who = con[turn].who /\ r.push = (t.push /\ t.websocket)
          /\ r.websocket = t.websocket /\ r.head = con[turn].head /\ r.used = 0
          /\ r.alone = con[turn].alone
      BY <3>3, ResetType
    <3> QED
      BY <2>2, <3>2, <3>3, <3>4
  <2> QED
    BY <2>0, <2>1, <2>2 DEF Respond
<1>6. WebInv'
  <2>1. turn' \in Nat /\ (r.websocket => r.push)
    BY <1>1, <1>3, <1>5
  <2> QED
    BY <1>1, <1>2, <1>3, <1>4, <1>5, <2>1, WebSlot
<1>7. header_data' = StillRead(header_data, con', con_count')
  BY DEF Respond, Upgrade, Forget
<1> QED
  BY <1>1, <1>3, <1>5, <1>6, <1>7

LEMMA WebInvStep == WebInv /\ WebStep => WebInv'
<1> SUFFICES ASSUME WebInv, WebStep PROVE WebInv'
  OBVIOUS
<1>1. /\ header_data \in [Slots -> [1 .. 2 -> Part]] /\ turn \in Nat /\ 1 \in Nat
  BY DEF WebInv, WebTypeOK
<1>2. CASE phase = "host" /\ (wby_start \/ wby_stop)
  BY <1>2, WebRestart
<1>3. CASE phase = "host" /\ UpdateBegins
  BY <1>1, <1>3, WebControl DEF UpdateBegins
<1>4. CASE AcceptEnds \/ ServeEnds \/ UpdateEnds
  <2>1. /\ UNCHANGED <<con, con_count, client, header_data>> /\ turn' = 1
        /\ phase' # "dispatch"
    BY <1>4 DEF AcceptEnds, ServeEnds, UpdateEnds
  <2> QED
    BY <1>1, <2>1, WebControl
<1> QED
  BY <1>2, <1>3, <1>4, WebClient, WebIncoming, WebRead, WebCompact, WebAnswer DEF WebStep
-----------------------------------------------------------------------------
(***************************************************************************)
(* The slots keep apart.                                                   *)
(***************************************************************************)

\* What a connection that is alone has, is its own.
Owned ==
  \A i \in Active : con[i].alone =>
    /\ con[i].push => con[i].websocket
    /\ \A k \in 1 .. con[i].used : header_data[con[i].head][k].from = con[i].who

\* The history tells the truth of the present.
OneAlone ==
  \A i, j \in Active : con[i].alone /\ con[i].head = con[j].head => i = j

\* A flag is left over only in the copy of a slot that was moved down, next to
\* a slot with the same buffer.
Copies ==
  \A k \in Slots \ Active :
    con[k].websocket => k - 1 \in Slots /\ con[k - 1].head = con[k].head

Clean == Owned /\ OneAlone /\ Copies

\* Slots that keep what they have, and lose no byte that was read, stay clean.
LEMMA CleanForget ==
  ASSUME NEW k \in 1 .. con_count', con'[k].head \in Slots,
         con'[k].used \in 0 .. 2,
         header_data' = StillRead(header_data, con', con_count')
  PROVE  \A m \in 1 .. con'[k].used :
           header_data'[con'[k].head][m] = header_data[con'[k].head][m]
<1> SUFFICES ASSUME NEW m \in 1 .. con'[k].used
             PROVE  header_data'[con'[k].head][m] = header_data[con'[k].head][m]
  OBVIOUS
<1>1. m \in 1 .. 2 /\ con'[k].used >= m
  OBVIOUS
<1> QED
  BY <1>1 DEF StillRead

LEMMA SlotsFacts ==
  ASSUME WebInv
  PROVE  /\ con \in [Slots -> Con] /\ con_count \in Nat /\ con_count <= ConnectionMax
         /\ header_data \in [Slots -> [1 .. 2 -> Part]]
         /\ Active \subseteq Slots
         /\ \A k \in Slots : con[k] \in Con /\ con[k].head \in Slots /\ con[k].used \in 0 .. 2
BY WebServerAssumption DEF WebInv, WebTypeOK, Active, Slots, Con

LEMMA CleanIncoming ==
  ASSUME WebInv, Clean, NEW c \in Clients, wby_on_incoming(c)
  PROVE  Clean'
<1> DEFINE n == con_count + 1
<1>1. /\ header_data' = header_data
      /\ n \in Slots \ Active
      /\ \A k \in Active' : k \in Active \/ k = n
      /\ Active \subseteq Active'
      /\ \A k \in Slots : k # n =>
           /\ con'[k].who = con[k].who /\ con'[k].head = con[k].head
           /\ con'[k].websocket = con[k].websocket /\ con'[k].push = con[k].push
           /\ con'[k].used = con[k].used
      /\ \A k \in Slots : con'[k].alone = StillAlone(n)[k]
  BY WebIncoming
<1>2. LET s == con[n]
          r == con'[n]
      IN  /\ r.head = s.head /\ r.websocket = FALSE
          /\ r.used = 0 /\ r.push = (s.push /\ s.websocket)
  BY WebIncoming
<1>3. \A k \in Slots : con'[k].head = con[k].head
  BY <1>1, <1>2
<1>4. Active \subseteq Slots /\ con_count \in Nat
  BY SlotsFacts
<1>5. n \in Active'
  BY <1>1, <1>4 DEF wby_on_incoming, Active
<1> HIDE DEF n
<1>6. ASSUME NEW k \in Active', k # n
      PROVE  /\ k \in Active /\ k \in Slots
             /\ con'[k].alone => con[k].alone /\ con[k].head # con[n].head
  BY <1>1, <1>4, <1>6 DEF StillAlone, Share
<1>7. con'[n].alone => \A k \in Active : con[k].head # con[n].head
  BY <1>1 DEF StillAlone, Share
<1>8. OneAlone'
  <2> SUFFICES ASSUME NEW i \in Active', NEW j \in Active', con'[i].alone,
                      con'[i].head = con'[j].head
               PROVE  i = j
    BY DEF OneAlone
  <2>1. CASE i = n /\ j # n
    BY <1>1, <1>3, <1>6, <1>7, <2>1
  <2>2. CASE i # n /\ j = n
    BY <1>1, <1>3, <1>6, <2>2
  <2>3. CASE i # n /\ j # n
    BY <1>3, <1>6, <2>3 DEF Clean, OneAlone
  <2> QED
    BY <2>1, <2>2, <2>3
<1>9. Owned'
  <2> SUFFICES ASSUME NEW i \in Active', con'[i].alone
               PROVE  /\ con'[i].push => con'[i].websocket
                      /\ \A k \in 1 .. con'[i].used :
                           header_data'[con'[i].head][k].from = con'[i].who
    BY DEF Owned
  <2>1. CASE i # n
    BY <1>1, <1>6, <2>1 DEF Clean, Owned
  <2>2. CASE i = n
    <3>1. con'[i].used = 0
      BY <1>2, <2>2
    <3>2. ~con[n].websocket
      <4> SUFFICES ASSUME con[n].websocket PROVE FALSE
        OBVIOUS
      <4>1. con_count \in Slots /\ con[con_count].head = con[n].head
        <5>1. n - 1 = con_count
          BY <1>4 DEF n
        <5> QED
          BY <1>1, <5>1 DEF Clean, Copies
      <4>2. con_count \in Active
        BY <1>4, <4>1 DEF Active, Slots
      <4> QED
        BY <1>7, <2>2, <4>1, <4>2
    <3>3. ~con'[i].push
      BY <1>2, <2>2, <3>2
    <3> QED
      BY <3>1, <3>3
  <2> QED
    BY <2>1, <2>2
<1>10. Copies'
  <2> SUFFICES ASSUME NEW k \in Slots, k \notin Active', con'[k].websocket
               PROVE  k - 1 \in Slots /\ con'[k - 1].head = con'[k].head
    BY DEF Copies, Slots
  <2>1. k # n /\ k \notin Active
    BY <1>1, <1>5
  <2>2. con[k].websocket
    BY <1>1, <2>1
  <2> QED
    BY <1>3, <2>1, <2>2 DEF Clean, Copies
<1> QED
  BY <1>8, <1>9, <1>10 DEF Clean

\* Slots that keep their buffers, their histories and the flags of those out of
\* use stay apart.
LEMMA AloneStays ==
  ASSUME WebInv, Clean, con_count' = con_count,
         \A k \in Slots : con'[k].head = con[k].head /\ con'[k].alone = con[k].alone,
         \A k \in Slots \ Active : con'[k].websocket = con[k].websocket
  PROVE  OneAlone' /\ Copies'
<1>1. Active' = Active /\ Slots' = Slots /\ Active \subseteq Slots
  BY SlotsFacts DEF Active, Slots
<1>2. OneAlone'
  BY <1>1 DEF Clean, OneAlone
<1>3. Copies'
  BY <1>1 DEF Clean, Copies
<1> QED
  BY <1>2, <1>3

LEMMA CleanRead ==
  ASSUME WebInv, Clean, NEW i \in Slots, Read(i)
  PROVE  Clean'
<1>1. con_count' = con_count /\ i \in Active
  BY WebRead
<1>2. PICK r \in Con :
        /\ con' = [con EXCEPT ![i] = r]
        /\ r.who = con[i].who /\ r.head = con[i].head
        /\ r.websocket = con[i].websocket /\ r.push = con[i].push
        /\ r.alone = con[i].alone
        /\ \/ header_data' = header_data /\ r.used = con[i].used
           \/ /\ header_data' = wby_socket_recv(con[i], header_data, r.used)
              /\ r.used \in 1 .. 2
  BY WebRead
<1>3. \A k \in Slots : con'[k] = IF k = i THEN r ELSE con[k]
  BY <1>2, SlotsFacts
<1>4. /\ \A k \in Slots : /\ con'[k].head = con[k].head /\ con'[k].who = con[k].who
                          /\ con'[k].push = con[k].push
                          /\ con'[k].websocket = con[k].websocket
                          /\ con'[k].alone = con[k].alone
      /\ Active' = Active /\ Slots' = Slots
  BY <1>1, <1>2, <1>3 DEF Active, Slots
<1>5. OneAlone' /\ Copies'
  BY <1>1, <1>4, AloneStays
<1>6. ASSUME NEW k \in Active, con[k].alone, NEW m \in 1 .. con'[k].used
      PROVE  header_data'[con[k].head][m].from = con[k].who
  <2>1. k \in Slots /\ i \in Slots /\ con[k].head \in Slots /\ con[i].head \in Slots
    BY SlotsFacts
  <2>2. CASE header_data' = header_data /\ r.used = con[i].used
    BY <1>3, <1>6, <2>1, <2>2 DEF Clean, Owned
  <2>3. CASE /\ header_data' = wby_socket_recv(con[i], header_data, r.used)
             /\ r.used \in 1 .. 2
    <3>1. CASE k = i
      <4>1. m \in 1 .. r.used /\ m \in 1 .. 2
        BY <1>3, <2>1, <2>3, <3>1
      <4>2. header_data'[con[i].head][m] =
              IF con[i].used < m /\ m <= r.used
              THEN [from |-> con[i].who, ask |-> client[con[i].who].ask]
              ELSE header_data[con[i].head][m]
        BY <2>1, <2>3, <4>1, SlotsFacts DEF wby_socket_recv
      <4>3. CASE con[i].used < m
        BY <3>1, <4>1, <4>2, <4>3
      <4>4. CASE ~(con[i].used < m)
        <5>1. m \in 1 .. con[i].used
          BY <2>1, <4>1, <4>4, SlotsFacts
        <5> QED
          BY <1>1, <1>6, <3>1, <4>2, <4>4, <5>1 DEF Clean, Owned
      <4> QED
        BY <4>3, <4>4
    <3>2. CASE k # i
      <4>1. con[k].head # con[i].head
        BY <1>1, <1>6, <3>2 DEF Clean, OneAlone
      <4>2. header_data'[con[k].head] = header_data[con[k].head]
        BY <2>1, <2>3, <4>1, SlotsFacts DEF wby_socket_recv
      <4>3. con'[k].used = con[k].used
        BY <1>3, <2>1, <3>2
      <4> QED
        BY <1>6, <4>2, <4>3 DEF Clean, Owned
    <3> QED
      BY <3>1, <3>2
  <2> QED
    BY <1>2, <2>2, <2>3
<1>7. Owned'
  BY <1>4, <1>6, SlotsFacts DEF Clean, Owned
<1> QED
  BY <1>5, <1>7 DEF Clean

LEMMA CleanCompact ==
  ASSUME WebInv, Clean, NEW i \in Slots, Compact(i)
  PROVE  Clean'
<1> USE SlotsFacts
<1>1. /\ i \in Active /\ i \in Nat
      /\ header_data' = StillRead(header_data, con', con_count')
  BY DEF Compact, Forget, Slots
<1>2. \* a slot with what was in the slot f is clean as that was
      ASSUME NEW k \in Active', NEW f \in Active, con'[k] = con[f], con'[k].alone
      PROVE  /\ con'[k].push => con'[k].websocket
             /\ \A m \in 1 .. con'[k].used :
                  header_data'[con'[k].head][m].from = con'[k].who
  <2>1. \A m \in 1 .. con'[k].used :
          header_data'[con'[k].head][m] = header_data[con'[k].head][m]
    <3>1. k \in 1 .. con_count' /\ f \in Slots
      BY DEF Active
    <3> QED
      BY <1>1, <1>2, <3>1, CleanForget
  <2> QED
    BY <1>2, <2>1 DEF Clean, Owned
<1>3. CASE con[i].alive
  <2>1. UNCHANGED <<con, con_count>>
    BY <1>3 DEF Compact
  <2>2. Active' = Active
    BY <2>1 DEF Active
  <2>3. OneAlone' /\ Copies'
    BY <2>1, AloneStays
  <2>4. Owned'
    BY <1>2, <2>1, <2>2 DEF Owned
  <2> QED
    BY <2>3, <2>4 DEF Clean
<1>4. CASE ~con[i].alive
  <2>1. con' = Closed(i) /\ con_count' = con_count - 1
    BY <1>4 DEF Compact
  <2>2. /\ \A k \in Active' :
             /\ k \in Active /\ k + 1 \in Active
             /\ con'[k] = con[IF k < i THEN k ELSE k + 1]
        /\ \A k \in Slots :
             /\ k > con_count => con'[k] = con[k]
             /\ k = con_count =>
                  /\ con'[k].head = con[k].head
                  /\ i = k => ~con'[k].websocket
                  /\ i < k => k - 1 \in Slots /\ con'[k - 1] = con[k]
    BY <1>1, <2>1, Moved
  <2> DEFINE from(k) == IF k < i THEN k ELSE k + 1
  <2>3. ASSUME NEW k \in Active'
        PROVE  from(k) \in Active /\ con'[k] = con[from(k)]
    BY <1>1, <2>2 DEF Active
  <2>4. ASSUME NEW j \in Active', NEW k \in Active', from(j) = from(k)
        PROVE  j = k
    BY <1>1, <2>2, <2>4 DEF Active
  <2> HIDE DEF from
  <2>5. Owned'
    BY <1>2, <2>3 DEF Owned
  <2>6. OneAlone'
    BY <2>3, <2>4 DEF Clean, OneAlone
  <2>7. Copies'
    <3> SUFFICES ASSUME NEW k \in Slots, k \notin Active', con'[k].websocket
                 PROVE  k - 1 \in Slots /\ con'[k - 1].head = con'[k].head
      BY DEF Copies, Slots
    <3>1. k \in Nat /\ k >= con_count /\ i <= con_count
      BY <1>1, <2>1 DEF Active, Slots
    <3>2. CASE k > con_count
      <4>1. con'[k] = con[k] /\ k \notin Active
        BY <2>2, <3>2 DEF Active
      <4>2. k - 1 \in Slots /\ con[k - 1].head = con[k].head
        BY <4>1 DEF Clean, Copies
      <4>3. k - 1 \in Int /\ (k - 1 > con_count \/ k - 1 = con_count)
        BY <3>1, <3>2
      <4>4. con'[k - 1].head = con[k - 1].head
        BY <2>2, <4>2, <4>3
      <4> QED
        BY <4>1, <4>2, <4>4
    <3>3. CASE k = con_count
      <4>1. i < k
        BY <1>1, <2>2, <3>1, <3>3
      <4> QED
        BY <2>2, <3>3, <4>1
    <3> QED
      BY <3>1, <3>2, <3>3
  <2> QED
    BY <2>5, <2>6, <2>7 DEF Clean
<1> QED
  BY <1>3, <1>4

LEMMA CleanAnswer ==
  ASSUME WebInv, Clean, phase = "dispatch", Respond \/ Upgrade
  PROVE  Clean'
<1> USE SlotsFacts
<1>1. /\ con_count' = con_count /\ turn \in Active
      /\ header_data' = StillRead(header_data, con', con_count')
  BY WebAnswer
<1>2. PICK r \in Con :
        /\ con' = [con EXCEPT ![turn] = r]
        /\ r.who = con[turn].who /\ r.head = con[turn].head
        /\ r.alone = con[turn].alone
        /\ \/ r.used = 0 /\ (r.websocket <=> r.push)
           \/ /\ r.used = con[turn].used
              /\ r.push = con[turn].push /\ r.websocket = con[turn].websocket
  BY WebAnswer
<1>3. \A k \in Slots : con'[k] = IF k = turn THEN r ELSE con[k]
  BY <1>2
<1>4. \A k \in Slots : /\ con'[k].head = con[k].head /\ con'[k].who = con[k].who
                       /\ con'[k].alone = con[k].alone
  BY <1>2, <1>3
<1>5. Active' = Active
  BY <1>1 DEF Active
<1>6. ASSUME NEW k \in Active, con[k].alone
      PROVE  /\ con'[k].push => con'[k].websocket
             /\ \A m \in 1 .. con'[k].used :
                  header_data'[con'[k].head][m].from = con'[k].who
  <2>1. \A m \in 1 .. con'[k].used :
          header_data'[con'[k].head][m] = header_data[con'[k].head][m]
    <3>1. k \in 1 .. con_count' /\ k \in Slots
      BY <1>1 DEF Active
    <3>2. con'[k].head \in Slots /\ con'[k].used \in 0 .. 2
      BY <1>2, <1>3, <3>1
    <3> QED
      BY <1>1, <3>1, <3>2, CleanForget
  <2>2. CASE k = turn /\ r.used = 0 /\ (r.websocket <=> r.push)
    <3>1. con'[k] = r
      BY <1>3, <2>2
    <3> QED
      BY <2>2, <3>1
  <2>3. CASE con'[k].used = con[k].used /\ con'[k].push = con[k].push
             /\ con'[k].websocket = con[k].websocket
    <3>1. con'[k].head = con[k].head /\ con'[k].who = con[k].who
      BY <1>4
    <3> QED
      BY <1>6, <2>1, <2>3, <3>1 DEF Clean, Owned
  <2> QED
    BY <1>2, <1>3, <2>2, <2>3
<1>7. Owned'
  BY <1>4, <1>5, <1>6 DEF Owned
<1>8. \A k \in Slots \ Active : con'[k].websocket = con[k].websocket
  BY <1>1, <1>3
<1>9. OneAlone' /\ Copies'
  BY <1>1, <1>4, <1>8, AloneStays
<1> QED
  BY <1>7, <1>9 DEF Clean

LEMMA CleanStep == WebInv /\ Clean /\ WebStep => Clean'
<1> SUFFICES ASSUME WebInv, Clean, WebStep PROVE Clean'
  OBVIOUS
<1>1. CASE phase = "host" /\ (wby_start \/ wby_stop)
  <2>1. con' = Unused /\ con_count' = 0
    BY <1>1 DEF wby_start, wby_stop
  <2>2. \A k \in Slots : con'[k].websocket = FALSE
    BY <2>1 DEF Unused
  <2> QED
    BY <2>1, <2>2 DEF Clean, Owned, OneAlone, Copies, Active, Slots
<1>2. CASE UNCHANGED <<con, con_count, header_data>>
  BY <1>2 DEF Clean, Owned, OneAlone, Copies, Active, Slots
<1> QED
  BY <1>1, <1>2, CleanIncoming, CleanRead, CleanCompact, CleanAnswer
  DEF WebStep, UpdateBegins, Call, SendMore, Leave, Ask, AcceptEnds, ServeEnds, UpdateEnds
-----------------------------------------------------------------------------
(***************************************************************************)
(* The subscribers.                                                        *)
(***************************************************************************)
DInv ==
  /\ WebInv /\ Clean
  /\ db = "on" => hooked
  /\ SubscribersAreTold

\* Only an upgrade makes a subscriber.
LEMMA NoNewSocket ==
  ASSUME WebInv, WebStep, ~(phase = "dispatch" /\ Upgrade),
         NEW k \in Active', con'[k].websocket
  PROVE  \E j \in Active : con[j].websocket /\ con[j].who = con'[k].who
<1>1. CASE phase = "host" /\ (wby_start \/ wby_stop)
  BY <1>1 DEF wby_start, wby_stop, Active
<1>2. CASE UNCHANGED <<con, con_count>>
  BY <1>2 DEF Active
<1>3. ASSUME NEW c \in Clients, wby_on_incoming(c)
      PROVE  /\ k \in Active /\ con'[k].who = con[k].who
             /\ con'[k].websocket = con[k].websocket
  <2>1. /\ k \in Active \/ k = con_count + 1
        /\ \A j \in Slots : j # con_count + 1 =>
             con'[j].who = con[j].who /\ con'[j].websocket = con[j].websocket
        /\ con_count + 1 \in Slots \ Active
    BY <1>3, WebIncoming
  <2>2. con'[con_count + 1].websocket = FALSE
    BY <1>3, WebIncoming
  <2>3. k # con_count + 1
    BY <2>2
  <2> QED
    BY <2>1, <2>3, SlotsFacts
<1>4. ASSUME NEW i \in Slots, Read(i)
      PROVE  /\ k \in Active /\ con[k].who = con'[k].who
             /\ con[k].websocket = con'[k].websocket
  <2>1. con_count' = con_count /\ i \in Active
    BY <1>4, WebRead
  <2>2. PICK r \in Con :
          /\ con' = [con EXCEPT ![i] = r]
          /\ r.who = con[i].who /\ r.websocket = con[i].websocket
    BY <1>4, WebRead
  <2>3. k \in Active /\ k \in Slots
    BY <2>1, SlotsFacts DEF Active
  <2>4. con'[k] = IF k = i THEN r ELSE con[k]
    BY <2>2, <2>3, SlotsFacts
  <2> QED
    BY <2>2, <2>3, <2>4
<1>5. ASSUME NEW i \in Slots, Compact(i), ~con[i].alive
      PROVE  \E j \in Active : con'[k] = con[j]
  <2>1. i \in Active /\ con' = Closed(i) /\ con_count' = con_count - 1
    BY <1>5 DEF Compact
  <2>2. k \in Active /\ k + 1 \in Active /\ con'[k] = con[IF k < i THEN k ELSE k + 1]
    BY <2>1, Moved
  <2> QED
    BY <2>2
<1>6. CASE phase = "dispatch" /\ Respond
  <2>1. con_count' = con_count /\ turn \in Active
    BY <1>6, WebAnswer
  <2>2. PICK r \in Con :
          /\ con' = [con EXCEPT ![turn] = r]
          /\ r.who = con[turn].who /\ r.websocket = con[turn].websocket
    BY <1>6, WebAnswer
  <2>3. k \in Active /\ k \in Slots
    BY <2>1, SlotsFacts DEF Active
  <2>4. con'[k] = IF k = turn THEN r ELSE con[k]
    BY <2>2, <2>3, SlotsFacts
  <2> QED
    BY <2>2, <2>3, <2>4
<1>7. ASSUME NEW i \in Slots, Compact(i), con[i].alive
      PROVE  UNCHANGED <<con, con_count>>
  BY <1>7 DEF Compact
<1> QED
  BY <1>1, <1>2, <1>3, <1>4, <1>5, <1>6, <1>7
  DEF WebStep, UpdateBegins, Call, SendMore, Leave, Ask, AcceptEnds, ServeEnds, UpdateEnds

\* When the loader calls the handler, every subscriber is told.
LEMMA AllMarked ==
  ASSUME WebInv, NEW i \in Active, con[i].websocket
  PROVE  con[i].who \in Marked
BY DEF Marked, WebInv, Marks

LEMMA DInvInit == DInit => DInv
<1> SUFFICES ASSUME DInit PROVE DInv
  OBVIOUS
<1>1. WebInv /\ con = Unused /\ con_count = 0 /\ db = "off"
  BY WebInit DEF DInit, WInit
<1>2. \A k \in Slots : con[k].websocket = FALSE
  BY <1>1 DEF Unused
<1>3. Clean
  BY <1>1, <1>2 DEF Clean, Owned, OneAlone, Copies, Active
<1> QED
  BY <1>1, <1>3 DEF DInv, SubscribersAreTold

LEMMA DInvNext == DInv /\ [DNext]_allvars => DInv'
<1> SUFFICES ASSUME DInv, [DNext]_allvars PROVE DInv'
  OBVIOUS
<1>a. WebInv /\ Clean /\ (db = "on" => hooked) /\ SubscribersAreTold
  BY DEF DInv
<1>b. \* a step of the web server in which nobody subscribes and who is told
      \* of the last link, and still there, stays told
      ASSUME WebStep, ~(phase = "dispatch" /\ Upgrade),
             db' = db, hooked' = hooked,
             \A j \in Active : db = "on" /\ con[j].websocket =>
               con[j].who \in told' \/ client'[con[j].who].at = "away"
      PROVE  DInv'
  <2>1. WebInv' /\ Clean'
    BY <1>a, <1>b, WebInvStep, CleanStep
  <2>2. SubscribersAreTold'
    <3> SUFFICES ASSUME db = "on", NEW k \in Active', con'[k].websocket
                 PROVE  con'[k].who \in told'
      BY <1>b DEF SubscribersAreTold
    <3>1. PICK j \in Active : con[j].websocket /\ con[j].who = con'[k].who
      BY <1>a, <1>b, NoNewSocket
    <3>2. client'[con'[k].who].at # "away"
      BY <2>1 DEF WebInv, Users
    <3> QED
      BY <1>b, <3>1, <3>2
  <2> QED
    BY <1>a, <1>b, <2>1, <2>2 DEF DInv
<1>1. CASE UNCHANGED allvars
  <2>1. UNCHANGED <<con, con_count, header_data, phase, turn, client, db, hooked, told>>
    BY <1>1 DEF allvars, web
  <2> QED
    BY <1>a, <2>1 DEF DInv, WebInv, WebTypeOK, Users, Marks, Active, Clean, Owned, OneAlone, Copies, Slots,
                      SubscribersAreTold
<1>2. CASE adb_init
  <2>1. /\ WebStep /\ con_count' = 0 /\ hooked' = TRUE
    BY <1>2 DEF adb_init, WebStep, wby_start
  <2>2. WebInv' /\ Clean'
    BY <1>a, <2>1, WebInvStep, CleanStep
  <2> QED
    BY <2>1, <2>2 DEF DInv, SubscribersAreTold, Active
<1>3. CASE adb_cleanup
  <2>1. WebStep /\ db' = "off"
    BY <1>3 DEF adb_cleanup, WebStep
  <2>2. WebInv' /\ Clean'
    BY <1>a, <2>1, WebInvStep, CleanStep
  <2> QED
    BY <2>1, <2>2 DEF DInv, SubscribersAreTold
<1>4. CASE adb_run_once
  <2>1. /\ WebStep /\ UNCHANGED <<db, hooked, told>>
        /\ ~(phase = "dispatch" /\ Upgrade)
    BY <1>4 DEF adb_run_once, WebStep, UpdateBegins, serverside
  <2> QED
    BY <1>a, <1>b, <2>1 DEF SubscribersAreTold
<1>5. CASE Host
  <2>1. /\ UNCHANGED <<con, con_count, header_data, phase, turn, client, db, hooked>>
        /\ told' = told \/ (told' = IF hooked THEN Marked ELSE {})
    BY <1>5 DEF Host, LinkAndTell, handle_linked, web
  <2>2. WebInv' /\ Clean'
    BY <1>a, <2>1 DEF WebInv, WebTypeOK, Users, Marks, Active, Clean, Owned, OneAlone, Copies, Slots
  <2>3. SubscribersAreTold'
    BY <1>a, <2>1, AllMarked DEF SubscribersAreTold, Active
  <2> QED
    BY <1>a, <2>1, <2>2, <2>3 DEF DInv
<1>6. CASE ClientStep
  <2>1. /\ WebStep /\ UNCHANGED <<con, con_count, db, hooked, told>>
    BY <1>6 DEF ClientStep, WebStep, serverside, Call, SendMore, Leave, Ask
  <2>2. WebInv' /\ Clean'
    BY <1>a, <2>1, WebInvStep, CleanStep
  <2> QED
    BY <1>a, <2>1, <2>2 DEF DInv, SubscribersAreTold, Active
<1>7. CASE ServerStep
  <2>1. /\ WebStep /\ UNCHANGED <<db, hooked>>
        /\ told' = {c \in told : client'[c].at # "away"}
    BY <1>7 DEF ServerStep, WebStep, Read
  <2>2. ~(phase = "dispatch" /\ Upgrade)
    BY <1>7 DEF ServerStep, wby_on_incoming, AcceptEnds, ReadClosed, ReadNothing,
                ReadParts, Compact, ServeEnds, UpdateEnds
  <2> QED
    BY <1>a, <1>b, <2>1, <2>2 DEF SubscribersAreTold
<1>8. CASE Look \/ post_chunk \/ handle_modules_link
  <2>1. /\ phase = "dispatch" /\ Respond
        /\ UNCHANGED <<db, hooked>>
        /\ told' = told \/ (told' = IF hooked THEN Marked ELSE {})
    BY <1>8 DEF Look, post_chunk, handle_modules_link, Serving, LinkAndTell,
                handle_linked, serverside
  <2>2. WebStep
    BY <2>1 DEF WebStep
  <2>3. WebInv' /\ Clean'
    BY <1>a, <2>2, WebInvStep, CleanStep
  <2>4. con_count' = con_count /\ turn \in Active
    BY <1>a, <2>1, WebAnswer
  <2>5. PICK r \in Con :
          /\ con' = [con EXCEPT ![turn] = r]
          /\ r.who = con[turn].who /\ r.websocket = con[turn].websocket
    BY <1>a, <2>1, WebAnswer
  <2>6. \A k \in Active' :
          /\ k \in Active /\ con'[k].who = con[k].who
          /\ con'[k].websocket = con[k].websocket
    BY <1>a, <2>4, <2>5, SlotsFacts DEF Active
  <2>7. SubscribersAreTold'
    BY <1>a, <2>1, <2>6, AllMarked DEF SubscribersAreTold
  <2> QED
    BY <1>a, <2>1, <2>3, <2>7 DEF DInv
<1>9. CASE Subscribe
  <2>1. /\ phase = "dispatch" /\ Upgrade /\ UNCHANGED <<db, hooked>>
        /\ told' = told \cup {con'[i].who :
                                i \in {j \in Active : con'[j].push /\ con'[j].websocket}}
    BY <1>9 DEF Subscribe, Serving
  <2>2. WebStep
    BY <2>1 DEF WebStep
  <2>3. WebInv' /\ Clean'
    BY <1>a, <2>2, WebInvStep, CleanStep
  <2>4. Active' = Active
    BY <2>1 DEF Upgrade, Active
  <2>5. \A k \in Active' : con'[k].websocket => con'[k].push
    BY <2>3 DEF WebInv, Marks
  <2>6. SubscribersAreTold'
    BY <2>1, <2>4, <2>5 DEF SubscribersAreTold
  <2> QED
    BY <1>a, <2>1, <2>3, <2>6 DEF DInv
<1>10. CASE post_chunk_lost
  <2>1. /\ WebStep /\ UNCHANGED <<db, hooked, told>>
        /\ ~Upgrade
    <3>1. phase = "dispatch" /\ BodyLost /\ UNCHANGED <<db, hooked, told>>
      BY <1>10 DEF post_chunk_lost, Serving, serverside
    <3>2. turn \in Slots
      BY <1>a, <3>1, SlotsFacts DEF WebInv, WebTypeOK
    <3>3. WebStep
      BY <3>1, <3>2 DEF WebStep, Read
    <3> QED
      BY <3>1, <3>3 DEF BodyLost, Upgrade
  <2> QED
    BY <1>a, <1>b, <2>1 DEF SubscribersAreTold
<1> QED
  BY <1>1, <1>2, <1>3, <1>4, <1>5, <1>6, <1>7, <1>8, <1>9, <1>10 DEF DNext, Handler

\* The inductive invariant holds in every reachable state.
THEOREM DInvHolds == DSpec => []DInv
BY DInvInit, DInvNext, PTL DEF DSpec

\* Every subscriber has heard of the last successful link (push in db.c), with
\* any number of clients and slots, whoever came, left or was moved meanwhile.
THEOREM SubscribersKnow == DSpec => []SubscribersAreTold
<1>1. DInv => SubscribersAreTold
  BY DEF DInv
<1> QED
  BY <1>1, DInvHolds, PTL

\* With any number of clients and slots, and however slots are closed, moved
\* down and used again: a connection that no other one has met in its buffer
\* has only read what its client sent, and carries a subscriber's mark exactly
\* if it is a web socket (wby_update, wby_on_incoming, wby_connection_reset).
THEOREM ConnectionsKeepApart == DSpec => []SlotsKeepApart
<1>1. DInv => SlotsKeepApart
  BY DEF DInv, WebInv, Marks, Clean, Owned, SlotsKeepApart
<1> QED
  BY <1>1, DInvHolds, PTL
=============================================================================
