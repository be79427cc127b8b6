----------------------------- MODULE CallsProofs -----------------------------
(***************************************************************************)
(* The calls and the value stack of an actor, for every number of          *)
(* activations and values.  The inductive invariant speaks of the C stack  *)
(* as a whole: how the saved pointers link it, which part of the value     *)
(* stack each activation has, and how far down an error may bring the top. *)
(***************************************************************************)
EXTENDS CallsProperties, ListsProofs

FramesOf(cs) == {i \in DOMAIN cs : cs[i].kind # "try"}

Activations ==
  [kind : {"entry"} \cup Functions, prev : Nat, bp : 0 .. MaxStack,
   nargs : Args \cup {0}, locals : Locals \cup {0}, below : Seq(Values)]
  \cup
  [kind : {"try"}, prev : Nat, sp : Nat, frame : Nat,
   body : {"native", "begin", "call"}, nargs : Args \cup {0}]

\* actor_entry is at the bottom, and its any_try over it.
Shaped(cs) ==
  /\ cs \in Seq(Activations)
  /\ cs # <<>> /\ cs[1].kind = "entry" /\ cs[1].below = <<>>
  /\ \A i \in 2 .. Len(cs) : cs[i].kind # "entry"
  /\ Len(cs) >= 2 => cs[2].kind = "try"
  /\ \A i \in Catches(cs) : cs[i].body = "native" =>
       cs[i].sp < MaxStack /\ cs[i].frame # 1

\* m is the last place of S before n, or 0.
LastBefore(S, n, m) ==
  /\ m = 0 \/ (m \in S /\ m < n)
  /\ \A i \in S : i < n => i <= m

\* The saved pointers lead to the activations around.
Linked(cs) ==
  /\ \A i \in FramesOf(cs) : LastBefore(FramesOf(cs), i, cs[i].prev)
  /\ \A i \in Catches(cs) :
       /\ LastBefore(Catches(cs), i, cs[i].prev)
       /\ LastBefore(FramesOf(cs), i, cs[i].frame)

\* Each frame has its part of the value stack over the parts of its callers.
Banded(cs) ==
  /\ \A j \in FramesOf(cs) \ {1} :
       /\ cs[j].bp = Len(cs[j].below) + 1 + cs[j].nargs
       /\ \A i \in FramesOf(cs) : i < j => cs[i].bp <= Len(cs[j].below)
  /\ \A i \in Catches(cs) : cs[i].sp >= cs[cs[i].frame].bp

\* How far down an error leaves the values that were there, and for a frame
\* how far down its own part is.
Level(cs, i) ==
  IF cs[i].kind # "try" THEN Len(cs[i].below)
  ELSE IF cs[i].body = "native" THEN cs[i].sp ELSE cs[cs[i].frame].bp

Levelled(cs) ==
  \A i \in Catches(cs), j \in DOMAIN cs : i < j => Level(cs, i) <= Level(cs, j)

KeptIn(a, cs) ==
  \A i \in FramesOf(cs) : \A k \in 1 .. Len(cs[i].below) : a[k] = cs[i].below[k]

\* When no code took values from under its own catch point.
Tidy(a, n, cs) ==
  /\ Levelled(cs)
  /\ \A i \in Catches(cs) : Level(cs, i) <= n
  /\ \A k \in 1 .. n : a[k] # "stale"

\* The pointers and the bands, for an array a with n values on the stack, a
\* C stack cs and the pointers f and e into it.
Solid(a, n, cs, f, e) ==
  /\ a \in Seq(Values) /\ n \in 1 .. MaxStack + 1 /\ n <= Len(a)
  /\ \A i \in Catches(cs) : cs[i].sp <= Len(a)
  /\ Shaped(cs) /\ Linked(cs) /\ Banded(cs)
  /\ LastBefore(FramesOf(cs), Len(cs) + 1, f)
  /\ LastBefore(Catches(cs), Len(cs) + 1, e)
  /\ n >= cs[f].bp

\* The inductive invariant.
IsSolid == Solid(v, sp, cstack, frame, error_jmp)
IsKept == KeptIn(v, cstack)
IsTidy == Tidy(v, sp, cstack)

CallsInv ==
  /\ IsSolid
  /\ flags \in BOOLEAN /\ loose \in BOOLEAN /\ under \in BOOLEAN
  /\ ~under => IsKept
  /\ ~under /\ ~loose => IsTidy
-----------------------------------------------------------------------------
(***************************************************************************)
(* The array and its operators.                                            *)
(***************************************************************************)
LEMMA MaxIs ==
  ASSUME NEW S \in SUBSET Int, NEW m \in S, \A s \in S : s <= m
  PROVE  Max(S) = m
<1>1. m \in S /\ \A y \in S : m >= y
  OBVIOUS
<1>2. \A x \in S : (\A y \in S : x >= y) => x = m
  BY <1>1
<1> QED
  BY <1>1, <1>2 DEF Max

\* The last of a set of numbers is the one of the highest rank.
LEMMA HasMax ==
  ASSUME NEW n \in Nat, NEW S \in SUBSET (0 .. n), S # {}
  PROVE  Max(S) \in S /\ \A s \in S : s <= Max(S)
<1> DEFINE K == {s + 1 : s \in S}
<1>1. K \in SUBSET (1 .. n + 1) /\ n + 1 \in Nat /\ K # {}
  <2>1. \A s \in S : s + 1 \in K /\ s + 1 \in 1 .. n + 1
    OBVIOUS
  <2>2. \A k \in K : k \in 1 .. n + 1
    OBVIOUS
  <2>3. K # {}
    BY <2>1
  <2> QED BY <2>2, <2>3
<1>2. IsFiniteSet(K) /\ Cardinality(K) \in Nat /\ Cardinality(K) # 0
  <2> HIDE DEF K
  <2> QED BY <1>1, RankBounds, FS_EmptySet
<1>3. PICK i \in K : Rank(K, i) = Cardinality(K)
  <2> HIDE DEF K
  <2>1. Cardinality(K) \in 1 .. Cardinality(K)
    BY <1>2
  <2> QED BY <1>1, <2>1, RankOnto
<1>4. \A k \in K : k <= i
  <2> HIDE DEF K
  <2> SUFFICES ASSUME NEW k \in K, i < k PROVE FALSE
    BY <1>1
  <2>1. Rank(K, i) < Rank(K, k) /\ Rank(K, k) \in 1 .. Cardinality(K)
    BY <1>1, RankBounds
  <2> QED BY <1>2, <1>3, <2>1
<1>5. PICK m \in S : i = m + 1
  OBVIOUS
<1>6. \A s \in S : s <= m
  BY <1>4, <1>5
<1>7. Max(S) = m
  BY <1>6, MaxIs
<1> QED
  BY <1>6, <1>7

\* What is cut off lies over n and over every catch point.
LEMMA TrimFacts ==
  ASSUME NEW a \in Seq(Values), NEW n \in 0 .. Len(a), NEW cs \in Seq(Activations),
         \A i \in Catches(cs) : cs[i].sp \in 0 .. Len(a)
  PROVE  /\ Trim(a, n, cs) \in Seq(Values)
         /\ n <= Len(Trim(a, n, cs)) /\ Len(Trim(a, n, cs)) <= Len(a)
         /\ \A i \in Catches(cs) : cs[i].sp <= Len(Trim(a, n, cs))
         /\ \A k \in 1 .. Len(Trim(a, n, cs)) : Trim(a, n, cs)[k] = a[k]
<1> DEFINE S == {n} \cup {cs[i].sp : i \in Catches(cs)}
<1>1. S \in SUBSET (0 .. Len(a)) /\ n \in S /\ Len(a) \in Nat
  OBVIOUS
<1>2. Max(S) \in S /\ \A s \in S : s <= Max(S)
  <2> HIDE DEF S
  <2> QED BY <1>1, HasMax
<1>3. Trim(a, n, cs) = SubSeq(a, 1, Max(S))
  BY DEF Trim
<1>4. Max(S) \in 0 .. Len(a) /\ n <= Max(S)
      /\ \A i \in Catches(cs) : cs[i].sp <= Max(S)
  <2>1. \A i \in Catches(cs) : cs[i].sp \in S
    OBVIOUS
  <2> HIDE DEF S
  <2> QED BY <1>1, <1>2, <2>1
<1> DEFINE M == Max(S)
<1> HIDE DEF M, S
<1>5. M \in 0 .. Len(a) /\ n <= M /\ (\A i \in Catches(cs) : cs[i].sp <= M)
      /\ Trim(a, n, cs) = SubSeq(a, 1, M)
  BY <1>3, <1>4 DEF M
<1>6. /\ SubSeq(a, 1, M) \in Seq(Values) /\ Len(SubSeq(a, 1, M)) = M
      /\ \A k \in 1 .. M : SubSeq(a, 1, M)[k] = a[k]
  <2>1. \A k \in 1 .. M : a[k] \in Values
    BY <1>5, ElementOfSeq
  <2> QED BY <1>5, <2>1, SubSeqProperties
<1> QED
  BY <1>5, <1>6

LEMMA PutFacts ==
  ASSUME NEW a \in Seq(Values), NEW k \in 1 .. Len(a) + 1, NEW x \in Values
  PROVE  /\ Put(a, k, x) \in Seq(Values)
         /\ Len(Put(a, k, x)) >= Len(a) /\ Len(Put(a, k, x)) >= k
         /\ Len(Put(a, k, x)) \in Nat
         /\ Put(a, k, x)[k] = x
         /\ \A j \in 1 .. Len(a) : j # k => Put(a, k, x)[j] = a[j]
<1>1. CASE k <= Len(a)
  BY <1>1, ExceptSeq DEF Put
<1>2. CASE k = Len(a) + 1
  BY <1>2 DEF Put
<1> QED BY <1>1, <1>2

LEMMA CollectedFacts ==
  ASSUME NEW a \in Seq(Values), NEW n \in Nat
  PROVE  /\ Collected(a, n) \in Seq(Values) /\ Len(Collected(a, n)) = Len(a)
         /\ \A k \in 1 .. Len(a) : k <= n => Collected(a, n)[k] = a[k]
<1>1. \A k \in 1 .. Len(a) : a[k] \in Values
  BY ElementOfSeq
<1>2. DOMAIN a = 1 .. Len(a) /\ Len(a) \in Nat
  BY LenProperties
<1>3. Collected(a, n) \in [1 .. Len(a) -> Values]
  BY <1>1, <1>2 DEF Collected, Values
<1> QED
  BY <1>2, <1>3 DEF Collected
-----------------------------------------------------------------------------
(***************************************************************************)
(* The C stack: its types, and what is left when it is cut.                *)
(***************************************************************************)
Chain(cs) == Shaped(cs) /\ Linked(cs) /\ Banded(cs)

LEMMA NatConstants == \A x \in Args \cup Locals \cup {0} : x \in Nat
BY CallsAssumption DEF CallsAssumption

LEMMA NatBounds == MaxStack \in Nat /\ MaxNest \in Nat
BY CallsAssumption DEF CallsAssumption

LEMMA ChainTypes ==
  ASSUME NEW cs, Shaped(cs)
  PROVE  /\ Len(cs) \in Nat \ {0} /\ DOMAIN cs = 1 .. Len(cs) /\ 1 \in FramesOf(cs)
         /\ FramesOf(cs) \in SUBSET (1 .. Len(cs))
         /\ Catches(cs) = (1 .. Len(cs)) \ FramesOf(cs)
         /\ \A i \in FramesOf(cs) :
              /\ cs[i].kind \in {"entry"} \cup Functions
              /\ cs[i].prev \in Nat /\ cs[i].bp \in 0 .. MaxStack
              /\ cs[i].nargs \in Args \cup {0} /\ cs[i].nargs \in Nat
              /\ cs[i].locals \in Locals \cup {0} /\ cs[i].locals \in Nat
              /\ cs[i].below \in Seq(Values) /\ Len(cs[i].below) \in Nat
         /\ \A i \in Catches(cs) :
              /\ i > 1 /\ cs[i].kind = "try"
              /\ cs[i].prev \in Nat /\ cs[i].sp \in Nat /\ cs[i].frame \in Nat
              /\ cs[i].body \in {"native", "begin", "call"}
              /\ cs[i].nargs \in Args \cup {0}
<1>1. cs \in Seq(Activations) /\ cs # <<>> /\ cs[1].kind = "entry"
  BY DEF Shaped
<1>2. Len(cs) \in Nat \ {0} /\ DOMAIN cs = 1 .. Len(cs)
  BY <1>1, LenProperties, EmptySeq
<1>3. \A i \in 1 .. Len(cs) : cs[i] \in Activations
  BY <1>1, ElementOfSeq
<1>4. 1 \in FramesOf(cs)
  BY <1>1, <1>2 DEF FramesOf
<1>5. \A s \in Seq(Values) : Len(s) \in Nat
  OBVIOUS
<1>6. ASSUME NEW i \in FramesOf(cs)
      PROVE  /\ cs[i].kind \in {"entry"} \cup Functions
             /\ cs[i].prev \in Nat /\ cs[i].bp \in 0 .. MaxStack
             /\ cs[i].nargs \in Args \cup {0}
             /\ cs[i].locals \in Locals \cup {0}
             /\ cs[i].below \in Seq(Values)
  BY <1>2, <1>3 DEF FramesOf, Activations
<1>7. ASSUME NEW i \in Catches(cs)
      PROVE  /\ i \in 1 .. Len(cs) /\ cs[i].kind = "try"
             /\ cs[i].prev \in Nat /\ cs[i].sp \in Nat /\ cs[i].frame \in Nat
             /\ cs[i].body \in {"native", "begin", "call"}
             /\ cs[i].nargs \in Args \cup {0}
  BY <1>2, <1>3 DEF Catches, Activations, Functions
<1>8. FramesOf(cs) \in SUBSET (1 .. Len(cs)) /\ Catches(cs) = (1 .. Len(cs)) \ FramesOf(cs)
  BY <1>2 DEF FramesOf, Catches
<1>9. \A i \in Catches(cs) : i > 1
  BY <1>2, <1>4, <1>8
<1> QED
  BY <1>2, <1>4, <1>5, <1>6, <1>7, <1>8, <1>9, NatConstants

\* The places that the saved pointers name are frames.
LEMMA ChainFrames ==
  ASSUME NEW cs, Chain(cs)
  PROVE  /\ \A i \in Catches(cs) : cs[i].frame \in FramesOf(cs) /\ cs[i].frame < i
         /\ \A i \in FramesOf(cs) \ {1} : cs[i].prev \in FramesOf(cs) /\ cs[i].prev < i
         /\ \A i \in FramesOf(cs), j \in FramesOf(cs) :
              i < j => Len(cs[i].below) <= Len(cs[j].below)
         /\ \A i \in FramesOf(cs) : Len(cs[i].below) <= cs[i].bp
<1> USE ChainTypes DEF Chain
<1>1. \A i \in Catches(cs) : cs[i].frame \in FramesOf(cs) /\ cs[i].frame < i
  BY DEF Linked, LastBefore
<1>2. \A i \in FramesOf(cs) \ {1} : cs[i].prev \in FramesOf(cs) /\ cs[i].prev < i
  BY DEF Linked, LastBefore
<1>3. \A i \in FramesOf(cs) : Len(cs[i].below) <= cs[i].bp
  <2>1. Len(cs[1].below) = 0
    BY EmptySeq DEF Shaped
  <2> QED BY <2>1 DEF Banded
<1>4. \A i \in FramesOf(cs), j \in FramesOf(cs) :
        i < j => Len(cs[i].below) <= Len(cs[j].below)
  <2> SUFFICES ASSUME NEW i \in FramesOf(cs), NEW j \in FramesOf(cs), i < j
               PROVE  Len(cs[i].below) <= Len(cs[j].below)
    OBVIOUS
  <2>1. j # 1
    OBVIOUS
  <2>2. cs[i].bp <= Len(cs[j].below)
    BY <2>1 DEF Banded
  <2> QED BY <1>3, <2>2
<1> QED
  BY <1>1, <1>2, <1>3, <1>4

\* The innermost frame there is.
LEMMA LastFrame ==
  ASSUME NEW cs, Chain(cs), NEW n \in 2 .. Len(cs) + 1, NEW f,
         LastBefore(FramesOf(cs), n, f)
  PROVE  /\ f \in FramesOf(cs) /\ f < n
         /\ \A i \in FramesOf(cs) : i < n => Len(cs[i].below) <= Len(cs[f].below)
         /\ Len(cs[f].below) <= cs[f].bp
<1>1. Shaped(cs) /\ FramesOf(cs) \in SUBSET (1 .. Len(cs)) /\ 1 \in FramesOf(cs)
      /\ Len(cs) \in Nat
  BY ChainTypes DEF Chain
<1>2. f \in FramesOf(cs) /\ f < n
  BY <1>1 DEF LastBefore
<1>3. Len(cs[f].below) <= cs[f].bp
  BY <1>2, ChainFrames
<1>4. ASSUME NEW i \in FramesOf(cs), i < n
      PROVE  Len(cs[i].below) <= Len(cs[f].below)
  <2>1. i <= f /\ i \in Int /\ f \in Int
    BY <1>1, <1>2, <1>4 DEF LastBefore
  <2>2. CASE i = f
    <3>1. Len(cs[f].below) \in Nat
      BY <1>1, <1>2, ChainTypes
    <3> QED BY <2>2, <3>1
  <2>3. CASE i < f
    BY <1>2, <2>3, ChainFrames
  <2> QED BY <2>1, <2>2, <2>3
<1> QED
  BY <1>2, <1>3, <1>4

LEMMA LastOfCut ==
  ASSUME NEW S \in SUBSET Nat, NEW m \in Nat, NEW i \in 0 .. m + 1, NEW n,
         0 \notin S, LastBefore(S, i, n)
  PROVE  LastBefore(S \cap (1 .. m), i, n)
<1>1. \A k \in S : k \in Nat /\ k # 0
  OBVIOUS
<1>2. n = 0 \/ (n \in S \cap (1 .. m) /\ n < i)
  <2> SUFFICES ASSUME n # 0 PROVE n \in S \cap (1 .. m) /\ n < i
    OBVIOUS
  <2>1. n \in S /\ n < i
    BY DEF LastBefore
  <2>2. n \in Nat /\ n # 0 /\ i \in Int /\ i <= m + 1
    BY <1>1, <2>1
  <2> QED BY <2>1, <2>2
<1>3. \A k \in S \cap (1 .. m) : k < i => k <= n
  BY DEF LastBefore
<1> QED BY <1>2, <1>3 DEF LastBefore

\* The ends of a chain.
LEMMA ChainPlaces ==
  ASSUME NEW cs, Shaped(cs)
  PROVE  /\ FramesOf(cs) \in SUBSET Nat /\ 0 \notin FramesOf(cs)
         /\ Catches(cs) \in SUBSET Nat /\ 0 \notin Catches(cs)
BY ChainTypes

\* A cut C stack is one.
LEMMA Cut ==
  ASSUME NEW cs, Chain(cs), NEW m \in 1 .. Len(cs)
  PROVE  LET cut == SubSeq(cs, 1, m)
         IN  /\ Chain(cut) /\ Len(cut) = m
             /\ \A i \in 1 .. m : cut[i] = cs[i]
             /\ FramesOf(cut) = FramesOf(cs) \cap (1 .. m)
             /\ Catches(cut) = Catches(cs) \cap (1 .. m)
             /\ \A i \in 1 .. m : Level(cut, i) = Level(cs, i)
             /\ Levelled(cs) => Levelled(cut)
             /\ \A n : LastBefore(FramesOf(cs), m + 1, n) =>
                         LastBefore(FramesOf(cut), Len(cut) + 1, n)
             /\ \A n : LastBefore(Catches(cs), m + 1, n) =>
                         LastBefore(Catches(cut), Len(cut) + 1, n)
<1> DEFINE cut == SubSeq(cs, 1, m)
<1>0. cs \in Seq(Activations) /\ Len(cs) \in Nat /\ Shaped(cs) /\ Linked(cs) /\ Banded(cs)
  BY ChainTypes DEF Chain, Shaped
<1>1. cut \in Seq(Activations) /\ Len(cut) = m /\ \A i \in 1 .. m : cut[i] = cs[i]
  <2>1. \A i \in 1 .. m : cs[i] \in Activations
    BY <1>0, ElementOfSeq
  <2> QED BY <1>0, <2>1, SubSeqProperties
<1> HIDE DEF cut
<1>2. DOMAIN cut = 1 .. m /\ cut # <<>> /\ DOMAIN cs = 1 .. Len(cs)
  BY <1>0, <1>1, LenProperties, EmptySeq
<1>3. FramesOf(cut) = FramesOf(cs) \cap (1 .. m) /\ Catches(cut) = Catches(cs) \cap (1 .. m)
  BY <1>1, <1>2 DEF FramesOf, Catches
<1>4. Shaped(cut)
  BY <1>0, <1>1, <1>2, <1>3, ChainTypes DEF Shaped
<1>5. Linked(cut)
  <2>0. /\ FramesOf(cs) \in SUBSET Nat /\ 0 \notin FramesOf(cs)
        /\ Catches(cs) \in SUBSET Nat /\ 0 \notin Catches(cs)
        /\ m \in Nat /\ \A i \in 1 .. m : i \in 0 .. m + 1
        /\ Linked(cs)
    BY <1>0, ChainPlaces
  <2>1. ASSUME NEW S \in {FramesOf(cs), Catches(cs)}, NEW i \in 1 .. m, NEW p,
               LastBefore(S, i, p)
        PROVE  LastBefore(S \cap (1 .. m), i, p)
    BY <2>0, <2>1, LastOfCut
  <2>2. \A i \in FramesOf(cut) : LastBefore(FramesOf(cut), i, cut[i].prev)
    <3>1. \A i \in FramesOf(cut) : LastBefore(FramesOf(cs), i, cs[i].prev)
      BY <2>0, <1>3 DEF Linked
    <3> QED BY <1>1, <1>3, <2>1, <3>1
  <2>3. \A i \in Catches(cut) : LastBefore(Catches(cut), i, cut[i].prev)
    <3>1. \A i \in Catches(cut) : LastBefore(Catches(cs), i, cs[i].prev)
      BY <2>0, <1>3 DEF Linked
    <3> QED BY <1>1, <1>3, <2>1, <3>1
  <2>4. \A i \in Catches(cut) : LastBefore(FramesOf(cut), i, cut[i].frame)
    <3>1. \A i \in Catches(cut) : LastBefore(FramesOf(cs), i, cs[i].frame)
      BY <2>0, <1>3 DEF Linked
    <3> QED BY <1>1, <1>3, <2>1, <3>1
  <2> QED BY <2>2, <2>3, <2>4 DEF Linked
<1>6. \A i \in Catches(cut) : cs[i].frame \in 1 .. m /\ cut[cs[i].frame] = cs[cs[i].frame]
  BY <1>1, <1>3, ChainTypes, ChainFrames DEF Chain
<1>7. Banded(cut)
  BY <1>0, <1>1, <1>3, <1>6 DEF Banded
<1>8. \A i \in 1 .. m : Level(cut, i) = Level(cs, i)
  BY <1>1, <1>2, <1>6 DEF Level, Catches
<1>9. Levelled(cs) => Levelled(cut)
  BY <1>0, <1>2, <1>3, <1>8 DEF Levelled
<1>10. \A S \in SUBSET (1 .. Len(cs)) : \A n :
         LastBefore(S, m + 1, n) => LastBefore(S \cap (1 .. m), m + 1, n)
  BY <1>0, LastOfCut
<1>11. FramesOf(cs) \in SUBSET (1 .. Len(cs)) /\ Catches(cs) \in SUBSET (1 .. Len(cs))
  BY <1>0, ChainTypes
<1> QED
  BY <1>1, <1>3, <1>4, <1>5, <1>7, <1>8, <1>9, <1>10, <1>11 DEF Chain, cut

\* One more activation changes nothing for the ones there are.
LEMMA Grown ==
  ASSUME NEW cs, Chain(cs), NEW r \in Activations
  PROVE  LET new == Append(cs, r)
         IN  /\ new \in Seq(Activations) /\ Len(new) = Len(cs) + 1
             /\ new[Len(cs) + 1] = r
             /\ \A i \in 1 .. Len(cs) : new[i] = cs[i]
             /\ r.kind # "try" =>
                  /\ FramesOf(new) = FramesOf(cs) \cup {Len(cs) + 1}
                  /\ Catches(new) = Catches(cs)
             /\ r.kind = "try" =>
                  /\ FramesOf(new) = FramesOf(cs)
                  /\ Catches(new) = Catches(cs) \cup {Len(cs) + 1}
             /\ \A i \in 1 .. Len(cs) : Level(new, i) = Level(cs, i)
<1> DEFINE new == Append(cs, r)
<1>1. /\ new \in Seq(Activations) /\ Len(new) = Len(cs) + 1 /\ Len(cs) \in Nat
      /\ new[Len(cs) + 1] = r
      /\ \A i \in 1 .. Len(cs) : new[i] = cs[i]
  BY DEF Chain, Shaped
<1> HIDE DEF new
<1>2. DOMAIN new = 1 .. Len(cs) + 1 /\ DOMAIN cs = 1 .. Len(cs)
  BY <1>1, LenProperties, ChainTypes DEF Chain
<1>3. r.kind # "try" => /\ FramesOf(new) = FramesOf(cs) \cup {Len(cs) + 1}
                        /\ Catches(new) = Catches(cs)
  BY <1>1, <1>2 DEF FramesOf, Catches
<1>4. r.kind = "try" => /\ FramesOf(new) = FramesOf(cs)
                        /\ Catches(new) = Catches(cs) \cup {Len(cs) + 1}
  BY <1>1, <1>2 DEF FramesOf, Catches
<1>5. \A i \in Catches(cs) : cs[i].frame \in 1 .. Len(cs)
  BY ChainTypes, ChainFrames DEF Chain
<1>6. \A i \in 1 .. Len(cs) : Level(new, i) = Level(cs, i)
  BY <1>1, <1>2, <1>5 DEF Level, Catches
<1> QED
  BY <1>1, <1>3, <1>4, <1>6 DEF new

LEMMA LastOfGrown ==
  ASSUME NEW S \in SUBSET Nat, NEW m \in Nat, \A k \in S : k <= m, NEW i \in Nat,
         i <= m + 1, NEW n, LastBefore(S, i, n)
  PROVE  LastBefore(S \cup {m + 1}, i, n)
BY DEF LastBefore

\* A new frame on top of the C stack.
LEMMA PushFrame ==
  ASSUME NEW cs, Chain(cs), Len(cs) >= 2,
         NEW r \in Activations, r.kind \in Functions,
         LastBefore(FramesOf(cs), Len(cs) + 1, r.prev),
         r.bp = Len(r.below) + 1 + r.nargs,
         cs[r.prev].bp <= Len(r.below)
  PROVE  LET new == Append(cs, r)
         IN  /\ Chain(new)
             /\ Level(new, Len(cs) + 1) = Len(r.below)
             /\ LastBefore(FramesOf(new), Len(cs) + 2, Len(cs) + 1)
             /\ \A n : LastBefore(Catches(cs), Len(cs) + 1, n) =>
                         LastBefore(Catches(new), Len(cs) + 2, n)
             /\ Levelled(cs) /\ (\A i \in Catches(cs) : Level(cs, i) <= Len(r.below))
                  => Levelled(new)
<1> DEFINE new == Append(cs, r)
           m == Len(cs)
<1>1. /\ new \in Seq(Activations) /\ Len(new) = m + 1 /\ new[m + 1] = r
      /\ \A i \in 1 .. m : new[i] = cs[i]
      /\ FramesOf(new) = FramesOf(cs) \cup {m + 1} /\ Catches(new) = Catches(cs)
      /\ \A i \in 1 .. m : Level(new, i) = Level(cs, i)
  <2>1. r.kind # "try"
    BY DEF Functions
  <2> QED BY <2>1, Grown
<1>2. m \in Nat \ {0} /\ FramesOf(cs) \in SUBSET (1 .. m) /\ Catches(cs) \in SUBSET (1 .. m)
  BY ChainTypes DEF Chain
<1> HIDE DEF new, m
<1>3. Shaped(cs) /\ Linked(cs) /\ Banded(cs)
  BY DEF Chain
<1>4. Shaped(new)
  <2>1. new # <<>>
    BY <1>1, <1>2, EmptySeq
  <2>2. r.kind \notin {"entry", "try"}
    BY DEF Functions
  <2>3. \A i \in Catches(new) : new[i] = cs[i]
    BY <1>1, <1>2
  <2>4. /\ cs[1].kind = "entry" /\ cs[1].below = <<>> /\ cs[2].kind = "try"
        /\ \A i \in 2 .. m : cs[i].kind # "entry" /\ m >= 2
        /\ \A i \in Catches(cs) : cs[i].body = "native" =>
             cs[i].sp < MaxStack /\ cs[i].frame # 1
    BY <1>3 DEF Shaped, m
  <2>5. \A i \in 2 .. m + 1 : new[i].kind # "entry"
    BY <1>1, <1>2, <2>2, <2>4
  <2>6. new[1] = cs[1] /\ new[2] = cs[2]
    <3>1. 1 \in 1 .. m /\ 2 \in 1 .. m
      BY <1>2 DEF m
    <3> QED BY <1>1, <3>1
  <2> QED BY <1>1, <2>1, <2>3, <2>4, <2>5, <2>6 DEF Shaped
<1>5. Linked(new)
  <2>0. /\ FramesOf(cs) \in SUBSET Nat /\ \A k \in FramesOf(cs) : k <= m
        /\ m \in Nat /\ \A i \in 1 .. m : i \in Nat /\ i <= m + 1
    BY <1>2
  <2>1. \A i \in FramesOf(new) : LastBefore(FramesOf(new), i, new[i].prev)
    <3>1. LastBefore(FramesOf(cs), m + 1, r.prev)
      BY DEF m
    <3>2. LastBefore(FramesOf(new), m + 1, new[m + 1].prev)
      BY <1>1, <1>2, <2>0, <3>1, LastOfGrown
    <3>3. ASSUME NEW i \in FramesOf(cs) PROVE LastBefore(FramesOf(new), i, new[i].prev)
      <4>1. LastBefore(FramesOf(cs), i, new[i].prev)
        BY <1>1, <1>2, <1>3 DEF Linked
      <4> QED BY <1>1, <1>2, <2>0, <4>1, LastOfGrown
    <3> QED BY <1>1, <3>2, <3>3
  <2>2. \A i \in Catches(new) : LastBefore(Catches(new), i, new[i].prev)
    BY <1>1, <1>2, <1>3 DEF Linked
  <2>3. \A i \in Catches(new) : LastBefore(FramesOf(new), i, new[i].frame)
    BY <1>1, <1>2, <1>3, <2>0, LastOfGrown DEF Linked
  <2> QED BY <2>1, <2>2, <2>3 DEF Linked
<1>6. Banded(new)
  <2>1. \A i \in FramesOf(cs) : cs[i].bp <= Len(r.below)
    <3>1. LastBefore(FramesOf(cs), m + 1, r.prev)
      BY DEF m
    <3>2. r.prev \in FramesOf(cs) /\ \A i \in FramesOf(cs) : i <= r.prev
      BY <1>2, <1>3, <3>1, ChainTypes DEF LastBefore
    <3>3. \A i \in FramesOf(cs) : cs[i].bp <= cs[r.prev].bp
      <4> SUFFICES ASSUME NEW i \in FramesOf(cs), i # r.prev
                   PROVE  cs[i].bp <= cs[r.prev].bp
        BY <1>3, <3>2, ChainTypes
      <4>1. i < r.prev /\ r.prev # 1
        BY <1>2, <3>2
      <4>2. cs[i].bp <= Len(cs[r.prev].below)
        BY <1>3, <3>2, <4>1 DEF Banded
      <4> QED BY <1>3, <3>2, <4>2, ChainTypes, ChainFrames DEF Chain
    <3>4. \A i \in FramesOf(cs) : cs[i].bp \in Int
      BY <1>3, ChainTypes
    <3>5. Len(r.below) \in Int
      <4>1. r.below \in Seq(Values)
        BY DEF Activations, Functions
      <4> QED BY <4>1
    <3> QED BY <3>2, <3>3, <3>4, <3>5
  <2>2. \A i \in Catches(cs) : cs[i].frame \in 1 .. m
    BY <1>2, ChainFrames
  <2>3. \A j \in FramesOf(new) \ {1} : new[j].bp = Len(new[j].below) + 1 + new[j].nargs
    BY <1>1, <1>2, <1>3 DEF Banded
  <2>4. ASSUME NEW j \in FramesOf(new) \ {1}, NEW i \in FramesOf(new), i < j
        PROVE  new[i].bp <= Len(new[j].below)
    <3>1. CASE j = m + 1
      BY <1>1, <1>2, <2>1, <2>4, <3>1
    <3>2. CASE j # m + 1
      <4>1. i \in FramesOf(cs) /\ j \in FramesOf(cs) \ {1}
        BY <1>1, <1>2, <2>4, <3>2
      <4> QED BY <1>1, <1>2, <1>3, <2>4, <4>1 DEF Banded
    <3> QED BY <3>1, <3>2
  <2>5. \A i \in Catches(new) : new[i].sp >= new[new[i].frame].bp
    BY <1>1, <1>2, <1>3, <2>2 DEF Banded
  <2> QED BY <2>3, <2>4, <2>5 DEF Banded
<1>7. Level(new, m + 1) = Len(r.below)
  BY <1>1 DEF Level, Functions
<1>8. LastBefore(FramesOf(new), m + 2, m + 1)
  BY <1>1, <1>2 DEF LastBefore
<1>9. \A n : LastBefore(Catches(cs), m + 1, n) => LastBefore(Catches(new), m + 2, n)
  BY <1>1, <1>2 DEF LastBefore
<1>10. Levelled(cs) /\ (\A i \in Catches(cs) : Level(cs, i) <= Len(r.below))
         => Levelled(new)
  <2>1. DOMAIN new = 1 .. m + 1 /\ DOMAIN cs = 1 .. m
    BY <1>1, <1>3, LenProperties, ChainTypes DEF m
  <2> QED BY <1>1, <1>2, <1>7, <2>1 DEF Levelled
<1> QED
  BY <1>3, <1>4, <1>5, <1>6, <1>7, <1>8, <1>9, <1>10 DEF Chain, new, m

\* A new catch point on top of the C stack.
LEMMA PushCatch ==
  ASSUME NEW cs, Chain(cs), NEW r \in Activations, r.kind = "try",
         r.body = "native" => r.sp < MaxStack /\ r.frame # 1,
         LastBefore(FramesOf(cs), Len(cs) + 1, r.frame),
         LastBefore(Catches(cs), Len(cs) + 1, r.prev),
         r.sp >= cs[r.frame].bp
  PROVE  LET new == Append(cs, r)
             low == IF r.body = "native" THEN r.sp ELSE cs[r.frame].bp
         IN  /\ Chain(new)
             /\ Level(new, Len(cs) + 1) = low
             /\ LastBefore(Catches(new), Len(cs) + 2, Len(cs) + 1)
             /\ \A n : LastBefore(FramesOf(cs), Len(cs) + 1, n) =>
                         LastBefore(FramesOf(new), Len(cs) + 2, n)
             /\ Levelled(cs) /\ (\A i \in Catches(cs) : Level(cs, i) <= low)
                  => Levelled(new)
<1> DEFINE new == Append(cs, r)
           m == Len(cs)
           low == IF r.body = "native" THEN r.sp ELSE cs[r.frame].bp
<1>1. /\ new \in Seq(Activations) /\ Len(new) = m + 1 /\ new[m + 1] = r
      /\ \A i \in 1 .. m : new[i] = cs[i]
      /\ FramesOf(new) = FramesOf(cs) /\ Catches(new) = Catches(cs) \cup {m + 1}
      /\ \A i \in 1 .. m : Level(new, i) = Level(cs, i)
  BY Grown
<1>2. m \in Nat \ {0} /\ FramesOf(cs) \in SUBSET (1 .. m) /\ Catches(cs) \in SUBSET (1 .. m)
      /\ 1 \in FramesOf(cs)
  BY ChainTypes DEF Chain
<1>3. Shaped(cs) /\ Linked(cs) /\ Banded(cs)
  BY DEF Chain
<1>4. LastBefore(FramesOf(cs), m + 1, r.frame) /\ LastBefore(Catches(cs), m + 1, r.prev)
  OBVIOUS
<1> HIDE DEF new
<1>5. r.frame \in FramesOf(cs) /\ r.frame \in 1 .. m
  BY <1>2, <1>4 DEF LastBefore
<1>6. new[r.frame] = cs[r.frame]
  BY <1>1, <1>5
<1>7. Shaped(new)
  <2>1. new # <<>>
    BY <1>1, <1>2, EmptySeq
  <2> QED BY <1>1, <1>2, <1>3, <2>1 DEF Shaped
<1> HIDE DEF m
<1>8. Linked(new)
  <2>0. /\ Catches(cs) \in SUBSET Nat /\ \A k \in Catches(cs) : k <= m
        /\ m \in Nat /\ \A i \in 1 .. m + 1 : i \in Nat /\ i <= m + 1
    BY <1>2
  <2>1. \A i \in FramesOf(new) : LastBefore(FramesOf(new), i, new[i].prev)
    BY <1>1, <1>2, <1>3 DEF Linked
  <2>2. \A i \in Catches(new) : LastBefore(Catches(new), i, new[i].prev)
    <3>1. ASSUME NEW i \in Catches(cs)
          PROVE  LastBefore(Catches(new), i, new[i].prev)
      BY <1>1, <1>2, <1>3, <2>0, LastOfGrown DEF Linked
    <3>2. LastBefore(Catches(new), m + 1, new[m + 1].prev)
      BY <1>1, <1>2, <1>4, <2>0, LastOfGrown
    <3> QED BY <1>1, <3>1, <3>2
  <2>3. \A i \in Catches(new) : LastBefore(FramesOf(new), i, new[i].frame)
    BY <1>1, <1>2, <1>3, <1>4 DEF Linked
  <2> QED BY <2>1, <2>2, <2>3 DEF Linked
<1>9. Banded(new)
  <2>1. \A i \in Catches(cs) : cs[i].frame \in 1 .. m
    BY <1>2, ChainFrames
  <2>2. \A j \in FramesOf(new) \ {1} :
          /\ new[j].bp = Len(new[j].below) + 1 + new[j].nargs
          /\ \A i \in FramesOf(new) : i < j => new[i].bp <= Len(new[j].below)
    BY <1>1, <1>2, <1>3 DEF Banded
  <2>3. \A i \in Catches(new) : new[i].sp >= new[new[i].frame].bp
    BY <1>1, <1>2, <1>3, <1>6, <2>1 DEF Banded
  <2> QED BY <2>2, <2>3 DEF Banded
<1>10. Level(new, m + 1) = low
  BY <1>1, <1>6 DEF Level
<1>11. LastBefore(Catches(new), m + 2, m + 1)
  BY <1>1, <1>2 DEF LastBefore
<1>12. \A n : LastBefore(FramesOf(cs), m + 1, n) => LastBefore(FramesOf(new), m + 2, n)
  BY <1>1, <1>2 DEF LastBefore
<1>13. Levelled(cs) /\ (\A i \in Catches(cs) : Level(cs, i) <= low) => Levelled(new)
  <2> HIDE DEF low
  <2>1. DOMAIN new = 1 .. m + 1 /\ DOMAIN cs = 1 .. m
    BY <1>1, <1>3, LenProperties, ChainTypes DEF m
  <2> QED BY <1>1, <1>2, <1>10, <2>1 DEF Levelled
<1> QED
  BY <1>3, <1>7, <1>8, <1>9, <1>10, <1>11, <1>12, <1>13 DEF Chain, new, m

\* The catch point on top marks that its call has begun.
LEMMA Marked ==
  ASSUME NEW cs, Chain(cs), cs[Len(cs)].kind = "try", cs[Len(cs)].body = "begin"
  PROVE  LET new == [cs EXCEPT ![Len(cs)].body = "call"]
         IN  /\ Chain(new) /\ Len(new) = Len(cs)
             /\ FramesOf(new) = FramesOf(cs) /\ Catches(new) = Catches(cs)
             /\ \A i \in FramesOf(cs) : new[i] = cs[i]
             /\ \A i \in Catches(cs) : new[i].sp = cs[i].sp
             /\ \A i \in 1 .. Len(cs) : Level(new, i) = Level(cs, i)
             /\ Levelled(cs) => Levelled(new)
<1> DEFINE m == Len(cs)
           new == [cs EXCEPT ![m].body = "call"]
<1>1. m \in Nat \ {0} /\ DOMAIN cs = 1 .. m /\ cs \in Seq(Activations)
      /\ FramesOf(cs) \in SUBSET (1 .. m) /\ Catches(cs) = (1 .. m) \ FramesOf(cs)
      /\ m \in Catches(cs) /\ m # 1
      /\ cs[m].kind = "try" /\ cs[m].body = "begin"
  BY ChainTypes DEF Chain, Shaped, FramesOf
<1>2. Shaped(cs) /\ Linked(cs) /\ Banded(cs)
  BY DEF Chain
<1> HIDE DEF m
<1> DEFINE r == [cs[m] EXCEPT !.body = "call"]
<1>3. r \in Activations /\ r.kind = "try" /\ r.body = "call" /\ r.sp = cs[m].sp
      /\ r.prev = cs[m].prev /\ r.frame = cs[m].frame
  <2>1. cs[m] \in Activations
    BY <1>1, ElementOfSeq
  <2> QED BY <1>1, <2>1 DEF Activations, Functions
<1>4. /\ new \in Seq(Activations) /\ Len(new) = m
      /\ new[m] = r
      /\ \A i \in 1 .. m : i # m => new[i] = cs[i]
  <2> HIDE DEF r
  <2>1. new = [cs EXCEPT ![m] = r]
    BY <1>1 DEF r
  <2>2. m = Len(cs) /\ m \in 1 .. Len(cs)
    BY <1>1 DEF m
  <2> QED BY <1>1, <1>3, <2>1, <2>2, ExceptSeq
<1> HIDE DEF new, r
<1>5. DOMAIN new = 1 .. m /\ new # <<>>
  BY <1>1, <1>4, LenProperties, EmptySeq
<1>6. FramesOf(new) = FramesOf(cs) /\ Catches(new) = Catches(cs)
  BY <1>1, <1>3, <1>4, <1>5 DEF FramesOf, Catches
<1>7. \A i \in FramesOf(cs) : new[i] = cs[i]
  BY <1>1, <1>4
<1>8. \A i \in Catches(cs) :
        /\ new[i].sp = cs[i].sp /\ new[i].prev = cs[i].prev /\ new[i].frame = cs[i].frame
        /\ new[i].kind = "try" /\ (new[i].body = "native" <=> cs[i].body = "native")
  <2> SUFFICES ASSUME NEW i \in Catches(cs)
               PROVE  /\ new[i].sp = cs[i].sp /\ new[i].prev = cs[i].prev
                      /\ new[i].frame = cs[i].frame /\ new[i].kind = "try"
                      /\ new[i].body = "native" <=> cs[i].body = "native"
    OBVIOUS
  <2>1. CASE i = m
    BY <1>1, <1>3, <1>4, <2>1
  <2>2. CASE i # m
    <3>1. cs[i].kind = "try"
      BY <1>2, ChainTypes
    <3> QED BY <1>1, <1>4, <2>2, <3>1
  <2> QED BY <2>1, <2>2
<1>9. Shaped(new)
  <2>1. \A i \in 1 .. m : new[i].kind = cs[i].kind
    BY <1>1, <1>2, <1>7, <1>8, ChainTypes
  <2>2. new[1].below = cs[1].below /\ 1 \in 1 .. m
    BY <1>1, <1>2, <1>7, ChainTypes
  <2>3. \A i \in Catches(new) : new[i].body = "native" =>
          new[i].sp < MaxStack /\ new[i].frame # 1
    BY <1>2, <1>6, <1>8 DEF Shaped
  <2>4. m = Len(cs)
    BY DEF m
  <2>5. new[1].kind = "entry" /\ new[1].below = <<>>
    BY <1>1, <1>2, <2>1, <2>2 DEF Shaped
  <2>6. \A i \in 2 .. m : new[i].kind # "entry"
    BY <1>1, <1>2, <2>1, <2>4 DEF Shaped
  <2>7. m >= 2 => new[2].kind = "try"
    BY <1>1, <1>2, <2>1, <2>4 DEF Shaped
  <2> QED BY <1>4, <1>5, <2>3, <2>5, <2>6, <2>7 DEF Shaped
<1>10. Linked(new)
  BY <1>2, <1>6, <1>7, <1>8 DEF Linked
<1>11. \A i \in Catches(cs) : cs[i].frame \in FramesOf(cs)
  BY ChainFrames
<1>12. Banded(new)
  BY <1>2, <1>6, <1>7, <1>8, <1>11 DEF Banded
<1>13. \A i \in 1 .. m : Level(new, i) = Level(cs, i)
  <2>1. \A i \in FramesOf(cs) : Level(new, i) = Level(cs, i)
    BY <1>7 DEF Level, FramesOf
  <2>2. \A i \in Catches(cs) : cs[i].kind = "try"
    BY <1>2, ChainTypes
  <2>3. \A i \in Catches(cs) : Level(new, i) = Level(cs, i)
    BY <1>7, <1>8, <1>11, <2>2 DEF Level
  <2> QED BY <1>1, <2>1, <2>3
<1>14. Levelled(cs) => Levelled(new)
  BY <1>1, <1>5, <1>6, <1>13 DEF Levelled
<1> QED
  BY <1>2, <1>4, <1>6, <1>7, <1>8, <1>9, <1>10, <1>12, <1>13, <1>14 DEF Chain, m, new
-----------------------------------------------------------------------------
(***************************************************************************)
(* The four ways a step changes the C stack: not at all, it cuts it, or it *)
(* puts a frame or a catch point on it.                                    *)
(***************************************************************************)

\* What a frame may not write on, and where an error may bring the top.
Spares(a, b, cs, f) == \A k \in 1 .. Len(cs[f].below) : b[k] = a[k]

LEMMA KeptBySparing ==
  ASSUME NEW cs, Chain(cs), NEW f, LastBefore(FramesOf(cs), Len(cs) + 1, f),
         NEW a, NEW b, KeptIn(a, cs), Spares(a, b, cs, f)
  PROVE  KeptIn(b, cs)
<1>1. \A i \in FramesOf(cs) : Len(cs[i].below) <= Len(cs[f].below)
  <2>1. Len(cs) + 1 \in 2 .. Len(cs) + 1 /\ \A i \in FramesOf(cs) : i < Len(cs) + 1
    BY ChainTypes DEF Chain
  <2> QED BY <2>1, LastFrame
<1>2. f \in FramesOf(cs)
  BY ChainTypes, LastFrame DEF Chain, LastBefore
<1>3. \A i \in FramesOf(cs) : Len(cs[i].below) \in Nat
  BY ChainTypes DEF Chain
<1>4. \A i \in FramesOf(cs) : \A k \in 1 .. Len(cs[i].below) : k \in 1 .. Len(cs[f].below)
  BY <1>1, <1>2, <1>3
<1> QED
  BY <1>4 DEF KeptIn, Spares

LEMMA StaysOnCStack ==
  ASSUME NEW a, NEW n, NEW cs, NEW f, NEW e, Solid(a, n, cs, f, e),
         NEW b \in Seq(Values), NEW n2 \in 1 .. MaxStack + 1, n2 <= Len(b),
         \A i \in Catches(cs) : cs[i].sp <= Len(b),
         n2 >= cs[f].bp
  PROVE  /\ Solid(b, n2, cs, f, e)
         /\ KeptIn(a, cs) /\ Spares(a, b, cs, f) => KeptIn(b, cs)
         /\ /\ Tidy(a, n, cs)
            /\ \A i \in Catches(cs) : Level(cs, i) <= n2
            /\ \A k \in 1 .. n2 : b[k] # "stale"
            => Tidy(b, n2, cs)
<1>1. KeptIn(a, cs) /\ Spares(a, b, cs, f) => KeptIn(b, cs)
  BY KeptBySparing DEF Solid, Chain
<1> QED
  BY <1>1 DEF Solid, Tidy

LEMMA CutsCStack ==
  ASSUME NEW a, NEW n, NEW cs, NEW f, NEW e, Solid(a, n, cs, f, e),
         NEW m \in 1 .. Len(cs), NEW f2, NEW e2,
         LastBefore(FramesOf(cs), m + 1, f2), LastBefore(Catches(cs), m + 1, e2),
         NEW b \in Seq(Values), NEW n2 \in 1 .. MaxStack + 1, n2 <= Len(b),
         \A i \in Catches(cs) : i <= m => cs[i].sp <= Len(b),
         n2 >= cs[f2].bp
  PROVE  LET cut == SubSeq(cs, 1, m)
         IN  /\ Solid(b, n2, cut, f2, e2)
             /\ KeptIn(a, cs) /\ Spares(a, b, cs, f2) => KeptIn(b, cut)
             /\ /\ Tidy(a, n, cs)
                /\ \A i \in Catches(cs) : i <= m => Level(cs, i) <= n2
                /\ \A k \in 1 .. n2 : b[k] # "stale"
                => Tidy(b, n2, cut)
<1> DEFINE cut == SubSeq(cs, 1, m)
<1>1. Chain(cs)
  BY DEF Solid, Chain
<1>2. /\ Chain(cut) /\ Len(cut) = m
      /\ \A i \in 1 .. m : cut[i] = cs[i]
      /\ FramesOf(cut) = FramesOf(cs) \cap (1 .. m)
      /\ Catches(cut) = Catches(cs) \cap (1 .. m)
      /\ \A i \in 1 .. m : Level(cut, i) = Level(cs, i)
      /\ Levelled(cs) => Levelled(cut)
      /\ LastBefore(FramesOf(cut), Len(cut) + 1, f2)
      /\ LastBefore(Catches(cut), Len(cut) + 1, e2)
  BY <1>1, Cut
<1> HIDE DEF cut
<1>3. Len(cs) \in Nat /\ FramesOf(cs) \in SUBSET (1 .. Len(cs))
      /\ Catches(cs) \in SUBSET (1 .. Len(cs))
  BY <1>1, ChainTypes DEF Chain
<1>4. f2 \in 1 .. m /\ cut[f2] = cs[f2]
  <2>1. f2 \in FramesOf(cs) /\ f2 < m + 1
    <3>1. m + 1 \in 2 .. Len(cs) + 1
      BY <1>3
    <3> QED BY <1>1, <3>1, LastFrame
  <2> QED BY <1>2, <1>3, <2>1
<1>5. ASSUME KeptIn(a, cs), Spares(a, b, cs, f2) PROVE KeptIn(b, cut)
  <2>1. KeptIn(a, cut)
    BY <1>2, <1>5 DEF KeptIn
  <2>2. Spares(a, b, cut, f2)
    BY <1>4, <1>5 DEF Spares
  <2> QED BY <1>2, <2>1, <2>2, KeptBySparing
<1>6. ASSUME Tidy(a, n, cs), \A i \in Catches(cs) : i <= m => Level(cs, i) <= n2,
             \A k \in 1 .. n2 : b[k] # "stale"
      PROVE  Tidy(b, n2, cut)
  <2>1. \A i \in Catches(cut) : Level(cut, i) <= n2
    BY <1>2, <1>3, <1>6
  <2> QED BY <1>2, <1>6, <2>1 DEF Tidy
<1>7. n2 >= cut[f2].bp
  BY <1>4
<1>8. \A i \in Catches(cut) : cut[i].sp <= Len(b)
  BY <1>2, <1>3
<1>9. Solid(b, n2, cut, f2, e2)
  BY <1>2, <1>7, <1>8 DEF Solid, Chain
<1> QED
  BY <1>5, <1>6, <1>9 DEF cut

LEMMA PutsFrame ==
  ASSUME NEW a, NEW n, NEW cs, NEW f, NEW e, Solid(a, n, cs, f, e),
         Len(cs) >= 2,
         NEW r \in Activations, r.kind \in Functions, r.prev = f,
         r.bp = Len(r.below) + 1 + r.nargs, cs[f].bp <= Len(r.below),
         NEW b \in Seq(Values), NEW n2 \in 1 .. MaxStack + 1, n2 <= Len(b),
         \A i \in Catches(cs) : cs[i].sp <= Len(b),
         n2 >= r.bp,
         \A k \in 1 .. Len(r.below) : b[k] = a[k] /\ r.below[k] = a[k]
  PROVE  LET new == Append(cs, r)
         IN  /\ Solid(b, n2, new, Len(cs) + 1, e)
             /\ KeptIn(a, cs) => KeptIn(b, new)
             /\ /\ Tidy(a, n, cs)
                /\ \A i \in Catches(cs) : Level(cs, i) <= Len(r.below)
                /\ \A k \in 1 .. n2 : b[k] # "stale"
                => Tidy(b, n2, new)
<1> DEFINE new == Append(cs, r)
           m == Len(cs)
<1>1. Chain(cs) /\ LastBefore(FramesOf(cs), m + 1, r.prev)
      /\ LastBefore(FramesOf(cs), m + 1, f)
      /\ LastBefore(Catches(cs), m + 1, e)
  BY DEF Solid, Chain
<1>2. /\ new[m + 1] = r /\ Len(new) = m + 1
      /\ \A i \in 1 .. m : new[i] = cs[i] /\ Level(new, i) = Level(cs, i)
      /\ FramesOf(new) = FramesOf(cs) \cup {m + 1} /\ Catches(new) = Catches(cs)
  <2>1. r.kind # "try"
    BY DEF Functions
  <2> QED BY <1>1, <2>1, Grown
<1>3. /\ Chain(new)
      /\ LastBefore(FramesOf(new), m + 2, m + 1)
      /\ LastBefore(Catches(new), m + 2, e)
      /\ Levelled(cs) /\ (\A i \in Catches(cs) : Level(cs, i) <= Len(r.below))
           => Levelled(new)
  BY <1>1, PushFrame
<1>4. m \in Nat /\ FramesOf(cs) \in SUBSET (1 .. m) /\ Catches(cs) \in SUBSET (1 .. m)
      /\ m + 1 + 1 = m + 2
  BY <1>1, ChainTypes DEF Chain
<1>5. r.below \in Seq(Values) /\ Len(r.below) \in Nat /\ r.nargs \in Nat
  <2>1. r.below \in Seq(Values) /\ r.nargs \in Args \cup {0}
    BY DEF Activations, Functions
  <2>2. Len(r.below) \in Nat
    BY <2>1
  <2>3. r.nargs \in Nat
    BY <2>1, NatConstants
  <2> QED BY <2>1, <2>2, <2>3
<1> HIDE DEF new
<1>6. ASSUME KeptIn(a, cs) PROVE KeptIn(b, new)
  <2>1. Spares(a, b, cs, f)
    <3>1. Len(cs[f].below) <= cs[f].bp /\ Len(cs[f].below) \in Nat /\ cs[f].bp \in Nat
      <4>1. f \in FramesOf(cs)
        <5>1. m + 1 \in 2 .. m + 1
          BY <1>4
        <5> QED BY <1>1, <5>1, LastFrame
      <4>2. Len(cs[f].below) \in Nat /\ cs[f].bp \in Nat
        BY <1>1, <4>1, ChainTypes DEF Chain
      <4>3. Len(cs[f].below) <= cs[f].bp
        BY <1>1, <4>1, ChainFrames
      <4> QED BY <4>2, <4>3
    <3>2. Len(cs[f].below) <= Len(r.below)
      <4>1. cs[f].bp <= Len(r.below)
        OBVIOUS
      <4>2. \A x, y, z \in Nat : x <= y /\ y <= z => x <= z
        OBVIOUS
      <4> QED BY <1>5, <3>1, <4>1, <4>2, ZenonT(30)
    <3>3. \A k \in 1 .. Len(cs[f].below) : k \in 1 .. Len(r.below)
      BY <1>5, <3>1, <3>2
    <3> QED BY <3>3 DEF Spares
  <2>2. KeptIn(b, cs)
    BY <1>1, <1>6, <2>1, KeptBySparing
  <2>3. ASSUME NEW i \in FramesOf(new), NEW k \in 1 .. Len(new[i].below)
        PROVE  b[k] = new[i].below[k]
    <3>1. CASE i = m + 1
      BY <1>2, <3>1
    <3>2. CASE i \in FramesOf(cs)
      BY <1>2, <1>4, <2>2, <3>2 DEF KeptIn
    <3> QED BY <1>2, <3>1, <3>2
  <2> QED BY <2>3 DEF KeptIn
<1>7. ASSUME Tidy(a, n, cs), \A i \in Catches(cs) : Level(cs, i) <= Len(r.below),
             \A k \in 1 .. n2 : b[k] # "stale"
      PROVE  Tidy(b, n2, new)
  <2>1. Levelled(cs)
    BY <1>7 DEF Tidy
  <2>2. \A i \in Catches(new) : Level(new, i) <= Len(r.below) /\ Level(cs, i) \in Int
    <3>1. \A i \in Catches(cs) : Level(cs, i) \in Int
      BY <1>1, ChainTypes, ChainFrames DEF Level, Chain
    <3> QED BY <1>2, <1>4, <1>7, <3>1
  <2>3. \A i \in Catches(new) : Level(new, i) <= n2
    BY <1>2, <1>4, <1>5, <2>2
  <2> QED BY <1>3, <1>7, <2>1, <2>3 DEF Tidy
<1>8. \A i \in Catches(new) : new[i].sp <= Len(b)
  BY <1>2, <1>4
<1>9. Solid(b, n2, new, m + 1, e)
  BY <1>2, <1>3, <1>4, <1>8 DEF Solid, Chain
<1> QED
  BY <1>6, <1>7, <1>9 DEF new

LEMMA PutsCatch ==
  ASSUME NEW a, NEW n, NEW cs, NEW f, NEW e, Solid(a, n, cs, f, e),
         NEW r \in Activations, r.kind = "try", r.prev = e, r.frame = f, r.sp = n,
         n < MaxStack, r.body = "native" => f # 1
  PROVE  LET new == Append(cs, r)
             low == IF r.body = "native" THEN n ELSE cs[f].bp
         IN  /\ Solid(a, n, new, f, Len(cs) + 1)
             /\ KeptIn(a, cs) => KeptIn(a, new)
             /\ Tidy(a, n, cs) /\ (\A i \in Catches(cs) : Level(cs, i) <= low)
                => Tidy(a, n, new)
<1> DEFINE new == Append(cs, r)
           m == Len(cs)
           low == IF r.body = "native" THEN n ELSE cs[f].bp
<1>1. Chain(cs) /\ LastBefore(FramesOf(cs), m + 1, f) /\ LastBefore(Catches(cs), m + 1, e)
      /\ n >= cs[f].bp /\ n \in Nat
  BY NatBounds DEF Solid, Chain
<1>2. /\ new[m + 1] = r /\ Len(new) = m + 1
      /\ \A i \in 1 .. m : new[i] = cs[i] /\ Level(new, i) = Level(cs, i)
      /\ FramesOf(new) = FramesOf(cs) /\ Catches(new) = Catches(cs) \cup {m + 1}
  BY <1>1, Grown
<1>3. /\ Chain(new)
      /\ Level(new, m + 1) = low
      /\ LastBefore(Catches(new), m + 2, m + 1)
      /\ LastBefore(FramesOf(new), m + 2, f)
      /\ Levelled(cs) /\ (\A i \in Catches(cs) : Level(cs, i) <= low) => Levelled(new)
  BY <1>1, PushCatch
<1>4. m \in Nat /\ FramesOf(cs) \in SUBSET (1 .. m) /\ Catches(cs) \in SUBSET (1 .. m)
      /\ m + 1 + 1 = m + 2
  BY <1>1, ChainTypes DEF Chain
<1>5. f \in FramesOf(cs) /\ cs[f].bp \in Nat
  <2>1. m + 1 \in 2 .. m + 1
    BY <1>1, ChainTypes DEF Chain
  <2> QED BY <1>1, <2>1, LastFrame, ChainTypes DEF Chain
<1> HIDE DEF new
<1>6. low <= n
  BY <1>1, <1>5
<1> HIDE DEF low
<1>7. KeptIn(a, cs) => KeptIn(a, new)
  BY <1>2, <1>4 DEF KeptIn
<1>8. ASSUME Tidy(a, n, cs), \A i \in Catches(cs) : Level(cs, i) <= low
      PROVE  Tidy(a, n, new)
  <2>1. \A i \in Catches(new) : Level(new, i) <= n
    BY <1>2, <1>3, <1>4, <1>6, <1>8 DEF Tidy
  <2> QED BY <1>3, <1>8, <2>1 DEF Tidy
<1>9. \A i \in Catches(new) : new[i].sp <= Len(a)
  BY <1>2, <1>4 DEF Solid
<1>10. n >= new[f].bp
  BY <1>1, <1>2, <1>4, <1>5
<1>11. Solid(a, n, new, f, m + 1)
  BY <1>2, <1>3, <1>4, <1>9, <1>10 DEF Solid, Chain
<1> QED
  BY <1>7, <1>8, <1>11 DEF new, low
-----------------------------------------------------------------------------
(***************************************************************************)
(* Errors.                                                                 *)
(***************************************************************************)

\* What the steps need of the invariant.
LEMMA Facts ==
  ASSUME IsSolid
  PROVE  /\ v \in Seq(Values) /\ sp \in 1 .. MaxStack + 1 /\ sp <= Len(v)
         /\ sp \in Nat /\ Len(v) \in Nat /\ MaxStack \in Nat /\ MaxNest \in Nat
         /\ Chain(cstack) /\ Here \in Nat \ {0} /\ cstack \in Seq(Activations)
         /\ frame \in FramesOf(cstack)
         /\ Cur.bp \in 0 .. MaxStack /\ Cur.bp <= sp
         /\ Cur.nargs \in Nat /\ Cur.locals \in Nat /\ Cur.prev \in Nat
         /\ Cur.below \in Seq(Values) /\ Len(Cur.below) \in Nat /\ Len(Cur.below) <= Cur.bp
         /\ frame # 1 => Cur.bp = Len(Cur.below) + 1 + Cur.nargs
         /\ \A i \in Catches(cstack) :
              /\ cstack[i].sp \in 0 .. Len(v) /\ Level(cstack, i) \in Nat
              /\ Level(cstack, i) <= cstack[i].sp
         /\ \A k \in 1 .. Len(v) : v[k] \in Values
         /\ error_jmp \in Nat /\ frame \in Nat
         /\ LastBefore(FramesOf(cstack), Here + 1, frame)
         /\ LastBefore(Catches(cstack), Here + 1, error_jmp)
<1>1. Solid(v, sp, cstack, frame, error_jmp)
  BY DEF IsSolid
<1>2. Chain(cstack) /\ cstack \in Seq(Activations) /\ Banded(cstack)
      /\ LastBefore(FramesOf(cstack), Here + 1, frame)
      /\ LastBefore(Catches(cstack), Here + 1, error_jmp)
  BY <1>1 DEF Solid, Chain, Here, Shaped
<1>3. v \in Seq(Values) /\ sp \in 1 .. MaxStack + 1 /\ sp <= Len(v)
      /\ Cur.bp <= sp
      /\ \A i \in Catches(cstack) : cstack[i].sp <= Len(v)
  BY <1>1 DEF Solid, Cur
<1>4. MaxStack \in Nat /\ MaxNest \in Nat /\ sp \in Nat /\ Len(v) \in Nat
  BY <1>3, NatBounds
<1>5. Here \in Nat \ {0} /\ 1 \in FramesOf(cstack)
      /\ FramesOf(cstack) \in SUBSET (1 .. Here) /\ Catches(cstack) \in SUBSET (1 .. Here)
  BY <1>2, ChainTypes DEF Chain, Here
<1>6. frame \in FramesOf(cstack) /\ Len(Cur.below) <= Cur.bp
  <2>1. Here + 1 \in 2 .. Here + 1 /\ Here = Len(cstack)
    BY <1>5 DEF Here
  <2> QED BY <1>2, <2>1, LastFrame DEF Cur
<1>7. frame \in Nat /\ error_jmp \in Nat
  BY <1>2, <1>5, <1>6 DEF LastBefore
<1>8. /\ Cur.bp \in 0 .. MaxStack /\ Cur.nargs \in Nat /\ Cur.locals \in Nat
      /\ Cur.prev \in Nat /\ Cur.below \in Seq(Values) /\ Len(Cur.below) \in Nat
      /\ frame # 1 => Cur.bp = Len(Cur.below) + 1 + Cur.nargs
  BY <1>2, <1>6, ChainTypes DEF Chain, Cur, Banded
<1>9. ASSUME NEW i \in Catches(cstack)
      PROVE  /\ cstack[i].sp \in 0 .. Len(v) /\ Level(cstack, i) \in Nat
             /\ Level(cstack, i) <= cstack[i].sp
  <2>1. cstack[i].sp \in Nat /\ cstack[i].kind = "try" /\ cstack[i].sp <= Len(v)
        /\ cstack[i].sp >= cstack[cstack[i].frame].bp
    BY <1>2, <1>3, ChainTypes DEF Chain, Banded
  <2>2. cstack[cstack[i].frame].bp \in Nat
    BY <1>2, ChainTypes, ChainFrames DEF Chain
  <2> QED BY <1>4, <2>1, <2>2 DEF Level
<1>10. \A k \in 1 .. Len(v) : v[k] \in Values
  BY <1>3, ElementOfSeq
<1> QED
  BY <1>1, <1>2, <1>3, <1>4, <1>5, <1>6, <1>7, <1>8, <1>9, <1>10

LEMMA CatchLevels ==
  ASSUME IsSolid, NEW i \in Catches(cstack)
  PROVE  /\ cstack[i].sp \in Nat /\ Level(cstack, i) \in Nat
         /\ Level(cstack, i) <= cstack[i].sp
<1>1. /\ cstack[i].sp \in 0 .. Len(v) /\ Level(cstack, i) \in Nat
      /\ Level(cstack, i) <= cstack[i].sp
  BY Facts
<1> QED
  BY <1>1

\* Code that runs has the catch point of actor_entry under it.
LEMMA CatchThere ==
  ASSUME IsSolid, Top.kind # "entry"
  PROVE  /\ error_jmp \in Catches(cstack) /\ Here >= 2 /\ error_jmp \in 2 .. Here
         /\ \A i \in Catches(cstack) : i <= error_jmp
<1>1. Here \in Nat \ {0} /\ Chain(cstack) /\ LastBefore(Catches(cstack), Here + 1, error_jmp)
  BY Facts
<1>2. Here >= 2
  BY <1>1 DEF Chain, Shaped, Top
<1>3. 2 \in Catches(cstack) /\ Catches(cstack) \in SUBSET (2 .. Here)
  BY <1>1, <1>2, ChainTypes DEF Chain, Shaped, Catches, Here
<1> QED
  BY <1>1, <1>2, <1>3 DEF LastBefore

\* Where the catch point at place e brings the actor.
LEMMA CatchFacts ==
  ASSUME NEW cs, Chain(cs), NEW e \in Catches(cs)
  PROVE  /\ e \in 2 .. Len(cs) /\ e - 1 \in 1 .. Len(cs)
         /\ LastBefore(FramesOf(cs), e, cs[e].frame)
         /\ LastBefore(Catches(cs), e, cs[e].prev)
         /\ cs[e].frame \in FramesOf(cs)
         /\ cs[e].sp \in Nat
         /\ Level(cs, e) \in 0 .. MaxStack /\ Level(cs, e) <= cs[e].sp
         /\ Level(cs, e) = IF cs[e].body = "native" THEN cs[e].sp
                           ELSE cs[cs[e].frame].bp
         /\ cs[cs[e].frame].bp \in Nat /\ cs[cs[e].frame].bp <= Level(cs, e)
         /\ Len(cs[cs[e].frame].below) \in Nat
         /\ Len(cs[cs[e].frame].below) <= cs[cs[e].frame].bp
<1>1. Shaped(cs) /\ Linked(cs) /\ Banded(cs)
  BY DEF Chain
<1>2. e \in 2 .. Len(cs) /\ e - 1 \in 1 .. Len(cs)
  BY <1>1, ChainTypes
<1>3. LastBefore(FramesOf(cs), e, cs[e].frame) /\ LastBefore(Catches(cs), e, cs[e].prev)
  BY <1>1 DEF Linked
<1>4. cs[e].frame \in FramesOf(cs)
  BY ChainFrames
<1>5. cs[e].sp \in Nat /\ cs[e].kind = "try"
  BY <1>1, ChainTypes
<1>6. cs[cs[e].frame].bp \in 0 .. MaxStack /\ Len(cs[cs[e].frame].below) \in Nat
  BY <1>1, <1>4, ChainTypes
<1>7. Len(cs[cs[e].frame].below) <= cs[cs[e].frame].bp
  BY <1>4, ChainFrames
<1>8. cs[e].sp >= cs[cs[e].frame].bp /\ (cs[e].body = "native" => cs[e].sp < MaxStack)
  BY <1>1 DEF Banded, Shaped
<1>9. Level(cs, e) = IF cs[e].body = "native" THEN cs[e].sp ELSE cs[cs[e].frame].bp
  BY <1>5 DEF Level
<1> QED
  BY <1>2, <1>3, <1>4, <1>5, <1>6, <1>7, <1>8, <1>9, NatBounds

\* The array after an error ev has been brought down to place to + 1.
Thrown(a, body, high, to, ev, cs) ==
  Trim(Put(IF body = "native" THEN a ELSE Put(a, high + 1, ev), to + 1, ev),
       to + 1, cs)

\* Nothing up to place to has changed, and no catch point is cut off.
Lowered(b, a, to, ev, cs) ==
  /\ b \in Seq(Values) /\ to + 1 <= Len(b)
  /\ \A i \in Catches(cs) : cs[i].sp <= Len(b)
  /\ \A k \in 1 .. to : b[k] = a[k]
  /\ b[to + 1] = ev

LEMMA ThrownArray ==
  ASSUME NEW a \in Seq(Values), NEW body, NEW high \in 0 .. Len(a), NEW to \in 0 .. high,
         NEW ev \in Values, NEW cs \in Seq(Activations),
         \A i \in Catches(cs) : cs[i].sp \in 0 .. Len(a)
  PROVE  Lowered(Thrown(a, body, high, to, ev, cs), a, to, ev, cs)
<1> DEFINE restored == IF body = "native" THEN a ELSE Put(a, high + 1, ev)
           d == Put(restored, to + 1, ev)
           b == Trim(d, to + 1, cs)
<1>1. Len(a) \in Nat /\ high + 1 \in 1 .. Len(a) + 1 /\ high \in Nat /\ to \in Nat
  OBVIOUS
<1>2. restored \in Seq(Values) /\ Len(restored) \in Nat /\ Len(restored) >= Len(a)
      /\ \A k \in 1 .. to : restored[k] = a[k]
  <2>1. CASE body = "native"
    BY <1>1, <2>1
  <2>2. CASE body # "native"
    <3> DEFINE p == Put(a, high + 1, ev)
    <3>1. p \in Seq(Values) /\ Len(p) >= Len(a) /\ Len(p) \in Nat
          /\ \A j \in 1 .. Len(a) : j # high + 1 => p[j] = a[j]
      BY <1>1, PutFacts
    <3> HIDE DEF p
    <3>2. \A k \in 1 .. to : k \in 1 .. Len(a) /\ k # high + 1
      BY <1>1
    <3>3. restored = p
      BY <2>2 DEF p
    <3> QED BY <3>1, <3>2, <3>3
  <2> QED BY <2>1, <2>2
<1> HIDE DEF restored
<1>3. /\ d \in Seq(Values) /\ Len(d) \in Nat /\ Len(d) >= Len(a) /\ Len(d) >= to + 1
      /\ d[to + 1] = ev /\ \A k \in 1 .. to : d[k] = a[k]
  <2>1. to + 1 \in 1 .. Len(restored) + 1
    BY <1>1, <1>2
  <2>2. d \in Seq(Values) /\ Len(d) >= Len(restored) /\ Len(d) >= to + 1 /\ Len(d) \in Nat
        /\ d[to + 1] = ev
        /\ \A j \in 1 .. Len(restored) : j # to + 1 => d[j] = restored[j]
    BY <1>2, <2>1, PutFacts
  <2> HIDE DEF d
  <2>3. \A k \in 1 .. to : k \in 1 .. Len(restored) /\ k # to + 1
    BY <1>1, <1>2
  <2> QED BY <1>1, <1>2, <2>2, <2>3
<1> HIDE DEF d
<1>4. \A i \in Catches(cs) : cs[i].sp \in 0 .. Len(d)
  BY <1>1, <1>3
<1>5. /\ b \in Seq(Values) /\ to + 1 <= Len(b)
      /\ \A i \in Catches(cs) : cs[i].sp <= Len(b)
      /\ \A k \in 1 .. Len(b) : b[k] = d[k]
  <2>1. to + 1 \in 0 .. Len(d)
    BY <1>1, <1>3
  <2> QED BY <1>3, <1>4, <2>1, TrimFacts
<1> HIDE DEF b
<1>6. \A k \in 1 .. to + 1 : k \in 1 .. Len(b)
  BY <1>1, <1>5
<1>7. /\ \A k \in 1 .. to : b[k] = a[k]
      /\ b[to + 1] = ev
  BY <1>1, <1>3, <1>5, <1>6
<1> QED
  BY <1>5, <1>7 DEF b, d, restored, Thrown, Lowered

\* any_throw with an array a and n values, the top of them the error.
LEMMA ThrowKeeps ==
  ASSUME IsSolid, Top.kind # "entry",
         NEW a \in Seq(Values), NEW n \in 1 .. Len(a), Throw(a, n), Len(a) >= Len(v)
  PROVE  /\ IsSolid'
         /\ IsKept /\ (\A k \in 1 .. Len(Cur.below) : a[k] = v[k]) => IsKept'
         /\ /\ IsTidy /\ a[n] # "stale"
            /\ \A k \in 1 .. Level(cstack, error_jmp) : a[k] # "stale"
            => IsTidy'
<1> DEFINE c == cstack[error_jmp]
           to == Level(cstack, error_jmp)
           m == error_jmp - 1
           cs == SubSeq(cstack, 1, m)
<1>1. Solid(v, sp, cstack, frame, error_jmp)
  BY DEF IsSolid
<1>2. Chain(cstack) /\ error_jmp \in Catches(cstack) /\ Len(v) \in Nat
      /\ frame \in FramesOf(cstack) /\ LastBefore(FramesOf(cstack), Here + 1, frame)
      /\ Len(Cur.below) \in Nat
      /\ \A i \in Catches(cstack) : cstack[i].sp \in 0 .. Len(v)
  BY Facts, CatchThere
<1>3. /\ error_jmp \in 2 .. Here /\ m \in 1 .. Here /\ m + 1 = error_jmp
      /\ LastBefore(FramesOf(cstack), m + 1, c.frame)
      /\ LastBefore(Catches(cstack), m + 1, c.prev)
      /\ c.frame \in FramesOf(cstack)
      /\ to \in Nat /\ to <= MaxStack /\ to <= c.sp /\ c.sp \in Nat
      /\ to = (IF c.body = "native" THEN c.sp ELSE Popped(c))
      /\ cstack[c.frame].bp \in Nat /\ cstack[c.frame].bp <= to
      /\ Len(cstack[c.frame].below) \in Nat /\ Len(cstack[c.frame].below) <= to
  <2>1. error_jmp \in 2 .. Here /\ m \in 1 .. Here
    BY <1>2, CatchFacts DEF Here
  <2>2. m + 1 = error_jmp
    BY <2>1
  <2>3. /\ LastBefore(FramesOf(cstack), m + 1, c.frame)
        /\ LastBefore(Catches(cstack), m + 1, c.prev)
        /\ c.frame \in FramesOf(cstack)
    <3> HIDE DEF m
    <3> QED BY <1>2, <2>2, CatchFacts
  <2>4. /\ to \in 0 .. MaxStack /\ to <= c.sp /\ c.sp \in Nat
        /\ to = (IF c.body = "native" THEN c.sp ELSE Popped(c))
    BY <1>2, CatchFacts DEF Popped
  <2>5. /\ cstack[c.frame].bp \in Nat /\ cstack[c.frame].bp <= to
        /\ Len(cstack[c.frame].below) \in Nat
        /\ Len(cstack[c.frame].below) <= cstack[c.frame].bp
    BY <1>2, CatchFacts
  <2>6. to \in Nat /\ to <= MaxStack
    BY <2>4, NatBounds
  <2> HIDE DEF to, m, c
  <2>7. Len(cstack[c.frame].below) <= to
    BY <2>5, <2>6
  <2> QED BY <2>1, <2>2, <2>3, <2>4, <2>5, <2>6, <2>7
<1> HIDE DEF to, m
<1>4. /\ \A i \in 1 .. m : cs[i] = cstack[i]
      /\ cs \in Seq(Activations)
      /\ Catches(cs) = Catches(cstack) \cap (1 .. m)
  <2>1. m \in 1 .. Len(cstack)
    BY <1>3 DEF Here
  <2> QED BY <1>2, <2>1, Cut DEF Chain, Shaped
<1> HIDE DEF cs
<1>5. /\ sp' = to + 1 /\ cstack' = cs /\ frame' = c.frame /\ error_jmp' = c.prev
      /\ v' = Thrown(a, c.body, c.sp, to, a[n], cs)
  BY <1>3 DEF Throw, Thrown, cs, m
<1> HIDE DEF c
<1>6. /\ v' \in Seq(Values) /\ to + 1 <= Len(v')
      /\ \A i \in Catches(cs) : cs[i].sp <= Len(v')
      /\ \A k \in 1 .. to : v'[k] = a[k]
      /\ v'[to + 1] = a[n]
  <2> DEFINE high == c.sp
             ev == a[n]
             body == c.body
  <2>1. high \in 0 .. Len(a) /\ to \in 0 .. high /\ ev \in Values
    <3>1. Len(a) \in Nat /\ a[n] \in Values
      BY ElementOfSeq
    <3>2. c.sp <= Len(v)
      BY <1>2 DEF c
    <3> QED BY <1>2, <1>3, <3>1, <3>2
  <2>2. \A i \in Catches(cs) : cs[i].sp \in 0 .. Len(a)
    BY <1>2, <1>4
  <2>3. v' = Thrown(a, body, high, to, ev, cs)
    BY <1>5
  <2> HIDE DEF high, ev, body
  <2>4. Lowered(v', a, to, ev, cs)
    BY <1>4, <2>1, <2>2, <2>3, ThrownArray
  <2> QED BY <2>4 DEF Lowered, ev
<1> DEFINE n2 == to + 1
           f2 == c.frame
           e2 == c.prev
<1>7. /\ n2 \in 1 .. MaxStack + 1 /\ n2 >= cstack[f2].bp /\ n2 <= Len(v')
      /\ m \in 1 .. Len(cstack)
  <2> HIDE DEF f2
  <2>1. to \in Nat /\ to <= MaxStack /\ MaxStack \in Nat /\ to + 1 <= Len(v')
    BY <1>3, <1>6, NatBounds
  <2>2. cstack[f2].bp \in Nat /\ cstack[f2].bp <= to
    BY <1>3 DEF f2
  <2>3. m \in 1 .. Len(cstack)
    BY <1>3 DEF Here
  <2> QED BY <2>1, <2>2, <2>3
<1>8. LastBefore(FramesOf(cstack), m + 1, f2) /\ LastBefore(Catches(cstack), m + 1, e2)
      /\ \A i \in Catches(cstack) : i <= m => cstack[i].sp <= Len(v')
  <2>1. \A i \in Catches(cstack) : i <= m => i \in 1 .. m
    BY <1>2, <1>3, ChainTypes DEF Chain
  <2> QED BY <1>3, <1>4, <1>6, <2>1
<1>9. (\A k \in 1 .. Len(Cur.below) : a[k] = v[k]) => Spares(v, v', cstack, f2)
  <2> SUFFICES ASSUME \A k \in 1 .. Len(Cur.below) : a[k] = v[k],
                      NEW k \in 1 .. Len(cstack[f2].below)
               PROVE  v'[k] = v[k]
    BY DEF Spares
  <2>1. Len(cstack[f2].below) <= Len(Cur.below)
    <3>1. f2 <= frame /\ f2 \in Int /\ frame \in Int
      <4>1. f2 < Here + 1 /\ f2 \in FramesOf(cstack)
        BY <1>2, <1>3, ChainTypes DEF Chain, Here
      <4> QED BY <1>2, <4>1, ChainTypes DEF LastBefore, Chain
    <3>2. CASE f2 = frame
      BY <1>2, <3>2 DEF Cur
    <3>3. CASE f2 < frame
      BY <1>2, <1>3, <3>3, ChainFrames DEF Cur
    <3> QED BY <3>1, <3>2, <3>3
  <2>2. k \in 1 .. to /\ k \in 1 .. Len(Cur.below)
    <3>1. /\ Len(cstack[f2].below) \in Nat /\ Len(cstack[f2].below) <= to
          /\ to \in Nat /\ Len(Cur.below) \in Nat
      BY <1>2, <1>3
    <3> HIDE DEF f2
    <3> QED BY <2>1, <3>1
  <2> QED BY <1>6, <2>2
<1>10. ASSUME IsTidy, a[n] # "stale",
              \A k \in 1 .. Level(cstack, error_jmp) : a[k] # "stale"
       PROVE  /\ \A i \in Catches(cstack) : i <= m => Level(cstack, i) <= n2
              /\ \A k \in 1 .. n2 : v'[k] # "stale"
  <2>1. ASSUME NEW i \in Catches(cstack), i <= m PROVE Level(cstack, i) <= n2
    <3>1. i < error_jmp /\ error_jmp \in DOMAIN cstack
      <4>1. i \in Int
        BY <1>2, ChainTypes DEF Chain
      <4> QED BY <1>2, <1>3, <2>1, <4>1 DEF Catches
    <3>2. Level(cstack, i) <= to
      BY <1>10, <3>1 DEF IsTidy, Tidy, Levelled, to
    <3>3. Level(cstack, i) \in Int
      BY Facts
    <3> QED BY <1>3, <3>2, <3>3
  <2>2. \A k \in 1 .. to : v'[k] # "stale"
    BY <1>6, <1>10 DEF to
  <2>3. \A k \in 1 .. n2 : k \in 1 .. to \/ k = to + 1
    BY <1>3
  <2> QED BY <1>6, <1>10, <2>1, <2>2, <2>3
<1> HIDE DEF n2, f2, e2
<1>11. LET cut == SubSeq(cstack, 1, m)
       IN  /\ Solid(v', n2, cut, f2, e2)
           /\ KeptIn(v, cstack) /\ Spares(v, v', cstack, f2) => KeptIn(v', cut)
           /\ /\ Tidy(v, sp, cstack)
              /\ \A i \in Catches(cstack) : i <= m => Level(cstack, i) <= n2
              /\ \A k \in 1 .. n2 : v'[k] # "stale"
              => Tidy(v', n2, cut)
  BY <1>1, <1>6, <1>7, <1>8, CutsCStack
<1>12. sp' = n2 /\ cstack' = SubSeq(cstack, 1, m) /\ frame' = f2 /\ error_jmp' = e2
  BY <1>5 DEF n2, f2, e2, cs
<1> QED
  BY <1>9, <1>10, <1>11, <1>12 DEF IsSolid, IsKept, IsTidy

\* any_error with n values left on the stack.
LEMMA ErrorKeeps ==
  ASSUME IsSolid, Top.kind # "entry", NEW n \in 0 .. sp, Error(n)
  PROVE  /\ IsSolid'
         /\ IsKept /\ n >= Cur.bp => IsKept'
         /\ IsTidy /\ (\A i \in Catches(cstack) : Level(cstack, i) <= n) => IsTidy'
<1>1. v \in Seq(Values) /\ sp \in Nat /\ Len(v) \in Nat /\ sp <= Len(v) /\ n \in Nat
      /\ Len(Cur.below) \in Nat /\ Cur.bp \in Nat /\ Len(Cur.below) <= Cur.bp
      /\ error_jmp \in Catches(cstack)
      /\ Level(cstack, error_jmp) \in Nat
  BY Facts, CatchThere
<1>2. PICK a0 \in {v, Collected(v, n)} : Throw(Put(a0, n + 1, "ref"), n + 1)
  BY DEF Error
<1>3. a0 \in Seq(Values) /\ Len(a0) = Len(v) /\ \A k \in 1 .. Len(v) : k <= n => a0[k] = v[k]
  BY <1>1, CollectedFacts
<1> DEFINE a == Put(a0, n + 1, "ref")
<1>4. a \in Seq(Values) /\ Len(a) >= Len(v) /\ n + 1 \in 1 .. Len(a)
      /\ a[n + 1] = "ref" /\ \A k \in 1 .. n : a[k] = v[k]
  <2>1. "ref" \in Values /\ n + 1 \in 1 .. Len(a0) + 1
    BY <1>1, <1>3 DEF Values
  <2>2. /\ a \in Seq(Values)
        /\ Len(a) >= Len(a0) /\ Len(a) >= n + 1 /\ Len(a) \in Nat
        /\ a[n + 1] = "ref"
        /\ \A j \in 1 .. Len(a0) : j # n + 1 => a[j] = a0[j]
    BY <1>3, <2>1, PutFacts
  <2> HIDE DEF a
  <2>3. \A k \in 1 .. n : k \in 1 .. Len(v) /\ k <= n /\ k # n + 1
    BY <1>1
  <2> QED BY <1>1, <1>3, <2>2, <2>3
<1> DEFINE m == n + 1
<1>5. Throw(a, m) /\ m \in 1 .. Len(a)
  BY <1>2, <1>4
<1> HIDE DEF a, m
<1>6. ASSUME n >= Cur.bp PROVE \A k \in 1 .. Len(Cur.below) : a[k] = v[k]
  <2> SUFFICES ASSUME NEW k \in 1 .. Len(Cur.below) PROVE a[k] = v[k]
    OBVIOUS
  <2>1. k \in 1 .. n
    BY <1>1, <1>6
  <2> QED BY <1>4, <2>1
<1>7. ASSUME IsTidy, \A i \in Catches(cstack) : Level(cstack, i) <= n
      PROVE  a[m] # "stale" /\ \A k \in 1 .. Level(cstack, error_jmp) : a[k] # "stale"
  <2>1. ASSUME NEW k \in 1 .. Level(cstack, error_jmp) PROVE a[k] # "stale"
    <3>1. Level(cstack, error_jmp) <= n
      BY <1>1, <1>7
    <3>2. k \in 1 .. n /\ k \in 1 .. sp
      BY <1>1, <3>1
    <3>3. v[k] # "stale"
      BY <1>7, <3>2 DEF IsTidy, Tidy
    <3> QED BY <1>4, <3>2, <3>3
  <2>2. a[m] # "stale"
    BY <1>4 DEF m
  <2> QED BY <2>1, <2>2
<1>8. /\ IsSolid'
      /\ IsKept /\ (\A k \in 1 .. Len(Cur.below) : a[k] = v[k]) => IsKept'
      /\ /\ IsTidy /\ a[m] # "stale"
         /\ \A k \in 1 .. Level(cstack, error_jmp) : a[k] # "stale"
         => IsTidy'
  BY <1>4, <1>5, ThrowKeeps
<1> QED
  BY <1>6, <1>7, <1>8
-----------------------------------------------------------------------------
(***************************************************************************)
(* Steps that leave the C stack as it is.                                  *)
(***************************************************************************)

\* The frame of the function that runs, when one does.
LEMMA Running ==
  ASSUME NEW cs, Chain(cs), NEW f, LastBefore(FramesOf(cs), Len(cs) + 1, f),
         cs[Len(cs)].kind # "entry",
         cs[Len(cs)].kind = "try" => cs[Len(cs)].body = "native"
  PROVE  f # 1 /\ (cs[Len(cs)].kind # "try" => f = Len(cs))
<1> DEFINE m == Len(cs)
<1>1. /\ m \in Nat \ {0} /\ FramesOf(cs) \in SUBSET (1 .. m) /\ 1 \in FramesOf(cs)
      /\ DOMAIN cs = 1 .. m /\ m \in 1 .. m
      /\ Shaped(cs) /\ Linked(cs)
  BY ChainTypes DEF Chain
<1>2. m # 1 /\ LastBefore(FramesOf(cs), m + 1, f)
  BY <1>1 DEF Shaped
<1>3. f \in FramesOf(cs) /\ f \in 1 .. m /\ \A i \in FramesOf(cs) : i <= f
  BY <1>1, <1>2 DEF LastBefore
<1>4. CASE cs[m].kind # "try"
  <2>1. m \in FramesOf(cs)
    BY <1>1, <1>4 DEF FramesOf
  <2>2. m \in Nat /\ f \in Nat /\ m <= f /\ f <= m /\ m # 1
    BY <1>1, <1>2, <1>3, <2>1
  <2>3. f = m
    <3> HIDE DEF m
    <3> QED BY <2>2
  <2> QED BY <2>2, <2>3
<1>5. CASE cs[m].kind = "try"
  <2>1. m \in Catches(cs) /\ cs[m].body = "native"
    BY <1>1, <1>5 DEF Catches
  <2>2. cs[m].frame # 1
    BY <1>1, <2>1 DEF Shaped
  <2>3. cs[m].frame \in FramesOf(cs)
    BY <2>1, ChainFrames
  <2>4. cs[m].frame <= f /\ cs[m].frame \in 1 .. m
    BY <1>1, <1>3, <2>3
  <2> QED BY <1>3, <1>5, <2>2, <2>4
<1> QED
  BY <1>4, <1>5

LEMMA RunningFrame ==
  ASSUME IsSolid, Top.kind # "entry", Top.kind = "try" => Top.body = "native"
  PROVE  /\ frame # 1 /\ Cur.bp >= 1 /\ Top.kind # "entry"
         /\ Top.kind # "try" => frame = Here
<1>1. /\ Chain(cstack) /\ LastBefore(FramesOf(cstack), Len(cstack) + 1, frame)
      /\ frame # 1 => Cur.bp = Len(Cur.below) + 1 + Cur.nargs
      /\ Cur.nargs \in Nat /\ Len(Cur.below) \in Nat
  BY Facts DEF Here
<1>3. frame # 1
  BY <1>1, Running DEF Top, Here
<1>4. Top.kind # "try" => frame = Here
  BY <1>1, Running DEF Top, Here
<1>5. Cur.bp >= 1
  BY <1>1, <1>3
<1> QED
  BY <1>3, <1>4, <1>5

\* The levels of the other functions are under the part of this one.
LEMMA LevelsUnder ==
  ASSUME IsSolid, IsTidy, NEW n \in Int, n >= Cur.bp,
         \A i \in Catches(cstack) : cstack[i].frame = frame => cstack[i].sp <= n
  PROVE  \A i \in Catches(cstack) : Level(cstack, i) <= n
<1> SUFFICES ASSUME NEW i \in Catches(cstack) PROVE Level(cstack, i) <= n
  OBVIOUS
<1>1. /\ Chain(cstack) /\ LastBefore(FramesOf(cstack), Here + 1, frame)
      /\ frame \in FramesOf(cstack)
      /\ Level(cstack, i) \in Nat /\ Level(cstack, i) <= cstack[i].sp
      /\ cstack[i].sp \in Nat
      /\ Len(Cur.below) \in Nat /\ Len(Cur.below) <= Cur.bp /\ Cur.bp \in Nat
  <2>1. /\ Chain(cstack) /\ LastBefore(FramesOf(cstack), Here + 1, frame)
        /\ frame \in FramesOf(cstack)
        /\ Len(Cur.below) \in Nat /\ Len(Cur.below) <= Cur.bp /\ Cur.bp \in Nat
    BY Facts
  <2> QED BY <2>1, CatchLevels
<1>2. CASE cstack[i].frame = frame
  BY <1>1, <1>2
<1>3. CASE cstack[i].frame # frame
  <2>1. /\ FramesOf(cstack) \in SUBSET (1 .. Here) /\ frame \in DOMAIN cstack
        /\ Catches(cstack) = (1 .. Here) \ FramesOf(cstack)
        /\ Here \in Nat
    BY <1>1, ChainTypes DEF Chain, Here
  <2>2. cstack[i].frame \in FramesOf(cstack)
        /\ LastBefore(FramesOf(cstack), i, cstack[i].frame)
    BY <1>1, ChainFrames DEF Chain, Linked
  <2>3. cstack[i].frame <= frame
    BY <1>1, <2>1, <2>2 DEF LastBefore
  <2>4. i < frame
    BY <1>1, <1>3, <2>1, <2>2, <2>3 DEF LastBefore
  <2>5. Level(cstack, i) <= Level(cstack, frame)
    BY <2>1, <2>4 DEF IsTidy, Tidy, Levelled
  <2>6. Level(cstack, frame) = Len(Cur.below)
    BY <1>1 DEF Level, Cur, FramesOf
  <2> QED BY <1>1, <2>5, <2>6
<1> QED
  BY <1>2, <1>3

\* A frame on top of the C stack has no catch points.
LEMMA NoCatchOnTop ==
  ASSUME IsSolid, Top.kind \in Functions
  PROVE  \A i \in Catches(cstack) : cstack[i].frame # frame
<1>1. frame = Here /\ Chain(cstack) /\ Here \in Nat
  BY RunningFrame, Facts DEF Functions
<1>2. \A i \in Catches(cstack) : i <= Here /\ cstack[i].frame < i
      /\ cstack[i].frame \in Nat /\ i \in Nat
  BY <1>1, ChainTypes, ChainFrames DEF Chain, Here
<1> QED
  BY <1>1, <1>2

\* The array changes to w, and what lies over the top and the catch points may
\* be cut.
LEMMA Edits ==
  ASSUME NEW a, NEW n, NEW cs, NEW f, NEW e, Solid(a, n, cs, f, e),
         NEW w \in Seq(Values), Len(w) >= Len(a),
         NEW n2 \in 1 .. MaxStack + 1, n2 <= Len(w), n2 >= cs[f].bp,
         NEW b \in {w, Trim(w, n2, cs)}
  PROVE  /\ Solid(b, n2, cs, f, e)
         /\ KeptIn(a, cs) /\ Spares(a, w, cs, f) => KeptIn(b, cs)
         /\ /\ Tidy(a, n, cs)
            /\ \A i \in Catches(cs) : Level(cs, i) <= n2
            /\ \A k \in 1 .. n2 : w[k] # "stale"
            => Tidy(b, n2, cs)
<1>1. a \in Seq(Values) /\ Chain(cs) /\ cs \in Seq(Activations)
      /\ LastBefore(FramesOf(cs), Len(cs) + 1, f)
      /\ \A i \in Catches(cs) : cs[i].sp <= Len(a)
  BY DEF Solid, Chain, Shaped
<1>2. Len(w) \in Nat /\ Len(a) \in Nat /\ n2 \in Nat /\ n2 \in 0 .. Len(w)
  BY <1>1, NatBounds
<1>3. \A i \in Catches(cs) : cs[i].sp \in 0 .. Len(w)
  <2>1. \A i \in Catches(cs) : cs[i].sp \in Nat
    BY <1>1, ChainTypes DEF Chain
  <2> QED BY <1>1, <1>2, <2>1
<1>4. /\ b \in Seq(Values) /\ n2 <= Len(b) /\ Len(b) \in Nat
      /\ \A i \in Catches(cs) : cs[i].sp <= Len(b)
      /\ \A k \in 1 .. Len(b) : b[k] = w[k]
  <2>1. CASE b = w
    BY <1>2, <1>3, <2>1
  <2>2. CASE b = Trim(w, n2, cs)
    <3> DEFINE t == Trim(w, n2, cs)
    <3>1. /\ t \in Seq(Values) /\ n2 <= Len(t)
          /\ \A i \in Catches(cs) : cs[i].sp <= Len(t)
          /\ \A k \in 1 .. Len(t) : t[k] = w[k]
      BY <1>1, <1>2, <1>3, TrimFacts
    <3> HIDE DEF t
    <3>2. Len(t) \in Nat
      BY <3>1
    <3>3. b = t
      BY <2>2 DEF t
    <3> QED BY <3>1, <3>2, <3>3
  <2> QED BY <2>1, <2>2
<1>5. \A k \in 1 .. n2 : b[k] = w[k]
  <2>1. \A k \in 1 .. n2 : k \in 1 .. Len(b)
    BY <1>2, <1>4
  <2> QED BY <1>4, <2>1
<1>6. Spares(a, w, cs, f) => Spares(a, b, cs, f)
  <2>1. Len(cs[f].below) <= cs[f].bp /\ Len(cs[f].below) \in Nat /\ cs[f].bp \in Nat
    <3>1. f \in FramesOf(cs)
      <4>1. Len(cs) + 1 \in 2 .. Len(cs) + 1
        BY <1>1, ChainTypes DEF Chain
      <4> QED BY <1>1, <4>1, LastFrame
    <3> QED BY <1>1, <3>1, ChainTypes, ChainFrames DEF Chain
  <2>2. \A k \in 1 .. Len(cs[f].below) : k \in 1 .. n2
    BY <1>2, <2>1
  <2> QED BY <1>5, <2>2 DEF Spares
<1>7. /\ Solid(b, n2, cs, f, e)
      /\ KeptIn(a, cs) /\ Spares(a, b, cs, f) => KeptIn(b, cs)
      /\ /\ Tidy(a, n, cs)
         /\ \A i \in Catches(cs) : Level(cs, i) <= n2
         /\ \A k \in 1 .. n2 : b[k] # "stale"
         => Tidy(b, n2, cs)
  BY <1>4, StaysOnCStack
<1> QED
  BY <1>5, <1>6, <1>7

\* An instruction that makes the array w of the array.
LEMMA StaysKeeps ==
  ASSUME IsSolid, cstack' = cstack, frame' = frame, error_jmp' = error_jmp,
         NEW w \in Seq(Values), Len(w) >= Len(v),
         NEW n2 \in 1 .. MaxStack + 1, n2 <= Len(w), n2 >= Cur.bp,
         sp' = n2, v' \in {w, Trim(w, n2, cstack)}
  PROVE  /\ IsSolid'
         /\ IsKept /\ (\A k \in 1 .. Len(Cur.below) : w[k] = v[k]) => IsKept'
         /\ /\ IsTidy /\ (\A i \in Catches(cstack) : Level(cstack, i) <= n2)
            /\ \A k \in 1 .. n2 : w[k] # "stale"
            => IsTidy'
<1>1. Solid(v, sp, cstack, frame, error_jmp) /\ n2 >= cstack[frame].bp
  BY DEF IsSolid, Cur
<1>2. /\ Solid(v', n2, cstack, frame, error_jmp)
      /\ KeptIn(v, cstack) /\ Spares(v, w, cstack, frame) => KeptIn(v', cstack)
      /\ /\ Tidy(v, sp, cstack)
         /\ \A i \in Catches(cstack) : Level(cstack, i) <= n2
         /\ \A k \in 1 .. n2 : w[k] # "stale"
         => Tidy(v', n2, cstack)
  BY <1>1, Edits
<1>3. (\A k \in 1 .. Len(Cur.below) : w[k] = v[k]) => Spares(v, w, cstack, frame)
  BY DEF Spares, Cur
<1> QED
  BY <1>2, <1>3 DEF IsSolid, IsKept, IsTidy
-----------------------------------------------------------------------------
(***************************************************************************)
(* Steps that take the activation on top off the C stack.                  *)
(***************************************************************************)
LEMMA CutKeeps ==
  ASSUME IsSolid, NEW m \in 1 .. Here, NEW f2, NEW e2,
         LastBefore(FramesOf(cstack), m + 1, f2), LastBefore(Catches(cstack), m + 1, e2),
         NEW w \in Seq(Values), Len(w) >= Len(v),
         NEW n2 \in 1 .. MaxStack + 1, n2 <= Len(w), n2 >= cstack[f2].bp,
         cstack' = SubSeq(cstack, 1, m), frame' = f2, error_jmp' = e2, sp' = n2,
         v' = Trim(w, n2, SubSeq(cstack, 1, m))
  PROVE  /\ IsSolid'
         /\ IsKept /\ Spares(v, w, cstack, f2) => IsKept'
         /\ /\ IsTidy /\ (\A i \in Catches(cstack) : i <= m => Level(cstack, i) <= n2)
            /\ \A k \in 1 .. n2 : w[k] # "stale"
            => IsTidy'
<1> DEFINE cut == SubSeq(cstack, 1, m)
<1>1. /\ Chain(cstack) /\ Len(v) \in Nat /\ m \in 1 .. Len(cstack)
      /\ \A i \in Catches(cstack) : cstack[i].sp \in 0 .. Len(v)
  BY Facts DEF Here
<1>2. /\ Chain(cut) /\ Catches(cut) = Catches(cstack) \cap (1 .. m)
      /\ \A i \in 1 .. m : cut[i] = cstack[i]
  BY <1>1, Cut
<1>3. cut \in Seq(Activations) /\ v' = Trim(w, n2, cut) /\ cstack' = cut
  BY <1>2 DEF Chain, Shaped
<1> HIDE DEF cut
<1>4. Len(w) \in Nat /\ n2 \in Nat /\ n2 \in 0 .. Len(w)
      /\ \A i \in Catches(cut) : cut[i].sp \in 0 .. Len(w)
  BY <1>1, <1>2, NatBounds
<1>5. /\ v' \in Seq(Values) /\ n2 <= Len(v') /\ Len(v') \in Nat
      /\ \A i \in Catches(cut) : cut[i].sp <= Len(v')
      /\ \A k \in 1 .. Len(v') : v'[k] = w[k]
  <2> DEFINE t == Trim(w, n2, cut)
  <2>1. /\ t \in Seq(Values) /\ n2 <= Len(t)
        /\ \A i \in Catches(cut) : cut[i].sp <= Len(t)
        /\ \A k \in 1 .. Len(t) : t[k] = w[k]
    BY <1>3, <1>4, TrimFacts
  <2>2. v' = t
    BY <1>3
  <2> HIDE DEF t
  <2>3. Len(t) \in Nat
    BY <2>1
  <2> QED BY <2>1, <2>2, <2>3
<1>6. \A k \in 1 .. n2 : v'[k] = w[k]
  <2>1. \A k \in 1 .. n2 : k \in 1 .. Len(v')
    BY <1>4, <1>5
  <2> QED BY <1>5, <2>1
<1>7. \A i \in Catches(cstack) : i <= m => cstack[i].sp <= Len(v')
  <2>1. \A i \in Catches(cstack) : i <= m => i \in 1 .. m
    BY <1>1, ChainTypes DEF Chain
  <2> QED BY <1>2, <1>5, <2>1
<1>8. Spares(v, w, cstack, f2) => Spares(v, v', cstack, f2)
  <2>1. f2 \in FramesOf(cstack)
    <3>1. m + 1 \in 2 .. Len(cstack) + 1
      BY <1>1, ChainTypes DEF Chain
    <3> QED BY <1>1, <3>1, LastFrame
  <2>2. Len(cstack[f2].below) <= cstack[f2].bp /\ Len(cstack[f2].below) \in Nat
        /\ cstack[f2].bp \in Nat
    BY <1>1, <2>1, ChainTypes, ChainFrames DEF Chain
  <2>3. \A k \in 1 .. Len(cstack[f2].below) : k \in 1 .. n2
    BY <1>4, <2>2
  <2> QED BY <1>6, <2>3 DEF Spares
<1>9. LET c2 == SubSeq(cstack, 1, m)
      IN  /\ Solid(v', n2, c2, f2, e2)
          /\ KeptIn(v, cstack) /\ Spares(v, v', cstack, f2) => KeptIn(v', c2)
          /\ /\ Tidy(v, sp, cstack)
             /\ \A i \in Catches(cstack) : i <= m => Level(cstack, i) <= n2
             /\ \A k \in 1 .. n2 : v'[k] # "stale"
             => Tidy(v', n2, c2)
  <2>1. Solid(v, sp, cstack, frame, error_jmp)
    BY DEF IsSolid
  <2> QED BY <1>1, <1>5, <1>7, <2>1, CutsCStack
<1> QED
  BY <1>6, <1>8, <1>9 DEF IsSolid, IsKept, IsTidy

\* What holds of the invariant after a step.
Maintained ==
  /\ IsSolid'
  /\ ~under' /\ IsKept => IsKept'
  /\ ~under' /\ ~loose' /\ IsTidy => IsTidy'

LEMMA ErrorMaintains ==
  ASSUME IsSolid, Top.kind # "entry", NEW n \in 0 .. sp, Error(n),
         ~under' => n >= Cur.bp,
         ~under' /\ ~loose' /\ IsTidy => \A i \in Catches(cstack) : Level(cstack, i) <= n
  PROVE  Maintained
BY ErrorKeeps DEF Maintained

\* An error with all values left on the stack.
LEMMA FailsMaintains ==
  ASSUME IsSolid, Top.kind # "entry", Error(sp)
  PROVE  Maintained
<1>1. sp \in 0 .. sp /\ sp >= Cur.bp
  BY Facts
<1>2. IsTidy => \A i \in Catches(cstack) : Level(cstack, i) <= sp
  BY DEF IsTidy, Tidy
<1> QED
  BY <1>1, <1>2, ErrorMaintains

LEMMA ReturnMaintains ==
  ASSUME IsSolid, Return
  PROVE  Maintained
<1>1. Top.kind \in Functions /\ Top.kind # "entry" /\ Top.kind # "try"
  BY DEF Return, Functions
<1>2. CASE sp <= Cur.bp
  BY <1>1, <1>2, FailsMaintains DEF Return
<1>3. CASE ~(sp <= Cur.bp)
  <2> DEFINE n2 == Cur.bp - Cur.nargs
             w == [v EXCEPT ![n2] = v[sp]]
             m == Here - 1
             f2 == Cur.prev
  <2>1. sp' = n2 /\ cstack' = SubSeq(cstack, 1, m) /\ frame' = f2 /\ error_jmp' = error_jmp
        /\ v' = Trim(w, n2, SubSeq(cstack, 1, m))
    BY <1>1, <1>3 DEF Return
  <2>0. /\ sp \in Nat /\ Len(v) \in Nat /\ sp <= Len(v) /\ Cur.bp <= sp
        /\ Cur.bp \in Nat /\ Cur.bp <= MaxStack /\ MaxStack \in Nat
        /\ Cur.nargs \in Nat /\ Len(Cur.below) \in Nat
    BY Facts
  <2>2. /\ Chain(cstack) /\ Here \in Nat \ {0} /\ v \in Seq(Values)
        /\ frame # 1 => Cur.bp = Len(Cur.below) + 1 + Cur.nargs
        /\ LastBefore(Catches(cstack), Here + 1, error_jmp)
        /\ \A k \in 1 .. Len(v) : v[k] \in Values
    BY Facts
  <2>3. frame = Here /\ frame # 1 /\ Here = Len(cstack)
    BY <1>1, RunningFrame DEF Here
  <2>4. n2 = Len(Cur.below) + 1
    BY <2>0, <2>2, <2>3
  <2>5. /\ Here \in FramesOf(cstack) \ {1} /\ Here \notin Catches(cstack)
        /\ Catches(cstack) \in SUBSET (1 .. Here)
        /\ \A i \in Catches(cstack) : Level(cstack, i) \in Int
    <3>1. FramesOf(cstack) \cup Catches(cstack) = 1 .. Here /\ Here \in 1 .. Here
      BY <2>2, <2>3, ChainTypes DEF Chain, Here
    <3>2. Here \in FramesOf(cstack) /\ Here \notin Catches(cstack)
      BY <1>1, <3>1 DEF FramesOf, Catches, Top
    <3> QED BY <2>3, <3>1, <3>2, CatchLevels
  <2>6. /\ LastBefore(FramesOf(cstack), Here, f2) /\ f2 \in FramesOf(cstack) /\ f2 < Here
        /\ cstack[f2].bp <= Len(Cur.below)
        /\ cstack[f2].bp \in Nat
        /\ Len(cstack[f2].below) <= cstack[f2].bp /\ Len(cstack[f2].below) \in Nat
    <3>1. LastBefore(FramesOf(cstack), Here, f2)
      BY <2>2, <2>3, <2>5 DEF Chain, Linked, Cur
    <3>2. f2 \in FramesOf(cstack) /\ f2 < Here
      BY <2>2, <2>3, <2>5, ChainFrames DEF Cur
    <3>3. cstack[f2].bp <= Len(Cur.below)
      BY <2>2, <2>3, <2>5, <3>2 DEF Chain, Banded, Cur
    <3>4. cstack[f2].bp \in Nat /\ Len(cstack[f2].below) \in Nat
      BY <2>2, <3>2, ChainTypes DEF Chain
    <3>5. Len(cstack[f2].below) <= cstack[f2].bp
      BY <2>2, <3>2, ChainFrames
    <3> QED BY <3>1, <3>2, <3>3, <3>4, <3>5
  <2>7. LastBefore(Catches(cstack), Here, error_jmp)
    BY <2>2, <2>5 DEF LastBefore
  <2> HIDE DEF f2
  <2>8. n2 \in 1 .. MaxStack + 1 /\ n2 <= Len(v) /\ n2 < sp /\ n2 >= cstack[f2].bp
    <3>1. Len(Cur.below) + 1 <= Cur.bp /\ Cur.bp < sp
      BY <1>3, <2>0, <2>2, <2>3
    <3>2. cstack[f2].bp \in Nat /\ cstack[f2].bp <= Len(Cur.below)
      BY <2>6
    <3> HIDE DEF n2
    <3> QED BY <2>0, <2>4, <3>1, <3>2
  <2>9. /\ w \in Seq(Values) /\ Len(w) = Len(v) /\ w[n2] = v[sp]
        /\ \A k \in 1 .. Len(v) : k # n2 => w[k] = v[k]
    <3>1. sp \in 1 .. Len(v) /\ n2 \in 1 .. Len(v)
      BY <2>0, <2>8
    <3> HIDE DEF n2
    <3> QED BY <2>2, <3>1, ExceptSeq
  <2> HIDE DEF n2, w
  <2>10. Spares(v, w, cstack, f2)
    <3>1. \A k \in 1 .. Len(cstack[f2].below) : k \in 1 .. Len(v) /\ k # n2
      <4>1. Len(cstack[f2].below) <= Len(Cur.below) /\ Len(cstack[f2].below) \in Nat
        BY <2>0, <2>6
      <4>2. Len(Cur.below) < n2 /\ n2 \in Nat /\ n2 <= Len(v)
        BY <2>0, <2>4, <2>8
      <4> QED BY <2>0, <4>1, <4>2
    <3> QED BY <2>9, <3>1 DEF Spares
  <2>11. IsTidy => /\ \A i \in Catches(cstack) : i <= m => Level(cstack, i) <= n2
                   /\ \A k \in 1 .. n2 : w[k] # "stale"
    <3> SUFFICES ASSUME IsTidy
                 PROVE  /\ \A i \in Catches(cstack) : i <= m => Level(cstack, i) <= n2
                        /\ \A k \in 1 .. n2 : w[k] # "stale"
      OBVIOUS
    <3>1. ASSUME NEW i \in Catches(cstack), i <= m PROVE Level(cstack, i) <= n2
      <4>1. i < Here /\ Here \in DOMAIN cstack
        BY <2>2, <2>5, <3>1 DEF FramesOf
      <4>2. Level(cstack, i) <= Level(cstack, Here)
        BY <4>1 DEF IsTidy, Tidy, Levelled
      <4>3. Level(cstack, Here) = Len(Cur.below)
        BY <1>1, <2>3 DEF Level, Top, Cur
      <4> QED BY <2>0, <2>4, <2>5, <4>2, <4>3
    <3>2. \A k \in 1 .. sp : v[k] # "stale"
      BY DEF IsTidy, Tidy
    <3>3. \A k \in 1 .. n2 : w[k] # "stale"
      <4>1. \A k \in 1 .. n2 : k \in 1 .. sp /\ k \in 1 .. Len(v) /\ sp \in 1 .. sp
        BY <2>0, <2>8
      <4> QED BY <2>9, <3>2, <4>1
    <3> QED BY <3>1, <3>3
  <2>12. m \in 1 .. Here /\ m + 1 = Here
    BY <2>2, <2>3, <2>5
  <2> HIDE DEF m
  <2>13. /\ IsSolid'
         /\ IsKept /\ Spares(v, w, cstack, f2) => IsKept'
         /\ /\ IsTidy /\ (\A i \in Catches(cstack) : i <= m => Level(cstack, i) <= n2)
            /\ \A k \in 1 .. n2 : w[k] # "stale"
            => IsTidy'
    <3>1. LastBefore(FramesOf(cstack), m + 1, f2)
          /\ LastBefore(Catches(cstack), m + 1, error_jmp)
      BY <2>6, <2>7, <2>12
    <3>2. Len(w) >= Len(v) /\ n2 <= Len(w)
      BY <2>0, <2>8, <2>9
    <3> QED BY <2>1, <2>8, <2>9, <2>12, <3>1, <3>2, CutKeeps
  <2> QED BY <2>10, <2>11, <2>13 DEF Maintained
<1> QED
  BY <1>2, <1>3

LEMMA TryEndsMaintains ==
  ASSUME IsSolid, TryEnds
  PROVE  Maintained
<1> DEFINE n2 == sp + 1
           w == Put(v, n2, "nil")
           m == Here - 1
           e2 == Top.prev
<1>1. Top.kind = "try" /\ sp < MaxStack
      /\ sp' = n2 /\ cstack' = SubSeq(cstack, 1, m) /\ frame' = frame /\ error_jmp' = e2
      /\ v' = Trim(w, n2, SubSeq(cstack, 1, m))
  BY DEF TryEnds, Caught
<1>2. /\ Chain(cstack) /\ Here \in Nat /\ sp \in Nat /\ Len(v) \in Nat /\ v \in Seq(Values)
      /\ Cur.bp \in Nat /\ MaxStack \in Nat /\ sp <= Len(v)
      /\ Len(Cur.below) \in Nat /\ Cur.bp <= sp /\ Len(Cur.below) <= Cur.bp
      /\ LastBefore(FramesOf(cstack), Here + 1, frame)
  BY Facts
<1>3. /\ Here \in Catches(cstack) /\ Here \notin FramesOf(cstack) /\ Here > 1
      /\ Catches(cstack) \in SUBSET (1 .. Here) /\ FramesOf(cstack) \in SUBSET (1 .. Here)
      /\ \A i \in Catches(cstack) : Level(cstack, i) \in Int
  <2>1. DOMAIN cstack = 1 .. Here /\ Here \in 1 .. Here /\ 1 \in FramesOf(cstack)
        /\ Catches(cstack) \in SUBSET (1 .. Here) /\ FramesOf(cstack) \in SUBSET (1 .. Here)
    BY <1>2, ChainTypes DEF Chain, Here
  <2>2. Here \in Catches(cstack) /\ Here \notin FramesOf(cstack)
    BY <1>1, <2>1 DEF FramesOf, Catches, Top
  <2> QED BY <1>2, <2>1, <2>2, Facts
<1>4. LastBefore(Catches(cstack), Here, e2)
  BY <1>2, <1>3 DEF Chain, Linked, Top
<1>5. LastBefore(FramesOf(cstack), Here, frame)
  BY <1>2, <1>3 DEF LastBefore
<1>6. n2 \in 1 .. MaxStack + 1 /\ n2 >= cstack[frame].bp /\ n2 \in 1 .. Len(v) + 1
  BY <1>1, <1>2 DEF Cur
<1>7. "nil" \in Values
  BY DEF Values, Plain
<1> HIDE DEF e2
<1>8. /\ w \in Seq(Values) /\ Len(w) >= Len(v) /\ Len(w) >= n2 /\ w[n2] = "nil"
      /\ \A k \in 1 .. Len(v) : k # n2 => w[k] = v[k]
  <2> HIDE DEF n2
  <2> QED BY <1>2, <1>6, <1>7, PutFacts
<1> HIDE DEF w
<1>9. \A k \in 1 .. sp : w[k] = v[k]
  BY <1>2, <1>8
<1>10. Spares(v, w, cstack, frame)
  <2>1. \A k \in 1 .. Len(Cur.below) : k \in 1 .. sp
    BY <1>2
  <2> QED BY <1>9, <2>1 DEF Spares, Cur
<1>11. m \in 1 .. Here /\ m + 1 = Here
  BY <1>2, <1>3
<1> HIDE DEF m
<1>12. IsTidy => /\ \A i \in Catches(cstack) : i <= m => Level(cstack, i) <= n2
                 /\ \A k \in 1 .. n2 : w[k] # "stale"
  <2> SUFFICES ASSUME IsTidy
               PROVE  /\ \A i \in Catches(cstack) : i <= m => Level(cstack, i) <= n2
                      /\ \A k \in 1 .. n2 : w[k] # "stale"
    OBVIOUS
  <2>1. /\ \A i \in Catches(cstack) : Level(cstack, i) <= sp
        /\ \A k \in 1 .. sp : v[k] # "stale"
    BY DEF IsTidy, Tidy
  <2>2. \A k \in 1 .. n2 : k \in 1 .. sp \/ k = n2
    BY <1>2
  <2>3. \A i \in Catches(cstack) : Level(cstack, i) <= n2
    BY <1>2, <1>3, <2>1
  <2> HIDE DEF n2
  <2> QED BY <1>8, <1>9, <2>1, <2>2, <2>3
<1> HIDE DEF n2
<1>13. /\ IsSolid'
       /\ IsKept /\ Spares(v, w, cstack, frame) => IsKept'
       /\ /\ IsTidy /\ (\A i \in Catches(cstack) : i <= m => Level(cstack, i) <= n2)
          /\ \A k \in 1 .. n2 : w[k] # "stale"
          => IsTidy'
  <2>1. LastBefore(FramesOf(cstack), m + 1, frame)
        /\ LastBefore(Catches(cstack), m + 1, e2)
    BY <1>4, <1>5, <1>11
  <2>2. n2 <= Len(w)
    BY <1>6, <1>8
  <2> QED BY <1>1, <1>6, <1>8, <1>11, <2>1, <2>2, CutKeeps
<1> QED
  BY <1>10, <1>12, <1>13 DEF Maintained
-----------------------------------------------------------------------------
(***************************************************************************)
(* Steps that put an activation on the C stack.                            *)
(***************************************************************************)

\* What the invariant says of two C stacks is the same.
Alike(cs, new) ==
  /\ Len(new) = Len(cs) /\ Catches(new) = Catches(cs) /\ FramesOf(new) = FramesOf(cs)
  /\ \A i \in FramesOf(cs) : new[i] = cs[i]
  /\ \A i \in Catches(cs) : new[i].sp = cs[i].sp
  /\ \A i \in Catches(cs) : Level(new, i) = Level(cs, i)

LEMMA MarkedSolid ==
  ASSUME NEW a, NEW n, NEW cs, NEW f, NEW e, Solid(a, n, cs, f, e),
         cs[Len(cs)].kind = "try", cs[Len(cs)].body = "begin",
         NEW new, new = [cs EXCEPT ![Len(cs)].body = "call"]
  PROVE  /\ Solid(a, n, new, f, e) /\ Alike(cs, new)
         /\ KeptIn(a, cs) => KeptIn(a, new)
         /\ Tidy(a, n, cs) => Tidy(a, n, new)
<1>1. Chain(cs)
  BY DEF Solid, Chain
<1>2. /\ Chain(new) /\ Len(new) = Len(cs)
      /\ FramesOf(new) = FramesOf(cs) /\ Catches(new) = Catches(cs)
      /\ \A i \in FramesOf(cs) : new[i] = cs[i]
      /\ \A i \in Catches(cs) : new[i].sp = cs[i].sp
      /\ \A i \in 1 .. Len(cs) : Level(new, i) = Level(cs, i)
      /\ Levelled(cs) => Levelled(new)
  BY <1>1, Marked
<1>3. Catches(cs) \in SUBSET (1 .. Len(cs))
  BY <1>1, ChainTypes DEF Chain
<1>4. f \in FramesOf(cs)
  <2>1. Len(cs) + 1 \in 2 .. Len(cs) + 1
    BY <1>1, ChainTypes DEF Chain
  <2> QED BY <1>1, <2>1, LastFrame DEF Solid
<1>5. Solid(a, n, new, f, e)
  BY <1>2, <1>4 DEF Solid, Chain
<1>6. Alike(cs, new)
  BY <1>2, <1>3 DEF Alike
<1>7. KeptIn(a, cs) => KeptIn(a, new)
  BY <1>2 DEF KeptIn
<1>8. Tidy(a, n, cs) => Tidy(a, n, new)
  BY <1>2, <1>3 DEF Tidy
<1> QED
  BY <1>5, <1>6, <1>7, <1>8

\* The array with l local variables over n values.
WithLocals(a, n, l) ==
  [k \in 1 .. Max({n + l, Len(a)}) |-> IF k \in n + 1 .. n + l THEN "nil" ELSE a[k]]

LEMMA LocalsArray ==
  ASSUME NEW a \in Seq(Values), NEW n \in 0 .. Len(a), NEW l \in Nat, NEW w,
         w = WithLocals(a, n, l)
  PROVE  /\ w \in Seq(Values) /\ Len(w) \in Nat /\ Len(w) >= Len(a) /\ Len(w) >= n + l
         /\ \A k \in 1 .. n : w[k] = a[k]
         /\ \A k \in n + 1 .. n + l : w[k] = "nil"
<1> DEFINE M == Max({n + l, Len(a)})
<1>1. n \in Nat /\ Len(a) \in Nat /\ n <= Len(a)
  OBVIOUS
<1>2. M \in Nat /\ M >= n + l /\ M >= Len(a) /\ (M = n + l \/ M = Len(a))
  <2>1. CASE n + l >= Len(a)
    <3>1. n + l \in {n + l, Len(a)} /\ {n + l, Len(a)} \in SUBSET Int
          /\ \A s \in {n + l, Len(a)} : s <= n + l
      BY <1>1, <2>1
    <3>2. M = n + l
      BY <3>1, MaxIs
    <3> HIDE DEF M
    <3> QED BY <1>1, <2>1, <3>2
  <2>2. CASE n + l < Len(a)
    <3>1. Len(a) \in {n + l, Len(a)} /\ {n + l, Len(a)} \in SUBSET Int
          /\ \A s \in {n + l, Len(a)} : s <= Len(a)
      BY <1>1, <2>2
    <3>2. M = Len(a)
      BY <3>1, MaxIs
    <3> HIDE DEF M
    <3> QED BY <1>1, <2>2, <3>2
  <2> QED BY <1>1, <2>1, <2>2
<1>3. w = [k \in 1 .. M |-> IF k \in n + 1 .. n + l THEN "nil" ELSE a[k]]
  BY DEF WithLocals
<1> HIDE DEF M
<1>4. ASSUME NEW k \in 1 .. M
      PROVE  (IF k \in n + 1 .. n + l THEN "nil" ELSE a[k]) \in Values
  <2>1. CASE k \in n + 1 .. n + l
    BY <2>1 DEF Values, Plain
  <2>2. CASE k \notin n + 1 .. n + l
    <3>1. k \in 1 .. Len(a)
      BY <1>1, <1>2, <2>2
    <3> QED BY <2>2, <3>1, ElementOfSeq
  <2> QED BY <2>1, <2>2
<1>5. w \in [1 .. M -> Values]
  BY <1>3, <1>4
<1>6. w \in Seq(Values) /\ Len(w) = M
  BY <1>2, <1>5
<1>7. /\ \A k \in 1 .. n : k \in 1 .. M /\ k \notin n + 1 .. n + l
      /\ \A k \in n + 1 .. n + l : k \in 1 .. M
  BY <1>1, <1>2
<1>8. \A k \in 1 .. n : w[k] = a[k]
  BY <1>3, <1>7
<1>9. \A k \in n + 1 .. n + l : w[k] = "nil"
  BY <1>3, <1>7
<1> QED
  BY <1>2, <1>6, <1>8, <1>9

\* A call for a C stack cs, an array a and n values, with k arguments, l local
\* variables and the function at place p, that puts r on cs and makes the array b.
IsCall(a, n, cs, f, k, l, p, r, b) ==
  /\ k \in Args \cup {0} /\ l \in Locals \cup {0} /\ n + l <= MaxStack
  /\ p \in Nat /\ p = n - k - 1 /\ p >= cs[f].bp
  /\ r \in Activations /\ r.kind \in Functions /\ r.prev = f /\ r.bp = n
  /\ r.nargs = k /\ r.below = SubSeq(a, 1, p)
  /\ b = Trim(WithLocals(a, n, l), n + l, Append(cs, r))

LEMMA Calls ==
  ASSUME NEW a, NEW n, NEW cs, NEW f, NEW e, Solid(a, n, cs, f, e), Len(cs) >= 2,
         NEW k, NEW l, NEW p, NEW r, NEW b, IsCall(a, n, cs, f, k, l, p, r, b)
  PROVE  LET new == Append(cs, r)
         IN  /\ Solid(b, n + l, new, Len(cs) + 1, e)
             /\ KeptIn(a, cs) => KeptIn(b, new)
             /\ Tidy(a, n, cs) /\ (\A i \in Catches(cs) : Level(cs, i) <= p)
                => Tidy(b, n + l, new)
<1> DEFINE w == WithLocals(a, n, l)
           n2 == n + l
           new == Append(cs, r)
<1>0. /\ k \in Args \cup {0} /\ l \in Locals \cup {0} /\ n + l <= MaxStack
      /\ p \in Nat /\ p = n - k - 1 /\ p >= cs[f].bp
      /\ r \in Activations /\ r.kind \in Functions /\ r.prev = f /\ r.bp = n
      /\ r.nargs = k /\ r.below = SubSeq(a, 1, p)
      /\ b = Trim(WithLocals(a, n, l), n + l, Append(cs, r))
  BY DEF IsCall
<1>1. /\ a \in Seq(Values) /\ n \in Nat /\ n >= 1 /\ Len(a) \in Nat /\ n <= Len(a)
      /\ k \in Nat /\ l \in Nat /\ MaxStack \in Nat /\ n \in 0 .. Len(a)
      /\ Chain(cs) /\ cs[f].bp <= n
      /\ \A i \in Catches(cs) : cs[i].sp <= Len(a)
  <2>1. a \in Seq(Values) /\ n \in 1 .. MaxStack + 1 /\ n <= Len(a) /\ Chain(cs)
        /\ cs[f].bp <= n /\ \A i \in Catches(cs) : cs[i].sp <= Len(a)
    BY <1>0 DEF Solid, Chain
  <2> QED BY <1>0, <2>1, NatBounds, NatConstants
<1>2. /\ w \in Seq(Values) /\ Len(w) \in Nat /\ Len(w) >= Len(a) /\ Len(w) >= n2
      /\ \A j \in 1 .. n : w[j] = a[j]
      /\ \A j \in n + 1 .. n + l : w[j] = "nil"
  <2> HIDE DEF w
  <2> QED BY <1>0, <1>1, LocalsArray DEF w
<1> HIDE DEF w
<1>3. /\ new \in Seq(Activations) /\ Catches(new) = Catches(cs)
      /\ \A i \in Catches(cs) : new[i] = cs[i] /\ cs[i].sp \in Nat
  <2>1. r.kind # "try"
    BY <1>0 DEF Functions
  <2>2. Catches(cs) \in SUBSET (1 .. Len(cs)) /\ \A i \in Catches(cs) : cs[i].sp \in Nat
    BY <1>0, <1>1, ChainTypes DEF Chain
  <2> QED BY <1>0, <1>1, <2>1, <2>2, Grown
<1>4. n2 \in Nat /\ n2 \in 0 .. Len(w) /\ n2 \in 1 .. MaxStack + 1 /\ n2 >= n
  BY <1>0, <1>1, <1>2
<1>6. b = Trim(w, n2, new)
  BY <1>0 DEF w
<1> HIDE DEF new, n2
<1>5. \A i \in Catches(new) : new[i].sp \in 0 .. Len(w)
  <2> SUFFICES ASSUME NEW i \in Catches(new) PROVE new[i].sp \in 0 .. Len(w)
    OBVIOUS
  <2>1. new[i].sp \in Nat /\ new[i].sp <= Len(a)
    BY <1>0, <1>1, <1>3
  <2> QED BY <1>0, <1>1, <1>2, <2>1
<1>7. /\ b \in Seq(Values) /\ n2 <= Len(b) /\ Len(b) \in Nat
      /\ \A i \in Catches(cs) : cs[i].sp <= Len(b)
      /\ \A j \in 1 .. Len(b) : b[j] = w[j]
  <2> DEFINE t == Trim(w, n2, new)
  <2>1. /\ t \in Seq(Values) /\ n2 <= Len(t)
        /\ \A i \in Catches(new) : new[i].sp <= Len(t)
        /\ \A j \in 1 .. Len(t) : t[j] = w[j]
    BY <1>0, <1>2, <1>3, <1>4, <1>5, TrimFacts
  <2>2. b = t
    BY <1>0, <1>6
  <2> HIDE DEF t
  <2>3. Len(t) \in Nat
    BY <1>0, <2>1
  <2> QED BY <1>0, <1>3, <2>1, <2>2, <2>3
<1>8. \A j \in 1 .. n : b[j] = a[j]
  <2>1. \A j \in 1 .. n : j \in 1 .. Len(b)
    BY <1>0, <1>1, <1>4, <1>7
  <2> QED BY <1>0, <1>2, <1>7, <2>1
<1>9. \A j \in n + 1 .. n2 : b[j] = "nil"
  <2>1. \A j \in n + 1 .. n2 : j \in 1 .. Len(b) /\ j \in n + 1 .. n + l
    BY <1>0, <1>1, <1>4, <1>7 DEF n2
  <2> QED BY <1>0, <1>2, <1>7, <2>1
<1>10. /\ Len(r.below) = p /\ \A j \in 1 .. p : r.below[j] = a[j]
       /\ \A j \in 1 .. p : j \in 1 .. n
  <2>1. p <= n /\ p <= Len(a)
    BY <1>0, <1>1
  <2>2. \A j \in 1 .. p : a[j] \in Values
    BY <1>0, <1>1, <2>1, ElementOfSeq
  <2>3. Len(SubSeq(a, 1, p)) = p /\ \A j \in 1 .. p : SubSeq(a, 1, p)[j] = a[j]
    BY <1>0, <1>1, <2>1, <2>2, SubSeqProperties
  <2> QED BY <1>0, <1>1, <2>1, <2>3
<1>11. r.bp = Len(r.below) + 1 + r.nargs /\ cs[f].bp <= Len(r.below) /\ n2 >= r.bp
  <2>1. n = p + 1 + k
    BY <1>0, <1>1
  <2>2. r.bp = Len(r.below) + 1 + r.nargs
    BY <1>0, <1>10, <2>1
  <2> QED BY <1>0, <1>4, <1>10, <2>2
<1>12. \A j \in 1 .. Len(r.below) : b[j] = a[j] /\ r.below[j] = a[j]
  BY <1>0, <1>8, <1>10
<1>13. LET c2 == Append(cs, r)
       IN  /\ Solid(b, n2, c2, Len(cs) + 1, e)
           /\ KeptIn(a, cs) => KeptIn(b, c2)
           /\ /\ Tidy(a, n, cs)
              /\ \A i \in Catches(cs) : Level(cs, i) <= Len(r.below)
              /\ \A j \in 1 .. n2 : b[j] # "stale"
              => Tidy(b, n2, c2)
  BY <1>0, <1>4, <1>7, <1>11, <1>12, PutsFrame
<1>14. ASSUME Tidy(a, n, cs) PROVE \A j \in 1 .. n2 : b[j] # "stale"
  <2>1. \A j \in 1 .. n : b[j] # "stale"
    BY <1>0, <1>8, <1>14 DEF Tidy
  <2>2. \A j \in 1 .. n2 : j \in 1 .. n \/ j \in n + 1 .. n2
    BY <1>0, <1>1, <1>4
  <2> QED BY <1>0, <1>9, <2>1, <2>2
<1> QED
  BY <1>0, <1>10, <1>13, <1>14 DEF n2

\* any_call by the actor.
LEMMA CallOnMaintains ==
  ASSUME IsSolid, Top.kind # "entry",
         NEW cs, Solid(v, sp, cs, frame, error_jmp), Alike(cstack, cs),
         KeptIn(v, cstack) => KeptIn(v, cs), Tidy(v, sp, cstack) => Tidy(v, sp, cs),
         NEW n \in Args \cup {0}, CallOn(cs, n),
         FirstOf(n) >= Cur.bp /\ ~under' /\ ~loose' /\ IsTidy =>
           \A i \in Catches(cstack) : Level(cstack, i) <= FirstOf(n)
  PROVE  Maintained
<1>1. CASE ~Callable(n)
  BY <1>1, FailsMaintains DEF CallOn
<1>2. CASE Callable(n)
  <2> DEFINE f == v[FirstOf(n) + 1]
             p == FirstOf(n)
  <2>1. PICK l \in IF f = "code" THEN Locals ELSE {0} :
          /\ sp + l <= MaxStack
          /\ sp' = sp + l
          /\ cstack' = Append(cs, Frame(f, n, sp, l, SubSeq(v, 1, FirstOf(n))))
          /\ frame' = Len(cs) + 1
          /\ v' = Trim(WithLocals(v, sp, l), sp', cstack')
          /\ error_jmp' = error_jmp
    BY <1>2 DEF CallOn, WithLocals
  <2> DEFINE r == Frame(f, n, sp, l, SubSeq(v, 1, p))
  <2>2. l \in Locals \cup {0} /\ l \in Nat /\ n \in Nat
    BY <2>1, NatConstants
  <2>3. /\ sp \in Nat /\ sp <= Len(v) /\ Len(v) \in Nat /\ MaxStack \in Nat /\ frame \in Nat
        /\ Cur.bp \in Nat /\ v \in Seq(Values) /\ frame \in FramesOf(cstack)
        /\ \A k \in 1 .. Len(v) : v[k] \in Values
    BY Facts
  <2>4. f \in Functions /\ p >= Cur.bp /\ p = sp - n - 1
    BY <1>2 DEF Callable, FirstOf
  <2>5. p \in Nat /\ sp \in 0 .. MaxStack
    BY <2>1, <2>2, <2>3, <2>4
  <2>6. SubSeq(v, 1, p) \in Seq(Values)
    <3>1. p <= Len(v)
      BY <2>2, <2>3, <2>4, <2>5
    <3>2. \A k \in 1 .. p : v[k] \in Values
      BY <2>3, <2>5, <3>1
    <3> HIDE DEF p
    <3> QED BY <2>3, <2>5, <3>1, <3>2, SubSeqProperties
  <2>7. /\ r \in Activations /\ r.kind = f /\ r.prev = frame /\ r.bp = sp /\ r.nargs = n
        /\ r.below = SubSeq(v, 1, p)
    <3> HIDE DEF f, p
    <3> QED BY <2>2, <2>3, <2>4, <2>5, <2>6 DEF Frame, Activations
  <2>8. Len(cs) >= 2 /\ cs[frame].bp = Cur.bp
    BY <2>3, CatchThere DEF Alike, Cur, Here
  <2> HIDE DEF r, p
  <2>9. v' = Trim(WithLocals(v, sp, l), sp + l, Append(cs, r))
        /\ cstack' = Append(cs, r)
    BY <2>1 DEF r, p
  <2>10. /\ Solid(v', sp + l, Append(cs, r), Len(cs) + 1, error_jmp)
         /\ KeptIn(v, cs) => KeptIn(v', Append(cs, r))
         /\ Tidy(v, sp, cs) /\ (\A i \in Catches(cs) : Level(cs, i) <= p)
            => Tidy(v', sp + l, Append(cs, r))
    <3>1. r.kind \in Functions /\ p >= cs[frame].bp
      BY <2>4, <2>7, <2>8
    <3>2. IsCall(v, sp, cs, frame, n, l, p, r, v')
      <4> HIDE DEF f
      <4> QED BY <2>1, <2>2, <2>4, <2>5, <2>7, <2>8, <2>9, <3>1 DEF IsCall, p
    <3> HIDE DEF f
    <3> QED BY <2>8, <3>2, Calls
  <2>11. ~under' /\ ~loose' /\ IsTidy => \A i \in Catches(cs) : Level(cs, i) <= p
    BY <2>4 DEF Alike, p
  <2>12. IsSolid'
    BY <2>1, <2>9, <2>10 DEF IsSolid
  <2>13. IsKept => IsKept'
    BY <2>9, <2>10 DEF IsKept
  <2>14. ~under' /\ ~loose' /\ IsTidy => IsTidy'
    BY <2>1, <2>9, <2>10, <2>11 DEF IsTidy
  <2> QED BY <2>12, <2>13, <2>14 DEF Maintained
<1> QED
  BY <1>1, <1>2

\* What has not been taken of the catch points of the function that runs.
LEMMA NotTaken ==
  ASSUME IsSolid, IsTidy, NEW n \in Int, sp - n >= Cur.bp, ~Taken(n)
  PROVE  \A i \in Catches(cstack) : Level(cstack, i) <= sp - n
<1> DEFINE k == sp - n
<1>1. sp \in Nat /\ \A i \in Catches(cstack) : cstack[i].sp \in Nat
  <2>1. sp \in Nat
    BY Facts
  <2> QED BY <2>1, CatchLevels
<1>2. \A i \in Catches(cstack) : cstack[i].frame = frame => cstack[i].sp <= k
  BY <1>1 DEF Taken
<1>3. k \in Int /\ k >= Cur.bp
  BY <1>1
<1> HIDE DEF k
<1>4. \A i \in Catches(cstack) : Level(cstack, i) <= k
  BY <1>2, <1>3, LevelsUnder
<1> QED
  BY <1>4 DEF k

LEMMA CallMaintains ==
  ASSUME IsSolid, Top.kind # "entry", loose \in BOOLEAN, NEW n \in Args, Call(n)
  PROVE  Maintained
<1>1. Solid(v, sp, cstack, frame, error_jmp) /\ CallOn(cstack, n)
  BY DEF IsSolid, Call
<1>2. Alike(cstack, cstack)
  BY DEF Alike
<1>3. ASSUME FirstOf(n) >= Cur.bp, ~loose', IsTidy
      PROVE  \A i \in Catches(cstack) : Level(cstack, i) <= FirstOf(n)
  <2>1. ~Taken(n + 1)
    BY <1>3 DEF Call
  <2>2. n \in Nat /\ sp \in Nat
    BY NatConstants, Facts
  <2>3. FirstOf(n) = sp - (n + 1) /\ n + 1 \in Int
    BY <2>2 DEF FirstOf
  <2>4. \A i \in Catches(cstack) : Level(cstack, i) <= sp - (n + 1)
    BY <1>3, <2>1, <2>3, NotTaken
  <2> QED BY <2>3, <2>4
<1> QED
  BY <1>1, <1>2, <1>3, CallOnMaintains

\* The call of any_protected_call and of actor_entry.
LEMMA BeginMaintains ==
  ASSUME IsSolid, Begin
  PROVE  Maintained
<1> DEFINE cs == [cstack EXCEPT ![Here].body = "call"]
<1>1. Top.kind = "try" /\ Top.body = "begin" /\ CallOn(cs, Top.nargs)
  BY DEF Begin
<1>2. Solid(v, sp, cstack, frame, error_jmp)
  BY DEF IsSolid
<1>3. /\ Solid(v, sp, cs, frame, error_jmp) /\ Alike(cstack, cs)
      /\ KeptIn(v, cstack) => KeptIn(v, cs)
      /\ Tidy(v, sp, cstack) => Tidy(v, sp, cs)
  BY <1>1, <1>2, MarkedSolid DEF Top, Here
<1> HIDE DEF cs
<1>4. /\ Chain(cstack) /\ Here \in Nat /\ LastBefore(FramesOf(cstack), Here + 1, frame)
      /\ \A i \in Catches(cstack) : Level(cstack, i) \in Nat
      /\ Cur.bp \in Nat /\ sp \in Nat
  BY Facts
<1>5. /\ Here \in Catches(cstack) /\ Here \notin FramesOf(cstack)
      /\ Catches(cstack) \in SUBSET (1 .. Here) /\ FramesOf(cstack) \in SUBSET (1 .. Here)
      /\ Here \in DOMAIN cstack /\ Top.nargs \in Args \cup {0}
  <2>1. DOMAIN cstack = 1 .. Here /\ Here \in 1 .. Here
        /\ Catches(cstack) \in SUBSET (1 .. Here) /\ FramesOf(cstack) \in SUBSET (1 .. Here)
    BY <1>4, ChainTypes DEF Chain, Here
  <2>2. Here \in Catches(cstack) /\ Here \notin FramesOf(cstack)
    BY <1>1, <2>1 DEF FramesOf, Catches, Top
  <2>3. Top.nargs \in Args \cup {0}
    BY <1>4, <2>2, ChainTypes DEF Chain, Top
  <2> QED BY <2>1, <2>2, <2>3
<1>6. Level(cstack, Here) = Cur.bp
  <2>1. LastBefore(FramesOf(cstack), Here, Top.frame)
    BY <1>4, <1>5 DEF Chain, Linked, Top
  <2>2. Top.frame \in FramesOf(cstack)
    BY <1>4, <1>5, ChainFrames DEF Top
  <2>3. frame \in FramesOf(cstack)
    BY Facts
  <2>4. Top.frame = frame
    <3>1. Top.frame \in 1 .. Here /\ frame \in 1 .. Here /\ frame # Here /\ Top.frame < Here
      BY <1>5, <2>1, <2>2, <2>3 DEF LastBefore
    <3>2. frame <= Top.frame
      BY <1>4, <2>1, <2>3, <3>1 DEF LastBefore
    <3>3. Top.frame <= frame
      BY <1>4, <2>2, <3>1 DEF LastBefore
    <3> QED BY <3>1, <3>2, <3>3
  <2> QED BY <1>1, <2>4 DEF Level, Top, Cur
<1>7. ASSUME FirstOf(Top.nargs) >= Cur.bp, IsTidy, NEW i \in Catches(cstack)
      PROVE  Level(cstack, i) <= FirstOf(Top.nargs)
  <2>1. Level(cstack, i) <= Cur.bp
    <3>1. CASE i = Here
      BY <1>4, <1>6, <3>1
    <3>2. CASE i # Here
      <4>1. i < Here
        BY <1>4, <1>5, <3>2
      <4> QED BY <1>5, <1>6, <1>7, <4>1 DEF IsTidy, Tidy, Levelled
    <3> QED BY <3>1, <3>2
  <2>2. FirstOf(Top.nargs) \in Int
    BY <1>4, <1>5, NatConstants DEF FirstOf
  <2> QED BY <1>4, <1>7, <2>1, <2>2
<1>8. Top.kind # "entry"
  BY <1>1
<1> QED
  BY <1>1, <1>3, <1>5, <1>7, <1>8, CallOnMaintains

\* any_try and any_protected_call put their catch point on the C stack.
LEMMA CatchMaintains ==
  ASSUME IsSolid, NEW body \in {"native", "begin"}, NEW n \in Args \cup {0},
         sp < MaxStack, body = "native" => frame # 1,
         cstack' = Append(cstack, Catch(body, n)), error_jmp' = Here + 1,
         v' = v, sp' = sp, frame' = frame,
         ~under' /\ ~loose' /\ IsTidy => \A i \in Catches(cstack) :
           Level(cstack, i) <= IF body = "native" THEN sp ELSE Cur.bp
  PROVE  Maintained
<1> DEFINE r == Catch(body, n)
<1>1. Solid(v, sp, cstack, frame, error_jmp)
  BY DEF IsSolid
<1>2. r \in Activations /\ r.kind = "try" /\ r.prev = error_jmp /\ r.frame = frame /\ r.sp = sp
      /\ r.body = body
  <2>1. sp \in Nat /\ frame \in Nat /\ error_jmp \in Nat
    BY Facts
  <2> QED BY <2>1 DEF Catch, Activations
<1> HIDE DEF r
<1>3. LET new == Append(cstack, r)
          low == IF r.body = "native" THEN sp ELSE cstack[frame].bp
      IN  /\ Solid(v, sp, new, frame, Len(cstack) + 1)
          /\ KeptIn(v, cstack) => KeptIn(v, new)
          /\ Tidy(v, sp, cstack) /\ (\A i \in Catches(cstack) : Level(cstack, i) <= low)
             => Tidy(v, sp, new)
  BY <1>1, <1>2, PutsCatch
<1>4. cstack' = Append(cstack, r) /\ error_jmp' = Len(cstack) + 1
  BY DEF r, Here
<1>5. IsSolid'
  BY <1>3, <1>4 DEF IsSolid
<1>6. IsKept => IsKept'
  BY <1>3, <1>4 DEF IsKept
<1>7. ~under' /\ ~loose' /\ IsTidy => IsTidy'
  BY <1>2, <1>3, <1>4 DEF IsTidy, Cur
<1> QED
  BY <1>5, <1>6, <1>7 DEF Maintained

LEMMA TryMaintains ==
  ASSUME IsSolid, frame # 1, Try
  PROVE  Maintained
<1>1. sp < MaxStack /\ cstack' = Append(cstack, Catch("native", 0)) /\ error_jmp' = Here + 1
      /\ v' = v /\ sp' = sp /\ frame' = frame
  BY DEF Try
<1>2. IsTidy => \A i \in Catches(cstack) : Level(cstack, i) <= sp
  BY DEF IsTidy, Tidy
<1> QED
  BY <1>1, <1>2, CatchMaintains

LEMMA ProtectedCallMaintains ==
  ASSUME IsSolid, loose \in BOOLEAN, NEW n \in Args, ProtectedCall(n)
  PROVE  Maintained
<1>1. sp < MaxStack /\ cstack' = Append(cstack, Catch("begin", n)) /\ error_jmp' = Here + 1
      /\ v' = v /\ sp' = sp /\ frame' = frame /\ loose' = (loose \/ Taken(Count))
  BY DEF ProtectedCall
<1>2. sp \in Nat /\ Cur.bp \in Nat
  BY Facts
<1>3. Count \in Int /\ sp - Count = Cur.bp
  BY <1>2 DEF Count
<1>4. ASSUME ~loose', IsTidy
      PROVE  \A i \in Catches(cstack) : Level(cstack, i) <= Cur.bp
  <2> DEFINE k == Count
  <2>1. ~Taken(k) /\ k \in Int /\ sp - k = Cur.bp
    BY <1>1, <1>3, <1>4
  <2> HIDE DEF k
  <2>2. sp - k >= Cur.bp
    BY <1>2, <2>1
  <2>3. \A i \in Catches(cstack) : Level(cstack, i) <= sp - k
    BY <1>4, <2>1, <2>2, NotTaken
  <2> QED BY <2>1, <2>3
<1> QED
  BY <1>1, <1>4, CatchMaintains
-----------------------------------------------------------------------------
(***************************************************************************)
(* The instructions and calls of native code.                              *)
(***************************************************************************)

\* A function runs: the bottom of the C stack is far below.
Runs == IsSolid /\ frame # 1 /\ Cur.bp >= 1 /\ Top.kind # "entry"

\* The array w that an instruction leaves, with n2 values.
Leaves(w, n2) ==
  /\ cstack' = cstack /\ frame' = frame /\ error_jmp' = error_jmp /\ sp' = n2
  /\ v' \in {w, Trim(w, n2, cstack)}
  /\ w \in Seq(Values) /\ Len(w) >= Len(v)
  /\ n2 \in 1 .. MaxStack + 1 /\ n2 <= Len(w) /\ n2 >= Cur.bp
  /\ \A k \in 1 .. Len(Cur.below) : w[k] = v[k]
  /\ ~under' /\ ~loose' /\ IsTidy =>
       /\ \A i \in Catches(cstack) : Level(cstack, i) <= n2
       /\ \A k \in 1 .. n2 : w[k] # "stale"

LEMMA LeavesMaintains ==
  ASSUME IsSolid, NEW w, NEW n2, Leaves(w, n2)
  PROVE  Maintained
<1>1. /\ IsSolid'
      /\ IsKept /\ (\A k \in 1 .. Len(Cur.below) : w[k] = v[k]) => IsKept'
      /\ /\ IsTidy /\ (\A i \in Catches(cstack) : Level(cstack, i) <= n2)
         /\ \A k \in 1 .. n2 : w[k] # "stale"
         => IsTidy'
  BY StaysKeeps DEF Leaves
<1> QED
  BY <1>1 DEF Leaves, Maintained

\* The values and the levels, when no code took any from under a catch point.
LEMMA TidyFacts ==
  ASSUME IsTidy
  PROVE  /\ \A i \in Catches(cstack) : Level(cstack, i) <= sp
         /\ \A k \in 1 .. sp : v[k] # "stale"
BY DEF IsTidy, Tidy

\* A new value x on an array a that has the values of the stack.
LEMMA PushOn ==
  ASSUME Runs, sp < MaxStack, Keep, sp' = sp + 1,
         NEW a \in Seq(Values), Len(a) = Len(v), \A k \in 1 .. sp : a[k] = v[k],
         NEW x \in Values, IsTidy => x # "stale", v' = Put(a, sp + 1, x)
  PROVE  Maintained
<1> DEFINE n2 == sp + 1
           w == Put(a, n2, x)
<1>1. /\ sp \in Nat /\ Len(v) \in Nat /\ MaxStack \in Nat /\ sp <= Len(v)
      /\ Len(Cur.below) \in Nat /\ Cur.bp <= sp /\ Len(Cur.below) <= Cur.bp /\ Cur.bp \in Nat
  BY Facts DEF Runs
<1>2. n2 \in 1 .. Len(a) + 1 /\ n2 \in 1 .. MaxStack + 1 /\ n2 >= Cur.bp /\ n2 = sp + 1
  BY <1>1
<1> HIDE DEF n2
<1>3. /\ w \in Seq(Values) /\ Len(w) >= Len(a) /\ Len(w) >= n2 /\ Len(w) \in Nat
      /\ w[n2] = x /\ \A j \in 1 .. Len(a) : j # n2 => w[j] = a[j]
  BY <1>2, PutFacts
<1>4. v' = w
  BY <1>2
<1> HIDE DEF w
<1>5. \A k \in 1 .. sp : w[k] = v[k]
  BY <1>1, <1>2, <1>3
<1>6. \A k \in 1 .. Len(Cur.below) : w[k] = v[k]
  BY <1>1, <1>5
<1>7. ASSUME IsTidy
      PROVE  /\ \A i \in Catches(cstack) : Level(cstack, i) <= n2
             /\ \A k \in 1 .. n2 : w[k] # "stale"
  <2>1. \A k \in 1 .. n2 : k \in 1 .. sp \/ k = n2
    BY <1>1, <1>2
  <2>2. \A i \in Catches(cstack) : Level(cstack, i) <= n2
    <3>1. \A i \in Catches(cstack) : Level(cstack, i) <= sp
      BY <1>7, TidyFacts
    <3>2. \A i \in Catches(cstack) : Level(cstack, i) \in Nat
      BY CatchLevels DEF Runs
    <3> QED BY <1>1, <1>2, <3>1, <3>2
  <2> QED BY <1>3, <1>5, <1>7, <2>1, <2>2, TidyFacts
<1>8. Len(w) >= Len(v) /\ n2 <= Len(w)
  BY <1>1, <1>2, <1>3
<1>9. Leaves(w, n2)
  BY <1>2, <1>3, <1>4, <1>6, <1>7, <1>8 DEF Leaves, Keep
<1> QED
  BY <1>9, LeavesMaintains DEF Runs

LEMMA PushMaintains ==
  ASSUME Runs, NEW x \in Values, IsTidy => x # "stale", Push(x)
  PROVE  Maintained
<1>1. v \in Seq(Values) /\ Len(v) = Len(v) /\ \A k \in 1 .. sp : v[k] = v[k]
  BY Facts DEF Runs
<1> QED
  BY <1>1, PushOn DEF Push

LEMMA PushNewMaintains ==
  ASSUME Runs, PushNew
  PROVE  Maintained
<1>1. v \in Seq(Values) /\ sp \in Nat /\ Len(v) \in Nat /\ sp <= Len(v)
  BY Facts DEF Runs
<1>2. PICK a \in {v, Collected(v, sp)} : v' = Put(a, sp + 1, "ref")
  BY DEF PushNew
<1>3. a \in Seq(Values) /\ Len(a) = Len(v) /\ \A k \in 1 .. Len(v) : k <= sp => a[k] = v[k]
  BY <1>1, CollectedFacts
<1>4. \A k \in 1 .. sp : a[k] = v[k]
  BY <1>1, <1>3
<1>5. "ref" \in Values
  BY DEF Values
<1> QED
  BY <1>2, <1>3, <1>4, <1>5, PushOn DEF PushNew

\* The places an index may name.
LEMMA RelPlaces ==
  ASSUME Runs, NEW k \in Rel
  PROVE  /\ k \in 1 .. sp /\ k \in 1 .. Len(v) /\ k > Len(Cur.below)
         /\ v[k] \in Values
<1>1. /\ sp \in Nat /\ Len(v) \in Nat /\ sp <= Len(v) /\ Len(Cur.below) \in Nat
      /\ Cur.nargs \in Nat
      /\ frame # 1 => Cur.bp = Len(Cur.below) + 1 + Cur.nargs
      /\ \A j \in 1 .. Len(v) : v[j] \in Values
  BY Facts DEF Runs
<1>2. k \in 1 .. sp /\ k > Cur.bp - Cur.nargs
  BY DEF Rel
<1>3. Cur.bp - Cur.nargs = Len(Cur.below) + 1
  BY <1>1 DEF Runs
<1> QED
  BY <1>1, <1>2, <1>3

LEMMA PushIndexMaintains ==
  ASSUME Runs, PushIndex
  PROVE  Maintained
<1>1. ASSUME NEW k \in Rel, Push(v[k]) PROVE Maintained
  <2> DEFINE x == v[k]
  <2>1. x \in Values /\ (IsTidy => x # "stale") /\ Push(x)
    BY <1>1, RelPlaces, TidyFacts
  <2> HIDE DEF x
  <2> QED BY <2>1, PushMaintains
<1>2. ASSUME Fails(sp) PROVE Maintained
  BY <1>2, FailsMaintains DEF Fails, Runs
<1> QED
  BY <1>1, <1>2 DEF PushIndex

LEMMA PopThenMaintains ==
  ASSUME Runs, loose \in BOOLEAN, under \in BOOLEAN, NEW n \in 0 .. sp, PopThen(n)
  PROVE  Maintained
<1> DEFINE n2 == sp - n
<1>1. /\ sp \in Nat /\ Len(v) \in Nat /\ MaxStack \in Nat /\ sp <= Len(v) /\ sp <= MaxStack + 1
      /\ v \in Seq(Values) /\ Cur.bp \in Nat /\ Cur.locals \in Nat
      /\ Cur.bp <= sp /\ Len(Cur.below) <= Cur.bp
  BY Facts DEF Runs
<1>2. n2 \in 0 .. sp /\ n \in Int
  BY <1>1
<1>3. ~loose' => ~Taken(n)
  BY DEF PopThen
<1>4. ASSUME n2 >= Cur.bp, ~loose', IsTidy
      PROVE  \A i \in Catches(cstack) : Level(cstack, i) <= n2
  BY <1>2, <1>3, <1>4, NotTaken DEF Runs
<1>5. CASE sp - n < Cur.bp + Cur.locals
  <2>1. Error(n2) /\ under' = (under \/ n2 < Cur.bp)
    BY <1>5 DEF PopThen
  <2>2. ~under' => n2 >= Cur.bp
    <3> HIDE DEF n2
    <3>1. n2 < Cur.bp \/ n2 >= Cur.bp
      BY <1>1, <1>2
    <3>2. n2 < Cur.bp => under'
      BY <2>1
    <3> QED BY <3>1, <3>2
  <2> HIDE DEF n2
  <2> QED BY <1>2, <1>4, <2>1, <2>2, ErrorMaintains DEF Runs
<1>6. CASE ~(sp - n < Cur.bp + Cur.locals)
  <2>1. sp' = n2 /\ v' = Trim(v, n2, cstack) /\ Keep
    BY <1>6 DEF PopThen
  <2>2. n2 >= Cur.bp /\ n2 \in 1 .. MaxStack + 1 /\ n2 <= Len(v) /\ n2 <= sp
    BY <1>1, <1>2, <1>6 DEF Runs
  <2>3. ASSUME ~loose', IsTidy
        PROVE  /\ \A i \in Catches(cstack) : Level(cstack, i) <= n2
               /\ \A k \in 1 .. n2 : v[k] # "stale"
    <3>1. \A k \in 1 .. n2 : k \in 1 .. sp
      BY <1>1, <2>2
    <3>2. \A i \in Catches(cstack) : Level(cstack, i) <= n2
      BY <1>4, <2>2, <2>3
    <3> HIDE DEF n2
    <3> QED BY <2>3, <3>1, <3>2, TidyFacts
  <2> HIDE DEF n2
  <2>4. Leaves(v, n2)
    BY <1>1, <2>1, <2>2, <2>3 DEF Leaves, Keep
  <2> QED BY <2>4, LeavesMaintains DEF Runs
<1> QED
  BY <1>5, <1>6

LEMMA InsertMaintains ==
  ASSUME Runs, loose \in BOOLEAN, under \in BOOLEAN, Insert
  PROVE  Maintained
<1>1. /\ sp \in Nat /\ Len(v) \in Nat /\ MaxStack \in Nat /\ sp <= Len(v) /\ sp <= MaxStack + 1
      /\ v \in Seq(Values) /\ Cur.bp \in Nat /\ Cur.locals \in Nat /\ sp >= 1
      /\ Len(Cur.below) \in Nat
      /\ \A k \in 1 .. Len(v) : v[k] \in Values
  BY Facts DEF Runs
<1>2. ASSUME sp - 1 >= Cur.bp + Cur.locals, loose' = (loose \/ Taken(1)), sp' = sp - 1,
             NEW k \in Rel, v' = Trim([v EXCEPT ![k] = v[sp]], sp', cstack), Keep
      PROVE  Maintained
  <2> DEFINE n2 == sp - 1
             w == [v EXCEPT ![k] = v[sp]]
  <2>1. k \in 1 .. Len(v) /\ k > Len(Cur.below) /\ sp \in 1 .. Len(v)
    BY <1>1, RelPlaces
  <2>2. w \in Seq(Values) /\ Len(w) = Len(v) /\ w[k] = v[sp]
        /\ \A j \in 1 .. Len(v) : j # k => w[j] = v[j]
    BY <1>1, <2>1, ExceptSeq
  <2>3. v' = Trim(w, n2, cstack) /\ sp' = n2
    BY <1>2
  <2> HIDE DEF w
  <2>4. n2 >= Cur.bp /\ n2 \in 1 .. MaxStack + 1 /\ n2 <= Len(w)
    BY <1>1, <1>2, <2>2 DEF Runs
  <2>5. \A j \in 1 .. Len(Cur.below) : w[j] = v[j]
    <3>1. \A j \in 1 .. Len(Cur.below) : j \in 1 .. Len(v) /\ j # k
      BY <1>1, <2>1
    <3> QED BY <2>2, <3>1
  <2>6. ASSUME ~loose', IsTidy
        PROVE  /\ \A i \in Catches(cstack) : Level(cstack, i) <= n2
               /\ \A j \in 1 .. n2 : w[j] # "stale"
    <3>1. \A j \in 1 .. n2 : j \in 1 .. sp /\ j \in 1 .. Len(v)
      BY <1>1
    <3>2. \A i \in Catches(cstack) : Level(cstack, i) <= n2
      <4>1. ~Taken(1)
        BY <1>2, <2>6
      <4>2. 1 \in Int
        OBVIOUS
      <4> QED BY <2>4, <2>6, <4>1, <4>2, NotTaken DEF Runs
    <3>3. sp \in 1 .. sp
      BY <1>1
    <3> HIDE DEF n2
    <3> QED BY <2>2, <2>6, <3>1, <3>2, <3>3, TidyFacts
  <2>7. Len(w) >= Len(v)
    BY <1>1, <2>2
  <2> HIDE DEF n2
  <2>8. Leaves(w, n2)
    BY <1>2, <2>2, <2>3, <2>4, <2>5, <2>6, <2>7 DEF Leaves, Keep
  <2> QED BY <2>8, LeavesMaintains DEF Runs
<1>3. ASSUME PopThen(1) PROVE Maintained
  <2>1. 1 \in 0 .. sp
    BY <1>1
  <2> QED BY <1>3, <2>1, PopThenMaintains
<1>4. ASSUME Fails(sp) PROVE Maintained
  BY <1>4, FailsMaintains DEF Fails, Runs
<1> QED
  BY <1>2, <1>3, <1>4 DEF Insert

LEMMA RemoveMaintains ==
  ASSUME Runs, loose \in BOOLEAN, Remove
  PROVE  Maintained
<1>1. /\ sp \in Nat /\ Len(v) \in Nat /\ MaxStack \in Nat /\ sp <= Len(v) /\ sp <= MaxStack + 1
      /\ v \in Seq(Values) /\ Cur.bp \in Nat
      /\ Len(Cur.below) \in Nat /\ Len(Cur.below) <= Cur.bp
      /\ \A k \in 1 .. Len(v) : v[k] \in Values
  BY Facts DEF Runs
<1>2. PICK k \in Cur.bp + 1 .. sp :
        /\ sp' = sp - 1
        /\ v' = Trim([i \in DOMAIN v |-> IF i >= k /\ i < sp THEN v[i + 1] ELSE v[i]],
                     sp', cstack)
        /\ loose' = (loose \/ Taken(1))
        /\ Keep
  BY DEF Remove
<1> DEFINE n2 == sp - 1
           w == [i \in DOMAIN v |-> IF i >= k /\ i < sp THEN v[i + 1] ELSE v[i]]
<1>3. DOMAIN v = 1 .. Len(v) /\ k \in Int /\ k > Cur.bp /\ k <= sp
  BY <1>1, LenProperties
<1>4. w \in Seq(Values) /\ Len(w) = Len(v)
      /\ \A i \in 1 .. Len(v) : w[i] = IF i >= k /\ i < sp THEN v[i + 1] ELSE v[i]
  <2>1. \A i \in 1 .. Len(v) : (IF i >= k /\ i < sp THEN v[i + 1] ELSE v[i]) \in Values
    <3> SUFFICES ASSUME NEW i \in 1 .. Len(v)
                 PROVE  (IF i >= k /\ i < sp THEN v[i + 1] ELSE v[i]) \in Values
      OBVIOUS
    <3>1. i < sp => i + 1 \in 1 .. Len(v)
      BY <1>1
    <3> QED BY <1>1, <3>1
  <2>2. w \in [1 .. Len(v) -> Values]
    BY <1>3, <2>1
  <2>3. \A i \in 1 .. Len(v) : w[i] = IF i >= k /\ i < sp THEN v[i + 1] ELSE v[i]
    BY <1>3
  <2> HIDE DEF w
  <2> QED BY <1>1, <2>2, <2>3
<1>5. v' = Trim(w, n2, cstack) /\ sp' = n2
  BY <1>2
<1> HIDE DEF w
<1>6. n2 >= Cur.bp /\ n2 \in 1 .. MaxStack + 1 /\ n2 <= Len(w)
  BY <1>1, <1>3, <1>4 DEF Runs
<1>7. \A j \in 1 .. Len(Cur.below) : w[j] = v[j]
  <2>1. \A j \in 1 .. Len(Cur.below) : j \in 1 .. Len(v) /\ ~(j >= k)
    BY <1>1, <1>3
  <2> QED BY <1>4, <2>1
<1>8. ASSUME ~loose', IsTidy
      PROVE  /\ \A i \in Catches(cstack) : Level(cstack, i) <= n2
             /\ \A j \in 1 .. n2 : w[j] # "stale"
  <2>1. \A j \in 1 .. n2 : j \in 1 .. sp /\ j + 1 \in 1 .. sp /\ j \in 1 .. Len(v)
    BY <1>1
  <2>2. \A i \in Catches(cstack) : Level(cstack, i) <= n2
    <3>1. ~Taken(1)
      BY <1>2, <1>8
    <3>2. 1 \in Int
      OBVIOUS
    <3> QED BY <1>6, <1>8, <3>1, <3>2, NotTaken DEF Runs
  <2> HIDE DEF n2
  <2>3. \A j \in 1 .. sp : v[j] # "stale"
    BY <1>8, TidyFacts
  <2>4. \A j \in 1 .. n2 : w[j] = v[j + 1] \/ w[j] = v[j]
    BY <1>4, <2>1
  <2>5. \A j \in 1 .. n2 : w[j] # "stale"
    BY <2>1, <2>3, <2>4
  <2> QED BY <2>2, <2>5
<1>9. Len(w) >= Len(v)
  BY <1>1, <1>4
<1> HIDE DEF n2
<1>10. Leaves(w, n2)
  BY <1>2, <1>4, <1>5, <1>6, <1>7, <1>8, <1>9 DEF Leaves, Keep
<1> QED
  BY <1>10, LeavesMaintains DEF Runs

LEMMA NativeThrowMaintains ==
  ASSUME Runs, NativeThrow
  PROVE  Maintained
<1>1. v \in Seq(Values) /\ sp \in Nat /\ sp >= 1 /\ sp <= Len(v) /\ Len(v) \in Nat
      /\ error_jmp \in Catches(cstack) /\ Level(cstack, error_jmp) \in Nat
  BY Facts, CatchThere DEF Runs
<1>2. sp \in 1 .. Len(v) /\ Throw(v, sp) /\ Len(v) >= Len(v)
  BY <1>1 DEF NativeThrow
<1>3. ASSUME IsTidy
      PROVE  v[sp] # "stale" /\ \A k \in 1 .. Level(cstack, error_jmp) : v[k] # "stale"
  <2>1. Level(cstack, error_jmp) <= sp
    BY <1>1, <1>3, TidyFacts
  <2>2. sp \in 1 .. sp /\ \A k \in 1 .. Level(cstack, error_jmp) : k \in 1 .. sp
    BY <1>1, <2>1
  <2> QED BY <1>3, <2>2, TidyFacts
<1>4. /\ IsSolid'
      /\ IsKept /\ (\A k \in 1 .. Len(Cur.below) : v[k] = v[k]) => IsKept'
      /\ /\ IsTidy /\ v[sp] # "stale"
         /\ \A k \in 1 .. Level(cstack, error_jmp) : v[k] # "stale"
         => IsTidy'
  BY <1>1, <1>2, ThrowKeeps DEF Runs
<1> QED
  BY <1>3, <1>4 DEF Maintained

\* Instructions that take operands and leave x, when there is nothing or one
\* value in x.
LEMMA OperandsMaintain ==
  ASSUME Runs, NEW take \in {1, 2}, NEW x, x = <<>> \/ (Len(x) = 1 /\ x[1] \in Values \ {"stale"}),
         Operands(take, x),
         IsTidy => \A i \in Catches(cstack) : Level(cstack, i) <= sp'
  PROVE  Maintained
<1> DEFINE n2 == sp - take + Len(x)
           w == [k \in DOMAIN v |-> IF x # <<>> /\ k = n2 THEN x[1] ELSE v[k]]
<1>1. /\ sp \in Nat /\ Len(v) \in Nat /\ MaxStack \in Nat /\ sp <= Len(v) /\ sp <= MaxStack + 1
      /\ v \in Seq(Values) /\ Cur.bp \in Nat
      /\ Len(Cur.below) \in Nat /\ Len(Cur.below) <= Cur.bp
      /\ \A k \in 1 .. Len(v) : v[k] \in Values
  BY Facts DEF Runs
<1>2. sp - Cur.bp >= take /\ sp' = n2 /\ Keep
  BY DEF Operands, Count
<1>3. v' = Trim(w, n2, cstack)
  BY <1>2 DEF Operands
<1>4. n2 \in Nat /\ n2 >= Cur.bp /\ n2 <= sp /\ (x # <<>> => n2 > Cur.bp)
  <2>1. CASE x = <<>>
    <3>1. Len(x) = 0
      BY <2>1
    <3> QED BY <1>1, <1>2, <2>1, <3>1
  <2>2. CASE x # <<>>
    <3>1. Len(x) = 1
      BY <2>2
    <3> QED BY <1>1, <1>2, <3>1
  <2> QED BY <2>1, <2>2
<1> HIDE DEF n2
<1>5. DOMAIN v = 1 .. Len(v)
  BY <1>1, LenProperties
<1>6. /\ w \in Seq(Values) /\ Len(w) = Len(v)
      /\ \A k \in 1 .. Len(v) : w[k] = IF x # <<>> /\ k = n2 THEN x[1] ELSE v[k]
  <2>1. \A k \in 1 .. Len(v) : (IF x # <<>> /\ k = n2 THEN x[1] ELSE v[k]) \in Values
    BY <1>1
  <2>2. w \in [1 .. Len(v) -> Values]
    BY <1>5, <2>1
  <2>3. \A k \in 1 .. Len(v) : w[k] = IF x # <<>> /\ k = n2 THEN x[1] ELSE v[k]
    BY <1>5
  <2> HIDE DEF w
  <2> QED BY <1>1, <2>2, <2>3
<1> HIDE DEF w
<1>7. n2 \in 1 .. MaxStack + 1 /\ n2 <= Len(w) /\ Len(w) >= Len(v)
  BY <1>1, <1>4, <1>6 DEF Runs
<1>8. \A j \in 1 .. Len(Cur.below) : w[j] = v[j]
  <2>1. \A j \in 1 .. Len(Cur.below) : j \in 1 .. Len(v) /\ ~(x # <<>> /\ j = n2)
    BY <1>1, <1>4
  <2> QED BY <1>6, <2>1
<1>9. ASSUME IsTidy PROVE \A j \in 1 .. n2 : w[j] # "stale"
  <2>1. \A j \in 1 .. n2 : j \in 1 .. sp /\ j \in 1 .. Len(v)
    BY <1>1, <1>4
  <2>2. \A j \in 1 .. sp : v[j] # "stale"
    BY <1>9, TidyFacts
  <2> QED BY <1>6, <2>1, <2>2
<1>10. Leaves(w, n2)
  BY <1>2, <1>3, <1>4, <1>6, <1>7, <1>8, <1>9 DEF Leaves, Keep
<1> QED
  BY <1>10, LeavesMaintains DEF Runs

\* Bytecode on top of the C stack has no catch points, so that all levels are
\* under its part.
LEMMA CodeLevels ==
  ASSUME Runs, Top.kind \in Functions, IsTidy, NEW n \in Int, n >= Cur.bp
  PROVE  \A i \in Catches(cstack) : Level(cstack, i) <= n
<1>1. \A i \in Catches(cstack) : cstack[i].frame # frame
  BY NoCatchOnTop DEF Runs
<1> QED
  BY <1>1, LevelsUnder DEF Runs

LEMMA CodeOperandsMaintain ==
  ASSUME Runs, Code, NEW take \in {1, 2}, NEW x, x = <<>> \/ x = <<"nil">>,
         Operands(take, x)
  PROVE  Maintained
<1>1. x = <<>> \/ (Len(x) = 1 /\ x[1] \in Values \ {"stale"})
  BY DEF Values, Plain
<1>2. sp \in Nat /\ Cur.bp \in Nat /\ Len(x) \in Nat
  BY Facts DEF Runs
<1>3. sp' \in Int /\ sp' >= Cur.bp
  BY <1>2 DEF Operands, Count
<1>4. Top.kind \in Functions
  BY DEF Code, Functions
<1>5. IsTidy => \A i \in Catches(cstack) : Level(cstack, i) <= sp'
  <2> DEFINE n == sp'
  <2>1. n \in Int /\ n >= Cur.bp
    BY <1>3
  <2> HIDE DEF n
  <2>2. IsTidy => \A i \in Catches(cstack) : Level(cstack, i) <= n
    BY <1>4, <2>1, CodeLevels
  <2> QED BY <2>2 DEF n
<1> QED
  BY <1>1, <1>5, OperandsMaintain

LEMMA JinMaintains ==
  ASSUME Runs, Code, Jin
  PROVE  Maintained
<1>1. ASSUME Operands(1, <<>>) PROVE Maintained
  BY <1>1, CodeOperandsMaintain
<1>2. ASSUME Count >= 1, Fails(sp - 1) PROVE Maintained
  <2> DEFINE n == sp - 1
  <2>1. sp \in Nat /\ Cur.bp \in Nat
    BY Facts DEF Runs
  <2>2. n \in 0 .. sp /\ n \in Int /\ n >= Cur.bp
    BY <1>2, <2>1 DEF Count, Runs
  <2>3. Top.kind \in Functions
    BY DEF Code, Functions
  <2>4. Error(n)
    BY <1>2 DEF Fails
  <2> HIDE DEF n
  <2>5. IsTidy => \A i \in Catches(cstack) : Level(cstack, i) <= n
    BY <2>2, <2>3, CodeLevels
  <2> QED BY <2>2, <2>4, <2>5, ErrorMaintains DEF Runs
<1> QED
  BY <1>1, <1>2 DEF Jin

LEMMA ReceiveMaintains ==
  ASSUME Runs, Receive
  PROVE  Maintained
<1>1. PICK m \in {"nil", "ref"} : Operands(1, <<m>>)
  BY DEF Receive
<1> DEFINE x == <<m>>
<1>2. Len(x) = 1 /\ x[1] \in Values \ {"stale"}
  BY DEF Values, Plain
<1>3. sp' = sp
  <2>1. sp \in Nat
    BY Facts DEF Runs
  <2>2. sp' = sp - 1 + Len(x)
    BY <1>1 DEF Operands
  <2> HIDE DEF x
  <2> QED BY <1>2, <2>1, <2>2
<1>4. IsTidy => \A i \in Catches(cstack) : Level(cstack, i) <= sp'
  BY <1>3, TidyFacts
<1> HIDE DEF x
<1>5. Operands(1, x)
  BY <1>1 DEF x
<1>6. 1 \in {1, 2}
  OBVIOUS
<1> QED
  BY <1>2, <1>4, <1>5, <1>6, OperandsMaintain

LEMMA SendMaintains ==
  ASSUME Runs, loose \in BOOLEAN, under \in BOOLEAN, Send
  PROVE  Maintained
<1>1. sp \in Nat /\ Cur.bp \in Nat /\ Cur.locals \in Nat
  BY Facts DEF Runs
<1>2. ASSUME PopThen(2) PROVE Maintained
  <2>1. 2 <= sp
    BY <1>2 DEF PopThen
  <2>2. 2 \in 0 .. sp
    BY <1>1, <2>1
  <2> QED BY <1>2, <2>2, PopThenMaintains
<1>3. ASSUME sp - 2 >= Cur.bp + Cur.locals, Error(sp - 2), loose' = (loose \/ Taken(2))
      PROVE  Maintained
  <2> DEFINE n == sp - 2
  <2>1. n \in 0 .. sp /\ n >= Cur.bp /\ 2 \in Int
    BY <1>1, <1>3
  <2>2. ~loose' => ~Taken(2)
    BY <1>3
  <2>3. ~loose' /\ IsTidy => \A i \in Catches(cstack) : Level(cstack, i) <= n
    BY <2>1, <2>2, NotTaken DEF Runs
  <2>4. Error(n)
    BY <1>3
  <2> HIDE DEF n
  <2> QED BY <2>1, <2>3, <2>4, ErrorMaintains DEF Runs
<1> QED
  BY <1>2, <1>3 DEF Send

\* What bytecode and native code do alike.
LEMMA StepMaintains ==
  ASSUME Runs, loose \in BOOLEAN, under \in BOOLEAN, Step
  PROVE  Maintained
<1>1. ASSUME NEW x \in Plain, Push(x) PROVE Maintained
  <2>1. x \in Values /\ x # "stale"
    BY DEF Values, Plain
  <2> QED BY <1>1, <2>1, PushMaintains
<1>2. ASSUME NEW n \in 0 .. sp, PopThen(n) PROVE Maintained
  BY <1>2, PopThenMaintains
<1>3. ASSUME NEW n \in Args, Call(n) PROVE Maintained
  BY <1>3, CallMaintains DEF Runs
<1>4. ASSUME Fails(sp) PROVE Maintained
  BY <1>4, FailsMaintains DEF Fails, Runs
<1> QED
  BY <1>1, <1>2, <1>3, <1>4, PushNewMaintains, PushIndexMaintains, InsertMaintains,
     SendMaintains, ReceiveMaintains DEF Step

\* Every step maintains the parts of the invariant.
LEMMA NextMaintains ==
  ASSUME IsSolid, loose \in BOOLEAN, under \in BOOLEAN, Next
  PROVE  Maintained
<1>1. ASSUME Native \/ Code PROVE Runs
  <2>1. Top.kind # "entry" /\ (Top.kind = "try" => Top.body = "native")
    BY <1>1 DEF Native, Code
  <2> QED BY <2>1, RunningFrame DEF Runs
<1>2. CASE CodeStep
  <2>1. Runs /\ Code
    BY <1>1, <1>2 DEF CodeStep
  <2>2. ASSUME Not PROVE Maintained
    BY <2>1, <2>2, CodeOperandsMaintain DEF Not
  <2>3. ASSUME Binary PROVE Maintained
    BY <2>1, <2>3, CodeOperandsMaintain DEF Binary
  <2> QED BY <1>2, <2>1, <2>2, <2>3, StepMaintains, JinMaintains DEF CodeStep
<1>3. CASE NativeStep
  <2>1. Runs
    BY <1>1, <1>3 DEF NativeStep
  <2>2. ASSUME Try PROVE Maintained
    BY <2>1, <2>2, TryMaintains DEF Runs
  <2>3. ASSUME NEW n \in Args, ProtectedCall(n) PROVE Maintained
    BY <2>1, <2>3, ProtectedCallMaintains DEF Runs
  <2> QED BY <1>3, <2>1, <2>2, <2>3, StepMaintains, RemoveMaintains, NativeThrowMaintains
          DEF NativeStep
<1>4. CASE Begin
  BY <1>4, BeginMaintains
<1>5. CASE Return
  BY <1>5, ReturnMaintains
<1>6. CASE TryEnds
  BY <1>6, TryEndsMaintains
<1>7. CASE Exit
  BY <1>7 DEF Exit, Maintained, IsSolid, IsKept, IsTidy, history
<1> QED
  BY <1>2, <1>3, <1>4, <1>5, <1>6, <1>7 DEF Next
-----------------------------------------------------------------------------
(***************************************************************************)
(* The invariant.                                                          *)
(***************************************************************************)
LEMMA InitSolid ==
  ASSUME Init
  PROVE  CallsInv
<1>1. PICK f \in Plain, n \in Args :
        /\ v = <<f>> \o [k \in 1 .. n |-> "ref"]
        /\ cstack = <<[kind |-> "entry", prev |-> 0, bp |-> 0, nargs |-> 0,
                       locals |-> 0, below |-> <<>>],
                      [kind |-> "try", prev |-> 0, sp |-> n + 1, frame |-> 1,
                       body |-> "begin", nargs |-> n]>>
  BY DEF Init
<1> DEFINE r1 == [kind |-> "entry", prev |-> 0, bp |-> 0, nargs |-> 0,
                  locals |-> 0, below |-> <<>>]
           r2 == [kind |-> "try", prev |-> 0, sp |-> n + 1, frame |-> 1,
                  body |-> "begin", nargs |-> n]
<1>2. sp = Len(v) /\ frame = 1 /\ error_jmp = 2 /\ flags = FALSE /\ loose = FALSE
      /\ under = FALSE
  BY DEF Init
<1>3. n \in Nat /\ n <= MaxStack /\ MaxStack \in Nat
  BY CallsAssumption DEF CallsAssumption
<1>4. v \in Seq(Values) /\ Len(v) = n + 1 /\ \A k \in 1 .. n + 1 : v[k] # "stale"
  <2> DEFINE s == <<f>>
             t == [k \in 1 .. n |-> "ref"]
  <2>1. s \in Seq(Values) /\ Len(s) = 1 /\ s[1] = f /\ f # "stale"
    BY DEF Values, Plain
  <2>2. t \in Seq(Values) /\ Len(t) = n /\ \A k \in 1 .. n : t[k] = "ref"
    <3>1. t \in [1 .. n -> Values]
      BY DEF Values
    <3>2. \A k \in 1 .. n : t[k] = "ref"
      OBVIOUS
    <3> HIDE DEF t
    <3> QED BY <1>3, <3>1, <3>2
  <2>3. v = s \o t
    BY <1>1
  <2> HIDE DEF s, t
  <2>4. /\ s \o t \in Seq(Values) /\ Len(s \o t) = 1 + n
        /\ \A k \in 1 .. 1 + n : (s \o t)[k] = IF k <= 1 THEN s[k] ELSE t[k - 1]
    <3>1. s \in Seq(Values) /\ t \in Seq(Values)
      BY <2>1, <2>2
    <3>2. /\ s \o t \in Seq(Values) /\ Len(s \o t) = Len(s) + Len(t)
          /\ \A k \in 1 .. Len(s) + Len(t) :
               (s \o t)[k] = IF k <= Len(s) THEN s[k] ELSE t[k - Len(s)]
      BY <3>1, ConcatProperties
    <3> QED BY <2>1, <2>2, <3>2
  <2>5. \A k \in 1 .. n + 1 : v[k] # "stale"
    <3> SUFFICES ASSUME NEW k \in 1 .. n + 1 PROVE v[k] # "stale"
      OBVIOUS
    <3>1. CASE k = 1
      BY <1>3, <2>1, <2>3, <2>4, <3>1
    <3>2. CASE k # 1
      <4>1. k - 1 \in 1 .. n /\ ~(k <= 1) /\ k \in 1 .. 1 + n
        BY <1>3, <3>2
      <4> QED BY <2>2, <2>3, <2>4, <4>1
    <3> QED BY <3>1, <3>2
  <2> QED BY <1>3, <2>3, <2>4, <2>5
<1>5. /\ cstack \in Seq(Activations) /\ Len(cstack) = 2 /\ DOMAIN cstack = 1 .. 2
      /\ cstack[1] = r1 /\ cstack[2] = r2
  <2>1. r1 \in Activations
    <3>1. <<>> \in Seq(Values) /\ 0 \in 0 .. MaxStack
      BY <1>3
    <3> QED BY <3>1 DEF Activations
  <2>2. r2 \in Activations
    BY <1>3 DEF Activations
  <2>3. cstack = <<r1, r2>>
    BY <1>1
  <2> HIDE DEF r1, r2
  <2> QED BY <2>1, <2>2, <2>3
<1>6. r1.kind = "entry" /\ r1.bp = 0 /\ r1.below = <<>> /\ r1.prev = 0
      /\ r2.kind = "try" /\ r2.prev = 0 /\ r2.sp = n + 1 /\ r2.frame = 1 /\ r2.body = "begin"
  OBVIOUS
<1> HIDE DEF r1, r2
<1>7. FramesOf(cstack) = {1} /\ Catches(cstack) = {2}
  BY <1>5, <1>6 DEF FramesOf, Catches
<1>8. Shaped(cstack)
  <2>1. cstack # <<>>
    BY <1>5, EmptySeq
  <2> QED BY <1>5, <1>6, <1>7, <2>1 DEF Shaped
<1>9. Linked(cstack)
  BY <1>5, <1>6, <1>7 DEF Linked, LastBefore
<1>10. Banded(cstack)
  BY <1>3, <1>5, <1>6, <1>7 DEF Banded
<1>11. IsSolid
  <2>1. LastBefore(FramesOf(cstack), Len(cstack) + 1, 1)
        /\ LastBefore(Catches(cstack), Len(cstack) + 1, 2)
    BY <1>5, <1>7 DEF LastBefore
  <2>2. sp \in 1 .. MaxStack + 1 /\ sp <= Len(v) /\ sp >= cstack[1].bp
        /\ \A i \in Catches(cstack) : cstack[i].sp <= Len(v)
    BY <1>2, <1>3, <1>4, <1>5, <1>6, <1>7
  <2> QED BY <1>2, <1>4, <1>8, <1>9, <1>10, <2>1, <2>2 DEF IsSolid, Solid
<1>12. IsKept
  <2>1. Len(cstack[1].below) = 0
    BY <1>5, <1>6, EmptySeq
  <2> QED BY <1>7, <2>1 DEF IsKept, KeptIn
<1>13. IsTidy
  <2>1. Level(cstack, 2) = 0
    BY <1>5, <1>6 DEF Level
  <2>2. Levelled(cstack)
    BY <1>5, <1>7 DEF Levelled
  <2> QED BY <1>2, <1>3, <1>4, <1>7, <2>1, <2>2 DEF IsTidy, Tidy
<1> QED
  BY <1>2, <1>11, <1>12, <1>13 DEF CallsInv

\* Once true the histories stay true.
Grows ==
  /\ flags' \in BOOLEAN /\ loose' \in BOOLEAN /\ under' \in BOOLEAN
  /\ ~loose' => ~loose
  /\ ~under' => ~under

LEMMA HistoryGrows ==
  ASSUME CallsInv, Next
  PROVE  Grows
<1>1. flags \in BOOLEAN /\ loose \in BOOLEAN /\ under \in BOOLEAN
  BY DEF CallsInv
<1>2. ASSUME flags' \in {flags, TRUE}, loose' = loose, under' = under PROVE Grows
  BY <1>1, <1>2 DEF Grows
<1>3. \A n : Taken(n) \in BOOLEAN /\ (sp - n < Cur.bp) \in BOOLEAN
  BY DEF Taken
<1>4. ASSUME NEW n, flags' = flags, loose' = (loose \/ Taken(n)), under' = under
      PROVE  Grows
  BY <1>1, <1>3, <1>4 DEF Grows
<1>5. ASSUME NEW n, PopThen(n) PROVE Grows
  <2>1. flags' = flags /\ loose' = (loose \/ Taken(n))
        /\ (under' = under \/ under' = (under \/ sp - n < Cur.bp))
    BY <1>5 DEF PopThen, Keep
  <2> QED BY <1>1, <1>3, <2>1 DEF Grows
<1>6. ASSUME NEW n, Fails(n) PROVE Grows
  BY <1>2, <1>6 DEF Fails, history
<1>7. ASSUME NEW x, Push(x) PROVE Grows
  BY <1>2, <1>7 DEF Push, Keep, history
<1>8. ASSUME NEW take, NEW x, Operands(take, x) PROVE Grows
  BY <1>2, <1>8 DEF Operands, Keep, history
<1>9. ASSUME Step PROVE Grows
  <2>1. ASSUME PushNew PROVE Grows
    BY <1>2, <2>1 DEF PushNew, Keep, history
  <2>2. ASSUME PushIndex PROVE Grows
    BY <1>6, <1>7, <2>2 DEF PushIndex
  <2>3. ASSUME Insert PROVE Grows
    BY <1>4, <1>5, <1>6, <2>3 DEF Insert, Keep
  <2>4. ASSUME Send PROVE Grows
    BY <1>4, <1>5, <2>4 DEF Send
  <2>5. ASSUME Receive PROVE Grows
    BY <1>8, <2>5 DEF Receive
  <2>6. ASSUME NEW n, Call(n) PROVE Grows
    BY <1>4, <2>6 DEF Call
  <2> QED BY <1>5, <1>6, <1>7, <1>9, <2>1, <2>2, <2>3, <2>4, <2>5, <2>6 DEF Step
<1>10. CASE CodeStep
  BY <1>6, <1>8, <1>9, <1>10 DEF CodeStep, Jin, Not, Binary
<1>11. CASE NativeStep
  <2>1. ASSUME Remove PROVE Grows
    BY <1>4, <2>1 DEF Remove, Keep
  <2>2. ASSUME NativeThrow PROVE Grows
    BY <1>2, <2>2 DEF NativeThrow, history
  <2>3. ASSUME Try PROVE Grows
    BY <1>2, <2>3 DEF Try, history
  <2>4. ASSUME NEW n, ProtectedCall(n) PROVE Grows
    BY <1>4, <2>4 DEF ProtectedCall
  <2> QED BY <1>9, <1>11, <2>1, <2>2, <2>3, <2>4 DEF NativeStep
<1>12. CASE Begin
  BY <1>2, <1>12 DEF Begin, history
<1>13. CASE Return
  BY <1>2, <1>13 DEF Return, history
<1>14. CASE TryEnds
  BY <1>2, <1>14 DEF TryEnds, history
<1>15. CASE Exit
  BY <1>2, <1>15 DEF Exit, history
<1> QED
  BY <1>10, <1>11, <1>12, <1>13, <1>14, <1>15 DEF Next

LEMMA InvKept == CallsInv /\ [Next]_vars => CallsInv'
<1> SUFFICES ASSUME CallsInv, [Next]_vars PROVE CallsInv'
  OBVIOUS
<1>1. CASE Next
  <2>1. IsSolid /\ loose \in BOOLEAN /\ under \in BOOLEAN
    BY DEF CallsInv
  <2>2. Maintained
    BY <1>1, <2>1, NextMaintains
  <2>3. Grows
    BY <1>1, HistoryGrows
  <2>4. ~under' => IsKept'
    BY <2>2, <2>3 DEF CallsInv, Maintained, Grows
  <2>5. ~under' /\ ~loose' => IsTidy'
    BY <2>2, <2>3 DEF CallsInv, Maintained, Grows
  <2> QED BY <2>2, <2>3, <2>4, <2>5 DEF CallsInv, Maintained, Grows
<1>2. CASE UNCHANGED vars
  BY <1>2 DEF CallsInv, IsSolid, IsKept, IsTidy, vars, history
<1> QED
  BY <1>1, <1>2

\* The invariant is one, for every set of numbers of arguments and locals.
THEOREM CallsInvHolds == Spec => []CallsInv
<1>1. Init => CallsInv
  BY InitSolid
<1> QED
  BY <1>1, InvKept, PTL DEF Spec
-----------------------------------------------------------------------------
(***************************************************************************)
(* What follows from it.                                                   *)
(***************************************************************************)

\* The state has its types: only functions are called (any_call).
THEOREM CallsTypeCorrect == Spec => []CallsTypeOK
<1>1. CallsInv => CallsTypeOK
  <2> SUFFICES ASSUME CallsInv PROVE CallsTypeOK
    OBVIOUS
  <2>1. IsSolid /\ {flags, loose, under} \subseteq BOOLEAN
    BY DEF CallsInv
  <2>2. /\ v \in Seq(Values) /\ sp \in 1 .. MaxStack + 1 /\ sp <= Len(v)
        /\ Chain(cstack)
    BY <2>1, Facts
  <2>3. Frames = FramesOf(cstack)
    BY DEF Frames, FramesOf
  <2>4. \A i \in DOMAIN cstack : i \notin FramesOf(cstack) => i \in Catches(cstack)
    BY DEF FramesOf, Catches
  <2>5. \A i \in FramesOf(cstack) :
          /\ cstack[i].kind \in {"entry"} \cup Functions
          /\ cstack[i].nargs \in Args \cup {0}
          /\ cstack[i].locals \in Locals \cup {0}
          /\ cstack[i].below \in Seq(Values)
    BY <2>2, ChainTypes DEF Chain
  <2>6. \A i \in Catches(cstack) : cstack[i].body \in {"native", "begin", "call"}
    BY <2>2, ChainTypes DEF Chain
  <2> QED BY <2>1, <2>2, <2>3, <2>4, <2>5, <2>6 DEF CallsTypeOK
<1> QED
  BY <1>1, CallsInvHolds, PTL

LEMMA LastIsMax ==
  ASSUME NEW S \in SUBSET Nat, NEW n, NEW m, LastBefore(S, n, m)
  PROVE  m = Max({0} \cup {i \in S : i < n})
<1>1. /\ m = 0 \/ (m \in S /\ m < n)
      /\ \A i \in S : i < n => i <= m
      /\ \A i \in S : i \in Nat
  BY DEF LastBefore
<1>2. m \in Nat
  <2>1. m = 0 \/ m \in S
    BY <1>1
  <2>2. CASE m = 0
    BY <2>2
  <2>3. CASE m \in S
    BY <1>1, <2>3
  <2> QED BY <2>1, <2>2, <2>3
<1> DEFINE T == {0} \cup {i \in S : i < n}
<1>3. \A i \in T : i \in Int /\ i <= m
  BY <1>1, <1>2
<1>4. m \in T
  BY <1>1
<1> HIDE DEF T
<1>5. Max(T) = m
  <2>1. T \in SUBSET Int
    BY <1>3
  <2> QED BY <1>3, <1>4, <2>1, MaxIs
<1> QED
  BY <1>5 DEF T

\* aactor_t.frame and error_jmp, and the ones that are saved on the C stack,
\* lead to the innermost activations that still run, also after longjmp has cut
\* the C stack, and code that runs has a catch point for its errors.
THEOREM PointersStayLive == Spec => []PointersLive
<1>1. CallsInv => PointersLive
  <2> SUFFICES ASSUME CallsInv PROVE PointersLive
    OBVIOUS
  <2>1. IsSolid
    BY DEF CallsInv
  <2>2. /\ Chain(cstack) /\ LastBefore(FramesOf(cstack), Here + 1, frame)
        /\ LastBefore(Catches(cstack), Here + 1, error_jmp)
    BY <2>1, Facts
  <2>3. Frames = FramesOf(cstack)
    BY DEF Frames, FramesOf
  <2>4. FramesOf(cstack) \in SUBSET Nat /\ Catches(cstack) \in SUBSET Nat
    BY <2>2, ChainPlaces DEF Chain
  <2>5. /\ \A i \in FramesOf(cstack) : LastBefore(FramesOf(cstack), i, cstack[i].prev)
        /\ \A i \in Catches(cstack) : LastBefore(Catches(cstack), i, cstack[i].prev)
        /\ \A i \in Catches(cstack) : LastBefore(FramesOf(cstack), i, cstack[i].frame)
    BY <2>2 DEF Chain, Linked
  <2>6. frame = Max({0} \cup {i \in Frames : i < Here + 1})
    BY <2>2, <2>3, <2>4, LastIsMax
  <2>7. error_jmp = Max({0} \cup {i \in Catches(cstack) : i < Here + 1})
    BY <2>2, <2>4, LastIsMax
  <2>8. ASSUME NEW i \in Frames
        PROVE  cstack[i].prev = Max({0} \cup {j \in Frames : j < i})
    <3> DEFINE m == cstack[i].prev
    <3>1. LastBefore(Frames, i, m)
      BY <2>3, <2>5
    <3> HIDE DEF m
    <3>2. m = Max({0} \cup {j \in Frames : j < i})
      BY <2>3, <2>4, <3>1, LastIsMax
    <3> QED BY <3>2 DEF m
  <2>9. ASSUME NEW i \in Catches(cstack)
        PROVE  cstack[i].prev = Max({0} \cup {j \in Catches(cstack) : j < i})
    <3> DEFINE m == cstack[i].prev
    <3>1. LastBefore(Catches(cstack), i, m)
      BY <2>5
    <3> HIDE DEF m
    <3>2. m = Max({0} \cup {j \in Catches(cstack) : j < i})
      BY <2>4, <3>1, LastIsMax
    <3> QED BY <3>2 DEF m
  <2>10. ASSUME NEW i \in Catches(cstack)
         PROVE  cstack[i].frame = Max({0} \cup {j \in Frames : j < i})
    <3> DEFINE m == cstack[i].frame
    <3>1. LastBefore(Frames, i, m)
      BY <2>3, <2>5
    <3> HIDE DEF m
    <3>2. m = Max({0} \cup {j \in Frames : j < i})
      BY <2>3, <2>4, <3>1, LastIsMax
    <3> QED BY <3>2 DEF m
  <2>11. ASSUME Native \/ Code PROVE error_jmp # 0
    <3>1. Top.kind # "entry"
      BY <2>11 DEF Native, Code
    <3>2. error_jmp \in 2 .. Here /\ Here \in Nat
      BY <2>1, <3>1, CatchThere, Facts
    <3> QED BY <3>2
  <2> QED BY <2>6, <2>7, <2>8, <2>9, <2>10, <2>11 DEF PointersLive
<1> QED
  BY <1>1, CallsInvHolds, PTL

\* save_ctx and any_call give each running function its own part of the value
\* stack, over the parts of its callers.
THEOREM FramesStayApart == Spec => []FramesAreApart
<1>1. CallsInv => FramesAreApart
  <2> SUFFICES ASSUME CallsInv PROVE FramesAreApart
    OBVIOUS
  <2>1. IsSolid
    BY DEF CallsInv
  <2>2. Chain(cstack) /\ Banded(cstack) /\ sp \in Nat /\ Cur.bp \in Nat /\ Cur.bp <= sp
    BY <2>1, Facts DEF Chain
  <2>3. Frames = FramesOf(cstack)
    BY DEF Frames, FramesOf
  <2>4. ASSUME NEW i \in FramesOf(cstack) \ {1}
        PROVE  Len(cstack[i].below) >= cstack[cstack[i].prev].bp
    <3>1. cstack[i].prev \in FramesOf(cstack) /\ cstack[i].prev < i
      BY <2>2, ChainFrames
    <3>2. cstack[cstack[i].prev].bp <= Len(cstack[i].below)
      BY <2>2, <3>1 DEF Banded
    <3>3. cstack[cstack[i].prev].bp \in Nat /\ Len(cstack[i].below) \in Nat
      BY <2>2, <3>1, ChainTypes DEF Chain
    <3> QED BY <3>2, <3>3
  <2>5. \A i \in Catches(cstack) : cstack[i].sp >= cstack[cstack[i].frame].bp
    BY <2>2 DEF Banded
  <2> QED BY <2>2, <2>3, <2>4, <2>5 DEF FramesAreApart
<1> QED
  BY <1>1, CallsInvHolds, PTL

\* What the callers had on the value stack is as it was, as long as any_pop
\* has not taken more than its function had.
THEOREM OperandsAreKept == Spec => []CallersOperandsKept
<1>1. CallsInv => CallersOperandsKept
  <2> SUFFICES ASSUME CallsInv, ~under, NEW i \in FramesOf(cstack)
               PROVE  SubSeq(v, 1, Len(cstack[i].below)) = cstack[i].below
    BY DEF CallersOperandsKept, Frames, FramesOf
  <2> DEFINE s == cstack[i].below
             m == Len(s)
  <2>1. IsSolid /\ IsKept
    BY DEF CallsInv
  <2>2. /\ Chain(cstack) /\ v \in Seq(Values) /\ sp <= Len(v) /\ Cur.bp <= sp
        /\ sp \in Nat /\ Cur.bp \in Nat /\ Len(v) \in Nat
        /\ Len(Cur.below) <= Cur.bp /\ Len(Cur.below) \in Nat
        /\ LastBefore(FramesOf(cstack), Here + 1, frame)
        /\ \A k \in 1 .. Len(v) : v[k] \in Values
    BY <2>1, Facts
  <2>3. s \in Seq(Values) /\ m \in Nat
    BY <2>2, ChainTypes DEF Chain
  <2>4. m <= Len(Cur.below)
    <3>1. Here + 1 \in 2 .. Here + 1 /\ Here = Len(cstack) /\ i < Here + 1
      BY <2>2, ChainTypes DEF Chain, Here
    <3> QED BY <2>2, <3>1, LastFrame DEF Cur
  <2>5. \A k \in 1 .. m : v[k] = s[k]
    BY <2>1 DEF IsKept, KeptIn
  <2> HIDE DEF s
  <2>6. m <= Len(v)
    BY <2>2, <2>3, <2>4
  <2> HIDE DEF m
  <2>7. \A k \in 1 .. m : v[k] \in Values
    BY <2>2, <2>3, <2>6
  <2>8. /\ SubSeq(v, 1, m) \in Seq(Values) /\ Len(SubSeq(v, 1, m)) = m
        /\ \A k \in 1 .. m : SubSeq(v, 1, m)[k] = v[k]
    BY <2>2, <2>3, <2>6, <2>7, SubSeqProperties
  <2>9. SubSeq(v, 1, m) = s
    <3> DEFINE t == SubSeq(v, 1, m)
    <3>1. t \in Seq(Values) /\ Len(t) = Len(s) /\ \A k \in 1 .. Len(t) : t[k] = s[k]
      BY <2>3, <2>5, <2>8 DEF m
    <3> HIDE DEF t
    <3>2. t = s
      BY <2>3, <3>1, SeqEqual
    <3> QED BY <3>2 DEF t
  <2> QED BY <2>9 DEF m, s
<1> QED
  BY <1>1, CallsInvHolds, PTL

\* No collection leaves a value behind on the stack, also not one that an error
\* brings back, as long as code takes nothing from under its catch points.
THEOREM NothingStaysStale == Spec => []NothingStaleOnStack
<1>1. CallsInv => NothingStaleOnStack
  BY DEF CallsInv, IsTidy, Tidy, NothingStaleOnStack
<1> QED
  BY <1>1, CallsInvHolds, PTL
=============================================================================
