----------------------------- MODULE TableProofs ------------------------------
(***************************************************************************)
(* A table is a map, for every set of keys and values and every capacity.  *)
(***************************************************************************)
EXTENDS TableProperties, ListsProofs

LEMMA KeyFacts ==
  /\ Nil \in Values
  /\ Precision \in Nat \ {0} /\ InitGrow \in Nat \ {0} /\ Capacities \subseteq Nat
  /\ \A k \in ValidKeys : k \in Keys /\ k.type \in KeyTypes /\ k.v \in Int
BY TableAssumption DEF ValidKeys, Valid

-----------------------------------------------------------------------------
(***************************************************************************)
(* Comparing keys.                                                         *)
(***************************************************************************)

\* Which of two keys a search is for does not matter: where the precision is
\* lost for one of two reals they are apart.
LEMMA SameKeySymmetric ==
  ASSUME NEW p \in ValidKeys, NEW k \in ValidKeys, SameKey(p, k)
  PROVE  SameKey(k, p)
<1>1. p.v \in Int /\ k.v \in Int /\ Precision \in Nat \ {0}
      /\ p \in Keys /\ k \in Keys /\ p.type = k.type
  BY KeyFacts DEF SameKey
<1>2. CASE p.type # "real"
  BY <1>1, <1>2 DEF SameKey
<1>3. CASE p.type = "real"
  <2>1. p.v - Margin(p) < k.v /\ p.v + Margin(p) > k.v
    BY <1>3 DEF SameKey, afuzzy_equals
  <2>2. p \notin Coarse
    BY <1>1, <2>1 DEF Margin
  <2>3. Margin(p) = Precision
    BY <2>2 DEF Margin
  <2>4. k \notin Coarse
    <3>1. SUFFICES ASSUME k \in Coarse PROVE FALSE
      OBVIOUS
    <3>2. k.v - p.v \notin -Precision .. Precision
      BY <1>1, <1>3, <2>2, <3>1, TableAssumption
    <3> QED BY <1>1, <2>1, <2>3, <3>2
  <2>5. Margin(k) = Precision
    BY <2>4 DEF Margin
  <2>6. k.v - Precision < p.v /\ k.v + Precision > p.v
    BY <1>1, <2>1, <2>3
  <2> QED BY <1>1, <1>3, <2>5, <2>6 DEF SameKey, afuzzy_equals
<1> QED BY <1>2, <1>3

\* Two keys for which one pair is found are near to each other.
LEMMA SameKeysAreNear ==
  ASSUME NEW p \in ValidKeys, NEW x \in ValidKeys, NEW k \in ValidKeys,
         SameKey(p, x), SameKey(p, k)
  PROVE  <<x, k>> \in NearPairs
<1>1. /\ p.v \in Int /\ x.v \in Int /\ k.v \in Int /\ Precision \in Nat \ {0}
      /\ x \in Keys /\ k \in Keys
      /\ p.type = x.type /\ p.type = k.type
  BY KeyFacts DEF SameKey
<1>2. CASE p.type # "real"
  BY <1>1, <1>2 DEF SameKey, AreNear, NearPairs
<1>3. CASE p.type = "real"
  <2>1. Margin(p) \in Nat /\ Margin(p) <= Precision
    BY <1>1 DEF Margin
  <2>2. /\ p.v - Margin(p) < x.v /\ p.v + Margin(p) > x.v
        /\ p.v - Margin(p) < k.v /\ p.v + Margin(p) > k.v
    BY <1>1, <1>3 DEF SameKey, afuzzy_equals
  <2>3. x.v - k.v < 2 * Precision /\ k.v - x.v < 2 * Precision
    BY <1>1, <2>1, <2>2
  <2> QED BY <1>1, <1>3, <2>3 DEF AreNear, NearPairs
<1> QED BY <1>2, <1>3

\* A key for which the precision is not lost is the same as itself.
LEMMA SameAsItself ==
  ASSUME NEW k \in ValidKeys, k \notin Coarse
  PROVE  SameKey(k, k)
<1>1. k.v \in Int /\ Precision \in Nat \ {0}
  BY KeyFacts
<1>2. Margin(k) = Precision
  BY DEF Margin
<1> QED BY <1>1, <1>2 DEF SameKey, afuzzy_equals

\* No pair is found for a key for which the precision is lost.
LEMMA LostIsNotFound ==
  ASSUME NEW p \in ValidKeys, NEW k \in ValidKeys, k \in Coarse
  PROVE  ~SameKey(p, k)
<1> SUFFICES ASSUME SameKey(p, k) PROVE FALSE
  OBVIOUS
<1>1. p.v \in Int /\ k.v \in Int /\ Precision \in Nat \ {0}
      /\ p \in Keys /\ p.type = "real"
  BY KeyFacts, TableAssumption DEF SameKey
<1>2. p.v - Margin(p) < k.v /\ p.v + Margin(p) > k.v
  BY <1>1 DEF SameKey, afuzzy_equals
<1>3. CASE p \in Coarse
  BY <1>1, <1>2, <1>3 DEF Margin
<1>4. CASE p \notin Coarse
  <2>1. Margin(p) = Precision
    BY <1>4 DEF Margin
  <2>2. k.v - p.v \notin -Precision .. Precision
    BY <1>1, <1>4, TableAssumption
  <2> QED BY <1>1, <1>2, <2>1, <2>2
<1> QED BY <1>3, <1>4
-----------------------------------------------------------------------------
(***************************************************************************)
(* Searching.                                                              *)
(***************************************************************************)

LEMMA EntriesType ==
  ASSUME TableTypeOK
  PROVE  /\ entries \in Seq([key : ValidKeys, val : Values])
         /\ Len(entries) \in Nat /\ cap \in Nat
         /\ \A i \in 1 .. Len(entries) :
              /\ entries[i] \in [key : ValidKeys, val : Values]
              /\ entries[i].key \in ValidKeys /\ entries[i].val \in Values
<1>1. entries \in Seq([key : ValidKeys, val : Values]) /\ cap \in Nat
  BY DEF TableTypeOK
<1>2. Len(entries) \in Nat
  BY <1>1
<1>3. \A i \in 1 .. Len(entries) : entries[i] \in [key : ValidKeys, val : Values]
  BY <1>1, ElementOfSeq
<1> QED BY <1>1, <1>2, <1>3

LEMMA FirstIsFound ==
  ASSUME TableTypeOK, NEW k, Found(k) # {}
  PROVE  /\ First(k) \in Found(k) /\ First(k) \in 1 .. Len(entries)
         /\ \A j \in Found(k) : First(k) <= j
<1>1. Len(entries) \in Nat /\ Found(k) \in SUBSET (1 .. Len(entries))
  BY EntriesType DEF Found
<1>2. \E i \in Found(k) : \A j \in Found(k) : i <= j
  BY <1>1, FirstPosition
<1> QED BY <1>1, <1>2 DEF First

LEMMA LookupType ==
  ASSUME TableTypeOK, NEW k
  PROVE  Lookup(k) \in Values
<1>1. CASE Found(k) = {}
  BY <1>1, KeyFacts DEF Lookup
<1>2. CASE Found(k) # {}
  BY <1>2, FirstIsFound, EntriesType DEF Lookup
<1> QED BY <1>1, <1>2

\* Storing a new value with a pair changes what is found for the keys whose
\* first pair it is.
LEMMA LookupAfterReplace ==
  ASSUME TableTypeOK, NEW k \in Keys, NEW v \in Values, Replace(k, v), NEW x
  PROVE  Lookup(x)' = IF Found(x) # {} /\ First(x) = First(k) THEN v ELSE Lookup(x)
<1>1. First(k) \in 1 .. Len(entries)
  BY FirstIsFound DEF Replace
<1>2. /\ entries' = [entries EXCEPT ![First(k)].val = v]
      /\ Len(entries') = Len(entries) /\ Len(entries) \in Nat
  BY <1>1, EntriesType DEF Replace
<1>3. \A i \in 1 .. Len(entries) :
        /\ entries'[i].key = entries[i].key
        /\ entries'[i].val = IF i = First(k) THEN v ELSE entries[i].val
  BY <1>1, <1>2, EntriesType
<1>4. Found(x)' = Found(x)
  BY <1>2, <1>3 DEF Found
<1>5. First(x)' = First(x)
  BY <1>4 DEF First
<1>6. CASE Found(x) = {}
  BY <1>4, <1>6 DEF Lookup
<1>7. CASE Found(x) # {}
  <2>1. First(x) \in 1 .. Len(entries)
    BY <1>7, FirstIsFound
  <2> QED BY <1>3, <1>4, <1>5, <1>7, <2>1 DEF Lookup
<1> QED BY <1>6, <1>7

\* A pair that is added is found for the keys for which none was.
LEMMA LookupAfterAdd ==
  ASSUME TableTypeOK, TableTypeOK', NEW k \in Keys, NEW v \in Values, Add(k, v), NEW x
  PROVE  Lookup(x)' = IF Found(x) # {} THEN Lookup(x)
                      ELSE IF SameKey(k, x) THEN v ELSE Nil
<1> DEFINE n == Len(entries)
<1>1. /\ entries' = Append(entries, [key |-> k, val |-> v])
      /\ Len(entries') = n + 1 /\ n \in Nat
      /\ \A i \in 1 .. n : entries'[i] = entries[i]
      /\ entries'[n + 1] = [key |-> k, val |-> v]
  BY EntriesType DEF Add
<1>2. /\ Found(x)' = Found(x) \cup (IF SameKey(k, x) THEN {n + 1} ELSE {})
      /\ Found(x) \subseteq 1 .. n
  BY <1>1 DEF Found
<1>3. CASE Found(x) # {}
  <2>1. First(x) \in Found(x) /\ First(x) \in 1 .. n /\ \A j \in Found(x) : First(x) <= j
    BY <1>3, FirstIsFound
  <2>2. /\ (First(x))' \in Found(x)' /\ (First(x))' \in 1 .. n + 1
        /\ \A j \in Found(x)' : (First(x))' <= j
    <3>1. Found(x)' # {}
      BY <1>2, <1>3
    <3>2. /\ (First(x))' \in Found(x)'
          /\ \A j \in Found(x)' : (First(x))' <= j
      <4>1. Found(x)' \in SUBSET (1 .. n + 1) /\ n + 1 \in Nat
        BY <1>1, <1>2
      <4>2. \E i \in Found(x)' : \A j \in Found(x)' : i <= j
        BY <3>1, <4>1, FirstPosition
      <4> QED BY <4>2 DEF First
    <3> QED BY <1>1, <1>2, <3>2
  <2>3. (First(x))' = First(x)
    BY <1>1, <1>2, <2>1, <2>2
  <2> QED BY <1>1, <1>2, <1>3, <2>1, <2>3 DEF Lookup
<1>4. CASE Found(x) = {} /\ SameKey(k, x)
  <2>1. Found(x)' = {n + 1}
    BY <1>2, <1>4
  <2>2. (First(x))' = n + 1
    BY <1>1, <2>1 DEF First
  <2> QED BY <1>1, <1>4, <2>1, <2>2 DEF Lookup
<1>5. CASE Found(x) = {} /\ ~SameKey(k, x)
  BY <1>2, <1>5 DEF Lookup
<1> QED BY <1>3, <1>4, <1>5
-----------------------------------------------------------------------------
(***************************************************************************)
(* Safety.                                                                 *)
(***************************************************************************)

Inv == TableTypeOK /\ KeysAreApart

LEMMA InitInv == Init => Inv
<1> SUFFICES ASSUME Init PROVE Inv
  OBVIOUS
<1>1. entries = <<>> /\ cap \in Nat /\ Len(entries) = 0
  BY KeyFacts DEF Init
<1> QED BY <1>1 DEF Inv, TableTypeOK, KeysAreApart

LEMMA ReplaceInv ==
  ASSUME Inv, NEW k \in Keys, NEW v \in Values, Replace(k, v)
  PROVE  Inv'
<1>1. TableTypeOK /\ KeysAreApart /\ cap' = cap
      /\ entries' = [entries EXCEPT ![First(k)].val = v]
  BY DEF Inv, Replace
<1>2. First(k) \in 1 .. Len(entries)
  BY <1>1, FirstIsFound DEF Replace
<1>3. entries[First(k)] \in [key : ValidKeys, val : Values]
  BY <1>1, <1>2, EntriesType
<1>4. [entries[First(k)] EXCEPT !.val = v] \in [key : ValidKeys, val : Values]
  BY <1>3
<1>5. /\ entries' \in Seq([key : ValidKeys, val : Values])
      /\ Len(entries') = Len(entries)
  BY <1>1, <1>2, <1>4, EntriesType
<1>6. \A i \in 1 .. Len(entries) : entries'[i].key = entries[i].key
  BY <1>1, <1>2, <1>3, EntriesType
<1> QED BY <1>1, <1>5, <1>6 DEF Inv, TableTypeOK, KeysAreApart

LEMMA AddInv ==
  ASSUME Inv, NEW k \in Keys, NEW v \in Values, Add(k, v)
  PROVE  Inv'
<1> DEFINE n == Len(entries)
           e == [key |-> k, val |-> v]
<1>1. TableTypeOK /\ KeysAreApart
  BY DEF Inv
<1>2. k \in ValidKeys /\ e \in [key : ValidKeys, val : Values] /\ Found(k) = {}
  BY DEF Add, ValidKeys
<1>3. n \in Nat /\ cap \in Nat /\ n <= cap
  BY <1>1, EntriesType DEF TableTypeOK
<1>4. /\ entries' = Append(entries, e)
      /\ entries' \in Seq([key : ValidKeys, val : Values])
      /\ Len(entries') = n + 1
      /\ \A i \in 1 .. n : entries'[i] = entries[i]
      /\ entries'[n + 1] = e
  BY <1>1, <1>2, EntriesType DEF Add
<1>5. cap' \in Nat /\ n + 1 <= cap'
  <2>1. CASE n < cap /\ cap' = cap
    BY <1>3, <2>1
  <2>2. CASE n = cap /\ cap' = GrownCap
    BY <1>3, <2>2, KeyFacts DEF GrownCap
  <2> QED BY <2>1, <2>2 DEF Add
<1>6. TableTypeOK'
  BY <1>4, <1>5 DEF TableTypeOK
<1>7. \A i \in 1 .. n : ~SameKey(entries[i].key, k) /\ ~SameKey(k, entries[i].key)
  <2>1. \A i \in 1 .. n : ~SameKey(entries[i].key, k) /\ entries[i].key \in ValidKeys
    BY <1>1, <1>2, EntriesType DEF Found
  <2> QED BY <1>2, <2>1, SameKeySymmetric
<1>8. ASSUME NEW i \in 1 .. n + 1, NEW j \in 1 .. n + 1, i # j
      PROVE  ~SameKey(entries'[i].key, entries'[j].key)
  <2>1. CASE i \in 1 .. n /\ j \in 1 .. n
    BY <1>1, <1>4, <1>8, <2>1 DEF KeysAreApart
  <2>2. CASE i = n + 1 /\ j \in 1 .. n
    BY <1>4, <1>7, <2>2
  <2>3. CASE i \in 1 .. n /\ j = n + 1
    BY <1>4, <1>7, <2>3
  <2> QED BY <1>3, <1>8, <2>1, <2>2, <2>3
<1>9. KeysAreApart'
  BY <1>4, <1>8 DEF KeysAreApart
<1> QED BY <1>6, <1>9 DEF Inv

LEMMA StepInv == Inv /\ [Next]_vars => Inv'
<1> SUFFICES ASSUME Inv, [Next]_vars PROVE Inv'
  OBVIOUS
<1>1. CASE entries' = entries /\ cap' = cap
  BY <1>1 DEF Inv, TableTypeOK, KeysAreApart
<1>2. ASSUME NEW k \in Keys, Get(k) PROVE Inv'
  BY <1>1, <1>2 DEF Get
<1>3. ASSUME NEW k \in Keys, NEW v \in Values, Set(k, v) PROVE Inv'
  <2>1. CASE SetBadKey(k, v) \/ AddFails(k, v)
    BY <1>1, <2>1 DEF SetBadKey, AddFails
  <2>2. CASE Replace(k, v)
    BY <2>2, ReplaceInv
  <2>3. CASE Add(k, v)
    BY <2>3, AddInv
  <2> QED BY <1>3, <2>1, <2>2, <2>3 DEF Set
<1>4. CASE UNCHANGED vars
  BY <1>1, <1>4 DEF vars
<1> QED BY <1>2, <1>3, <1>4 DEF Next

\* The inductive invariant of a table.
THEOREM InvHolds == Spec => []Inv
BY InitInv, StepInv, PTL DEF Spec

\* Pairs are only written into room that the buffer has.
THEOREM TableTypeCorrect == Spec => []TableTypeOK
<1>1. Inv => TableTypeOK
  BY DEF Inv
<1> QED BY <1>1, InvHolds, PTL

\* No two pairs have keys that are the same to a search.
THEOREM KeysStayApart == Spec => []KeysAreApart
<1>1. Inv => KeysAreApart
  BY DEF Inv
<1> QED BY <1>1, InvHolds, PTL
-----------------------------------------------------------------------------
(***************************************************************************)
(* A table implements Map.                                                 *)
(***************************************************************************)

LEMMA InitMap == Init => Promise!MInit
<1> SUFFICES ASSUME Init PROVE Promise!MInit
  OBVIOUS
<1>1. \A k : Found(k) = {}
  BY DEF Init, Found
<1>2. \A k : Lookup(k) = Nil
  BY <1>1 DEF Lookup
<1> QED BY <1>2 DEF Init, Promise!MInit

LEMMA GetMap ==
  ASSUME NEW k \in Keys, Get(k)
  PROVE  Promise!MNext
<1>1. \A x : Lookup(x)' = Lookup(x)
  <2>1. entries' = entries
    BY DEF Get
  <2> QED BY <2>1 DEF Lookup, First, Found
<1>2. CASE k \in ValidKeys
  <2>1. Promise!Read(k)
    BY <1>1, <1>2 DEF Get, Promise!Read, Promise!Answer, Answer, ValidKeys
  <2> QED BY <1>2, <2>1 DEF Promise!MNext
<1>3. CASE k \notin ValidKeys
  <2>1. Promise!Refuse(k)
    BY <1>1, <1>3 DEF Get, Promise!Refuse, Promise!Answer, Answer, ValidKeys,
                      Promise!Error, Error
  <2> QED BY <1>3, <2>1 DEF Promise!MNext
<1> QED BY <1>2, <1>3

LEMMA FailMap ==
  ASSUME NEW k \in Keys, NEW v \in Values, SetBadKey(k, v) \/ AddFails(k, v)
  PROVE  Promise!MNext
<1>1. \A x : Lookup(x)' = Lookup(x)
  <2>1. entries' = entries
    BY DEF SetBadKey, AddFails
  <2> QED BY <2>1 DEF Lookup, First, Found
<1>2. CASE SetBadKey(k, v)
  <2>1. k \in Keys \ ValidKeys /\ Promise!Refuse(k)
    BY <1>1, <1>2 DEF SetBadKey, Promise!Refuse, Promise!Answer, Answer, ValidKeys,
                      Promise!Error, Error
  <2> QED BY <2>1 DEF Promise!MNext
<1>3. CASE AddFails(k, v)
  <2>1. k \in ValidKeys /\ Lookup(k) = Nil
    BY <1>3 DEF AddFails, Lookup, ValidKeys
  <2>2. Promise!WriteFails(k, v)
    BY <1>1, <1>3, <2>1 DEF AddFails, Promise!WriteFails, Promise!Answer, Answer,
                            Promise!Error, Error
  <2> QED BY <2>1, <2>2 DEF Promise!MNext
<1> QED BY <1>2, <1>3

\* Keys whose value a set may change are near to the key that was set.
LEMMA WriteMap ==
  ASSUME NEW k \in ValidKeys, k \notin Coarse, NEW v \in Values, Answer(<<"set", k, v>>, Nil),
         Lookup(k)' = v,
         \A x \in ValidKeys : Lookup(x)' # Lookup(x) =>
           Lookup(x)' = v /\ <<x, k>> \in NearPairs
  PROVE  Promise!MNext
<1> DEFINE S == {x \in ValidKeys : Lookup(x)' # Lookup(x)}
<1>1. S \in SUBSET {x \in ValidKeys : <<x, k>> \in NearPairs}
  OBVIOUS
<1>2. \A x \in ValidKeys :
        Lookup(x)' = IF x = k \/ x \in S THEN v ELSE Lookup(x)
  OBVIOUS
<1>3. Promise!Write(k, v)
  BY <1>1, <1>2 DEF Promise!Write, Promise!Answer, Answer
<1> QED BY <1>3 DEF Promise!MNext

LEMMA ReplaceMap ==
  ASSUME Inv, NEW k \in Keys, NEW v \in Values, Replace(k, v)
  PROVE  Promise!MNext
<1>1. TableTypeOK /\ k \in ValidKeys /\ Found(k) # {} /\ Answer(<<"set", k, v>>, Nil)
  BY DEF Inv, Replace, ValidKeys
<1>2. \A x : Lookup(x)' = IF Found(x) # {} /\ First(x) = First(k) THEN v ELSE Lookup(x)
  BY <1>1, LookupAfterReplace
<1>3. Lookup(k)' = v /\ k \notin Coarse
  <2>1. First(k) \in Found(k) /\ entries[First(k)].key \in ValidKeys
    BY <1>1, FirstIsFound, EntriesType
  <2> QED BY <1>1, <1>2, <2>1, LostIsNotFound DEF Found
<1>4. ASSUME NEW x \in ValidKeys, Lookup(x)' # Lookup(x)
      PROVE  Lookup(x)' = v /\ <<x, k>> \in NearPairs
  <2>1. Found(x) # {} /\ First(x) = First(k) /\ Lookup(x)' = v
    BY <1>2, <1>4
  <2> DEFINE p == entries[First(k)].key
  <2>2. First(k) \in Found(k) /\ First(k) \in Found(x) /\ p \in ValidKeys
    BY <1>1, <2>1, FirstIsFound, EntriesType
  <2>3. SameKey(p, k) /\ SameKey(p, x)
    BY <2>2 DEF Found
  <2> QED BY <1>1, <2>1, <2>2, <2>3, SameKeysAreNear
<1> QED BY <1>1, <1>3, <1>4, WriteMap

LEMMA AddMap ==
  ASSUME Inv, Inv', NEW k \in Keys, NEW v \in Values, Add(k, v)
  PROVE  Promise!MNext
<1>1. /\ TableTypeOK /\ TableTypeOK'
      /\ k \in ValidKeys /\ Found(k) = {} /\ Answer(<<"set", k, v>>, Nil)
  BY DEF Inv, Add, ValidKeys
<1>2. \A x : Lookup(x)' = IF Found(x) # {} THEN Lookup(x)
                          ELSE IF SameKey(k, x) THEN v ELSE Nil
  BY <1>1, LookupAfterAdd
<1>3. ASSUME NEW x \in ValidKeys, Lookup(x)' # Lookup(x)
      PROVE  Lookup(x)' = v /\ SameKey(k, x)
  <2>1. Found(x) = {}
    BY <1>2, <1>3
  <2>2. Lookup(x) = Nil
    BY <2>1 DEF Lookup
  <2> QED BY <1>2, <1>3, <2>1, <2>2
<1>4. CASE k \notin Coarse
  <2>1. SameKey(k, k)
    BY <1>1, <1>4, SameAsItself
  <2>2. Lookup(k)' = v
    BY <1>1, <1>2, <2>1
  <2>3. \A x \in ValidKeys : Lookup(x)' # Lookup(x) =>
          Lookup(x)' = v /\ <<x, k>> \in NearPairs
    BY <1>1, <1>3, <2>1, SameKeysAreNear
  <2> QED BY <1>1, <1>4, <2>2, <2>3, WriteMap
<1>5. CASE k \in Coarse
  <2>1. ASSUME NEW x \in ValidKeys PROVE Lookup(x)' = Lookup(x)
    <3>1. SUFFICES ASSUME SameKey(k, x) PROVE FALSE
      BY <1>3
    <3> QED BY <1>1, <1>5, <2>1, <3>1, SameKeySymmetric, LostIsNotFound
  <2>2. Promise!WriteLost(k, v)
    BY <1>1, <1>5, <2>1 DEF Promise!WriteLost, Promise!Answer, Answer
  <2> QED BY <1>1, <2>2 DEF Promise!MNext
<1> QED BY <1>4, <1>5

LEMMA StepMap == Inv /\ Inv' /\ [Next]_vars => [Promise!MNext]_(Promise!mvars)
<1> SUFFICES ASSUME Inv, Inv', [Next]_vars
             PROVE  Promise!MNext \/ UNCHANGED Promise!mvars
  OBVIOUS
<1>1. ASSUME NEW k \in Keys, NEW v \in Values, Set(k, v) PROVE Promise!MNext
  BY <1>1, FailMap, ReplaceMap, AddMap DEF Set
<1>2. CASE UNCHANGED vars
  BY <1>2 DEF vars, Promise!mvars, Lookup, First, Found
<1> QED BY <1>1, <1>2, GetMap DEF Next

\* A table implements Map: what was set is found, unless it is a real so large
\* that the precision is lost, and only reals less than twice the precision away
\* change with it.
THEOREM ImplementsMap == Spec => KeepsMap
<1>1. Inv /\ Inv' /\ [Next]_vars => [Promise!MNext]_(Promise!mvars)
  BY StepMap
<1> QED BY <1>1, InitMap, InvHolds, PTL DEF Spec, KeepsMap, Promise!MSpec
=============================================================================
