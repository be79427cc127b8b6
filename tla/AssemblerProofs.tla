--------------------------- MODULE AssemblerProofs ---------------------------
(***************************************************************************)
(* The assembler and its string table, for all strings, hashes, rooms and  *)
(* programs.                                                               *)
(*                                                                         *)
(* First the table.  Linear probing finds a string when no slot between    *)
(* its hash and its place is empty (Placed); that every lookup ends needs  *)
(* fewer strings than slots, and that all fits in the block needs the      *)
(* estimate of how many slots there are to leave room for them (Spacious). *)
(* Both are kept by the growths of the table, by packing and by interning, *)
(* and the doublings that are allowed for always suffice.                  *)
(*                                                                         *)
(* Then the prototypes.  Every slot but the root is nested once, in one    *)
(* that was made before (Tree), so the walk of gc and save_chunk visits    *)
(* each slot once and the prototypes that are copied fit the buffer they   *)
(* come from: their extents are apart (Laid), so the sum of their sizes is *)
(* not above its size.                                                     *)
(*                                                                         *)
(* Last the calls.  Fine is the invariant; it has the tree only while no   *)
(* assertion failed, for push_unsafe takes a slot before it asserts that   *)
(* there is room to nest it.                                               *)
(*                                                                         *)
(* And what the host sees of a call: the lemmas that ProgramProofs builds  *)
(* on.                                                                     *)
(***************************************************************************)
EXTENDS AssemblerProperties, ListsProofs

-----------------------------------------------------------------------------
\* Quotient and remainder of an integer make it up.
LEMMA IntDivMod ==
  ASSUME NEW a \in Int, NEW n \in Nat \ {0}
  PROVE  /\ a \div n \in Int
         /\ a % n \in 0 .. n - 1
         /\ a = n * (a \div n) + (a % n)
OBVIOUS

\* A larger factor makes a product that is larger by the other one.
LEMMA MulStep ==
  ASSUME NEW n \in Nat \ {0}, NEW p \in Int, NEW q \in Int, p < q
  PROVE  n * p + n <= n * q
<1>1. p + 1 <= q
  OBVIOUS
<1>2. n * (p + 1) <= n * q
  BY <1>1
<1>3. n * (p + 1) = n * p + n
  OBVIOUS
<1> QED BY <1>2, <1>3

\* Two slots at the same distance from a hash are one.
LEMMA DistInjective ==
  ASSUME NEW n \in Nat \ {0}, NEW h \in Nat, NEW i \in 0 .. n - 1, NEW j \in 0 .. n - 1,
         (i - h) % n = (j - h) % n
  PROVE  i = j
<1> DEFINE p == (i - h) \div n
           q == (j - h) \div n
           r == (i - h) % n
<1>0. i - h \in Int /\ j - h \in Int
  OBVIOUS
<1>1. /\ p \in Int /\ q \in Int /\ r \in 0 .. n - 1
      /\ i - h = n * p + r /\ j - h = n * q + r
  <2>1. p \in Int /\ r \in 0 .. n - 1 /\ i - h = n * p + r
    BY <1>0, IntDivMod
  <2>2. q \in Int /\ j - h = n * q + r
    BY <1>0, IntDivMod
  <2> QED BY <2>1, <2>2
<1> HIDE DEF p, q, r
<1>2. n * p \in Int /\ n * q \in Int
  BY <1>1
<1>3. ~(p < q)
  <2> SUFFICES ASSUME p < q PROVE FALSE
    OBVIOUS
  <2>1. n * p + n <= n * q
    BY <1>1, MulStep
  <2> QED BY <1>1, <1>2, <2>1
<1>4. ~(q < p)
  <2> SUFFICES ASSUME q < p PROVE FALSE
    OBVIOUS
  <2>1. n * q + n <= n * p
    BY <1>1, MulStep
  <2> QED BY <1>1, <1>2, <2>1
<1>5. p = q
  BY <1>1, <1>3, <1>4
<1> QED BY <1>1, <1>2, <1>5

-----------------------------------------------------------------------------
\* Of a table with an empty slot FirstEmpty finds the first.
LEMMA FirstEmptyIs ==
  ASSUME NEW n \in Nat \ {0}, NEW slots \in [0 .. n - 1 -> Nat], NEW h \in Nat,
         \E i \in 0 .. n - 1 : slots[i] = 0
  PROVE  /\ FirstEmpty(slots, n, h) \in 0 .. n - 1
         /\ slots[FirstEmpty(slots, n, h)] = 0
         /\ \A j \in 0 .. n - 1 : slots[j] = 0 =>
              (FirstEmpty(slots, n, h) - h) % n <= (j - h) % n
<1> DEFINE dist(i) == (i - h) % n
           T == {dist(i) : i \in {j \in 0 .. n - 1 : slots[j] = 0}}
<1>1. \A i \in 0 .. n - 1 : dist(i) \in Nat
  <2> TAKE i \in 0 .. n - 1
  <2>1. i - h \in Int
    OBVIOUS
  <2> QED BY <2>1, IntDivMod
<1> HIDE DEF dist
<1>2. T \subseteq Nat /\ T # {}
  BY <1>1
<1>3. PICK m \in T : \A y \in T : m <= y
  BY <1>2, Least
<1>4. \E i \in 0 .. n - 1 :
        slots[i] = 0 /\ \A j \in 0 .. n - 1 : slots[j] = 0 => dist(i) <= dist(j)
  <2>1. PICK i \in 0 .. n - 1 : slots[i] = 0 /\ dist(i) = m
    BY <1>3
  <2>2. \A j \in 0 .. n - 1 : slots[j] = 0 => dist(i) <= dist(j)
    BY <1>3, <2>1
  <2> QED BY <2>1, <2>2
<1> QED BY <1>4, Zenon DEF FirstEmpty, dist

\* The hash table holds the references R, each in a slot that the search for its
\* string reaches before any empty one.
Placed(slots, n, text, R) ==
  /\ slots \in [0 .. n - 1 -> Nat]
  /\ \A i \in 0 .. n - 1 : slots[i] \in R \cup {0}
  /\ \A i, j \in 0 .. n - 1 : slots[i] = slots[j] /\ slots[i] # 0 => i = j
  /\ \A r \in R : \E i \in 0 .. n - 1 :
       /\ slots[i] = r
       /\ \A j \in 0 .. n - 1 : slots[j] = 0 =>
            (i - HashOf[text[r]]) % n <= (j - HashOf[text[r]]) % n

\* With fewer references than slots a slot is empty.
LEMMA HasEmpty ==
  ASSUME NEW n \in Nat \ {0}, NEW slots, NEW text, NEW R \in SUBSET (Nat \ {0}),
         Placed(slots, n, text, R), IsFiniteSet(R), Cardinality(R) < n
  PROVE  \E i \in 0 .. n - 1 : slots[i] = 0
<1> SUFFICES ASSUME \A i \in 0 .. n - 1 : slots[i] # 0 PROVE FALSE
  OBVIOUS
<1>1. slots \in [0 .. n - 1 -> R] /\ \A i, j \in 0 .. n - 1 : slots[i] = slots[j] => i = j
  BY DEF Placed
<1>2. IsFiniteSet(0 .. n - 1) /\ Cardinality(0 .. n - 1) = n
  <2>1. 0 \in Int /\ n - 1 \in Int /\ ~(0 > n - 1) /\ n - 1 - 0 + 1 = n
    OBVIOUS
  <2> QED BY <2>1, FS_Interval
<1>3. PICK x, y \in 0 .. n - 1 : x # y /\ slots[x] = slots[y]
  BY <1>1, <1>2, FS_PigeonHole
<1> QED BY <1>1, <1>3

\* A new reference put into the first empty slot leaves the others where their
\* searches find them.
LEMMA PutPlaces ==
  ASSUME NEW n \in Nat \ {0}, NEW slots, NEW text, NEW R \in SUBSET (Nat \ {0}),
         Placed(slots, n, text, R), \E i \in 0 .. n - 1 : slots[i] = 0,
         NEW r \in Nat \ {0}, r \notin R, HashOf[text[r]] \in Nat
  PROVE  Placed(Put(slots, n, r, text[r]), n, text, R \cup {r})
<1> DEFINE h == HashOf[text[r]]
           e == FirstEmpty(slots, n, h)
           new == Put(slots, n, r, text[r])
           dist(i, x) == (i - HashOf[text[x]]) % n
<1>1. slots \in [0 .. n - 1 -> Nat] /\ h \in Nat
  BY DEF Placed
<1>2. /\ e \in 0 .. n - 1 /\ slots[e] = 0
      /\ \A j \in 0 .. n - 1 : slots[j] = 0 => dist(e, r) <= dist(j, r)
  <2> HIDE DEF h
  <2>1. /\ e \in 0 .. n - 1 /\ slots[e] = 0
        /\ \A j \in 0 .. n - 1 : slots[j] = 0 => (e - h) % n <= (j - h) % n
    BY <1>1, FirstEmptyIs
  <2> QED BY <2>1 DEF h
<1>3. new = [slots EXCEPT ![e] = r]
  BY DEF Put
<1> HIDE DEF h, e, new, dist
<1>4. /\ new \in [0 .. n - 1 -> Nat] /\ new[e] = r
      /\ \A i \in 0 .. n - 1 : i # e => new[i] = slots[i]
  BY <1>1, <1>2, <1>3
<1>5. \A i \in 0 .. n - 1 : new[i] \in R \cup {r} \cup {0}
  BY <1>4 DEF Placed
<1>6. \A i, j \in 0 .. n - 1 : new[i] = new[j] /\ new[i] # 0 => i = j
  <2>1. \A i \in 0 .. n - 1 : slots[i] # r
    BY DEF Placed
  <2>2. \A i, j \in 0 .. n - 1 : slots[i] = slots[j] /\ slots[i] # 0 => i = j
    BY DEF Placed
  <2> QED BY <1>4, <2>1, <2>2
<1>7. ASSUME NEW x \in R \cup {r}
      PROVE  \E i \in 0 .. n - 1 :
               /\ new[i] = x
               /\ \A j \in 0 .. n - 1 : new[j] = 0 => dist(i, x) <= dist(j, x)
  <2>1. \A j \in 0 .. n - 1 : new[j] = 0 => slots[j] = 0
    BY <1>2, <1>4
  <2>2. CASE x = r
    BY <1>2, <1>4, <2>1, <2>2
  <2>3. CASE x # r
    <3>1. PICK i \in 0 .. n - 1 : /\ slots[i] = x
             /\ \A j \in 0 .. n - 1 : slots[j] = 0 => dist(i, x) <= dist(j, x)
      BY <2>3 DEF Placed, dist
    <3>2. i # e /\ new[i] = x
      BY <1>2, <1>4, <2>3, <3>1
    <3> QED BY <2>1, <3>1, <3>2
  <2> QED BY <2>2, <2>3
<1> QED BY <1>4, <1>5, <1>6, <1>7 DEF Placed, new, dist

\* Rebuilding goes byte by byte.
LEMMA Rebuilding ==
  ASSUME NEW t, NEW n, t.used \in Nat
  PROVE  \E G : /\ rebuild_hash_table(t, n) = G[t.used]
                /\ G[0] = [j \in 0 .. n - 1 |-> 0]
                /\ \A i \in 1 .. t.used : G[i] = (IF i - 1 \in DOMAIN t.text \ {0} THEN Put(G[i - 1], n, i - 1, t.text[i - 1]) ELSE G[i - 1])
<1> DEFINE N == t.used
           Rule(f, m) == f = [i \in 0 .. m |-> IF i = 0 THEN [j \in 0 .. n - 1 |-> 0] ELSE (IF i - 1 \in DOMAIN t.text \ {0} THEN Put(f[i - 1], n, i - 1, t.text[i - 1]) ELSE f[i - 1])]
           Failed == {m \in 0 .. N : ~ \E f : Rule(f, m)}
           G == CHOOSE f : f = [i \in 0 .. N |-> IF i = 0 THEN [j \in 0 .. n - 1 |-> 0] ELSE (IF i - 1 \in DOMAIN t.text \ {0} THEN Put(f[i - 1], n, i - 1, t.text[i - 1]) ELSE f[i - 1])]
<1>0. N \in Nat /\ N >= 0
  OBVIOUS
<1>1. \E f : Rule(f, 0)
  <2> DEFINE f == [i \in 0 .. 0 |-> [j \in 0 .. n - 1 |-> 0]]
  <2>1. Rule(f, 0)
    OBVIOUS
  <2> QED BY <2>1
<1>2. ASSUME NEW m \in 1 .. N, \E f : Rule(f, m - 1) PROVE \E f : Rule(f, m)
  <2>1. PICK f : Rule(f, m - 1)
    BY <1>2
  <2> DEFINE g == [i \in 0 .. m |-> IF i = m THEN (IF m - 1 \in DOMAIN t.text \ {0} THEN Put(f[m - 1], n, m - 1, t.text[m - 1]) ELSE f[m - 1]) ELSE f[i]]
  <2> HIDE DEF N
  <2>2. m \in Nat /\ m - 1 \in 0 .. m - 1 /\ m \in 0 .. m /\ m # 0
    BY <1>0
  <2>3. ASSUME NEW i \in 0 .. m PROVE g[i] = (IF i = 0 THEN [j \in 0 .. n - 1 |-> 0] ELSE (IF i - 1 \in DOMAIN t.text \ {0} THEN Put(g[i - 1], n, i - 1, t.text[i - 1]) ELSE g[i - 1]))
    <3>1. CASE i = m
      <4>1. g[m - 1] = f[m - 1]
        BY <2>2
      <4>2. g[m] = (IF m - 1 \in DOMAIN t.text \ {0} THEN Put(f[m - 1], n, m - 1, t.text[m - 1]) ELSE f[m - 1])
        BY <2>2
      <4> QED BY <2>2, <3>1, <4>1, <4>2
    <3>2. CASE i # m
      <4>1. i \in 0 .. m - 1 /\ g[i] = f[i] /\ (i # 0 => i - 1 \in 0 .. m /\ i - 1 # m)
        BY <2>2, <3>2
      <4>2. i # 0 => g[i - 1] = f[i - 1]
        BY <4>1
      <4>3. f[i] = (IF i = 0 THEN [j \in 0 .. n - 1 |-> 0] ELSE (IF i - 1 \in DOMAIN t.text \ {0} THEN Put(f[i - 1], n, i - 1, t.text[i - 1]) ELSE f[i - 1]))
        BY <2>1, <4>1
      <4> QED BY <4>1, <4>2, <4>3
    <3> QED BY <3>1, <3>2
  <2>4. DOMAIN g = 0 .. m
    OBVIOUS
  <2>5. g = [i \in 0 .. m |-> g[i]]
    OBVIOUS
  <2> HIDE DEF g
  <2>6. Rule(g, m)
    BY <2>3, <2>5
  <2> QED BY <2>6
<1>3. Failed = {}
  <2> SUFFICES ASSUME Failed # {} PROVE FALSE
    OBVIOUS
  <2> HIDE DEF Rule, N
  <2>1. PICK m \in Failed : \A y \in Failed : m <= y
    <3>1. Failed \subseteq Nat
      BY <1>0
    <3> QED BY <3>1, Least
  <2>2. m \in 1 .. N
    BY <1>0, <1>1, <2>1
  <2>3. m - 1 \in 0 .. N /\ m - 1 \notin Failed
    BY <1>0, <2>1, <2>2
  <2> QED BY <1>2, <2>1, <2>2, <2>3
<1>4. \E f : Rule(f, N)
  <2> HIDE DEF Rule, N
  <2> QED BY <1>0, <1>3
<1>5. G = [i \in 0 .. N |-> IF i = 0 THEN [j \in 0 .. n - 1 |-> 0] ELSE (IF i - 1 \in DOMAIN t.text \ {0} THEN Put(G[i - 1], n, i - 1, t.text[i - 1]) ELSE G[i - 1])]
  <2> HIDE DEF N
  <2> QED BY <1>4, Zenon
<1>6. rebuild_hash_table(t, n) = G[t.used]
  BY Zenon DEF rebuild_hash_table
<1>7. /\ G[0] = [j \in 0 .. n - 1 |-> 0]
      /\ \A i \in 1 .. N : G[i] = (IF i - 1 \in DOMAIN t.text \ {0} THEN Put(G[i - 1], n, i - 1, t.text[i - 1]) ELSE G[i - 1])
  <2> HIDE DEF G, N
  <2>1. 0 \in 0 .. N /\ \A i \in 1 .. N : i \in 0 .. N /\ i # 0
    BY <1>0
  <2> QED BY <1>5, <2>1
<1> HIDE DEF G
<1> QED BY <1>6, <1>7

-----------------------------------------------------------------------------
\* The references of the strings that were interned.
Refs(t) == DOMAIN t.text \ {0}

\* What a table is, whatever was interned.
Tables ==
  [bytes : Nat, n : Nat \ {0}, slots : UNION {[0 .. m - 1 -> Nat] : m \in Nat},
   text : UNION {[D -> Strings \cup {EMPTY}] : D \in SUBSET Nat}, used : Nat]

\* The strings of a table: all have references below the bytes in use, each
\* its own.
Texts(t) ==
  /\ IsFiniteSet(DOMAIN t.text)
  /\ 0 \in DOMAIN t.text /\ t.text[0] = EMPTY
  /\ \A r \in DOMAIN t.text : r \in Nat /\ r < t.used
  /\ \A r \in Refs(t) : t.text[r] \in Strings
  /\ \A r, x \in Refs(t) : t.text[r] = t.text[x] => r = x

\* Some slot is empty, and slots and strings fit the block.
Spacious(t) ==
  /\ count(t) \in Nat /\ count(t) < t.n
  /\ HEADER + t.n * SLOT + t.used <= t.bytes

\* The invariant of the string table.
TableOK(t) ==
  /\ t \in Tables /\ Texts(t) /\ Spacious(t)
  /\ Placed(t.slots, t.n, t.text, Refs(t))

\* How many strings there are.
LEMMA CountIs ==
  ASSUME NEW t, Texts(t)
  PROVE  /\ Refs(t) \in SUBSET (Nat \ {0}) /\ IsFiniteSet(Refs(t))
         /\ Cardinality(Refs(t)) = count(t) /\ count(t) \in Nat
<1>1. IsFiniteSet(DOMAIN t.text) /\ 0 \in DOMAIN t.text
  BY DEF Texts
<1>2. IsFiniteSet(Refs(t)) /\ Cardinality(Refs(t)) = Cardinality(DOMAIN t.text) - 1
  BY <1>1, FS_RemoveElement DEF Refs
<1>3. Cardinality(Refs(t)) \in Nat
  BY <1>2, FS_CardinalityType
<1> QED BY <1>2, <1>3 DEF count, Refs, Texts

\* An empty table.
LEMMA InitTable ==
  LET t == astring_table_init(128, 16)
  IN  TableOK(t) /\ t.text = [r \in {0} |-> EMPTY]
<1> DEFINE t == astring_table_init(128, 16)
<1>1. SlotsFor(128, 16, 1) = 5
  BY DEF SlotsFor, HASH_FACTOR, HEADER, ENTRY, SLOT
<1>2. t = [bytes |-> 128, n |-> 5, slots |-> [i \in 0 .. 4 |-> 0],
           text |-> [r \in {0} |-> EMPTY], used |-> 5]
  <2>1. MaxOf(1, 5) = 5
    BY DEF MaxOf
  <2>2. astring_table_init(128, 16) =
          [bytes |-> 128, n |-> MaxOf(1, 5), slots |-> [i \in 0 .. MaxOf(1, 5) - 1 |-> 0],
           text |-> [r \in {0} |-> EMPTY], used |-> ENTRY]
    BY ONLY <1>1, Zenon DEF astring_table_init
  <2>3. 5 - 1 = 4 /\ ENTRY = 5
    BY DEF ENTRY
  <2>4. \A n, e, m : n = 5 /\ m = 4 /\ e = 5 /\ m = n - 1 =>
          [bytes |-> 128, n |-> n, slots |-> [i \in 0 .. n - 1 |-> 0],
           text |-> [r \in {0} |-> EMPTY], used |-> e]
            = [bytes |-> 128, n |-> 5, slots |-> [i \in 0 .. 4 |-> 0],
               text |-> [r \in {0} |-> EMPTY], used |-> 5]
    BY ONLY Zenon
  <2> QED BY ONLY <2>1, <2>2, <2>3, <2>4, Zenon DEF t
<1> HIDE DEF t
<1>3. t.n = 5 /\ t.used = 5 /\ t.bytes = 128 /\ t.text = [r \in {0} |-> EMPTY]
      /\ t.slots = [i \in 0 .. 4 |-> 0]
  BY <1>2
<1>4. DOMAIN t.text = {0} /\ t.text[0] = EMPTY /\ Refs(t) = {}
  BY <1>3 DEF Refs
<1>5. t \in Tables
  <2>1. t.slots \in UNION {[0 .. m - 1 -> Nat] : m \in Nat}
    <3>1. t.slots \in [0 .. 5 - 1 -> Nat]
      BY <1>3
    <3> QED BY <3>1
  <2>2. t.text \in UNION {[D -> Strings \cup {EMPTY}] : D \in SUBSET Nat}
    <3>1. t.text \in [{0} -> Strings \cup {EMPTY}] /\ {0} \in SUBSET Nat
      BY <1>3
    <3> QED BY <3>1
  <2> QED BY <1>2, <1>3, <2>1, <2>2 DEF Tables
<1>6. Texts(t)
  <2>1. IsFiniteSet(DOMAIN t.text)
    BY <1>4, FS_Singleton
  <2> QED BY <1>3, <1>4, <2>1 DEF Texts
<1>7. count(t) = 0
  BY <1>4, FS_Singleton DEF count
<1>8. Placed(t.slots, t.n, t.text, Refs(t))
  BY <1>3, <1>4 DEF Placed
<1>9. Spacious(t)
  BY <1>3, <1>7 DEF Spacious, HEADER, SLOT
<1> QED BY <1>3, <1>5, <1>6, <1>8, <1>9 DEF TableOK, t

\* Rebuilding finds a slot for every string, when there are more slots than
\* strings.
LEMMA RebuiltPlaced ==
  ASSUME NEW t \in Tables, Texts(t), NEW n \in Nat \ {0}, count(t) < n
  PROVE  Placed(rebuild_hash_table(t, n), n, t.text, Refs(t))
<1> DEFINE Upto(b) == {r \in Refs(t) : r < b}
<1>0. t.used \in Nat
  BY DEF Tables
<1>1. PICK G : /\ rebuild_hash_table(t, n) = G[t.used]
               /\ G[0] = [j \in 0 .. n - 1 |-> 0]
               /\ \A i \in 1 .. t.used : G[i] =
                    IF i - 1 \in DOMAIN t.text \ {0}
                    THEN Put(G[i - 1], n, i - 1, t.text[i - 1]) ELSE G[i - 1]
  BY <1>0, Rebuilding
<1> DEFINE Filled_(b) == Placed(G[b], n, t.text, Upto(b))
           Failed == {b \in 0 .. t.used : ~Filled_(b)}
<1>2. Refs(t) \in SUBSET (Nat \ {0}) /\ IsFiniteSet(Refs(t)) /\ Cardinality(Refs(t)) = count(t)
  BY CountIs
<1>3. Filled_(0)
  <2>1. Upto(0) = {}
    BY <1>2
  <2> QED BY <1>1, <2>1 DEF Placed
<1>4. ASSUME NEW b \in 1 .. t.used, Filled_(b - 1) PROVE Filled_(b)
  <2>0. b \in Nat /\ b - 1 \in Nat
    BY <1>0
  <2>1. CASE b - 1 \in Refs(t)
    <3> DEFINE r == b - 1
               R == Upto(r)
    <3>1. G[b] = Put(G[r], n, r, t.text[r])
      BY <1>1, <2>1 DEF Refs
    <3>2. Upto(b) = R \cup {r} /\ r \notin R /\ R \in SUBSET (Nat \ {0}) /\ r \in Nat \ {0}
      BY <1>2, <2>0, <2>1
    <3>3. IsFiniteSet(R) /\ Cardinality(R) < n
      <4>1. R \in SUBSET Refs(t)
        OBVIOUS
      <4>2. IsFiniteSet(R) /\ Cardinality(R) <= Cardinality(Refs(t))
        BY <1>2, <4>1, FS_Subset
      <4>3. Cardinality(R) \in Nat /\ count(t) \in Nat
        BY <4>2, FS_CardinalityType, CountIs
      <4> QED BY <1>2, <4>2, <4>3
    <3>4. HashOf[t.text[r]] \in Nat
      BY <2>1, StringTableAssumption DEF Texts
    <3>5. Placed(G[r], n, t.text, R)
      BY <1>4
    <3> HIDE DEF R, r, Upto
    <3>6. \E i \in 0 .. n - 1 : G[r][i] = 0
      BY <3>2, <3>3, <3>5, HasEmpty
    <3>7. Placed(Put(G[r], n, r, t.text[r]), n, t.text, R \cup {r})
      BY <3>2, <3>4, <3>5, <3>6, PutPlaces
    <3> QED BY <3>1, <3>2, <3>7
  <2>2. CASE b - 1 \notin Refs(t)
    <3>1. G[b] = G[b - 1]
      BY <1>1, <2>2 DEF Refs
    <3>2. Upto(b) = Upto(b - 1)
      BY <1>2, <2>0, <2>2
    <3> QED BY <1>4, <3>1, <3>2
  <2> QED BY <2>1, <2>2
<1>5. Failed = {}
  <2> SUFFICES ASSUME Failed # {} PROVE FALSE
    OBVIOUS
  <2> HIDE DEF Filled_
  <2>1. PICK b \in Failed : \A y \in Failed : b <= y
    <3>1. Failed \subseteq Nat
      BY <1>0
    <3> QED BY <3>1, Least
  <2>2. b \in 1 .. t.used
    BY <1>0, <1>3, <2>1
  <2>3. b - 1 \in 0 .. t.used /\ b - 1 \notin Failed
    BY <1>0, <2>1, <2>2
  <2> QED BY <1>4, <2>1, <2>2, <2>3
<1>6. Upto(t.used) = Refs(t)
  BY DEF Texts, Refs
<1>7. Filled_(t.used)
  <2> HIDE DEF Filled_
  <2> QED BY <1>0, <1>5
<1> QED BY <1>1, <1>6, <1>7

\* A quotient times its divisor is not above the number.
LEMMA DivBound ==
  ASSUME NEW a \in Nat, NEW b \in Nat \ {0}
  PROVE  a \div b \in Nat /\ b * (a \div b) <= a
OBVIOUS

\* Twice the room is room for the slots that are computed for it: with c strings of
\* u bytes, and as many slots as strings and one before.
LEMMA SlotsFit ==
  ASSUME NEW u \in Nat \ {0}, NEW c \in Nat \ {0}, NEW X \in Nat, 16 * c + 2 * u <= X
  PROVE  /\ (2 * X * c) \div (u + c * 21) \in Nat
         /\ 8 * ((2 * X * c) \div (u + c * 21)) + u <= X
<1> DEFINE d == u + c * 21
           Q == (2 * X * c) \div d
           uu == u * u
           uc == u * c
           cc == c * c
           Xu == X * u
           Xc == X * c
<1>1. d \in Nat \ {0} /\ 2 * X * c \in Nat
  OBVIOUS
<1>2. Q \in Nat /\ d * Q <= 2 * X * c
  <2> HIDE DEF d
  <2> QED BY <1>1, DivBound
<1> HIDE DEF Q
<1>3. uu \in Nat /\ uc \in Nat /\ cc \in Nat /\ Xu \in Nat /\ Xc \in Nat /\ uu >= 1
  OBVIOUS
<1>4. 2 * X * c = 2 * Xc
  OBVIOUS
<1>5. 8 * Q + u <= X
  <2> SUFFICES ASSUME X + 1 <= 8 * Q + u PROVE FALSE
    BY <1>2
  <2>1. d * (X + 1) <= d * (8 * Q + u)
    <3> HIDE DEF d
    <3> QED BY <1>1, <1>2
  <2>2. d * (8 * Q + u) = 8 * (d * Q) + d * u
    <3> HIDE DEF d
    <3> QED BY <1>1, <1>2
  <2>3. d * u = uu + 21 * uc
    OBVIOUS
  <2>4. d * (X + 1) = Xu + 21 * Xc + u + 21 * c
    OBVIOUS
  <2>5. (16 * c + 2 * u) * u <= Xu /\ (16 * c + 2 * u) * c <= Xc
    <3> DEFINE Y == 16 * c + 2 * u
    <3>1. Y \in Nat /\ Y <= X
      OBVIOUS
    <3> HIDE DEF Y
    <3>2. Y * u <= X * u /\ Y * c <= X * c
      BY <3>1
    <3> QED BY <3>2 DEF Y
  <2>6. (16 * c + 2 * u) * u = 16 * uc + 2 * uu
    OBVIOUS
  <2>7. (16 * c + 2 * u) * c = 16 * cc + 2 * uc
    OBVIOUS
  <2>8. d * Q \in Nat
    <3> HIDE DEF d
    <3> QED BY <1>1, <1>2
  <2> DEFINE dQ == d * Q
             dX == d * (X + 1)
             dB == d * (8 * Q + u)
             du == d * u
  <2>9. dX <= dB /\ dB = 8 * dQ + du /\ du = uu + 21 * uc /\ dX = Xu + 21 * Xc + u + 21 * c
        /\ 16 * uc + 2 * uu <= Xu /\ 16 * cc + 2 * uc <= Xc /\ dQ \in Nat /\ dQ <= 2 * Xc
    BY <1>2, <1>4, <2>1, <2>2, <2>3, <2>4, <2>5, <2>6, <2>7, <2>8
  <2> HIDE DEF dQ, dX, dB, du, uu, uc, cc, Xu, Xc
  <2> QED BY <1>3, <2>9
<1> QED BY <1>2, <1>5 DEF Q, d

\* Tables of other sizes hold the same strings.
LEMMA RehashedOK ==
  ASSUME NEW t, TableOK(t), NEW n \in Nat \ {0}, NEW bytes \in Nat,
         count(t) < n, HEADER + n * SLOT + t.used <= bytes
  PROVE  TableOK(Rehashed(t, bytes, n)) /\ Rehashed(t, bytes, n).text = t.text
<1> DEFINE u == Rehashed(t, bytes, n)
           new == rebuild_hash_table(t, n)
<1>1. t \in Tables /\ Texts(t) /\ count(t) \in Nat
  BY DEF TableOK, Spacious
<1>2. Placed(new, n, t.text, Refs(t))
  BY <1>1, RebuiltPlaced
<1>3. u = [bytes |-> bytes, n |-> n, slots |-> new, text |-> t.text, used |-> t.used]
  <2>1. t = [bytes |-> t.bytes, n |-> t.n, slots |-> t.slots, text |-> t.text, used |-> t.used]
    BY <1>1 DEF Tables
  <2>2. u = [t EXCEPT !.bytes = bytes, !.n = n, !.slots = new]
    BY DEF Rehashed
  <2> HIDE DEF u, new
  <2> QED BY <2>1, <2>2
<1> HIDE DEF u, new
<1>4. u.bytes = bytes /\ u.n = n /\ u.slots = new /\ u.text = t.text /\ u.used = t.used
  BY <1>3
<1>5. u \in Tables
  <2>1. new \in UNION {[0 .. m - 1 -> Nat] : m \in Nat}
    <3>1. new \in [0 .. n - 1 -> Nat]
      BY <1>2 DEF Placed
    <3> QED BY <3>1
  <2> QED BY <1>1, <1>3, <2>1 DEF Tables
<1>6. Refs(u) = Refs(t) /\ count(u) = count(t)
  BY <1>4 DEF Refs, count
<1>7. Texts(u)
  BY <1>1, <1>4, <1>6 DEF Texts
<1>8. Spacious(u)
  BY <1>1, <1>4, <1>6 DEF Spacious
<1> QED BY <1>2, <1>4, <1>5, <1>6, <1>7, <1>8 DEF TableOK, u

\* Growing to twice the bytes leaves room for slots and strings.
LEMMA GrownOK ==
  ASSUME NEW t, TableOK(t)
  PROVE  /\ TableOK(astring_table_grow(t, 2 * t.bytes))
         /\ astring_table_grow(t, 2 * t.bytes).text = t.text
<1> DEFINE B == 2 * t.bytes
           m == recompute_num_hash_slots(t, B)
           c == count(t)
           X == B - 32
<1>1. /\ t \in Tables /\ Texts(t) /\ c \in Nat /\ c < t.n
      /\ 32 + t.n * 8 + t.used <= t.bytes
  BY DEF TableOK, Spacious, HEADER, SLOT
<1>2. t.n \in Nat \ {0} /\ t.used \in Nat \ {0} /\ t.bytes \in Nat /\ B \in Nat
  <2>1. t.n \in Nat \ {0} /\ t.used \in Nat /\ t.bytes \in Nat
    BY <1>1 DEF Tables
  <2>2. 0 < t.used
    BY <1>1 DEF Texts
  <2> QED BY <2>1, <2>2
<1>3. X \in Nat /\ 16 * c + 2 * t.used <= X
  <2>1. 16 * c <= 16 * t.n
    BY <1>1, <1>2
  <2> QED BY <1>1, <1>2, <2>1
<1> HIDE DEF c
<1>4. /\ m \in Nat \ {0} /\ t.n <= m /\ 8 * m + t.used <= X
  <2> DEFINE k == IF c > 0 THEN SlotsFor(B, t.used, c) ELSE SlotsFor(B, 15, 1)
  <2>1. m = MaxOf(t.n, k)
    BY DEF recompute_num_hash_slots, c
  <2>2. k \in Nat /\ 8 * k + t.used <= X
    <3>1. CASE c > 0
      <4>1. k = (2 * X * c) \div (t.used + c * 21)
        BY <3>1 DEF SlotsFor, HASH_FACTOR, HEADER, ENTRY, SLOT
      <4>2. c \in Nat \ {0}
        BY <1>1, <3>1
      <4> HIDE DEF k, X
      <4> QED BY <1>2, <1>3, <4>1, <4>2, SlotsFit
    <3>2. CASE ~(c > 0)
      <4>1. k = (2 * X * 1) \div (15 + 1 * 21)
        BY <3>2 DEF SlotsFor, HASH_FACTOR, HEADER, ENTRY, SLOT
      <4>2. k = (2 * X) \div 36
        BY <1>3, <4>1
      <4> HIDE DEF k, X
      <4>3. k \in Nat /\ 36 * k <= 2 * X
        BY <1>3, <4>2
      <4>4. 18 * k <= X /\ 2 * t.used <= X
        <5>1. 36 * k = 2 * (18 * k)
          BY <4>3
        <5> QED BY <1>1, <1>2, <1>3, <4>3, <5>1
      <4> QED BY <1>2, <1>3, <4>3, <4>4
    <3> QED BY <3>1, <3>2
  <2>3. 8 * t.n + t.used <= X
    BY <1>1, <1>2
  <2> HIDE DEF k, X, m
  <2>4. m = t.n \/ (m = k /\ k >= t.n)
    BY <1>2, <2>1, <2>2 DEF MaxOf
  <2> QED BY <1>2, <2>2, <2>3, <2>4
<1>5. count(t) < m /\ HEADER + m * SLOT + t.used <= B
  <2> HIDE DEF m
  <2> QED BY <1>1, <1>2, <1>4 DEF HEADER, SLOT, c
<1> HIDE DEF B, m
<1> QED BY <1>2, <1>4, <1>5, RehashedOK DEF astring_table_grow, m, B

\* Packing leaves an empty slot.
LEMMA PackedOK ==
  ASSUME NEW t, TableOK(t)
  PROVE  TableOK(astring_table_pack(t)) /\ astring_table_pack(t).text = t.text
<1> DEFINE m == PackedSlots(t)
           B == HEADER + m * SLOT + t.used
<1>1. t.used \in Nat /\ count(t) \in Nat
  BY DEF TableOK, Spacious, Tables
<1>2. m \in Nat \ {0} /\ count(t) < m
  BY <1>1 DEF PackedSlots, MaxOf, HASH_FACTOR
<1>3. B \in Nat
  <2> HIDE DEF m
  <2> QED BY <1>1, <1>2 DEF HEADER, SLOT
<1> HIDE DEF m, B
<1>4. HEADER + m * SLOT + t.used <= B
  BY <1>3 DEF B
<1> QED BY <1>2, <1>3, <1>4, RehashedOK DEF astring_table_pack, m, B

\* A table is doubled step by step.
LEMMA EnlargingGoes ==
  ASSUME NEW t, NEW s, Doublings(s) \in Nat
  PROVE  \E G : /\ Enlarging(t, s) = G
                /\ G[0] = t
                /\ \A i \in 1 .. Doublings(s) : G[i] = Twice(G[i - 1], s)
<1> DEFINE N == Doublings(s)
           Rule(f, m) == f = [i \in 0 .. m |-> IF i = 0 THEN t ELSE Twice(f[i - 1], s)]
           Failed == {m \in 0 .. N : ~ \E f : Rule(f, m)}
           G == CHOOSE f : f = [i \in 0 .. N |-> IF i = 0 THEN t ELSE Twice(f[i - 1], s)]
<1>0. N \in Nat /\ N >= 0
  OBVIOUS
<1>1. \E f : Rule(f, 0)
  <2> DEFINE f == [i \in 0 .. 0 |-> t]
  <2>1. Rule(f, 0)
    OBVIOUS
  <2> QED BY <2>1
<1>2. ASSUME NEW m \in 1 .. N, \E f : Rule(f, m - 1) PROVE \E f : Rule(f, m)
  <2>1. PICK f : Rule(f, m - 1)
    BY <1>2
  <2> DEFINE g == [i \in 0 .. m |-> IF i = m THEN Twice(f[m - 1], s) ELSE f[i]]
  <2> HIDE DEF N
  <2>2. m \in Nat /\ m - 1 \in 0 .. m - 1 /\ m \in 0 .. m /\ m # 0
    BY <1>0
  <2>3. ASSUME NEW i \in 0 .. m PROVE g[i] = (IF i = 0 THEN t ELSE Twice(g[i - 1], s))
    <3>1. CASE i = m
      <4>1. g[m - 1] = f[m - 1]
        BY <2>2
      <4>2. g[m] = Twice(f[m - 1], s)
        BY <2>2
      <4> QED BY <2>2, <3>1, <4>1, <4>2
    <3>2. CASE i # m
      <4>1. i \in 0 .. m - 1 /\ g[i] = f[i] /\ (i # 0 => i - 1 \in 0 .. m /\ i - 1 # m)
        BY <2>2, <3>2
      <4>2. i # 0 => g[i - 1] = f[i - 1]
        BY <4>1
      <4>3. f[i] = (IF i = 0 THEN t ELSE Twice(f[i - 1], s))
        BY <2>1, <4>1
      <4> QED BY <4>1, <4>2, <4>3
    <3> QED BY <3>1, <3>2
  <2>4. DOMAIN g = 0 .. m
    OBVIOUS
  <2>5. g = [i \in 0 .. m |-> g[i]]
    OBVIOUS
  <2> HIDE DEF g
  <2>6. Rule(g, m)
    BY <2>3, <2>5
  <2> QED BY <2>6
<1>3. Failed = {}
  <2> SUFFICES ASSUME Failed # {} PROVE FALSE
    OBVIOUS
  <2> HIDE DEF Rule, N
  <2>1. PICK m \in Failed : \A y \in Failed : m <= y
    <3>1. Failed \subseteq Nat
      BY <1>0
    <3> QED BY <3>1, Least
  <2>2. m \in 1 .. N
    BY <1>0, <1>1, <2>1
  <2>3. m - 1 \in 0 .. N /\ m - 1 \notin Failed
    BY <1>0, <2>1, <2>2
  <2> QED BY <1>2, <2>1, <2>2, <2>3
<1>4. \E f : Rule(f, N)
  <2> HIDE DEF Rule, N
  <2> QED BY <1>0, <1>3
<1>5. G = [i \in 0 .. N |-> IF i = 0 THEN t ELSE Twice(G[i - 1], s)]
  <2> HIDE DEF N
  <2> QED BY <1>4, Zenon
<1>6. Enlarging(t, s) = G
  BY Zenon DEF Enlarging
<1>7. /\ G[0] = t
      /\ \A i \in 1 .. N : G[i] = Twice(G[i - 1], s)
  <2> HIDE DEF G, N
  <2>1. 0 \in 0 .. N /\ \A i \in 1 .. N : i \in 0 .. N /\ i # 0
    BY <1>0
  <2> QED BY <1>5, <2>1
<1> HIDE DEF G
<1> QED BY <1>6, <1>7

-----------------------------------------------------------------------------
\* How far a slot is behind that of a hash.
LEMMA DistType ==
  ASSUME NEW n \in Nat \ {0}, NEW h \in Nat, NEW i \in 0 .. n - 1
  PROVE  (i - h) % n \in Nat
<1>1. i - h \in Int
  OBVIOUS
<1>2. (i - h) % n \in 0 .. n - 1
  BY <1>1, IntDivMod
<1> QED BY <1>2

\* A search ends at the string or at the first empty slot.
LEMMA ProbeIs ==
  ASSUME NEW t, TableOK(t), NEW s \in Strings
  PROVE  /\ Probe(t, s) \in Stops(t, s)
         /\ \A j \in Stops(t, s) : (Probe(t, s) - HashOf[s]) % t.n <= (j - HashOf[s]) % t.n
<1> DEFINE h == HashOf[s]
           dist(i) == (i - h) % t.n
           T == {dist(i) : i \in Stops(t, s)}
<1>1. t.n \in Nat \ {0} /\ h \in Nat
  BY StringTableAssumption DEF TableOK, Tables
<1>2. \A i \in 0 .. t.n - 1 : dist(i) \in Nat
  <2> HIDE DEF h
  <2> QED BY <1>1, DistType, Zenon
<1>3. \E i \in 0 .. t.n - 1 : t.slots[i] = 0
  <2>1. /\ Placed(t.slots, t.n, t.text, Refs(t)) /\ Texts(t) /\ count(t) < t.n
    BY DEF TableOK, Spacious
  <2> QED BY <1>1, <2>1, CountIs, HasEmpty
<1> HIDE DEF dist
<1>4. Stops(t, s) \subseteq 0 .. t.n - 1 /\ Stops(t, s) # {}
  BY <1>3 DEF Stops
<1>5. T \subseteq Nat /\ T # {}
  BY <1>2, <1>4
<1>6. PICK m \in T : \A y \in T : m <= y
  BY <1>5, Least
<1>7. \E i \in Stops(t, s) : \A j \in Stops(t, s) : dist(i) <= dist(j)
  <2>1. PICK i \in Stops(t, s) : dist(i) = m
    BY <1>6
  <2>2. \A j \in Stops(t, s) : dist(i) <= dist(j)
    BY <1>6, <2>1
  <2> QED BY <2>1, <2>2
<1> QED BY <1>7, Zenon DEF Probe, dist, h

\* A string in the table is found under its reference.
LEMMA ProbeFinds ==
  ASSUME NEW t, TableOK(t), NEW r \in Refs(t)
  PROVE  t.slots[Probe(t, t.text[r])] = r
<1> DEFINE s == t.text[r]
           p == Probe(t, s)
           dist(i) == (i - HashOf[s]) % t.n
<1>1. s \in Strings /\ t.n \in Nat \ {0} /\ HashOf[s] \in Nat
  BY StringTableAssumption DEF TableOK, Texts, Tables
<1>2. PICK i \in 0 .. t.n - 1 : /\ t.slots[i] = r
        /\ \A j \in 0 .. t.n - 1 : t.slots[j] = 0 => dist(i) <= dist(j)
  BY DEF TableOK, Placed
<1>3. i \in Stops(t, s)
  BY <1>2 DEF Stops
<1>4. p \in Stops(t, s) /\ dist(p) <= dist(i)
  BY <1>1, <1>3, ProbeIs
<1> HIDE DEF p, s
<1>5. p \in 0 .. t.n - 1 /\ (t.slots[p] = 0 \/ t.text[t.slots[p]] = s)
  BY <1>4 DEF Stops
<1>6. CASE t.slots[p] = 0
  <2>2. dist(p) \in Nat /\ dist(i) \in Nat
    BY <1>1, <1>5, DistType, Zenon
  <2>3. dist(p) = dist(i)
    <3>1. dist(i) <= dist(p)
      BY <1>2, <1>5, <1>6
    <3> HIDE DEF dist
    <3> QED BY <1>4, <2>2, <3>1
  <2>4. p = i
    BY <1>1, <1>5, <2>3, DistInjective
  <2> QED BY <1>2, <2>4 DEF p, s
<1>7. CASE t.slots[p] # 0
  <2>1. t.slots[p] \in Refs(t) /\ t.text[t.slots[p]] = t.text[r]
    BY <1>5, <1>7 DEF TableOK, Placed, s
  <2>2. t.slots[p] = r
    BY <2>1 DEF TableOK, Texts
  <2> QED BY <2>2 DEF p, s
<1> QED BY <1>6, <1>7

\* The search for a string that is not there ends at an empty slot.
LEMMA ProbeMisses ==
  ASSUME NEW t, TableOK(t), NEW s \in Strings, \A r \in Refs(t) : t.text[r] # s
  PROVE  /\ Probe(t, s) \in 0 .. t.n - 1 /\ t.slots[Probe(t, s)] = 0
         /\ \A j \in 0 .. t.n - 1 : t.slots[j] = 0 =>
              (Probe(t, s) - HashOf[s]) % t.n <= (j - HashOf[s]) % t.n
<1> DEFINE p == Probe(t, s)
<1>1. /\ p \in Stops(t, s)
      /\ \A j \in Stops(t, s) : (p - HashOf[s]) % t.n <= (j - HashOf[s]) % t.n
  BY ProbeIs
<1> HIDE DEF p
<1>2. p \in 0 .. t.n - 1 /\ (t.slots[p] = 0 \/ t.text[t.slots[p]] = s)
  BY <1>1 DEF Stops
<1>3. t.slots[p] \in Refs(t) \cup {0}
  BY <1>2 DEF TableOK, Placed
<1>4. t.slots[p] = 0
  BY <1>2, <1>3
<1>5. \A j \in 0 .. t.n - 1 : t.slots[j] = 0 => j \in Stops(t, s)
  BY DEF Stops
<1> QED BY <1>1, <1>2, <1>4, <1>5 DEF p

\* So what is interned is what is there.
LEMMA InternedIs ==
  ASSUME NEW t, TableOK(t), NEW s \in Strings
  PROVE  Interned(t, s) <=> \E r \in Refs(t) : t.text[r] = s
<1>1. ASSUME NEW r \in Refs(t), t.text[r] = s PROVE Interned(t, s)
  <2>1. t.slots[Probe(t, s)] = r
    BY <1>1, ProbeFinds
  <2> QED BY <2>1 DEF Interned, Refs
<1>2. ASSUME \A r \in Refs(t) : t.text[r] # s PROVE ~Interned(t, s)
  <2>1. t.slots[Probe(t, s)] = 0
    BY <1>2, ProbeMisses
  <2> QED BY <2>1, StringTableAssumption DEF Interned
<1> QED BY <1>1, <1>2

\* A string that fits becomes one of the table.
LEMMA InsertedOK ==
  ASSUME NEW t, TableOK(t), NEW s \in Strings, ~Interned(t, s), ~IsFull(t, s)
  PROVE  /\ TableOK(Inserted(t, s))
         /\ Inserted(t, s).text = [r \in DOMAIN t.text \cup {t.used} |->
                                     IF r = t.used THEN s ELSE t.text[r]]
         /\ t.used \notin DOMAIN t.text /\ t.used # 0
<1> DEFINE new == t.used
           text == [r \in DOMAIN t.text \cup {new} |-> IF r = new THEN s ELSE t.text[r]]
           slots == [t.slots EXCEPT ![Probe(t, s)] = new]
           u == Inserted(t, s)
           used == new + ENTRY + StrLen[s]
<1>1. /\ t \in Tables /\ Texts(t) /\ Spacious(t) /\ Placed(t.slots, t.n, t.text, Refs(t))
      /\ t.n \in Nat \ {0} /\ new \in Nat /\ StrLen[s] \in Nat /\ HashOf[s] \in Nat
  BY StringTableAssumption DEF TableOK, Tables
<1>2. new \notin DOMAIN t.text /\ new # 0
  BY <1>1 DEF Texts
<1>3. \A r \in Refs(t) : t.text[r] # s
  BY InternedIs
<1>4. u = [bytes |-> t.bytes, n |-> t.n, slots |-> slots, text |-> text, used |-> used]
  <2>1. t = [bytes |-> t.bytes, n |-> t.n, slots |-> t.slots, text |-> t.text, used |-> t.used]
    BY <1>1 DEF Tables
  <2>2. u = [t EXCEPT !.slots[Probe(t, s)] = new, !.text = text, !.used = used]
    <3>1. [t EXCEPT !.used = @ + ENTRY + StrLen[s]] = [t EXCEPT !.used = used]
      OBVIOUS
    <3> QED BY DEF Inserted
  <2>3. [t EXCEPT !.slots[Probe(t, s)] = new] = [t EXCEPT !.slots = slots]
    OBVIOUS
  <2> HIDE DEF u, text, used, slots, new
  <2> QED BY <2>1, <2>2, <2>3
<1> HIDE DEF u
<1>5. u.bytes = t.bytes /\ u.n = t.n /\ u.slots = slots /\ u.text = text /\ u.used = used
  BY <1>4
<1>6. DOMAIN text = DOMAIN t.text \cup {new} /\ Refs(u) = Refs(t) \cup {new}
      /\ text[new] = s /\ \A r \in Refs(t) : text[r] = t.text[r]
  BY <1>2, <1>5 DEF Refs
<1>7. Placed(slots, t.n, text, Refs(u))
  <2>1. Placed(t.slots, t.n, text, Refs(t))
    <3> HIDE DEF text
    <3> QED BY <1>1, <1>6 DEF Placed
  <2>2. \E i \in 0 .. t.n - 1 : t.slots[i] = 0
    BY <1>3, ProbeMisses
  <2>3. Refs(t) \in SUBSET (Nat \ {0}) /\ new \in Nat \ {0} /\ new \notin Refs(t)
    BY <1>1, <1>2, CountIs DEF Refs
  <2>4. HashOf[text[new]] \in Nat
    BY <1>1, <1>6
  <2> HIDE DEF text
  <2>5. Placed(Put(t.slots, t.n, new, text[new]), t.n, text, Refs(t) \cup {new})
    BY <1>1, <2>1, <2>2, <2>3, <2>4, PutPlaces
  <2>6. Probe(t, s) = FirstEmpty(t.slots, t.n, HashOf[s])
    <3> DEFINE p == Probe(t, s)
               e == FirstEmpty(t.slots, t.n, HashOf[s])
               dist(i) == (i - HashOf[s]) % t.n
    <3>1. /\ p \in 0 .. t.n - 1 /\ t.slots[p] = 0
          /\ \A j \in 0 .. t.n - 1 : t.slots[j] = 0 => dist(p) <= dist(j)
      BY <1>3, ProbeMisses
    <3>2. /\ e \in 0 .. t.n - 1 /\ t.slots[e] = 0
          /\ \A j \in 0 .. t.n - 1 : t.slots[j] = 0 => dist(e) <= dist(j)
      <4>1. t.slots \in [0 .. t.n - 1 -> Nat]
        BY <1>1 DEF Placed
      <4> QED BY <1>1, <2>2, <4>1, FirstEmptyIs
    <3> HIDE DEF p, e
    <3>3. dist(p) \in Nat /\ dist(e) \in Nat
      BY <1>1, <3>1, <3>2, DistType, Zenon
    <3>4. dist(p) <= dist(e) /\ dist(e) <= dist(p)
      BY <3>1, <3>2
    <3>5. dist(p) = dist(e)
      <4> HIDE DEF dist
      <4> QED BY <3>3, <3>4
    <3>6. p = e
      BY <1>1, <3>1, <3>2, <3>5, DistInjective
    <3> QED BY <3>6 DEF p, e
  <2> QED BY <1>6, <2>5, <2>6 DEF Put
<1>8. u \in Tables
  <2>1. slots \in UNION {[0 .. m - 1 -> Nat] : m \in Nat}
    <3>1. slots \in [0 .. t.n - 1 -> Nat]
      BY <1>7 DEF Placed
    <3> QED BY <1>1, <3>1
  <2>2. text \in UNION {[D -> Strings \cup {EMPTY}] : D \in SUBSET Nat}
    <3> DEFINE D == DOMAIN t.text \cup {new}
    <3>1. \A r \in DOMAIN t.text : t.text[r] \in Strings \cup {EMPTY}
      BY <1>1 DEF Texts, Refs
    <3>2. text \in [D -> Strings \cup {EMPTY}]
      BY <3>1
    <3>3. D \in SUBSET Nat
      BY <1>1 DEF Texts
    <3> HIDE DEF D, text
    <3> QED BY <3>2, <3>3
  <2>3. used \in Nat
    BY <1>1 DEF ENTRY
  <2>4. t.bytes \in Nat
    BY <1>1 DEF Tables
  <2> HIDE DEF slots, text, used
  <2> QED BY <1>1, <1>4, <2>1, <2>2, <2>3, <2>4 DEF Tables
<1>9. IsFiniteSet(DOMAIN text) /\ Cardinality(DOMAIN text) = Cardinality(DOMAIN t.text) + 1
  BY <1>1, <1>2, <1>6, FS_AddElement DEF Texts
<1>10. count(u) = count(t) + 1
  <2>1. count(t) \in Nat /\ count(t) = Cardinality(DOMAIN t.text) - 1
    BY <1>1 DEF Spacious, count
  <2>2. Cardinality(DOMAIN t.text) \in Nat
    BY <1>1, FS_CardinalityType DEF Texts
  <2> QED BY <1>5, <1>9, <2>1, <2>2 DEF count
<1>11. Texts(u)
  <2>1. \A r \in DOMAIN text : r \in Nat /\ r < used
    <3>1. new < used
      BY <1>1 DEF ENTRY
    <3>2. \A r \in DOMAIN t.text : r \in Nat /\ r < new
      BY <1>1 DEF Texts
    <3>3. used \in Nat
      BY <1>1 DEF ENTRY
    <3> HIDE DEF used
    <3> QED BY <1>1, <1>6, <3>1, <3>2, <3>3
  <2>2. 0 \in DOMAIN text /\ text[0] = EMPTY
    BY <1>1, <1>2 DEF Texts
  <2> HIDE DEF text, used
  <2>3. \A r \in Refs(t) : text[r] \in Strings /\ text[r] # s
    BY <1>1, <1>3, <1>6 DEF Texts
  <2>4. \A r, x \in Refs(t) : text[r] = text[x] => r = x
    BY <1>1, <1>6 DEF Texts
  <2>5. \A r \in Refs(u) : u.text[r] \in Strings
    BY <1>5, <1>6, <2>3
  <2>6. \A r, x \in Refs(u) : u.text[r] = u.text[x] => r = x
    BY <1>5, <1>6, <2>3, <2>4
  <2> QED BY <1>5, <1>9, <2>1, <2>2, <2>5, <2>6 DEF Texts
<1>12. Spacious(u)
  <2>1. ~(count(t) + 1 >= t.n) /\ ~(t.used + ENTRY + StrLen[s] > t.bytes - HEADER - t.n * SLOT)
    BY DEF IsFull
  <2>2. count(t) \in Nat /\ t.bytes \in Nat
    BY <1>1 DEF Spacious, Tables
  <2> QED BY <1>1, <1>5, <1>10, <2>1, <2>2 DEF Spacious, HEADER, SLOT, ENTRY
<1> QED BY <1>2, <1>5, <1>7, <1>8, <1>11, <1>12 DEF TableOK, u

\* The slots for c strings of u bytes in X bytes: two for each string and one more,
\* and at most two in 21 bytes.
LEMMA SlotsEnough ==
  ASSUME NEW u \in Nat \ {0}, NEW c \in Nat \ {0}, NEW X \in Nat, 2 * u + 42 * c <= X
  PROVE  /\ (2 * X * c) \div (u + c * 21) \in Nat
         /\ 2 * (c + 1) <= (2 * X * c) \div (u + c * 21)
         /\ 21 * ((2 * X * c) \div (u + c * 21)) <= 2 * X
<1> DEFINE d == u + c * 21
           Q == (2 * X * c) \div d
<1>1. d \in Nat \ {0} /\ 2 * X * c \in Nat /\ 2 * d <= X
  OBVIOUS
<1> HIDE DEF d
<1>2. Q \in Nat /\ d * Q <= 2 * X * c /\ 2 * X * c < d * (Q + 1)
  <2> DEFINE a == 2 * X * c
  <2>1. a \in Nat
    BY <1>1
  <2> HIDE DEF a
  <2>2. a \div d \in Nat /\ d * (a \div d) <= a /\ a < d * (a \div d + 1)
    BY <1>1, <2>1
  <2> QED BY <2>2 DEF a
<1> HIDE DEF Q
<1>3. 2 * (c + 1) <= Q
  <2> SUFFICES ASSUME Q + 1 <= 2 * (c + 1) PROVE FALSE
    BY <1>2
  <2>1. d * (Q + 1) <= d * (2 * (c + 1))
    BY <1>1, <1>2
  <2>2. (2 * d) * (c + 1) <= (2 * d) * (2 * c)
    BY <1>1
  <2>3. (2 * d) * (2 * c) <= X * (2 * c)
    BY <1>1
  <2>4. d * (2 * (c + 1)) = (2 * d) * (c + 1) /\ X * (2 * c) = 2 * X * c
    BY <1>1
  <2>5. d * (Q + 1) \in Int /\ d * (2 * (c + 1)) \in Int /\ (2 * d) * (2 * c) \in Int /\ 2 * X * c \in Int
    BY <1>1, <1>2
  <2> DEFINE p == d * (Q + 1)
             q == d * (2 * (c + 1))
             r == (2 * d) * (2 * c)
             z == 2 * X * c
  <2>6. p \in Int /\ q \in Int /\ r \in Int /\ z \in Int /\ p <= q /\ q <= r /\ r <= z /\ z < p
    BY <1>2, <2>1, <2>2, <2>3, <2>4, <2>5
  <2> HIDE DEF p, q, r, z
  <2> QED BY <2>6
<1>4. 21 * Q <= 2 * X
  <2> SUFFICES ASSUME 2 * X + 1 <= 21 * Q PROVE FALSE
    BY <1>2
  <2>1. c * (2 * X + 1) <= c * (21 * Q)
    BY <1>2
  <2>2. (c * 21) * Q <= d * Q
    <3>1. c * 21 <= d /\ c * 21 \in Nat
      BY DEF d
    <3> QED BY <1>1, <1>2, <3>1
  <2>3. c * (2 * X + 1) = 2 * X * c + c /\ c * (21 * Q) = (c * 21) * Q
    BY <1>2
  <2> DEFINE p == c * (21 * Q)
             q == d * Q
             z == 2 * X * c
  <2>4. p \in Int /\ q \in Int /\ z \in Int /\ z + c <= p /\ p <= q /\ q <= z
    BY <1>1, <1>2, <2>1, <2>2, <2>3
  <2> HIDE DEF p, q, z
  <2> QED BY <2>4
<1> QED BY <1>2, <1>3, <1>4 DEF Q, d

\* A table that was doubled often enough is not full.
LEMMA GrownEnough ==
  ASSUME NEW t, TableOK(t), NEW s \in Strings, NEW B \in Nat,
         HEADER + t.n * SLOT + t.used <= t.bytes, 40 + 8 * count(t) + t.used <= B,
         (StrLen[s] \div 8 + 6) * B <= t.bytes
  PROVE  ~IsFull(astring_table_grow(t, 2 * t.bytes), s)
<1> DEFINE b == t.bytes
           c == count(t)
           u == t.used
           X == 2 * b - 32
           q == StrLen[s] \div 8
           m == recompute_num_hash_slots(t, 2 * b)
           k == IF c > 0 THEN SlotsFor(2 * b, u, c) ELSE SlotsFor(2 * b, 15, 1)
           v == astring_table_grow(t, 2 * b)
<1>1. /\ b \in Nat /\ c \in Nat /\ u \in Nat \ {0} /\ t.n \in Nat \ {0} /\ c < t.n
      /\ 32 + 8 * t.n + u <= b /\ StrLen[s] \in Nat
  <2>1. t \in Tables /\ Texts(t) /\ Spacious(t)
    BY DEF TableOK
  <2>2. b \in Nat /\ c \in Nat /\ u \in Nat /\ t.n \in Nat \ {0} /\ c < t.n
    BY <2>1 DEF Tables, Spacious
  <2>3. 0 < u
    BY <2>1 DEF Texts
  <2>4. StrLen[s] \in Nat
    BY StringTableAssumption
  <2> QED BY <2>2, <2>3, <2>4 DEF HEADER, SLOT
<1>2. q \in Nat /\ StrLen[s] <= 8 * q + 7
  BY <1>1
<1>3. 40 + 8 * c + u <= B
  OBVIOUS
<1>4. 6 * B + 40 * q <= b
  <2>1. (q + 6) * B <= b /\ (q + 6) * B = 6 * B + q * B
    BY <1>2
  <2>2. 40 * q <= B * q
    <3>1. 40 <= B
      BY <1>1, <1>3
    <3> QED BY <1>2, <3>1
  <2>3. q * B = B * q /\ B * q \in Nat
    BY <1>2
  <2> DEFINE y == B * q
  <2>4. y \in Nat /\ 40 * q <= y /\ (q + 6) * B = 6 * B + y
    BY <2>1, <2>2, <2>3
  <2> HIDE DEF y, q, b
  <2> QED BY <1>1, <1>2, <2>1, <2>4
<1>5. v.bytes = 2 * b /\ v.n = m /\ v.used = u /\ count(v) = c
  <2>1. t = [bytes |-> t.bytes, n |-> t.n, slots |-> t.slots, text |-> t.text, used |-> t.used]
    BY DEF TableOK, Tables
  <2>2. v = [t EXCEPT !.bytes = 2 * b, !.n = m, !.slots = rebuild_hash_table(t, m)]
    BY DEF astring_table_grow, Rehashed
  <2> HIDE DEF v, b, m, u
  <2>3. v.bytes = 2 * b /\ v.n = m /\ v.used = t.used /\ v.text = t.text
    BY <2>1, <2>2
  <2> QED BY <2>3 DEF count, u
<1>6. m = MaxOf(t.n, k)
  BY DEF recompute_num_hash_slots
<1> HIDE DEF v, m
<1>7. k \in Nat /\ 2 * (c + 1) <= k /\ 21 * k <= 2 * X
  <2> HIDE DEF b, c, u, q
  <2>1. X \in Nat /\ 2 * u + 42 * c <= X /\ 36 <= X
    BY <1>1, <1>2, <1>3, <1>4
  <2>2. CASE c > 0
    <3>1. k = (2 * X * c) \div (u + c * 21)
      BY <2>2 DEF SlotsFor, HASH_FACTOR, HEADER, ENTRY, SLOT
    <3>2. c \in Nat \ {0}
      BY <1>1, <2>2
    <3> HIDE DEF k, X
    <3> QED BY <1>1, <2>1, <3>1, <3>2, SlotsEnough
  <2>3. CASE ~(c > 0)
    <3>1. k = (2 * X * 1) \div (15 + 1 * 21)
      BY <2>3 DEF SlotsFor, HASH_FACTOR, HEADER, ENTRY, SLOT
    <3>2. k = (2 * X) \div 36
      BY <2>1, <3>1
    <3> HIDE DEF k, X
    <3>3. k \in Nat /\ 36 * k <= 2 * X /\ 2 <= k
      BY <2>1, <3>2
    <3>4. c = 0
      BY <1>1, <2>3
    <3> QED BY <2>1, <3>3, <3>4
  <2> QED BY <2>2, <2>3
<1>8. m \in Nat /\ 2 * (c + 1) <= m /\ u + 5 + StrLen[s] <= 2 * b - 32 - 8 * m
  <2> HIDE DEF b, c, u, q, k
  <2>1. 12 + 8 * q + u <= 2 * b - 32 - 8 * k
    BY <1>1, <1>2, <1>3, <1>4, <1>7
  <2>2. 12 + 8 * q + u <= 2 * b - 32 - 8 * t.n
    BY <1>1, <1>2, <1>3, <1>4
  <2>3. (m = t.n /\ t.n >= k) \/ m = k
    BY <1>6 DEF MaxOf
  <2> QED BY <1>1, <1>2, <1>7, <2>1, <2>2, <2>3
<1> HIDE DEF b, c, u, q, k
<1>9. ~(c + 1 >= m) /\ ~(m < 2 * (c + 1)) /\ ~(u + 5 + StrLen[s] > 2 * b - 32 - m * 8)
  BY <1>1, <1>8
<1> QED BY <1>5, <1>9 DEF IsFull, HASH_FACTOR, HEADER, SLOT, ENTRY, v, b

\* However often it is doubled, the table holds the same strings; after all doublings
\* it answers.
LEMMA EnlargedAnswers ==
  ASSUME NEW t, TableOK(t), NEW s \in Strings \cup {EMPTY}
  PROVE  /\ TableOK(RoomFor(t, s)) /\ RoomFor(t, s).text = t.text
         /\ Answers(RoomFor(t, s), s)
<1> DEFINE D == Doublings(s)
<1>1. D \in Nat
  <2>1. CASE s = EMPTY
    BY <2>1 DEF Doublings
  <2>2. CASE s # EMPTY
    <3>1. StrLen[s] \in Nat
      BY <2>2, StringTableAssumption
    <3>2. StrLen[s] \div 8 \in Nat
      BY <3>1
    <3> QED BY <2>2, <3>2 DEF Doublings
  <2> QED BY <2>1, <2>2
<1>2. PICK G : /\ Enlarging(t, s) = G
               /\ G[0] = t
               /\ \A i \in 1 .. D : G[i] = Twice(G[i - 1], s)
  BY <1>1, EnlargingGoes
<1>3. RoomFor(t, s) = G[D]
  BY <1>2 DEF RoomFor
<1> HIDE DEF D
<1> DEFINE Same(i) == TableOK(G[i]) /\ G[i].text = t.text
<1>4. \A i \in 0 .. D : Same(i)
  <2> DEFINE Failed == {i \in 0 .. D : ~Same(i)}
  <2> SUFFICES ASSUME Failed # {} PROVE FALSE
    OBVIOUS
  <2>0. Same(0)
    BY <1>2
  <2>1. ASSUME NEW i \in 1 .. D, Same(i - 1) PROVE Same(i)
    <3>1. G[i] = Twice(G[i - 1], s)
      BY <1>2
    <3>2. /\ TableOK(astring_table_grow(G[i - 1], 2 * G[i - 1].bytes))
          /\ astring_table_grow(G[i - 1], 2 * G[i - 1].bytes).text = G[i - 1].text
      BY <2>1, GrownOK
    <3> QED BY <2>1, <3>1, <3>2 DEF Twice
  <2> HIDE DEF Same
  <2>2. PICK i \in Failed : \A y \in Failed : i <= y
    <3>1. Failed \subseteq Nat
      BY <1>1
    <3> QED BY <3>1, Least
  <2>3. i \in 1 .. D
    BY <1>1, <2>0, <2>2
  <2>4. i - 1 \in 0 .. D /\ i - 1 \notin Failed
    BY <1>1, <2>2, <2>3
  <2> QED BY <2>1, <2>2, <2>3, <2>4
<1>5. Answers(G[D], s)
  <2> SUFFICES ASSUME ~Answers(G[D], s) PROVE FALSE
    OBVIOUS
  <2>1. s \in Strings
    BY DEF Answers, Interned
  <2> DEFINE B == 40 + 8 * count(t) + t.used
             Big(i) == G[i].used = t.used /\ (i + 1) * B <= G[i].bytes
  <2>2. t.used \in Nat /\ count(t) \in Nat /\ B \in Nat
    BY DEF TableOK, Tables, Spacious
  <2>3. D \in Nat \ {0} /\ D = StrLen[s] \div 8 + 6
    <3>1. StrLen[s] \in Nat
      BY <2>1, StringTableAssumption
    <3>2. StrLen[s] \div 8 \in Nat
      BY <3>1
    <3>3. s # EMPTY
      BY <2>1, StringTableAssumption
    <3> QED BY <3>2, <3>3 DEF D, Doublings
  <2>4. \A i \in 0 .. D - 1 : ~Answers(G[i], s)
    <3> DEFINE Failed == {k \in 0 .. D : Answers(G[D - k], s)}
    <3>1. PICK i \in 0 .. D - 1 : Answers(G[i], s) \/ Failed = {}
      <4>1. CASE Failed = {}
        <5>1. 0 \in 0 .. D - 1
          BY <2>3
        <5> QED BY <4>1, <5>1
      <4>2. CASE Failed # {}
        <5>1. PICK k \in Failed : TRUE
          BY <4>2
        <5>2. D - k \in 0 .. D - 1
          <6>1. k # 0
            BY <2>3, <5>1
          <6> QED BY <2>3, <5>1, <6>1
        <5> QED BY <5>1, <5>2
      <4> QED BY <4>1, <4>2
    <3>2. Failed = {}
      <4> SUFFICES ASSUME Failed # {} PROVE FALSE
        OBVIOUS
      <4>1. PICK k \in Failed : \A y \in Failed : k <= y
        <5>1. Failed \subseteq Nat
          BY <2>3
        <5> QED BY <5>1, Least
      <4>2. k \in 1 .. D
        <5>1. k # 0
          BY <2>3, <4>1
        <5> QED BY <2>3, <4>1, <5>1
      <4>3. D - k + 1 \in 1 .. D /\ (D - k + 1) - 1 = D - k
        BY <2>3, <4>2
      <4>4. G[D - k + 1] = Twice(G[D - k], s)
        BY <1>2, <4>3
      <4>5. G[D - k + 1] = G[D - k]
        BY <4>1, <4>4 DEF Twice
      <4>6. k - 1 \in Failed
        <5>1. k - 1 \in 0 .. D /\ D - (k - 1) = D - k + 1
          BY <2>3, <4>2
        <5> QED BY <4>1, <4>5, <5>1
      <4> QED BY <2>3, <4>1, <4>2, <4>6
    <3>3. ASSUME NEW j \in 0 .. D - 1, Answers(G[j], s) PROVE FALSE
      <4>1. D - j \in 0 .. D /\ D - (D - j) = j
        BY <2>3
      <4> QED BY <3>2, <3>3, <4>1
    <3> QED BY <3>3
  <2>5. \A i \in 1 .. D : G[i] = astring_table_grow(G[i - 1], 2 * G[i - 1].bytes)
    <3> TAKE i \in 1 .. D
    <3>1. i - 1 \in 0 .. D - 1
      BY <2>3
    <3> QED BY <1>2, <2>4, <3>1 DEF Twice
  <2>6. \A i \in 0 .. D - 1 : Big(i)
    <3> DEFINE Failed == {i \in 0 .. D - 1 : ~Big(i)}
    <3> SUFFICES ASSUME Failed # {} PROVE FALSE
      OBVIOUS
    <3>1. Big(0)
      <4>1. t.n \in Nat /\ count(t) + 1 <= t.n /\ HEADER + t.n * SLOT + t.used <= t.bytes
            /\ t.bytes \in Nat
        BY <2>2 DEF TableOK, Spacious, Tables
      <4>2. 40 + 8 * count(t) + t.used <= t.bytes
        BY <2>2, <4>1 DEF HEADER, SLOT
      <4> QED BY <1>2, <2>2, <4>2
    <3>2. ASSUME NEW i \in 1 .. D - 1, Big(i - 1) PROVE Big(i)
      <4> DEFINE p == G[i - 1]
      <4>1. i \in 1 .. D /\ i - 1 \in 0 .. D /\ i \in Nat \ {0}
        BY <2>3
      <4>2. G[i] = astring_table_grow(p, 2 * p.bytes)
        BY <2>5, <4>1
      <4>3. TableOK(p)
        BY <1>4, <4>1
      <4>4. G[i].used = p.used /\ G[i].bytes = 2 * p.bytes
        <5>1. p = [bytes |-> p.bytes, n |-> p.n, slots |-> p.slots, text |-> p.text, used |-> p.used]
          BY <4>3 DEF TableOK, Tables
        <5> HIDE DEF p
        <5>2. G[i] = [p EXCEPT !.bytes = 2 * p.bytes, !.n = recompute_num_hash_slots(p, 2 * p.bytes),
                        !.slots = rebuild_hash_table(p, recompute_num_hash_slots(p, 2 * p.bytes))]
          BY <4>2 DEF astring_table_grow, Rehashed
        <5> QED BY <5>1, <5>2
      <4>5. p.bytes \in Nat /\ i * B <= p.bytes /\ p.used = t.used
        <5>1. p.bytes \in Nat
          BY <4>3 DEF TableOK, Tables
        <5>2. (i - 1) + 1 = i
          BY <4>1
        <5> QED BY <3>2, <5>1, <5>2
      <4>6. (i + 1) * B <= 2 * p.bytes
        <5> HIDE DEF B, p
        <5>1. (i + 1) * B <= (2 * i) * B
          BY <2>2, <4>1
        <5>2. (2 * i) * B = 2 * (i * B) /\ i * B \in Nat /\ (i + 1) * B \in Nat
          BY <2>2, <4>1
        <5> DEFINE x == i * B
                   y == (i + 1) * B
        <5>3. x \in Nat /\ y \in Nat /\ y <= 2 * x /\ x <= p.bytes
          BY <4>5, <5>1, <5>2
        <5> HIDE DEF x, y
        <5>4. y <= 2 * p.bytes
          BY <4>5, <5>3
        <5> QED BY <5>4 DEF y
      <4> QED BY <4>4, <4>5, <4>6
    <3> HIDE DEF Big
    <3>3. PICK i \in Failed : \A y \in Failed : i <= y
      <4>1. Failed \subseteq Nat
        BY <2>3
      <4> QED BY <4>1, Least
    <3>4. i \in 1 .. D - 1
      BY <2>3, <3>1, <3>3
    <3>5. i - 1 \in 0 .. D - 1 /\ i - 1 \notin Failed
      BY <2>3, <3>3, <3>4
    <3> QED BY <3>2, <3>3, <3>4, <3>5
  <2> DEFINE p == G[D - 1]
  <2>7. D - 1 \in 0 .. D - 1 /\ D - 1 \in 0 .. D /\ (D - 1) + 1 = D /\ D \in 1 .. D
    BY <2>3
  <2>8. TableOK(p) /\ p.text = t.text /\ p.used = t.used /\ D * B <= p.bytes
    BY <1>4, <2>6, <2>7
  <2>9. G[D] = astring_table_grow(p, 2 * p.bytes)
    BY <2>5, <2>7
  <2>10. count(p) = count(t)
    BY <2>8 DEF count
  <2>11. HEADER + p.n * SLOT + p.used <= p.bytes
    BY <2>8 DEF TableOK, Spacious
  <2>12. 40 + 8 * count(p) + p.used <= B
    BY <2>2, <2>8, <2>10
  <2> HIDE DEF p, B
  <2>13. ~IsFull(G[D], s)
    BY <2>1, <2>2, <2>3, <2>8, <2>9, <2>11, <2>12, GrownEnough
  <2> QED BY <2>13 DEF Answers
<1> HIDE DEF Same
<1>6. Same(D)
  BY <1>1, <1>4
<1> QED BY <1>3, <1>5, <1>6 DEF Same

\* A table that has all strings of another, under the references they have there.
Extends(t, u) ==
  \A r \in DOMAIN t.text : r \in DOMAIN u.text /\ u.text[r] = t.text[r]

\* The string was interned.
HasText(t, s) == \E r \in DOMAIN t.text : t.text[r] = s

\* Interning gives a table with the string, and every reference means what it meant.
LEMMA AsmTableOK ==
  ASSUME NEW t, TableOK(t), NEW s \in Strings \cup {EMPTY}
  PROVE  TableOK(AsmTable(t, s)) /\ Extends(t, AsmTable(t, s)) /\ HasText(AsmTable(t, s), s)
<1> DEFINE u == RoomFor(t, s)
<1>1. TableOK(u) /\ u.text = t.text /\ Answers(u, s)
  BY EnlargedAnswers
<1>2. AsmTable(t, s) = WithString(u, s)
  BY DEF AsmTable
<1> HIDE DEF u
<1>3. CASE s = EMPTY
  <2>1. WithString(u, s) = u
    BY <1>3 DEF WithString, Interned
  <2>2. 0 \in DOMAIN u.text /\ u.text[0] = EMPTY
    BY <1>1 DEF TableOK, Texts
  <2> QED BY <1>1, <1>2, <1>3, <2>1, <2>2 DEF Extends, HasText
<1>4. CASE s # EMPTY /\ Interned(u, s)
  <2>1. WithString(u, s) = u
    BY <1>4 DEF WithString
  <2>2. \E r \in Refs(u) : u.text[r] = s
    BY <1>1, <1>4, InternedIs
  <2> QED BY <1>1, <1>2, <2>1, <2>2 DEF Extends, HasText, Refs
<1>5. CASE s # EMPTY /\ ~Interned(u, s)
  <2>1. WithString(u, s) = Inserted(u, s) /\ s \in Strings /\ ~IsFull(u, s)
    BY <1>1, <1>5 DEF WithString, Answers
  <2>2. /\ TableOK(Inserted(u, s))
        /\ Inserted(u, s).text = [r \in DOMAIN u.text \cup {u.used} |->
                                    IF r = u.used THEN s ELSE u.text[r]]
        /\ u.used \notin DOMAIN u.text
    BY <1>1, <1>5, <2>1, InsertedOK
  <2>3. Extends(t, Inserted(u, s)) /\ HasText(Inserted(u, s), s)
    BY <1>1, <2>2 DEF Extends, HasText
  <2> QED BY <1>2, <2>1, <2>2, <2>3
<1> QED BY <1>3, <1>4, <1>5

\* A string that the table has is found under its reference.
LEMMA RefIs ==
  ASSUME NEW t, TableOK(t), NEW s \in Strings \cup {EMPTY}, HasText(t, s)
  PROVE  /\ astring_table_to_ref(t, s) \in DOMAIN t.text
         /\ t.text[astring_table_to_ref(t, s)] = s
<1>1. 0 \in DOMAIN t.text /\ t.text[0] = EMPTY
  BY DEF TableOK, Texts
<1>2. CASE s = EMPTY
  BY <1>1, <1>2 DEF astring_table_to_ref
<1>3. CASE s # EMPTY
  <2>1. PICK r \in Refs(t) : t.text[r] = s
    BY <1>1, <1>3 DEF HasText, Refs
  <2>2. astring_table_to_ref(t, s) = r
    BY <1>3, <2>1, ProbeFinds DEF astring_table_to_ref
  <2> QED BY <2>1, <2>2 DEF Refs
<1> QED BY <1>2, <1>3

-----------------------------------------------------------------------------
\* The slots of an assembler, and those nested in one.
SlotsIn(a) == 0 .. Len(a.slots) - 1
Kids(a, s) == At(a, s).nesteds

\* Every slot but the root is nested exactly once, in one that was made before.
Tree(a) ==
  /\ Len(a.slots) \in Nat \ {0}
  /\ \A s \in SlotsIn(a) : Kids(a, s) \in Seq(SlotsIn(a))
  /\ \A s \in SlotsIn(a) : \A k \in DOMAIN Kids(a, s) : s < Kids(a, s)[k]
  /\ \A s, t \in SlotsIn(a) : \A k \in DOMAIN Kids(a, s), l \in DOMAIN Kids(a, t) :
       Kids(a, s)[k] = Kids(a, t)[l] => s = t /\ k = l
  /\ \A c \in SlotsIn(a) \ {0} :
       \E s \in SlotsIn(a) : \E k \in DOMAIN Kids(a, s) : Kids(a, s)[k] = c

\* The walk: its visits, whether a slot is among them, whether each is there
\* once, and which slots a state of the walk knows.
Visits(a) == [slot : SlotsIn(a), level : Nat]
In(q, c) == \E i \in DOMAIN q : q[i].slot = c
Once(q) == \A i, j \in DOMAIN q : q[i].slot = q[j].slot => i = j
Reached(w, c) == In(w.seen, c) \/ In(w.todo, c)

\* A state of the walk: no slot twice; what is nested in a slot that was seen is seen
\* or to do; what is seen or to do is nested in one that was seen.
Walked(a, w) ==
  /\ w.seen \in Seq(Visits(a)) /\ w.todo \in Seq(Visits(a))
  /\ Once(w.seen) /\ Once(w.todo)
  /\ \A c \in SlotsIn(a) : ~(In(w.seen, c) /\ In(w.todo, c))
  /\ Reached(w, 0)
  /\ \A s \in SlotsIn(a) : In(w.seen, s) =>
       \A k \in DOMAIN Kids(a, s) : Reached(w, Kids(a, s)[k])
  /\ \A c \in SlotsIn(a) \ {0} : Reached(w, c) =>
       \E s \in SlotsIn(a) : In(w.seen, s) /\ \E k \in DOMAIN Kids(a, s) : Kids(a, s)[k] = c

\* The levels: no visit is more than one level below the one before it.
Levelled(w) ==
  /\ \A i, j \in DOMAIN w.todo : i < j => w.todo[j].level <= w.todo[i].level
  /\ IF w.seen = <<>> THEN w.todo = <<[slot |-> 0, level |-> 0]>>
     ELSE /\ w.seen[1] = [slot |-> 0, level |-> 0]
          /\ \A k \in 2 .. Len(w.seen) :
               1 <= w.seen[k].level /\ w.seen[k].level <= w.seen[k - 1].level + 1
          /\ \A j \in DOMAIN w.todo :
               1 <= w.todo[j].level /\ w.todo[j].level <= w.seen[Len(w.seen)].level + 1

\* A step of the walk: the first that is to do is seen, and what is nested in it is
\* to do next.
LEMMA FurtherIs ==
  ASSUME NEW a, Tree(a), NEW w, Walked(a, w), w.todo # <<>>
  PROVE  LET v == Head(w.todo)
             n == Further(a, w)
             m == Len(Kids(a, v.slot))
         IN  /\ v \in Visits(a) /\ v = w.todo[1] /\ ~In(w.seen, v.slot)
             /\ n.seen \in Seq(Visits(a)) /\ n.todo \in Seq(Visits(a))
             /\ Len(n.seen) = Len(w.seen) + 1 /\ n.seen[Len(w.seen) + 1] = v
             /\ \A i \in 1 .. Len(w.seen) : n.seen[i] = w.seen[i]
             /\ m \in Nat /\ Len(n.todo) = m + Len(w.todo) - 1
             /\ \A i \in 1 .. m : n.todo[i] = [slot |-> Kids(a, v.slot)[i], level |-> v.level + 1]
             /\ \A i \in m + 1 .. Len(n.todo) : n.todo[i] = w.todo[i - m + 1]
<1> DEFINE V == Visits(a)
           v == Head(w.todo)
           n == Further(a, w)
           kids == Kids(a, v.slot)
           m == Len(kids)
           x == Within(a, v)
           y == Tail(w.todo)
<1>1. w.seen \in Seq(V) /\ w.todo \in Seq(V)
  BY DEF Walked
<1>2. /\ v \in V /\ v = w.todo[1] /\ y \in Seq(V) /\ Len(y) = Len(w.todo) - 1
      /\ \A i \in 1 .. Len(y) : y[i] = w.todo[i + 1]
  <2>1. Head(w.todo) = w.todo[1]
    OBVIOUS
  <2> HIDE DEF V
  <2> QED BY <1>1, <2>1, HeadTailProperties
<1>3. Len(w.seen) \in Nat /\ Len(w.todo) \in Nat \ {0} /\ DOMAIN w.todo = 1 .. Len(w.todo)
  BY <1>1, LenProperties, EmptySeq
<1>4. v.slot \in SlotsIn(a) /\ v.level \in Nat
  BY <1>2 DEF Visits
<1>5. kids \in Seq(SlotsIn(a)) /\ m \in Nat /\ DOMAIN kids = 1 .. m
  <2>1. kids \in Seq(SlotsIn(a))
    BY <1>4 DEF Tree
  <2> QED BY <2>1, LenProperties
<1>6. x = [i \in 1 .. m |-> [slot |-> kids[i], level |-> v.level + 1]]
  BY <1>5 DEF Within, Kids
<1>7. x \in Seq(V) /\ Len(x) = m
  <2>1. \A i \in 1 .. m : kids[i] \in SlotsIn(a)
    BY <1>5, ElementOfSeq
  <2>2. \A i \in 1 .. m : [slot |-> kids[i], level |-> v.level + 1] \in V
    BY <1>4, <2>1 DEF Visits
  <2> HIDE DEF V, kids, m, v
  <2>3. x \in [1 .. m -> V]
    BY <1>6, <2>2
  <2> HIDE DEF x
  <2> QED BY <1>5, <2>3
<1>8. n = [seen |-> Append(w.seen, v), todo |-> x \o y]
  BY DEF Further
<1>9. /\ x \o y \in Seq(V) /\ Len(x \o y) = m + Len(y)
      /\ \A i \in 1 .. m + Len(y) : (x \o y)[i] = IF i <= m THEN x[i] ELSE y[i - m]
  <2> HIDE DEF V, x, y, m
  <2> QED BY <1>2, <1>7, ConcatProperties
<1>10. /\ Append(w.seen, v) \in Seq(V) /\ Len(Append(w.seen, v)) = Len(w.seen) + 1
       /\ \A i \in 1 .. Len(w.seen) : Append(w.seen, v)[i] = w.seen[i]
       /\ Append(w.seen, v)[Len(w.seen) + 1] = v
  <2> HIDE DEF V, v
  <2> QED BY <1>1, <1>2, AppendProperties
<1>11. ~In(w.seen, v.slot)
  <2>1. In(w.todo, v.slot)
    BY <1>2, <1>3 DEF In
  <2> QED BY <1>4, <2>1 DEF Walked
<1> DEFINE se == Append(w.seen, v)
           td == x \o y
<1>12. n.seen = se /\ n.todo = td
  <2> HIDE DEF x, y, v, n
  <2> QED BY <1>8
<1>13. \A i \in 1 .. m : td[i] = [slot |-> kids[i], level |-> v.level + 1]
  <2>1. \A i \in 1 .. m : x[i] = [slot |-> kids[i], level |-> v.level + 1]
    BY <1>6
  <2>2. \A i \in 1 .. m : i \in 1 .. m + Len(y) /\ i <= m
    <3> DEFINE ly == Len(y)
    <3>1. ly \in Nat
      BY <1>2, <1>3
    <3> HIDE DEF m, ly
    <3> QED BY <1>5, <3>1 DEF ly
  <2> HIDE DEF td, x, m, kids, v, y
  <2> QED BY <1>9, <2>1, <2>2 DEF td
<1>14. \A i \in m + 1 .. m + Len(y) : td[i] = w.todo[i - m + 1]
  <2> HIDE DEF td, x, m, kids, v, y
  <2> TAKE i \in m + 1 .. m + Len(y)
  <2>1. i \in 1 .. m + Len(y) /\ ~(i <= m) /\ i - m \in 1 .. Len(y) /\ (i - m) + 1 = i - m + 1
    BY <1>2, <1>3, <1>5
  <2>2. td[i] = y[i - m]
    BY <1>9, <2>1 DEF td
  <2> QED BY <1>2, <2>1, <2>2
<1>15. Len(td) = m + Len(w.todo) - 1 /\ Len(td) = m + Len(y)
  <2> HIDE DEF x, m, kids, v, y, td
  <2> QED BY <1>2, <1>3, <1>5, <1>9 DEF td
<1> HIDE DEF x, y, se, td
<1> QED BY <1>2, <1>5, <1>9, <1>10, <1>11, <1>12, <1>13, <1>14, <1>15 DEF se, td

\* Which slots are seen and to do after a step.
LEMMA FurtherMembers ==
  ASSUME NEW a, Tree(a), NEW w, Walked(a, w), w.todo # <<>>
  PROVE  LET v == Head(w.todo)
             n == Further(a, w)
         IN  /\ \A c : In(n.seen, c) <=> In(w.seen, c) \/ c = v.slot
             /\ \A c : In(n.todo, c) <=>
                  (\E k \in DOMAIN Kids(a, v.slot) : Kids(a, v.slot)[k] = c)
                    \/ (In(w.todo, c) /\ c # v.slot)
<1> DEFINE v == Head(w.todo)
           n == Further(a, w)
           kids == Kids(a, v.slot)
           m == Len(kids)
           ls == Len(w.seen)
           lt == Len(w.todo)
<1>1. /\ v \in Visits(a) /\ v = w.todo[1] /\ ~In(w.seen, v.slot)
      /\ n.seen \in Seq(Visits(a)) /\ n.todo \in Seq(Visits(a))
      /\ Len(n.seen) = ls + 1 /\ n.seen[ls + 1] = v
      /\ \A i \in 1 .. ls : n.seen[i] = w.seen[i]
      /\ m \in Nat /\ Len(n.todo) = m + lt - 1
      /\ \A i \in 1 .. m : n.todo[i] = [slot |-> kids[i], level |-> v.level + 1]
      /\ \A i \in m + 1 .. Len(n.todo) : n.todo[i] = w.todo[i - m + 1]
  BY FurtherIs
<1>2. /\ ls \in Nat /\ lt \in Nat \ {0} /\ DOMAIN w.seen = 1 .. ls /\ DOMAIN w.todo = 1 .. lt
      /\ \A i, j \in DOMAIN w.todo : w.todo[i].slot = w.todo[j].slot => i = j
  BY LenProperties, EmptySeq DEF Walked, Once
<1>3. DOMAIN n.seen = 1 .. ls + 1 /\ DOMAIN n.todo = 1 .. m + lt - 1
  BY <1>1, LenProperties
<1>4. DOMAIN kids = 1 .. m
  <2>1. v.slot \in SlotsIn(a)
    BY <1>1 DEF Visits
  <2>2. kids \in Seq(SlotsIn(a))
    BY <2>1 DEF Tree
  <2> QED BY <2>2, LenProperties
<1> DEFINE ns == n.seen
           nt == n.todo
           ws == w.seen
           wt == w.todo
<1>5. /\ DOMAIN ns = 1 .. ls + 1 /\ ns[ls + 1] = v /\ \A i \in 1 .. ls : ns[i] = ws[i]
      /\ DOMAIN nt = 1 .. m + lt - 1
      /\ \A i \in 1 .. m : nt[i].slot = kids[i]
      /\ \A i \in m + 1 .. m + lt - 1 : nt[i] = wt[i - m + 1]
      /\ v = wt[1]
  <2>1. \A i \in 1 .. m : [slot |-> kids[i], level |-> v.level + 1].slot = kids[i]
    OBVIOUS
  <2> HIDE DEF v, n, kids, m, ls, lt, ws, wt
  <2> QED BY <1>1, <1>3, <2>1 DEF wt, ws
<1> HIDE DEF v, n, kids, m, ls, lt, ns, nt, ws, wt
<1>6. ASSUME NEW c PROVE In(ns, c) <=> In(ws, c) \/ c = v.slot
  <2>1. ASSUME NEW i \in DOMAIN ns, ns[i].slot = c PROVE In(ws, c) \/ c = v.slot
    <3>1. i = ls + 1 \/ i \in 1 .. ls
      BY <1>2, <1>5
    <3> QED BY <1>2, <1>5, <2>1, <3>1 DEF In, ws
  <2>2. ASSUME NEW i \in DOMAIN ws, ws[i].slot = c PROVE In(ns, c)
    <3>1. i \in 1 .. ls /\ i \in DOMAIN ns
      BY <1>2, <1>5 DEF ws
    <3>2. ns[i].slot = c
      BY <1>5, <2>2, <3>1
    <3> QED BY <3>1, <3>2 DEF In
  <2>3. In(ns, v.slot)
    <3>1. ls + 1 \in DOMAIN ns
      BY <1>2, <1>5
    <3> QED BY <1>5, <3>1 DEF In
  <2> QED BY <2>1, <2>2, <2>3 DEF In
<1>7. ASSUME NEW c
      PROVE  In(nt, c) <=> (\E k \in DOMAIN kids : kids[k] = c) \/ (In(wt, c) /\ c # v.slot)
  <2>1. ASSUME NEW i \in DOMAIN nt, nt[i].slot = c
        PROVE  (\E k \in DOMAIN kids : kids[k] = c) \/ (In(wt, c) /\ c # v.slot)
    <3>1. CASE i \in 1 .. m
      BY <1>4, <1>5, <2>1, <3>1
    <3>2. CASE i \notin 1 .. m
      <4>1. i \in m + 1 .. m + lt - 1
        BY <1>1, <1>2, <1>5, <3>2
      <4>2. i - m + 1 \in 2 .. lt /\ i - m + 1 \in DOMAIN wt /\ 1 \in DOMAIN wt
        BY <1>1, <1>2, <4>1 DEF wt
      <4>3. wt[i - m + 1].slot = c
        BY <1>5, <2>1, <4>1
      <4>4. wt[i - m + 1].slot # wt[1].slot
        BY <1>2, <4>2 DEF wt
      <4> QED BY <1>5, <4>2, <4>3, <4>4 DEF In
    <3> QED BY <3>1, <3>2
  <2>2. ASSUME NEW k \in DOMAIN kids, kids[k] = c PROVE In(nt, c)
    <3>1. k \in 1 .. m /\ k \in DOMAIN nt
      BY <1>1, <1>2, <1>4, <1>5
    <3> QED BY <1>5, <2>2, <3>1 DEF In
  <2>3. ASSUME NEW j \in DOMAIN wt, wt[j].slot = c, c # v.slot PROVE In(nt, c)
    <3>1. j \in 2 .. lt
      BY <1>2, <1>5, <2>3 DEF wt
    <3>2. j + m - 1 \in m + 1 .. m + lt - 1 /\ (j + m - 1) - m + 1 = j /\ j + m - 1 \in DOMAIN nt
      <4>1. m \in Nat /\ lt \in Nat \ {0}
        BY <1>1, <1>2
      <4>2. j + m - 1 \in m + 1 .. m + lt - 1 /\ (j + m - 1) - m + 1 = j /\ j + m - 1 \in 1 .. m + lt - 1
        BY <3>1, <4>1
      <4> QED BY <1>5, <4>2
    <3>3. nt[j + m - 1] = wt[j]
      BY <1>5, <3>2
    <3> QED BY <2>3, <3>2, <3>3 DEF In
  <2> QED BY <2>1, <2>2, <2>3 DEF In
<1> QED BY <1>6, <1>7 DEF v, n, kids, ns, nt, ws, wt

\* A step keeps the walk in order.
LEMMA FurtherWalked ==
  ASSUME NEW a, Tree(a), NEW w, Walked(a, w), w.todo # <<>>
  PROVE  Walked(a, Further(a, w))
<1> DEFINE v == Head(w.todo)
           n == Further(a, w)
           kids == Kids(a, v.slot)
           m == Len(kids)
           ls == Len(w.seen)
           lt == Len(w.todo)
           ns == n.seen
           nt == n.todo
           ws == w.seen
           wt == w.todo
           S == SlotsIn(a)
<1>1. /\ v \in Visits(a) /\ v = wt[1] /\ ~In(ws, v.slot)
      /\ ns \in Seq(Visits(a)) /\ nt \in Seq(Visits(a))
      /\ Len(ns) = ls + 1 /\ ns[ls + 1] = v
      /\ \A i \in 1 .. ls : ns[i] = ws[i]
      /\ m \in Nat /\ Len(nt) = m + lt - 1
      /\ \A i \in 1 .. m : nt[i] = [slot |-> kids[i], level |-> v.level + 1]
      /\ \A i \in m + 1 .. Len(nt) : nt[i] = wt[i - m + 1]
  BY FurtherIs
<1>2. /\ ls \in Nat /\ lt \in Nat \ {0} /\ DOMAIN ws = 1 .. ls /\ DOMAIN wt = 1 .. lt
  BY LenProperties, EmptySeq DEF Walked
<1>3. DOMAIN ns = 1 .. ls + 1 /\ DOMAIN nt = 1 .. m + lt - 1
  BY <1>1, LenProperties
<1>4. /\ \A c : In(ns, c) <=> In(ws, c) \/ c = v.slot
      /\ \A c : In(nt, c) <=> (\E k \in DOMAIN kids : kids[k] = c) \/ (In(wt, c) /\ c # v.slot)
  BY FurtherMembers
<1>5. v.slot \in S
  BY <1>1 DEF Visits
<1>6. kids \in Seq(S) /\ DOMAIN kids = 1 .. m /\ \A k \in DOMAIN kids : kids[k] \in S
  <2>1. kids \in Seq(S)
    BY <1>5 DEF Tree
  <2> QED BY <2>1, LenProperties
<1>7. \A k, l \in DOMAIN kids : kids[k] = kids[l] => k = l
  BY <1>5 DEF Tree
<1>8. \A k \in DOMAIN kids : v.slot < kids[k]
  BY <1>5 DEF Tree
<1>9. S \subseteq Nat
  BY DEF SlotsIn
<1>10. /\ Once(ws) /\ Once(wt)
       /\ \A c \in S : ~(In(ws, c) /\ In(wt, c))
       /\ In(ws, 0) \/ In(wt, 0)
       /\ \A s \in S : In(ws, s) =>
            \A k \in DOMAIN Kids(a, s) : In(ws, Kids(a, s)[k]) \/ In(wt, Kids(a, s)[k])
       /\ \A c \in S \ {0} : In(ws, c) \/ In(wt, c) =>
            \E s \in S : In(ws, s) /\ \E k \in DOMAIN Kids(a, s) : Kids(a, s)[k] = c
  BY DEF Walked, Reached
<1>11. \A s, t \in S : \A k \in DOMAIN Kids(a, s), l \in DOMAIN Kids(a, t) :
         Kids(a, s)[k] = Kids(a, t)[l] => s = t /\ k = l
  BY DEF Tree
<1>12. kids = Kids(a, v.slot)
  OBVIOUS
<1>13. \A i \in 1 .. m : nt[i].slot = kids[i]
  <2>1. \A i \in 1 .. m : [slot |-> kids[i], level |-> v.level + 1].slot = kids[i]
    OBVIOUS
  <2> HIDE DEF v, n, kids, m, nt
  <2> QED BY <1>1, <2>1
<1> HIDE DEF v, n, kids, m, ls, lt, ns, nt, ws, wt, S
\* what is nested in v is new
<1>14. \A k \in DOMAIN kids : ~In(ws, kids[k]) /\ ~In(wt, kids[k]) /\ kids[k] # v.slot
  <2> TAKE k \in DOMAIN kids
  <2>1. kids[k] \in S \ {0} /\ kids[k] # v.slot
    <3>1. kids[k] \in S /\ kids[k] \in Nat /\ v.slot \in Nat /\ v.slot < kids[k]
      BY <1>5, <1>6, <1>8, <1>9
    <3> QED BY <3>1
  <2>2. ASSUME In(ws, kids[k]) \/ In(wt, kids[k]) PROVE FALSE
    <3>1. PICK s \in S : In(ws, s) /\ \E l \in DOMAIN Kids(a, s) : Kids(a, s)[l] = kids[k]
      BY <1>10, <2>1, <2>2
    <3>2. s = v.slot
      BY <1>5, <1>11, <1>12, <3>1
    <3> QED BY <1>1, <3>1, <3>2
  <2> QED BY <2>1, <2>2
<1>15. Once(ns)
  <2> SUFFICES ASSUME NEW i \in DOMAIN ns, NEW j \in DOMAIN ns, ns[i].slot = ns[j].slot PROVE i = j
    BY DEF Once
  <2>1. \A x \in DOMAIN ns : x = ls + 1 \/ (x \in 1 .. ls /\ x \in DOMAIN ws /\ ns[x] = ws[x] /\ In(ws, ns[x].slot))
    <3> TAKE x \in DOMAIN ns
    <3>1. x = ls + 1 \/ x \in 1 .. ls
      BY <1>2, <1>3
    <3>2. ASSUME x \in 1 .. ls PROVE x \in DOMAIN ws /\ ns[x] = ws[x] /\ In(ws, ns[x].slot)
      BY <1>1, <1>2, <3>2 DEF In
    <3> QED BY <3>1, <3>2
  <2>2. CASE i = ls + 1 \/ j = ls + 1
    BY <1>1, <2>1, <2>2
  <2>3. CASE i \in DOMAIN ws /\ j \in DOMAIN ws /\ ns[i] = ws[i] /\ ns[j] = ws[j]
    BY <1>10, <2>3 DEF Once
  <2> QED BY <2>1, <2>2, <2>3
<1>16. Once(nt)
  <2> SUFFICES ASSUME NEW i \in DOMAIN nt, NEW j \in DOMAIN nt, nt[i].slot = nt[j].slot PROVE i = j
    BY DEF Once
  <2>1. \A x \in DOMAIN nt :
          \/ x \in 1 .. m /\ x \in DOMAIN kids /\ nt[x].slot = kids[x]
          \/ /\ x \in m + 1 .. m + lt - 1 /\ x - m + 1 \in DOMAIN wt /\ nt[x] = wt[x - m + 1]
             /\ In(wt, nt[x].slot)
    <3> TAKE x \in DOMAIN nt
    <3>1. x \in 1 .. m \/ x \in m + 1 .. m + lt - 1
      BY <1>1, <1>2, <1>3
    <3>2. CASE x \in 1 .. m
      BY <1>6, <1>13, <3>2
    <3>3. CASE x \in m + 1 .. m + lt - 1
      <4>1. x - m + 1 \in DOMAIN wt
        <5>1. m \in Int /\ lt \in Int /\ DOMAIN wt = 1 .. lt
          BY <1>1, <1>2
        <5> QED BY ONLY <3>3, <5>1
      <4>2. nt[x] = wt[x - m + 1]
        BY <1>1, <3>3
      <4>3. In(wt, nt[x].slot)
        BY <4>1, <4>2 DEF In
      <4> QED BY <3>3, <4>1, <4>2, <4>3, Zenon
    <3> QED BY ONLY <3>1, <3>2, <3>3, Zenon
  <2>2. CASE i \in DOMAIN kids /\ nt[i].slot = kids[i] /\ j \in DOMAIN kids /\ nt[j].slot = kids[j]
    BY <1>7, <2>2
  <2>3. CASE i \in DOMAIN kids /\ nt[i].slot = kids[i] /\ In(wt, nt[j].slot)
    BY <1>14, <2>3
  <2>4. CASE j \in DOMAIN kids /\ nt[j].slot = kids[j] /\ In(wt, nt[i].slot)
    BY <1>14, <2>4
  <2>5. CASE /\ i \in m + 1 .. m + lt - 1 /\ i - m + 1 \in DOMAIN wt /\ nt[i] = wt[i - m + 1]
             /\ j \in m + 1 .. m + lt - 1 /\ j - m + 1 \in DOMAIN wt /\ nt[j] = wt[j - m + 1]
    <3>1. i - m + 1 = j - m + 1
      BY <1>10, <2>5 DEF Once
    <3>2. i \in Int /\ j \in Int /\ m \in Int
      BY <1>1, <1>2, <2>5
    <3> QED BY ONLY <3>1, <3>2
  <2> QED BY <2>1, <2>2, <2>3, <2>4, <2>5
<1>17. \A c \in S : ~(In(ns, c) /\ In(nt, c))
  BY <1>1, <1>4, <1>10, <1>14
<1>18. In(wt, v.slot)
  <2>1. 1 \in DOMAIN wt
    BY <1>2
  <2> QED BY <1>1, <2>1 DEF In
<1>19. \A c : (In(ws, c) \/ In(wt, c)) => (In(ns, c) \/ In(nt, c))
  BY <1>4
<1>20. \A s \in S : In(ns, s) =>
         \A k \in DOMAIN Kids(a, s) : In(ns, Kids(a, s)[k]) \/ In(nt, Kids(a, s)[k])
  BY <1>4, <1>10, <1>12, <1>19
<1>21. ASSUME NEW c \in S \ {0}, In(ns, c) \/ In(nt, c)
       PROVE  \E s \in S : In(ns, s) /\ \E k \in DOMAIN Kids(a, s) : Kids(a, s)[k] = c
  <2>1. CASE \E k \in DOMAIN kids : kids[k] = c
    BY <1>4, <1>5, <1>12, <2>1
  <2>2. CASE In(ws, c) \/ In(wt, c)
    BY <1>4, <1>10, <2>2
  <2> QED BY <1>4, <1>18, <1>21, <2>1, <2>2
<1> QED BY <1>1, <1>10, <1>15, <1>16, <1>17, <1>19, <1>20, <1>21 DEF Walked, Reached, n, ns, nt, S, ws, wt

\* A step keeps the levels.
LEMMA FurtherLevelled ==
  ASSUME NEW a, Tree(a), NEW w, Walked(a, w), w.todo # <<>>, Levelled(w)
  PROVE  Levelled(Further(a, w)) /\ Further(a, w).seen # <<>>
<1> DEFINE v == Head(w.todo)
           n == Further(a, w)
           kids == Kids(a, v.slot)
           m == Len(kids)
           ls == Len(w.seen)
           lt == Len(w.todo)
           ns == n.seen
           nt == n.todo
           ws == w.seen
           wt == w.todo
<1>1. /\ v \in Visits(a) /\ v = wt[1] /\ ~In(ws, v.slot)
      /\ ns \in Seq(Visits(a)) /\ nt \in Seq(Visits(a))
      /\ Len(ns) = ls + 1 /\ ns[ls + 1] = v
      /\ \A i \in 1 .. ls : ns[i] = ws[i]
      /\ m \in Nat /\ Len(nt) = m + lt - 1
      /\ \A i \in 1 .. m : nt[i] = [slot |-> kids[i], level |-> v.level + 1]
      /\ \A i \in m + 1 .. Len(nt) : nt[i] = wt[i - m + 1]
  BY FurtherIs
<1>2. /\ ls \in Nat /\ lt \in Nat \ {0} /\ DOMAIN ws = 1 .. ls /\ DOMAIN wt = 1 .. lt
      /\ (ws = <<>> <=> ls = 0)
      /\ \A i \in DOMAIN wt : wt[i].level \in Nat
      /\ \A i \in DOMAIN ws : ws[i].level \in Nat
  <2>1. ws \in Seq(Visits(a)) /\ wt \in Seq(Visits(a))
    BY DEF Walked
  <2>2. ls \in Nat /\ lt \in Nat \ {0} /\ DOMAIN ws = 1 .. ls /\ DOMAIN wt = 1 .. lt
        /\ (ws = <<>> <=> ls = 0)
    BY <2>1, LenProperties, EmptySeq
  <2>3. \A x \in Visits(a) : x.level \in Nat
    BY DEF Visits
  <2>4. (\A i \in DOMAIN wt : wt[i] \in Visits(a)) /\ (\A i \in DOMAIN ws : ws[i] \in Visits(a))
    <3> HIDE DEF ws, wt
    <3> QED BY <2>1, <2>2, ElementOfSeq
  <2> HIDE DEF ws, wt, ls, lt
  <2> QED BY <2>2, <2>3, <2>4
<1>3. DOMAIN ns = 1 .. ls + 1 /\ DOMAIN nt = 1 .. m + lt - 1
  BY <1>1, LenProperties
<1>4. \A i, j \in DOMAIN wt : i < j => wt[j].level <= wt[i].level
  BY DEF Levelled
<1>5. CASE ws = <<>> 
  <2>1. wt = <<[slot |-> 0, level |-> 0]>>
    BY <1>5 DEF Levelled
  <2>2. v = [slot |-> 0, level |-> 0] /\ lt = 1 /\ ls = 0
    BY <1>1, <1>2, <1>5, <2>1
  <2>3. \A i \in 1 .. m : nt[i].level = 1
    <3>1. \A i \in 1 .. m : [slot |-> kids[i], level |-> v.level + 1].level = 1
      BY <2>2
    <3> HIDE DEF nt, m, v, kids
    <3> QED BY <1>1, <3>1
  <2> HIDE DEF v, n, kids, m, ls, lt, ns, nt, ws, wt
  <2>4. DOMAIN nt = 1 .. m /\ Len(ns) = 1 /\ ns[1] = [slot |-> 0, level |-> 0]
    BY <1>1, <1>2, <1>3, <2>2
  <2>5. \A j \in DOMAIN nt : nt[j].level = 1
    BY <2>3, <2>4
  <2>6. ns # <<>> /\ ns[Len(ns)].level = 0
    <3>1. ns # <<>>
      BY <2>4, EmptySeq
    <3>2. [slot |-> 0, level |-> 0].level = 0
      OBVIOUS
    <3> QED BY <2>4, <3>1, <3>2
  <2> QED BY <2>4, <2>5, <2>6 DEF Levelled, n, ns, nt
<1>6. CASE ws # <<>>
  <2>1. /\ ws[1] = [slot |-> 0, level |-> 0]
        /\ \A k \in 2 .. ls : 1 <= ws[k].level /\ ws[k].level <= ws[k - 1].level + 1
        /\ \A j \in DOMAIN wt : 1 <= wt[j].level /\ wt[j].level <= ws[ls].level + 1
    BY <1>6 DEF Levelled
  <2>2. \A i \in 1 .. m : nt[i].level = v.level + 1
    <3>1. \A i \in 1 .. m : [slot |-> kids[i], level |-> v.level + 1].level = v.level + 1
      OBVIOUS
    <3> HIDE DEF nt, m, v, kids
    <3> QED BY <1>1, <3>1
  <2> HIDE DEF v, n, kids, m, ls, lt, ns, nt, ws, wt
  <2>3. 1 \in DOMAIN wt /\ ls >= 1 /\ v.level \in Nat /\ 1 <= v.level /\ v.level <= ws[ls].level + 1
    BY <1>1, <1>2, <1>6, <2>1
  <2>4. \A x \in DOMAIN nt : \/ x \in 1 .. m /\ nt[x].level = v.level + 1
                             \/ /\ x \in m + 1 .. m + lt - 1 /\ x - m + 1 \in DOMAIN wt
                                /\ nt[x].level = wt[x - m + 1].level /\ 1 < x - m + 1
    <3> TAKE x \in DOMAIN nt
    <3>1. x \in 1 .. m \/ x \in m + 1 .. m + lt - 1
      BY <1>1, <1>2, <1>3
    <3>2. CASE x \in 1 .. m
      BY <2>2, <3>2
    <3>3. CASE x \in m + 1 .. m + lt - 1
      <4>1. x - m + 1 \in DOMAIN wt /\ 1 < x - m + 1
        BY <1>1, <1>2, <3>3
      <4>2. nt[x] = wt[x - m + 1]
        BY <1>1, <3>3
      <4> QED BY <3>3, <4>1, <4>2
    <3> QED BY <3>1, <3>2, <3>3
  <2>5. \A x \in DOMAIN wt : 1 < x => wt[x].level <= v.level
    BY <1>1, <1>4, <2>3
  <2>6. ASSUME NEW i \in DOMAIN nt, NEW j \in DOMAIN nt, i < j
        PROVE  nt[j].level <= nt[i].level
    <3>1. CASE i \in 1 .. m /\ nt[i].level = v.level + 1
      <4>1. CASE j \in 1 .. m /\ nt[j].level = v.level + 1
        BY <2>3, <3>1, <4>1
      <4>2. CASE j - m + 1 \in DOMAIN wt /\ nt[j].level = wt[j - m + 1].level /\ 1 < j - m + 1
        <5>1. wt[j - m + 1].level \in Nat /\ wt[j - m + 1].level <= v.level
          BY <1>2, <2>5, <4>2
        <5> QED BY <2>3, <3>1, <4>2, <5>1
      <4> QED BY <2>4, <4>1, <4>2
    <3>2. CASE /\ i \in m + 1 .. m + lt - 1 /\ i - m + 1 \in DOMAIN wt
               /\ nt[i].level = wt[i - m + 1].level
      <4>1. j \in m + 1 .. m + lt - 1
        BY <1>1, <1>2, <1>3, <2>6, <3>2
      <4>2. j - m + 1 \in DOMAIN wt /\ nt[j].level = wt[j - m + 1].level
        BY <1>1, <2>4, <4>1
      <4>3. i - m + 1 < j - m + 1
        BY <1>1, <1>2, <2>6, <3>2, <4>1
      <4> QED BY <1>4, <3>2, <4>2, <4>3
    <3> QED BY <2>4, <3>1, <3>2
  <2>7. ASSUME NEW j \in DOMAIN nt PROVE 1 <= nt[j].level /\ nt[j].level <= v.level + 1
    <3>1. CASE nt[j].level = v.level + 1
      BY <2>3, <3>1
    <3>2. CASE j - m + 1 \in DOMAIN wt /\ nt[j].level = wt[j - m + 1].level /\ 1 < j - m + 1
      <4>1. wt[j - m + 1].level \in Nat /\ wt[j - m + 1].level <= v.level /\ 1 <= wt[j - m + 1].level
        BY <1>2, <2>1, <2>5, <3>2
      <4> QED BY <2>3, <3>2, <4>1
    <3> QED BY <2>4, <3>1, <3>2
  <2>8. ASSUME NEW k \in 2 .. ls + 1 PROVE 1 <= ns[k].level /\ ns[k].level <= ns[k - 1].level + 1
    <3>1. CASE k = ls + 1
      <4>1. ls \in 1 .. ls /\ k - 1 = ls
        BY <1>2, <2>3, <3>1
      <4> QED BY <1>1, <2>3, <3>1, <4>1
    <3>2. CASE k # ls + 1
      <4>1. k \in 2 .. ls /\ k \in 1 .. ls /\ k - 1 \in 1 .. ls
        BY <1>2, <3>2
      <4> QED BY <1>1, <2>1, <4>1
    <3> QED BY <3>1, <3>2
  <2>9. ns[1] = [slot |-> 0, level |-> 0]
    <3>1. 1 \in 1 .. ls
      BY <1>2, <2>3
    <3> QED BY <1>1, <2>1, <3>1
  <2>10. ns # <<>> /\ Len(ns) = ls + 1 /\ ns[Len(ns)] = v
    <3>1. Len(ns) # 0
      BY <1>1, <1>2
    <3> QED BY <1>1, <3>1, EmptySeq
  <2> QED BY <2>6, <2>7, <2>8, <2>9, <2>10 DEF Levelled, n, ns, nt
<1> QED BY <1>5, <1>6

\* The walk goes step by step.
LEMMA WalkGoes ==
  ASSUME NEW a, Len(a.slots) \in Nat
  PROVE  \E G : /\ Walk(a) = G
                /\ G[0] = [seen |-> <<>>, todo |-> <<[slot |-> 0, level |-> 0]>>]
                /\ \A i \in 1 .. Len(a.slots) : G[i] = Further(a, G[i - 1])
<1> DEFINE N == Len(a.slots)
           Rule(f, m) == f = [i \in 0 .. m |-> IF i = 0 THEN [seen |-> <<>>, todo |-> <<[slot |-> 0, level |-> 0]>>] ELSE Further(a, f[i - 1])]
           Failed == {m \in 0 .. N : ~ \E f : Rule(f, m)}
           G == CHOOSE f : f = [i \in 0 .. N |-> IF i = 0 THEN [seen |-> <<>>, todo |-> <<[slot |-> 0, level |-> 0]>>] ELSE Further(a, f[i - 1])]
<1>0. N \in Nat /\ N >= 0
  OBVIOUS
<1>1. \E f : Rule(f, 0)
  <2> DEFINE f == [i \in 0 .. 0 |-> [seen |-> <<>>, todo |-> <<[slot |-> 0, level |-> 0]>>]]
  <2>1. Rule(f, 0)
    OBVIOUS
  <2> QED BY <2>1
<1>2. ASSUME NEW m \in 1 .. N, \E f : Rule(f, m - 1) PROVE \E f : Rule(f, m)
  <2>1. PICK f : Rule(f, m - 1)
    BY <1>2
  <2> DEFINE g == [i \in 0 .. m |-> IF i = m THEN Further(a, f[m - 1]) ELSE f[i]]
  <2> HIDE DEF N
  <2>2. m \in Nat /\ m - 1 \in 0 .. m - 1 /\ m \in 0 .. m /\ m # 0
    BY <1>0
  <2>3. ASSUME NEW i \in 0 .. m PROVE g[i] = (IF i = 0 THEN [seen |-> <<>>, todo |-> <<[slot |-> 0, level |-> 0]>>] ELSE Further(a, g[i - 1]))
    <3>1. CASE i = m
      <4>1. g[m - 1] = f[m - 1]
        BY <2>2
      <4>2. g[m] = Further(a, f[m - 1])
        BY <2>2
      <4> QED BY <2>2, <3>1, <4>1, <4>2
    <3>2. CASE i # m
      <4>1. i \in 0 .. m - 1 /\ g[i] = f[i] /\ (i # 0 => i - 1 \in 0 .. m /\ i - 1 # m)
        BY <2>2, <3>2
      <4>2. i # 0 => g[i - 1] = f[i - 1]
        BY <4>1
      <4>3. f[i] = (IF i = 0 THEN [seen |-> <<>>, todo |-> <<[slot |-> 0, level |-> 0]>>] ELSE Further(a, f[i - 1]))
        BY <2>1, <4>1
      <4> QED BY <4>1, <4>2, <4>3
    <3> QED BY <3>1, <3>2
  <2>4. DOMAIN g = 0 .. m
    OBVIOUS
  <2>5. g = [i \in 0 .. m |-> g[i]]
    OBVIOUS
  <2> HIDE DEF g
  <2>6. Rule(g, m)
    BY <2>3, <2>5
  <2> QED BY <2>6
<1>3. Failed = {}
  <2> SUFFICES ASSUME Failed # {} PROVE FALSE
    OBVIOUS
  <2> HIDE DEF Rule, N
  <2>1. PICK m \in Failed : \A y \in Failed : m <= y
    <3>1. Failed \subseteq Nat
      BY <1>0
    <3> QED BY <3>1, Least
  <2>2. m \in 1 .. N
    BY <1>0, <1>1, <2>1
  <2>3. m - 1 \in 0 .. N /\ m - 1 \notin Failed
    BY <1>0, <2>1, <2>2
  <2> QED BY <1>2, <2>1, <2>2, <2>3
<1>4. \E f : Rule(f, N)
  <2> HIDE DEF Rule, N, G
  <2>1. N \in 0 .. N
    BY <1>0
  <2>2. N \notin Failed
    <3> HIDE DEF Failed
    <3> QED BY <1>3
  <2> QED BY <2>1, <2>2
<1>5. G = [i \in 0 .. N |-> IF i = 0 THEN [seen |-> <<>>, todo |-> <<[slot |-> 0, level |-> 0]>>] ELSE Further(a, G[i - 1])]
  <2> HIDE DEF N
  <2> QED BY <1>4, Zenon
<1>6. Walk(a) = G
  BY Zenon DEF Walk
<1>7. /\ G[0] = [seen |-> <<>>, todo |-> <<[slot |-> 0, level |-> 0]>>]
      /\ \A i \in 1 .. N : G[i] = Further(a, G[i - 1])
  <2> HIDE DEF G, N
  <2>1. 0 \in 0 .. N /\ \A i \in 1 .. N : i \in 0 .. N /\ i # 0
    BY <1>0
  <2> QED BY <1>5, <2>1
<1> HIDE DEF G
<1> QED BY <1>6, <1>7

\* The state of the walk after i steps.
WalkState(a, w, i) ==
  /\ Walked(a, w) /\ Levelled(w)
  /\ w.todo = <<>> \/ Len(w.seen) = i
  /\ i > 0 => w.seen # <<>>

\* The walk begins with the root to do.
LEMMA WalkBegins ==
  ASSUME NEW a, Tree(a)
  PROVE  WalkState(a, [seen |-> <<>>, todo |-> <<[slot |-> 0, level |-> 0]>>], 0)
<1> DEFINE r == [slot |-> 0, level |-> 0]
           w == [seen |-> <<>>, todo |-> <<r>>]
<1>1. 0 \in SlotsIn(a) /\ r \in Visits(a)
  BY DEF Tree, SlotsIn, Visits
<1>2. w.seen = <<>> /\ w.todo = <<r>>
  OBVIOUS
<1> HIDE DEF w
<1>3. w.seen \in Seq(Visits(a)) /\ Len(w.seen) = 0 /\ DOMAIN w.seen = {}
  BY <1>2, EmptySeq
<1>4. w.todo \in Seq(Visits(a)) /\ DOMAIN w.todo = {1} /\ w.todo[1].slot = 0
  BY <1>1, <1>2
<1>5. \A c : ~In(w.seen, c)
  BY <1>3 DEF In
<1>6. \A c : In(w.todo, c) <=> c = 0
  BY <1>4 DEF In
<1>7. Walked(a, w)
  BY <1>3, <1>4, <1>5, <1>6 DEF Walked, Once, Reached
<1>8. Levelled(w)
  BY <1>2, <1>4 DEF Levelled
<1> QED BY <1>3, <1>7, <1>8 DEF WalkState, w

\* A step of the walk keeps what holds of its state.
LEMMA WalkGoesOn ==
  ASSUME NEW a, Tree(a), NEW i \in Nat \ {0}, NEW w, WalkState(a, w, i - 1)
  PROVE  WalkState(a, Further(a, w), i)
<1>1. CASE w.todo = <<>>
  <2>1. Further(a, w) = w
    BY <1>1 DEF Further
  <2>2. w.seen # <<>>
    <3>1. In(w.seen, 0) \/ In(w.todo, 0)
      BY DEF WalkState, Walked, Reached
    <3>2. ~In(w.todo, 0)
      BY <1>1 DEF In
    <3>3. DOMAIN w.seen # {}
      BY <3>1, <3>2 DEF In
    <3> QED BY <3>3
  <2> QED BY <1>1, <2>1, <2>2 DEF WalkState
<1>2. CASE w.todo # <<>>
  <2>1. Walked(a, w) /\ Levelled(w) /\ Len(w.seen) = i - 1
    BY <1>2 DEF WalkState
  <2>2. Walked(a, Further(a, w))
    BY <1>2, <2>1, FurtherWalked
  <2>3. Levelled(Further(a, w)) /\ Further(a, w).seen # <<>>
    BY <1>2, <2>1, FurtherLevelled
  <2>4. Len(Further(a, w).seen) = i
    <3>1. Len(Further(a, w).seen) = Len(w.seen) + 1
      BY <1>2, <2>1, FurtherIs
    <3> QED BY <2>1, <3>1
  <2> QED BY <2>2, <2>3, <2>4 DEF WalkState
<1> QED BY <1>1, <1>2

\* The walk visits every slot exactly once, the root first, none more than one level
\* below the one before it.
LEMMA VisitIs ==
  ASSUME NEW a, Tree(a)
  PROVE  /\ Visit(a) \in Seq(Visits(a)) /\ Len(Visit(a)) = Len(a.slots)
         /\ Once(Visit(a))
         /\ \A c \in SlotsIn(a) : In(Visit(a), c)
         /\ Visit(a)[1] = [slot |-> 0, level |-> 0]
         /\ \A k \in 2 .. Len(Visit(a)) :
              1 <= Visit(a)[k].level /\ Visit(a)[k].level <= Visit(a)[k - 1].level + 1
<1> DEFINE N == Len(a.slots)
           S == SlotsIn(a)
<1>1. N \in Nat \ {0}
  BY DEF Tree
<1>2. PICK G : /\ Walk(a) = G
               /\ G[0] = [seen |-> <<>>, todo |-> <<[slot |-> 0, level |-> 0]>>]
               /\ \A i \in 1 .. N : G[i] = Further(a, G[i - 1])
  BY <1>1, WalkGoes
<1> HIDE DEF N
<1>3. \A i \in 0 .. N : WalkState(a, G[i], i)
  <2> DEFINE Failed == {i \in 0 .. N : ~WalkState(a, G[i], i)}
  <2> SUFFICES ASSUME Failed # {} PROVE FALSE
    OBVIOUS
  <2>0. WalkState(a, G[0], 0)
    BY <1>2, WalkBegins
  <2>1. PICK i \in Failed : \A y \in Failed : i <= y
    <3>1. Failed \subseteq Nat
      BY <1>1
    <3> QED BY <3>1, Least
  <2>2. i \in 1 .. N /\ i \in Nat \ {0}
    BY <1>1, <2>0, <2>1
  <2>3. i - 1 \in 0 .. N /\ i - 1 \notin Failed
    BY <1>1, <2>1, <2>2
  <2>4. WalkState(a, G[i - 1], i - 1)
    BY <2>3
  <2>5. WalkState(a, Further(a, G[i - 1]), i)
    BY <2>2, <2>4, WalkGoesOn
  <2> QED BY <1>2, <2>1, <2>2, <2>5
<1> DEFINE w == G[N]
           seen == w.seen
           todo == w.todo
<1>4. Visit(a) = seen
  BY <1>2 DEF Visit, N
<1>5. N \in 0 .. N /\ N > 0
  BY <1>1
<1>6. Walked(a, w) /\ Levelled(w) /\ (todo = <<>> \/ Len(seen) = N) /\ seen # <<>>
  BY <1>3, <1>5 DEF WalkState
<1>7. /\ seen \in Seq(Visits(a)) /\ todo \in Seq(Visits(a)) /\ Once(seen)
      /\ \A c \in S : ~(In(seen, c) /\ In(todo, c))
  BY <1>6 DEF Walked
<1>8. Len(seen) \in Nat /\ DOMAIN seen = 1 .. Len(seen) /\ DOMAIN todo = 1 .. Len(todo)
      /\ Len(todo) \in Nat
  BY <1>7, LenProperties
<1>9. /\ \A i \in DOMAIN seen : seen[i].slot \in S
      /\ \A i \in DOMAIN todo : todo[i].slot \in S
  <2>1. \A x \in Visits(a) : x.slot \in S
    BY DEF Visits
  <2> HIDE DEF seen, todo
  <2>2. (\A i \in DOMAIN seen : seen[i] \in Visits(a)) /\ (\A i \in DOMAIN todo : todo[i] \in Visits(a))
    BY <1>7, <1>8, ElementOfSeq
  <2> QED BY <2>1, <2>2
<1>10. S = 0 .. N - 1 /\ IsFiniteSet(S) /\ Cardinality(S) = N
  <2>1. 0 \in Int /\ N - 1 \in Int /\ ~(0 > N - 1) /\ N - 1 - 0 + 1 = N
    BY <1>1
  <2>2. S = 0 .. N - 1
    BY DEF SlotsIn, N
  <2> HIDE DEF S
  <2> QED BY <2>1, <2>2, FS_Interval
<1>11. /\ In(seen, 0) \/ In(todo, 0)
       /\ \A s \in S : In(seen, s) =>
            \A k \in DOMAIN Kids(a, s) : In(seen, Kids(a, s)[k]) \/ In(todo, Kids(a, s)[k])
  BY <1>6 DEF Walked, Reached
<1> HIDE DEF S, w, seen, todo
<1>12. todo = <<>>
  <2> SUFFICES ASSUME todo # <<>>, Len(seen) = N PROVE FALSE
    BY <1>6
  <2> DEFINE f == [i \in 0 .. N |-> IF i = 0 THEN todo[1].slot ELSE seen[i].slot]
  <2>1. 1 \in DOMAIN todo
    <3>1. Len(todo) \in Nat \ {0}
      BY <1>7, EmptySeq
    <3> QED BY <1>8, <3>1
  <2>2. todo[1].slot \in S /\ ~In(seen, todo[1].slot)
    BY <1>7, <1>9, <2>1 DEF In
  <2>3. \A i \in 0 .. N : i # 0 => i \in DOMAIN seen
    BY <1>1, <1>8
  <2>4. f \in [0 .. N -> S]
    BY <1>9, <2>2, <2>3
  <2>5. IsFiniteSet(0 .. N) /\ Cardinality(0 .. N) = N + 1
    <3>1. 0 \in Int /\ N \in Int /\ ~(0 > N) /\ N - 0 + 1 = N + 1
      BY <1>1
    <3> QED BY <3>1, FS_Interval
  <2>6. Cardinality(S) < Cardinality(0 .. N)
    BY <1>1, <1>10, <2>5
  <2>7. PICK x, y \in 0 .. N : x # y /\ f[x] = f[y]
    <3> HIDE DEF f
    <3> QED BY <1>10, <2>4, <2>5, <2>6, FS_PigeonHole
  <2>8. CASE x = 0 \/ y = 0
    <3>1. PICK i \in DOMAIN seen : seen[i].slot = todo[1].slot
      BY <2>3, <2>7, <2>8
    <3> QED BY <2>2, <3>1 DEF In
  <2>9. CASE x # 0 /\ y # 0
    BY <1>7, <2>3, <2>7, <2>9 DEF Once
  <2> QED BY <2>8, <2>9
<1>13. \A c : ~In(todo, c)
  BY <1>8, <1>12, EmptySeq DEF In
<1>14. \A c \in S : In(seen, c)
  <2> DEFINE Missed == {c \in S : ~In(seen, c)}
  <2> SUFFICES ASSUME Missed # {} PROVE FALSE
    OBVIOUS
  <2>1. PICK c \in Missed : \A y \in Missed : c <= y
    <3>1. Missed \subseteq Nat
      BY <1>1, <1>10
    <3> QED BY <3>1, Least
  <2>2. c \in S \ {0}
    BY <1>11, <1>13, <2>1
  <2>3. PICK s \in S : \E k \in DOMAIN Kids(a, s) : Kids(a, s)[k] = c
    BY <2>2 DEF Tree, S
  <2>4. s < c
    BY <2>3 DEF Tree, S
  <2>5. s \notin Missed
    BY <1>1, <1>10, <2>1, <2>2, <2>4
  <2> QED BY <1>11, <1>13, <2>1, <2>3, <2>5
<1>15. Len(seen) = N
  <2>1. IsFiniteSet(1 .. Len(seen)) /\ Cardinality(1 .. Len(seen)) = Len(seen)
    <3>1. 1 \in Int /\ Len(seen) \in Int /\ (1 > Len(seen) => Len(seen) = 0) /\ Len(seen) - 1 + 1 = Len(seen)
      BY <1>8
    <3> QED BY <3>1, FS_Interval
  <2>2. ~(N < Len(seen))
    <3> SUFFICES ASSUME N < Len(seen) PROVE FALSE
      OBVIOUS
    <3> DEFINE f == [i \in 1 .. Len(seen) |-> seen[i].slot]
    <3>1. f \in [1 .. Len(seen) -> S]
      BY <1>8, <1>9
    <3>2. \A i \in 1 .. Len(seen) : f[i] = seen[i].slot
      OBVIOUS
    <3> HIDE DEF f
    <3>3. PICK x, y \in 1 .. Len(seen) : x # y /\ f[x] = f[y]
      BY <1>10, <2>1, <3>1, FS_PigeonHole
    <3> QED BY <1>7, <1>8, <3>2, <3>3 DEF Once
  <2>3. ~(Len(seen) < N)
    <3> SUFFICES ASSUME Len(seen) < N PROVE FALSE
      OBVIOUS
    <3> DEFINE f == [c \in S |-> CHOOSE i \in DOMAIN seen : seen[i].slot = c]
    <3>1. \A c \in S : f[c] \in DOMAIN seen /\ seen[f[c]].slot = c
      BY <1>14, Zenon DEF In
    <3>2. f \in [S -> 1 .. Len(seen)]
      <4>1. DOMAIN f = S /\ f = [c \in S |-> f[c]]
        OBVIOUS
      <4> HIDE DEF f
      <4> QED BY <1>8, <3>1, <4>1
    <3> HIDE DEF f
    <3>3. PICK x, y \in S : x # y /\ f[x] = f[y]
      BY <1>10, <2>1, <3>2, FS_PigeonHole
    <3> QED BY <3>1, <3>3
  <2> DEFINE L == Len(seen)
  <2>4. L \in Nat /\ ~(N < L) /\ ~(L < N)
    BY <1>8, <2>2, <2>3
  <2> HIDE DEF L
  <2>5. L = N
    BY <1>1, <2>4
  <2> QED BY <2>5 DEF L
<1>16. /\ seen[1] = [slot |-> 0, level |-> 0]
       /\ \A k \in 2 .. Len(seen) :
            1 <= seen[k].level /\ seen[k].level <= seen[k - 1].level + 1
  BY <1>6 DEF Levelled, seen
<1> QED BY <1>4, <1>7, <1>14, <1>15, <1>16 DEF S, N

\* Offsets are sums.
LEMMA OffsetsGo ==
  ASSUME NEW a, NEW order, Len(order) \in Nat
  PROVE  \E G : /\ Offsets(a, order) = G
                /\ G[1] = 0
                /\ \A i \in 2 .. (Len(order) + 1) : G[i] = G[i - 1] + SizeAt(a, order[i - 1])
<1> DEFINE N == (Len(order) + 1)
           Rule(f, m) == f = [i \in 1 .. m |-> IF i = 1 THEN 0 ELSE f[i - 1] + SizeAt(a, order[i - 1])]
           Failed == {m \in 1 .. N : ~ \E f : Rule(f, m)}
           G == CHOOSE f : f = [i \in 1 .. N |-> IF i = 1 THEN 0 ELSE f[i - 1] + SizeAt(a, order[i - 1])]
<1>0. N \in Nat /\ N >= 1
  OBVIOUS
<1>1. \E f : Rule(f, 1)
  <2> DEFINE f == [i \in 1 .. 1 |-> 0]
  <2>1. Rule(f, 1)
    OBVIOUS
  <2> QED BY <2>1
<1>2. ASSUME NEW m \in 2 .. N, \E f : Rule(f, m - 1) PROVE \E f : Rule(f, m)
  <2>1. PICK f : Rule(f, m - 1)
    BY <1>2
  <2> DEFINE g == [i \in 1 .. m |-> IF i = m THEN f[m - 1] + SizeAt(a, order[m - 1]) ELSE f[i]]
  <2> HIDE DEF N
  <2>2. m \in Nat /\ m - 1 \in 1 .. m - 1 /\ m \in 1 .. m /\ m # 1
    BY <1>0
  <2>3. ASSUME NEW i \in 1 .. m PROVE g[i] = (IF i = 1 THEN 0 ELSE g[i - 1] + SizeAt(a, order[i - 1]))
    <3>1. CASE i = m
      <4>1. g[m - 1] = f[m - 1]
        BY <2>2
      <4>2. g[m] = f[m - 1] + SizeAt(a, order[m - 1])
        BY <2>2
      <4> QED BY <2>2, <3>1, <4>1, <4>2
    <3>2. CASE i # m
      <4>1. i \in 1 .. m - 1 /\ g[i] = f[i] /\ (i # 1 => i - 1 \in 1 .. m /\ i - 1 # m)
        BY <2>2, <3>2
      <4>2. i # 1 => g[i - 1] = f[i - 1]
        BY <4>1
      <4>3. f[i] = (IF i = 1 THEN 0 ELSE f[i - 1] + SizeAt(a, order[i - 1]))
        BY <2>1, <4>1
      <4> QED BY <4>1, <4>2, <4>3
    <3> QED BY <3>1, <3>2
  <2>4. DOMAIN g = 1 .. m
    OBVIOUS
  <2>5. g = [i \in 1 .. m |-> g[i]]
    OBVIOUS
  <2> HIDE DEF g
  <2>6. Rule(g, m)
    BY <2>3, <2>5
  <2> QED BY <2>6
<1>3. Failed = {}
  <2> SUFFICES ASSUME Failed # {} PROVE FALSE
    OBVIOUS
  <2> HIDE DEF Rule, N
  <2>1. PICK m \in Failed : \A y \in Failed : m <= y
    <3>1. Failed \subseteq Nat
      BY <1>0
    <3> QED BY <3>1, Least
  <2>2. m \in 2 .. N
    BY <1>0, <1>1, <2>1
  <2>3. m - 1 \in 1 .. N /\ m - 1 \notin Failed
    BY <1>0, <2>1, <2>2
  <2> QED BY <1>2, <2>1, <2>2, <2>3
<1>4. \E f : Rule(f, N)
  <2> HIDE DEF Rule, N, G
  <2>1. N \in 1 .. N
    BY <1>0
  <2>2. N \notin Failed
    <3> HIDE DEF Failed
    <3> QED BY <1>3
  <2> QED BY <2>1, <2>2
<1>5. G = [i \in 1 .. N |-> IF i = 1 THEN 0 ELSE G[i - 1] + SizeAt(a, order[i - 1])]
  <2> HIDE DEF N
  <2> QED BY <1>4, Zenon
<1>6. Offsets(a, order) = G
  BY Zenon DEF Offsets
<1>7. /\ G[1] = 0
      /\ \A i \in 2 .. N : G[i] = G[i - 1] + SizeAt(a, order[i - 1])
  <2> HIDE DEF G, N
  <2>1. 1 \in 1 .. N /\ \A i \in 2 .. N : i \in 1 .. N /\ i # 1
    BY <1>0
  <2> QED BY <1>5, <2>1
<1> HIDE DEF G
<1> QED BY <1>6, <1>7

\* The extents of S lie apart below Z; order has each of S once, and off are its
\* offsets.
PutInOrder(N, S, order, begin, size, Z, off) ==
  /\ order \in [1 .. N -> S] /\ \A i, j \in 1 .. N : order[i] = order[j] => i = j
  /\ begin \in [S -> Nat] /\ size \in [S -> Nat \ {0}] /\ Z \in Nat
  /\ \A s \in S : begin[s] + size[s] <= Z
  /\ \A s, t \in S : s # t => begin[s] + size[s] <= begin[t] \/ begin[t] + size[t] <= begin[s]
  /\ off[1] = 0
  /\ \A k \in 2 .. N + 1 : off[k] = off[k - 1] + size[order[k - 1]]

\* What lies apart between 0 and Z takes no more than Z when it is put one behind the
\* other: the extents of the first k - 1 are off[k] numbers.
LEMMA OffsetsFit ==
  ASSUME NEW N \in Nat \ {0}, NEW S, NEW order, NEW begin, NEW size, NEW Z, NEW off,
         PutInOrder(N, S, order, begin, size, Z, off)
  PROVE  /\ \A k \in 1 .. N + 1 : off[k] \in Nat
         /\ \A k \in 1 .. N : off[k + 1] = off[k] + size[order[k]]
         /\ \A i \in 1 .. N, j \in 1 .. N + 1 : i < j => off[i] + size[order[i]] <= off[j]
         /\ off[N + 1] <= Z
<1> SUFFICES ASSUME order \in [1 .. N -> S],
         \A i, j \in 1 .. N : order[i] = order[j] => i = j,
         begin \in [S -> Nat], size \in [S -> Nat \ {0}], Z \in Nat,
         \A s \in S : begin[s] + size[s] <= Z,
         \A s, t \in S : s # t => begin[s] + size[s] <= begin[t] \/ begin[t] + size[t] <= begin[s],
         off[1] = 0,
         \A k \in 2 .. N + 1 : off[k] = off[k - 1] + size[order[k - 1]]
    PROVE  /\ \A k \in 1 .. N + 1 : off[k] \in Nat
           /\ \A k \in 1 .. N : off[k + 1] = off[k] + size[order[k]]
           /\ \A i \in 1 .. N, j \in 1 .. N + 1 : i < j => off[i] + size[order[i]] <= off[j]
           /\ off[N + 1] <= Z
  BY DEF PutInOrder
<1> DEFINE E(s) == begin[s] .. begin[s] + size[s] - 1
           U(k) == UNION {E(order[j]) : j \in 1 .. k - 1}
           Summed(k) == /\ off[k] \in Nat
                      /\ IsFiniteSet(U(k)) /\ Cardinality(U(k)) = off[k]
                      /\ \A i \in 1 .. N : i < k => off[i] \in Nat /\ off[i] + size[order[i]] <= off[k]
           Failed == {k \in 1 .. N + 1 : ~Summed(k)}
<1>1. \A s \in S : IsFiniteSet(E(s)) /\ Cardinality(E(s)) = size[s]
  <2> TAKE s \in S
  <2>1. /\ begin[s] \in Int /\ begin[s] + size[s] - 1 \in Int /\ ~(begin[s] > begin[s] + size[s] - 1)
        /\ (begin[s] + size[s] - 1) - begin[s] + 1 = size[s]
    OBVIOUS
  <2> QED BY <2>1, FS_Interval
<1>2. \A s, t \in S : s # t => E(s) \cap E(t) = {}
  <2> SUFFICES ASSUME NEW s \in S, NEW t \in S, s # t, NEW x, x \in E(s), x \in E(t) PROVE FALSE
    OBVIOUS
  <2>1. begin[s] \in Nat /\ begin[t] \in Nat /\ size[s] \in Nat /\ size[t] \in Nat
    OBVIOUS
  <2>2. begin[s] + size[s] <= begin[t] \/ begin[t] + size[t] <= begin[s]
    OBVIOUS
  <2>3. /\ x \in begin[s] .. begin[s] + size[s] - 1
        /\ x \in begin[t] .. begin[t] + size[t] - 1
    OBVIOUS
  <2> QED BY ONLY <2>1, <2>2, <2>3
<1>3. \A s \in S : E(s) \subseteq 0 .. Z - 1
  OBVIOUS
<1> HIDE DEF E
<1>4. Summed(1)
  <2>1. U(1) = {}
    OBVIOUS
  <2>2. IsFiniteSet({}) /\ Cardinality({}) = 0
    BY FS_EmptySet
  <2>3. \A i \in 1 .. N : ~(i < 1)
    OBVIOUS
  <2> HIDE DEF U
  <2>4. off[1] \in Nat /\ IsFiniteSet(U(1)) /\ Cardinality(U(1)) = off[1]
    <3>1. off[1] = 0 /\ 0 \in Nat
      OBVIOUS
    <3> QED BY ONLY <2>1, <2>2, <3>1
  <2> QED BY <2>3, <2>4, Zenon
<1>5. ASSUME NEW k \in 2 .. N + 1, Summed(k - 1) PROVE Summed(k)
  <2> DEFINE o == order[k - 1]
  <2>1. k - 1 \in 1 .. N /\ k - 1 \in 1 .. N + 1
    OBVIOUS
  <2>2. o \in S /\ size[o] \in Nat \ {0} /\ off[k] = off[k - 1] + size[o]
    BY <2>1
  <2>3. U(k) = U(k - 1) \cup E(o)
    <3>1. \A j : j \in 1 .. k - 1 <=> j \in 1 .. (k - 1) - 1 \/ j = k - 1
      BY <2>1
    <3> QED BY <3>1
  <2>4. U(k - 1) \cap E(o) = {}
    <3>1. \A j \in 1 .. (k - 1) - 1 : order[j] \in S /\ order[j] # o
      <4> TAKE j \in 1 .. (k - 1) - 1
      <4>1. j \in 1 .. N /\ j # k - 1
        BY <2>1
      <4> QED BY <2>1, <4>1
    <3> QED BY <1>2, <2>2, <3>1
  <2> HIDE DEF U, o
  <2>5. IsFiniteSet(U(k)) /\ Cardinality(U(k)) = Cardinality(U(k - 1)) + Cardinality(E(o)) - Cardinality({})
    <3>1. IsFiniteSet(U(k - 1)) /\ IsFiniteSet(E(o))
      BY <1>1, <1>5, <2>2
    <3> DEFINE A == U(k - 1)
               B == E(o)
    <3>2. IsFiniteSet(A) /\ IsFiniteSet(B) /\ A \cap B = {} /\ U(k) = A \cup B
      BY <2>3, <2>4, <3>1
    <3> HIDE DEF A, B
    <3>3. /\ IsFiniteSet(A \cup B)
          /\ Cardinality(A \cup B) = Cardinality(A) + Cardinality(B) - Cardinality({})
      BY ONLY <3>2, FS_Union, Zenon
    <3> QED BY <3>2, <3>3, Zenon DEF A, B
  <2>6. Cardinality({}) = 0
    BY FS_EmptySet
  <2>7. off[k] \in Nat /\ Cardinality(U(k)) = off[k]
    <3>1. Cardinality(U(k - 1)) = off[k - 1] /\ off[k - 1] \in Nat
      BY <1>5
    <3>2. Cardinality(E(o)) = size[o]
      BY <1>1, <2>2
    <3> QED BY ONLY <2>2, <2>5, <2>6, <3>1, <3>2
  <2>8. ASSUME NEW i \in 1 .. N, i < k
        PROVE  off[i] \in Nat /\ off[i] + size[order[i]] <= off[k]
    <3>1. CASE i = k - 1
      BY <1>5, <2>2, <2>7, <3>1 DEF o
    <3>2. CASE i # k - 1
      <4>1. i < k - 1
        BY <2>1, <2>8, <3>2
      <4>2. off[i] \in Nat /\ off[i] + size[order[i]] <= off[k - 1] /\ off[k - 1] \in Nat
        BY <1>5, <4>1
      <4>3. off[k - 1] <= off[k]
        BY <1>5, <2>2
      <4>4. size[order[i]] \in Nat
        <5>1. i \in 1 .. N
          BY <2>8
        <5>2. order[i] \in S
          BY ONLY <5>1, order \in [1 .. N -> S]
        <5> QED BY ONLY <5>2, size \in [S -> Nat \ {0}]
      <4> DEFINE x == off[i]
                 z == size[order[i]]
                 p == off[k - 1]
                 q == off[k]
      <4>5. x \in Nat /\ z \in Nat /\ p \in Nat /\ q \in Nat /\ x + z <= p /\ p <= q
        BY <2>7, <4>2, <4>3, <4>4
      <4> HIDE DEF x, z, p, q, Summed, Failed
      <4>6. x \in Nat /\ x + z <= q
        BY <4>5
      <4> QED BY <4>6 DEF x, z, q
    <3> QED BY <3>1, <3>2
  <2> QED BY <2>5, <2>7, <2>8
<1>6. Failed = {}
  <2> SUFFICES ASSUME Failed # {} PROVE FALSE
    OBVIOUS
  <2> HIDE DEF Summed
  <2>1. PICK k \in Failed : \A y \in Failed : k <= y
    <3>1. Failed \subseteq Nat
      OBVIOUS
    <3> QED BY <3>1, Least
  <2>2. k \in 2 .. N + 1
    BY <1>4, <2>1
  <2>3. k - 1 \in 1 .. N + 1 /\ k - 1 \notin Failed
    BY <2>1, <2>2
  <2> QED BY <1>5, <2>1, <2>2, <2>3
<1>7. \A k \in 1 .. N + 1 : Summed(k)
  <2> HIDE DEF Summed
  <2> QED BY <1>6
<1>8. \A k \in 1 .. N + 1 : off[k] \in Nat
  BY <1>7
<1>9. \A i \in 1 .. N, j \in 1 .. N + 1 : i < j => off[i] + size[order[i]] <= off[j]
  BY <1>7
<1>10. \A k \in 1 .. N : off[k + 1] = off[k] + size[order[k]]
  <2> TAKE k \in 1 .. N
  <2>1. k + 1 \in 2 .. N + 1 /\ (k + 1) - 1 = k
    OBVIOUS
  <2> QED BY <2>1
<1>11. off[N + 1] <= Z
  <2>1. N + 1 \in 1 .. N + 1
    OBVIOUS
  <2>2. IsFiniteSet(U(N + 1)) /\ Cardinality(U(N + 1)) = off[N + 1]
    BY <1>7, <2>1
  <2>3. U(N + 1) \subseteq 0 .. Z - 1
    <3>1. \A j \in 1 .. (N + 1) - 1 : order[j] \in S
      OBVIOUS
    <3> QED BY <1>3, <3>1
  <2>4. IsFiniteSet(0 .. Z - 1) /\ Cardinality(0 .. Z - 1) = Z
    <3>1. 0 \in Int /\ Z - 1 \in Int /\ (0 > Z - 1 => Z = 0) /\ Z - 1 - 0 + 1 = Z
      OBVIOUS
    <3> QED BY <3>1, FS_Interval
  <2> HIDE DEF U
  <2> QED BY <2>2, <2>3, <2>4, FS_Subset
<1> QED BY <1>8, <1>9, <1>10, <1>11

-----------------------------------------------------------------------------
\* The rooms that a prototype can have.
Caps == [code : Nat, consts : Nat, imports : Nat, nesteds : Nat]

\* The instructions and the numbers of local variables in a prototype are those
\* of the host, or those that a compiler puts there: an operation with an index
\* that may be set later.
Indexed == Codes \cup [op : {"ldk", "imp", "llv", "jmp", "cls"}, idx : Int]
AnyCode == Indexed \cup {[i EXCEPT !.idx = n] : i \in Indexed, n \in Int}
AnyLocals == LocalVars \cup Nat

\* Those of the host are among them.
LEMMA HostsOwn ==
  /\ Codes \subseteq AnyCode /\ LocalVars \subseteq AnyLocals
  /\ 0 \in AnyLocals /\ Nat \subseteq AnyLocals
BY DEF AnyCode, AnyLocals, Indexed

\* Prototypes whose strings have references in R and that nest slots below n.
Protos(R, n) ==
  [source : R, symbol : R, locals : AnyLocals, code : Seq(AnyCode),
   consts : Seq(Plain \cup [string : R]), imports : Seq([module : R, name : R]),
   nesteds : Seq(0 .. n - 1), max : Caps]

\* No section holds more items than there is room for.
InRoom(p) ==
  /\ Len(p.code) <= p.max.code /\ Len(p.consts) <= p.max.consts
  /\ Len(p.imports) <= p.max.imports /\ Len(p.nesteds) <= p.max.nesteds

\* The members of an assembler.
Shape(a) ==
  a = [buff |-> a.buff, size |-> a.size, capacity |-> a.capacity, slots |-> a.slots,
       max_slots |-> a.max_slots, context |-> a.context, st |-> a.st, asserts |-> a.asserts]

\* Whatever lies in the buffer is a prototype.
Buffer(a) ==
  /\ a.buff = [o \in DOMAIN a.buff |-> a.buff[o]]
  /\ DOMAIN a.buff \subseteq Nat
  /\ \A o \in DOMAIN a.buff :
       a.buff[o] \in Protos(DOMAIN a.st.text, Len(a.slots)) /\ InRoom(a.buff[o])

\* Those of the slots do not overlap, and none reaches behind the end.
Laid(a) ==
  /\ \A s \in SlotsIn(a) : /\ a.slots[s + 1] \in DOMAIN a.buff
                           /\ a.slots[s + 1] + SizeAt(a, s) <= a.size
  /\ \A s, t \in SlotsIn(a) : s # t =>
       \/ a.slots[s + 1] + SizeAt(a, s) <= a.slots[t + 1]
       \/ a.slots[t + 1] + SizeAt(a, t) <= a.slots[s + 1]

\* What is counted stays within what there is room for.
Counts(a) ==
  /\ a.slots \in Seq(Nat) /\ Len(a.slots) \in Nat \ {0}
  /\ a.size \in Nat /\ a.capacity \in Nat \ {0} /\ a.max_slots \in Nat \ {0}
  /\ a.size <= a.capacity /\ Len(a.slots) <= a.max_slots

\* The buffer, the slots and the string table are consistent.
Tidy(a) ==
  /\ Shape(a) /\ Buffer(a) /\ Laid(a) /\ Counts(a)
  /\ TableOK(a.st) /\ a.asserts \in BOOLEAN

\* Some prototype is open, and every context is of a prototype.
Opened(a) == a.context \in Seq([slot : SlotsIn(a), idx : Nat]) /\ a.context # <<>>

\* An assembler with a program: its prototypes lie apart, form a tree, and one is open.
Good(a) == Tidy(a) /\ Tree(a) /\ Opened(a)

\* The same prototypes at other places.
Same(a, b) ==
  /\ Len(b.slots) = Len(a.slots)
  /\ \A s \in SlotsIn(a) : At(b, s) = At(a, s)
  /\ b.context = a.context /\ b.st = a.st /\ b.asserts = a.asserts

\* A prototype takes at least its header.
LEMMA SizeIs ==
  ASSUME NEW room \in Caps
  PROVE  required_size(room) \in Nat \ {0}
<1>1. room.code \in Nat /\ room.consts \in Nat /\ room.imports \in Nat /\ room.nesteds \in Nat
  BY DEF Caps
<1> QED BY <1>1 DEF required_size

\* What a slot leads to.
LEMMA AtOK ==
  ASSUME NEW a, Tidy(a), NEW s \in SlotsIn(a)
  PROVE  /\ s + 1 \in 1 .. Len(a.slots) /\ a.slots[s + 1] \in Nat
         /\ a.slots[s + 1] \in DOMAIN a.buff
         /\ At(a, s) \in Protos(DOMAIN a.st.text, Len(a.slots)) /\ InRoom(At(a, s))
         /\ At(a, s).max \in Caps /\ SizeAt(a, s) \in Nat \ {0}
         /\ a.slots[s + 1] + SizeAt(a, s) <= a.size
<1>1. s + 1 \in 1 .. Len(a.slots)
  <2>1. Len(a.slots) \in Nat \ {0}
    BY DEF Tidy, Counts
  <2> QED BY <2>1 DEF SlotsIn
<1>2. a.slots[s + 1] \in DOMAIN a.buff /\ a.slots[s + 1] \in Nat
      /\ a.slots[s + 1] + SizeAt(a, s) <= a.size
  BY DEF Tidy, Laid, Buffer
<1>3. At(a, s) \in Protos(DOMAIN a.st.text, Len(a.slots)) /\ InRoom(At(a, s))
  BY <1>2 DEF Tidy, Buffer, At
<1>4. At(a, s).max \in Caps
  BY <1>3 DEF Protos
<1>5. SizeAt(a, s) \in Nat \ {0}
  BY <1>4, SizeIs DEF SizeAt
<1> QED BY <1>1, <1>2, <1>3, <1>4, <1>5

\* The tree depends on what is nested alone.
LEMMA TreeOfKids ==
  ASSUME NEW a, NEW b, Tree(a), Len(b.slots) = Len(a.slots),
         \A s \in SlotsIn(a) : Kids(b, s) = Kids(a, s)
  PROVE  Tree(b) /\ SlotsIn(b) = SlotsIn(a)
<1>1. SlotsIn(b) = SlotsIn(a)
  BY DEF SlotsIn
<1> QED BY <1>1 DEF Tree

\* With as many slots and the same contexts the same is open.
LEMMA OpenedSame ==
  ASSUME NEW a, NEW b, Opened(a), Len(b.slots) = Len(a.slots), b.context = a.context
  PROVE  Opened(b)
BY DEF Opened, SlotsIn

\* The order of a collection has every slot once.
LEMMA OrderIs ==
  ASSUME NEW a, Tree(a)
  PROVE  /\ Len(Order(a)) = Len(a.slots)
         /\ DOMAIN Order(a) = 1 .. Len(a.slots)
         /\ Order(a) \in [1 .. Len(a.slots) -> SlotsIn(a)]
         /\ \A i, j \in 1 .. Len(a.slots) : Order(a)[i] = Order(a)[j] => i = j
         /\ \A s \in SlotsIn(a) : \E k \in 1 .. Len(a.slots) : Order(a)[k] = s
<1> DEFINE vs == Visit(a)
           N == Len(a.slots)
<1>1. /\ vs \in Seq(Visits(a)) /\ Len(vs) = N /\ Once(vs)
      /\ \A c \in SlotsIn(a) : In(vs, c)
  BY VisitIs
<1>2. N \in Nat /\ DOMAIN vs = 1 .. N
  BY <1>1, LenProperties
<1>3. \A k \in 1 .. N : vs[k].slot \in SlotsIn(a)
  <2>1. \A x \in Visits(a) : x.slot \in SlotsIn(a)
    BY DEF Visits
  <2>2. \A k \in 1 .. N : vs[k] \in Visits(a)
    BY <1>1, ElementOfSeq
  <2> QED BY <2>1, <2>2
<1> HIDE DEF vs
<1>4. Order(a) = [k \in 1 .. N |-> vs[k].slot]
  BY <1>2 DEF Order, SlotsOf, vs
<1> HIDE DEF N
<1>5. Order(a) \in [1 .. N -> SlotsIn(a)]
  BY <1>3, <1>4
<1>6. Len(Order(a)) = N
  BY <1>2, <1>4
<1>7. \A i, j \in 1 .. N : Order(a)[i] = Order(a)[j] => i = j
  BY <1>1, <1>2, <1>4 DEF Once
<1>8. \A s \in SlotsIn(a) : \E k \in 1 .. N : Order(a)[k] = s
  BY <1>1, <1>2, <1>4 DEF In
<1> QED BY <1>5, <1>6, <1>7, <1>8 DEF N

\* Collecting puts the prototypes one behind the other, in no more room than they had.
LEMMA CollectedOK ==
  ASSUME NEW a, Good(a)
  PROVE  /\ Good(gc(a)) /\ Same(a, gc(a)) /\ gc(a).size <= a.size
         /\ gc(a).capacity = a.capacity /\ gc(a).max_slots = a.max_slots
<1> DEFINE N == Len(a.slots)
           S == SlotsIn(a)
           order == Order(a)
           off == Offsets(a, order)
           b == gc(a)
           rank(s) == CHOOSE k \in DOMAIN order : order[k] = s
           buff == [o \in {off[k] : k \in DOMAIN order} |-> At(a, order[CHOOSE k \in DOMAIN order : off[k] = o])]
           slots == [i \in DOMAIN a.slots |-> off[rank(i - 1)]]
<1>0. b = [a EXCEPT !.buff = buff, !.slots = slots, !.size = off[Len(order) + 1]]
  BY DEF gc, Compacted, MovedTo
<1> HIDE DEF b, buff, slots, rank
<1>1. Tidy(a) /\ Tree(a) /\ Opened(a)
  BY DEF Good
<1>2. N \in Nat \ {0} /\ S = 0 .. N - 1 /\ DOMAIN a.slots = 1 .. N
  <2>1. a.slots \in Seq(Nat)
    BY <1>1 DEF Tidy, Counts
  <2> QED BY <1>1, <2>1, LenProperties DEF Tree, SlotsIn
<1>3. /\ Len(order) = N /\ DOMAIN order = 1 .. N /\ order \in [1 .. N -> S]
      /\ \A i, j \in 1 .. N : order[i] = order[j] => i = j
      /\ \A s \in S : \E k \in 1 .. N : order[k] = s
  BY <1>1, OrderIs
<1> HIDE DEF N, S, order
<1>4. /\ off[1] = 0
      /\ \A k \in 2 .. N + 1 : off[k] = off[k - 1] + SizeAt(a, order[k - 1])
  <2>1. Len(order) \in Nat
    BY <1>2, <1>3
  <2>2. PICK G : /\ off = G /\ G[1] = 0
                 /\ \A i \in 2 .. Len(order) + 1 : G[i] = G[i - 1] + SizeAt(a, order[i - 1])
    BY <2>1, OffsetsGo
  <2> QED BY <1>3, <2>2
<1> HIDE DEF off
<1>5. \A s \in S : /\ a.slots[s + 1] \in Nat /\ SizeAt(a, s) \in Nat \ {0}
                   /\ a.slots[s + 1] + SizeAt(a, s) <= a.size
                   /\ At(a, s) \in Protos(DOMAIN a.st.text, N) /\ InRoom(At(a, s))
  BY <1>1, AtOK DEF S, N
<1>6. /\ \A k \in 1 .. N + 1 : off[k] \in Nat
      /\ \A k \in 1 .. N : off[k + 1] = off[k] + SizeAt(a, order[k])
      /\ \A i \in 1 .. N, j \in 1 .. N + 1 : i < j => off[i] + SizeAt(a, order[i]) <= off[j]
      /\ off[N + 1] <= a.size
  <2> DEFINE begin == [s \in S |-> a.slots[s + 1]]
             size == [s \in S |-> SizeAt(a, s)]
  <2>1. begin \in [S -> Nat] /\ size \in [S -> Nat \ {0}]
    BY <1>5
  <2>2. \A s \in S : begin[s] = a.slots[s + 1] /\ size[s] = SizeAt(a, s)
    OBVIOUS
  <2>3. \A k \in 1 .. N : size[order[k]] = SizeAt(a, order[k])
    BY <1>3
  <2> HIDE DEF begin, size
  <2>4. \A s \in S : begin[s] + size[s] <= a.size
    BY <1>5, <2>2
  <2>5. \A s, t \in S : s # t => begin[s] + size[s] <= begin[t] \/ begin[t] + size[t] <= begin[s]
    <3>1. \A s, t \in S : s # t => \/ a.slots[s + 1] + SizeAt(a, s) <= a.slots[t + 1]
                                   \/ a.slots[t + 1] + SizeAt(a, t) <= a.slots[s + 1]
      BY <1>1 DEF Tidy, Laid, S
    <3> QED BY <2>2, <3>1
  <2>6. \A k \in 2 .. N + 1 : off[k] = off[k - 1] + size[order[k - 1]]
    <3>1. \A k \in 2 .. N + 1 : k - 1 \in 1 .. N
      BY <1>2
    <3> QED BY <1>4, <2>3, <3>1
  <2>7. a.size \in Nat
    BY <1>1 DEF Tidy, Counts
  <2>8. /\ \A k \in 1 .. N + 1 : off[k] \in Nat
        /\ \A k \in 1 .. N : off[k + 1] = off[k] + size[order[k]]
        /\ \A i \in 1 .. N, j \in 1 .. N + 1 : i < j => off[i] + size[order[i]] <= off[j]
        /\ off[N + 1] <= a.size
    <3>1. PutInOrder(N, S, order, begin, size, a.size, off)
      BY <1>3, <1>4, <2>1, <2>4, <2>5, <2>6, <2>7, Zenon DEF PutInOrder
    <3> QED BY <1>2, <3>1, OffsetsFit
  <2> QED BY <2>3, <2>8
<1>7. \A i, j \in 1 .. N : off[i] = off[j] => i = j
  <2> SUFFICES ASSUME NEW i \in 1 .. N, NEW j \in 1 .. N, i < j PROVE off[i] # off[j]
    BY <1>2
  <2>1. j \in 1 .. N + 1 /\ order[i] \in S
    BY <1>2, <1>3
  <2>2. off[i] + SizeAt(a, order[i]) <= off[j] /\ SizeAt(a, order[i]) \in Nat \ {0} /\ off[i] \in Nat /\ off[j] \in Nat
    <3>1. i \in 1 .. N + 1
      BY <1>2
    <3> QED BY <1>5, <1>6, <2>1, <3>1
  <2> QED BY <2>2
<1>8. \A s \in S : rank(s) \in 1 .. N /\ order[rank(s)] = s
  BY <1>3, Zenon DEF rank
<1>9. \A k \in 1 .. N : buff[off[k]] = At(a, order[k])
  <2> TAKE x \in 1 .. N
  <2> DEFINE j == CHOOSE k \in DOMAIN order : off[k] = off[x]
  <2>1. \E k \in DOMAIN order : off[k] = off[x]
    BY <1>3
  <2>2. j \in DOMAIN order /\ off[j] = off[x]
    BY <2>1, Zenon
  <2>3. buff[off[x]] = At(a, order[j])
    BY <2>1 DEF buff
  <2> HIDE DEF j
  <2>4. j = x
    BY <1>3, <1>7, <2>2
  <2> QED BY <2>3, <2>4
<1>10. b = [a EXCEPT !.buff = buff, !.slots = slots, !.size = off[N + 1]]
  BY <1>0, <1>3
<1>11. DOMAIN buff = {off[k] : k \in 1 .. N} /\ \A k \in 1 .. N : buff[off[k]] = At(a, order[k])
  <2>1. DOMAIN buff = {off[k] : k \in 1 .. N}
    BY <1>3 DEF buff
  <2> QED BY <1>9, <2>1
<1>12. /\ slots \in Seq(Nat) /\ Len(slots) = N /\ DOMAIN slots = 1 .. N
       /\ \A s \in S : slots[s + 1] = off[rank(s)]
  <2>1. slots = [i \in 1 .. N |-> off[rank(i - 1)]]
    BY <1>2 DEF slots
  <2>2. \A i \in 1 .. N : off[rank(i - 1)] \in Nat
    <3> TAKE i \in 1 .. N
    <3>1. i - 1 \in S
      BY <1>2
    <3>2. rank(i - 1) \in 1 .. N + 1
      BY <1>2, <1>8, <3>1
    <3> QED BY <1>6, <3>2
  <2>3. \A s \in S : s + 1 \in 1 .. N /\ (s + 1) - 1 = s
    BY <1>2
  <2>4. \A s \in S : slots[s + 1] = off[rank(s)]
    BY <2>1, <2>3
  <2>5. slots \in [1 .. N -> Nat]
    BY <2>1, <2>2
  <2>6. slots \in Seq(Nat) /\ Len(slots) = N
    BY <1>2, <2>5
  <2> QED BY <2>4, <2>5, <2>6
<1> DEFINE full == off[N + 1]
<1>13. b = [buff |-> buff, size |-> full, capacity |-> a.capacity, slots |-> slots,
            max_slots |-> a.max_slots, context |-> a.context, st |-> a.st, asserts |-> a.asserts]
  <2>1. Shape(a)
    BY <1>1 DEF Tidy
  <2>2. b = [a EXCEPT !.buff = buff, !.slots = slots, !.size = full]
    BY <1>10
  <2>3. PICK r : r = a
    OBVIOUS
  <2>4. b = [r EXCEPT !.buff = buff, !.slots = slots, !.size = full]
    BY <2>2, <2>3, Zenon
  <2>5. r = [buff |-> a.buff, size |-> a.size, capacity |-> a.capacity, slots |-> a.slots,
             max_slots |-> a.max_slots, context |-> a.context, st |-> a.st,
             asserts |-> a.asserts]
    BY <2>1, <2>3, Zenon DEF Shape
  <2> HIDE DEF full, b
  <2> QED BY ONLY <2>4, <2>5
<1>14. /\ b.buff = buff /\ b.size = full /\ b.capacity = a.capacity /\ b.slots = slots
       /\ b.max_slots = a.max_slots /\ b.context = a.context /\ b.st = a.st /\ b.asserts = a.asserts
  BY <1>13
<1>15. \A s \in S : At(b, s) = At(a, s)
  <2> TAKE s \in S
  <2>1. At(b, s) = buff[slots[s + 1]]
    BY <1>14, Zenon DEF At
  <2>2. slots[s + 1] = off[rank(s)]
    BY <1>12
  <2>3. rank(s) \in 1 .. N /\ order[rank(s)] = s
    BY <1>8
  <2>4. buff[off[rank(s)]] = At(a, order[rank(s)])
    BY <1>11, <2>3
  <2> QED BY ONLY <2>1, <2>2, <2>3, <2>4, Zenon
<1>16. full \in Nat /\ full <= a.size
  <2>1. N + 1 \in 1 .. N + 1
    BY <1>2
  <2> QED BY <1>6, <2>1
<1>17. Same(a, b)
  BY <1>12, <1>14, <1>15 DEF Same, S, N
<1>18. SlotsIn(b) = S
  BY <1>12, <1>14 DEF SlotsIn, S, N
<1>19. Shape(b)
  BY <1>13, <1>14 DEF Shape
<1>20. Buffer(b)
  <2>1. buff = [o \in DOMAIN buff |-> buff[o]]
    BY DEF buff
  <2>2. DOMAIN buff \subseteq Nat
    <3>1. \A k \in 1 .. N : k \in 1 .. N + 1
      BY <1>2
    <3> QED BY <1>6, <1>11, <3>1
  <2>3. \A o \in DOMAIN buff : buff[o] \in Protos(DOMAIN a.st.text, N) /\ InRoom(buff[o])
    <3> TAKE o \in DOMAIN buff
    <3>1. PICK k \in 1 .. N : o = off[k]
      BY <1>11
    <3>2. buff[o] = At(a, order[k]) /\ order[k] \in S
      BY <1>3, <1>11, <3>1
    <3> QED BY <1>5, <3>2
  <2> QED BY <1>12, <1>14, <2>1, <2>2, <2>3 DEF Buffer
<1>21. \A s \in S : SizeAt(b, s) = SizeAt(a, s)
  BY <1>15 DEF SizeAt
<1>22. Laid(b)
  <2>1. ASSUME NEW s \in S PROVE slots[s + 1] \in DOMAIN buff /\ slots[s + 1] + SizeAt(a, s) <= full
    <3>1. rank(s) \in 1 .. N /\ order[rank(s)] = s /\ slots[s + 1] = off[rank(s)]
      BY <1>8, <1>12
    <3>2. N + 1 \in 1 .. N + 1 /\ rank(s) < N + 1
      BY <1>2, <3>1
    <3>3. off[rank(s)] + SizeAt(a, order[rank(s)]) <= off[N + 1]
      BY <1>6, <3>1, <3>2
    <3> QED BY <1>11, <3>1, <3>3
  <2>2. ASSUME NEW s \in S, NEW t \in S, s # t
        PROVE  \/ slots[s + 1] + SizeAt(a, s) <= slots[t + 1]
               \/ slots[t + 1] + SizeAt(a, t) <= slots[s + 1]
    <3>1. /\ rank(s) \in 1 .. N /\ order[rank(s)] = s /\ slots[s + 1] = off[rank(s)]
          /\ rank(t) \in 1 .. N /\ order[rank(t)] = t /\ slots[t + 1] = off[rank(t)]
      BY <1>8, <1>12
    <3>2. rank(s) < rank(t) \/ rank(t) < rank(s)
      BY <1>2, <2>2, <3>1
    <3>3. \A i, j \in 1 .. N : i < j => off[i] + SizeAt(a, order[i]) <= off[j]
      <4>1. \A j \in 1 .. N : j \in 1 .. N + 1
        BY <1>2
      <4> QED BY <1>6, <4>1
    <3> QED BY <3>1, <3>2, <3>3
  <2> HIDE DEF full
  <2> QED BY <1>14, <1>18, <1>21, <2>1, <2>2 DEF Laid
<1>23. Counts(b)
  <2>1. /\ a.size \in Nat /\ a.capacity \in Nat \ {0} /\ a.max_slots \in Nat \ {0}
        /\ a.size <= a.capacity /\ N <= a.max_slots
    BY <1>1 DEF Tidy, Counts, N
  <2> HIDE DEF full
  <2>2. full <= a.capacity
    BY <1>16, <2>1
  <2> QED BY <1>2, <1>12, <1>14, <1>16, <2>1, <2>2 DEF Counts
<1>24. Tidy(b)
  BY <1>1, <1>14, <1>19, <1>20, <1>22, <1>23 DEF Tidy
<1>25. Tree(b)
  <2>1. \A s \in SlotsIn(a) : Kids(b, s) = Kids(a, s)
    BY <1>15 DEF Kids, S
  <2>2. Len(b.slots) = Len(a.slots)
    BY <1>12, <1>14 DEF N
  <2> QED BY <1>1, <2>1, <2>2, TreeOfKids
<1>26. Opened(b)
  BY <1>1, <1>12, <1>14, OpenedSame DEF N
<1> QED BY <1>14, <1>16, <1>17, <1>24, <1>25, <1>26 DEF Good, b

\* Doubling reaches every capacity that is asked for.
LEMMA DoubledIs ==
  ASSUME NEW capacity \in Nat \ {0}, NEW need \in Nat
  PROVE  Doubled(capacity, need) \in Nat \ {0} /\ need <= Doubled(capacity, need)
<1> DEFINE P == Nat \ {0}
           Rule(f, d) ==
             /\ f = [c \in P |-> f[c]]
             /\ \A c \in P : need <= c + d => f[c] = IF c >= need THEN c ELSE f[2 * c]
           G == CHOOSE f : f = [c \in P |-> IF c >= need THEN c ELSE f[2 * c]]
           Failed == {d \in Nat : ~ \E f : Rule(f, d)}
<1>1. \E f : Rule(f, 0)
  <2> DEFINE f == [c \in P |-> c]
  <2>1. Rule(f, 0)
    OBVIOUS
  <2> QED BY <2>1
<1>2. ASSUME NEW d \in Nat \ {0}, \E f : Rule(f, d - 1) PROVE \E f : Rule(f, d)
  <2>1. PICK f : Rule(f, d - 1)
    BY <1>2
  <2>2. CASE need - d \in P
    <3> DEFINE e == need - d
               g == [c \in P |-> IF c = e THEN f[2 * e] ELSE f[c]]
    <3>1. e \in P /\ 2 * e \in P /\ 2 * e # e /\ ~(e >= need)
      BY <2>2
    <3>2. g[2 * e] = f[2 * e] /\ g[e] = f[2 * e]
      BY <3>1
    <3>3. ASSUME NEW c \in P, need <= c + d PROVE g[c] = IF c >= need THEN c ELSE g[2 * c]
      <4>1. CASE c = e
        BY <3>1, <3>2, <4>1
      <4>2. CASE c # e
        <5>1. need <= c + (d - 1) /\ 2 * c \in P /\ 2 * c # e
          BY <3>3, <4>2
        <5>2. f[c] = IF c >= need THEN c ELSE f[2 * c]
          BY <2>1, <5>1
        <5>3. g[c] = f[c] /\ g[2 * c] = f[2 * c]
          BY <4>2, <5>1
        <5> QED BY <5>2, <5>3
      <4> QED BY <4>1, <4>2
    <3>4. g = [c \in P |-> g[c]]
      OBVIOUS
    <3> HIDE DEF g
    <3>5. Rule(g, d)
      BY <3>3, <3>4
    <3> QED BY <3>5
  <2>3. CASE need - d \notin P
    <3>1. \A c \in P : need <= c + d => need <= c + (d - 1)
      BY <2>3
    <3>2. Rule(f, d)
      BY <2>1, <3>1
    <3> QED BY <3>2
  <2> QED BY <2>2, <2>3
<1>3. Failed = {}
  <2> SUFFICES ASSUME Failed # {} PROVE FALSE
    OBVIOUS
  <2> HIDE DEF Rule
  <2>1. PICK d \in Failed : \A y \in Failed : d <= y
    <3>1. Failed \subseteq Nat
      OBVIOUS
    <3> QED BY <3>1, Least
  <2>2. d \in Nat \ {0}
    BY <1>1, <2>1
  <2>3. d - 1 \in Nat /\ d - 1 \notin Failed
    BY <2>1, <2>2
  <2> QED BY <1>2, <2>1, <2>2, <2>3
<1>4. PICK f : Rule(f, need)
  <2>1. need \notin Failed
    BY <1>3
  <2> HIDE DEF Rule
  <2> QED BY <2>1
<1>5. f = [c \in P |-> IF c >= need THEN c ELSE f[2 * c]]
  <2>1. \A c \in P : f[c] = IF c >= need THEN c ELSE f[2 * c]
    <3>1. \A c \in P : need <= c + need
      OBVIOUS
    <3> QED BY <1>4, <3>1
  <2>2. f = [c \in P |-> f[c]]
    BY <1>4
  <2> HIDE DEF P, Rule, G, Failed
  <2> QED BY <2>1, <2>2
<1>6. G = [c \in P |-> IF c >= need THEN c ELSE G[2 * c]]
  <2> HIDE DEF P
  <2> QED BY <1>5, Zenon
<1>7. Doubled(capacity, need) = G[capacity]
  BY Zenon DEF Doubled, GROW_FACTOR
<1> HIDE DEF G
<1>8. \A c \in P : G[c] \in P /\ need <= G[c]
  <2> DEFINE T == {need - c : c \in {x \in P : ~(G[x] \in P /\ need <= G[x])}}
  <2> SUFFICES ASSUME T # {} PROVE FALSE
    OBVIOUS
  <2>1. \A x \in P : G[x] = IF x >= need THEN x ELSE G[2 * x]
    BY <1>6
  <2>2. T \subseteq Nat
    <3> SUFFICES ASSUME NEW x \in P, ~(G[x] \in P /\ need <= G[x]) PROVE need - x \in Nat
      OBVIOUS
    <3>1. ~(x >= need)
      BY <2>1
    <3> QED BY <3>1
  <2>3. PICK d \in T : \A y \in T : d <= y
    BY <2>2, Least
  <2>4. PICK x \in P : ~(G[x] \in P /\ need <= G[x]) /\ d = need - x
    BY <2>3
  <2>5. ~(x >= need) /\ G[x] = G[2 * x] /\ 2 * x \in P
    BY <2>1, <2>4
  <2>6. need - 2 * x \in T
    BY <2>4, <2>5
  <2> HIDE DEF T
  <2> QED BY <2>3, <2>4, <2>6
<1> QED BY <1>7, <1>8

\* What is the same stays the same.
LEMMA SameTree ==
  ASSUME NEW a, NEW b, Same(a, b), Tree(a), Opened(a)
  PROVE  Tree(b) /\ Opened(b) /\ SlotsIn(b) = SlotsIn(a)
<1>1. \A s \in SlotsIn(a) : Kids(b, s) = Kids(a, s)
  BY DEF Same, Kids
<1> QED BY <1>1, TreeOfKids, OpenedSame DEF Same

\* After growing there is room for the request.
LEMMA GrowBuffOK ==
  ASSUME NEW a, Good(a), NEW request \in Nat
  PROVE  /\ Good(grow_buff(a, request)) /\ Same(a, grow_buff(a, request))
         /\ grow_buff(a, request).max_slots = a.max_slots
         /\ grow_buff(a, request).size + request <= grow_buff(a, request).capacity
<1>1. CASE a.size + request <= a.capacity
  BY <1>1 DEF grow_buff, Same
<1>2. CASE ~(a.size + request <= a.capacity)
  <2> DEFINE c == gc(a)
             need == a.size + request
             cap == Doubled(a.capacity, need)
             b == [c EXCEPT !.capacity = cap]
  <2>1. /\ Good(c) /\ Same(a, c) /\ c.size <= a.size
        /\ c.capacity = a.capacity /\ c.max_slots = a.max_slots
    BY CollectedOK
  <2>2. a.size \in Nat /\ a.capacity \in Nat \ {0} /\ c.size \in Nat
    BY <2>1 DEF Good, Tidy, Counts
  <2>3. cap \in Nat \ {0} /\ need <= cap
    <3>1. need \in Nat
      <4> HIDE DEF c
      <4> QED BY <2>2
    <3> HIDE DEF need, c
    <3> QED BY <2>2, <3>1, DoubledIs
  <2>4. grow_buff(a, request) = b
    BY <1>2 DEF grow_buff
  <2> HIDE DEF c, cap
  <2>5. b = [buff |-> c.buff, size |-> c.size, capacity |-> cap, slots |-> c.slots,
             max_slots |-> c.max_slots, context |-> c.context, st |-> c.st, asserts |-> c.asserts]
    <3>1. Shape(c)
      BY <2>1 DEF Good, Tidy
    <3> QED BY <3>1 DEF Shape
  <2> HIDE DEF b
  <2>6. /\ b.buff = c.buff /\ b.size = c.size /\ b.capacity = cap /\ b.slots = c.slots
        /\ b.max_slots = c.max_slots /\ b.context = c.context /\ b.st = c.st /\ b.asserts = c.asserts
    BY <2>5
  <2>7. SlotsIn(b) = SlotsIn(c) /\ \A s : At(b, s) = At(c, s) /\ SizeAt(b, s) = SizeAt(c, s)
    BY <2>6 DEF SlotsIn, At, SizeAt
  <2>8. Shape(b)
    BY <2>5, <2>6 DEF Shape
  <2>9. Buffer(b) /\ Laid(b)
    BY <2>1, <2>6, <2>7 DEF Good, Tidy, Buffer, Laid
  <2>10. b.size + request <= cap /\ b.size <= cap
    BY <2>1, <2>2, <2>3, <2>6
  <2>11. Counts(b)
    BY <2>1, <2>3, <2>6, <2>10 DEF Good, Tidy, Counts
  <2>12. Tidy(b)
    BY <2>1, <2>6, <2>8, <2>9, <2>11 DEF Good, Tidy
  <2>13. Same(a, b)
    BY <2>1, <2>6, <2>7 DEF Same
  <2>14. Tree(b) /\ Opened(b)
    BY <2>13, SameTree DEF Good
  <2> QED BY <2>1, <2>4, <2>6, <2>10, <2>12, <2>13, <2>14 DEF Good
<1> QED BY <1>1, <1>2

\* The slot of the open prototype.
LEMMA SlotOK ==
  ASSUME NEW a, Opened(a)
  PROVE  Slot(a) \in SlotsIn(a) /\ Len(a.context) \in Nat \ {0}
<1> DEFINE C == [slot : SlotsIn(a), idx : Nat]
<1>1. a.context \in Seq(C) /\ a.context # <<>>
  BY DEF Opened
<1>2. Len(a.context) \in Nat \ {0}
  BY <1>1, EmptySeq
<1> DEFINE n == Len(a.context)
<1>3. n \in 1 .. Len(a.context)
  BY <1>2
<1>4. a.context[n] \in C
  <2> HIDE DEF C, n
  <2> QED BY <1>1, <1>3, ElementOfSeq
<1>5. \A x \in C : x.slot \in SlotsIn(a)
  OBVIOUS
<1> HIDE DEF C
<1> QED BY <1>2, <1>4, <1>5 DEF Slot

\* A prototype without items.
LEMMA ZeroedOK ==
  ASSUME NEW a, Tidy(a), NEW room \in Caps
  PROVE  /\ Zeroed(room) \in Protos(DOMAIN a.st.text, Len(a.slots)) /\ InRoom(Zeroed(room))
         /\ Zeroed(room).max = room
<1>1. 0 \in DOMAIN a.st.text
  BY DEF Tidy, TableOK, Texts
<1>2. Zeroed(room) \in Protos(DOMAIN a.st.text, Len(a.slots))
  BY <1>1, EmptySeq, HostsOwn DEF Zeroed, Protos
<1>3. /\ Len(<<>>) = 0 /\ Zeroed(room).max = room /\ Zeroed(room).code = <<>>
      /\ Zeroed(room).consts = <<>> /\ Zeroed(room).imports = <<>> /\ Zeroed(room).nesteds = <<>>
  BY EmptySeq DEF Zeroed
<1>4. room.code \in Nat /\ room.consts \in Nat /\ room.imports \in Nat /\ room.nesteds \in Nat
  BY DEF Caps
<1> QED BY <1>2, <1>3, <1>4 DEF InRoom

\* A new prototype of this room lies behind all others, and a slot for it is free.
Behind(c, room) ==
  LET off == NewOffset(c, room)
  IN  /\ off \in Nat /\ off \in DOMAIN c.buff /\ c.buff[off] = Zeroed(room)
      /\ off + required_size(room) = c.size
      /\ \A s \in SlotsIn(c) : c.slots[s + 1] + SizeAt(c, s) <= off
      /\ Len(c.slots) < c.max_slots

\* new_prototype: all prototypes stay what they were, perhaps at other places.
LEMMA NewPrototypeOK ==
  ASSUME NEW a, Good(a), NEW room \in Caps
  PROVE  /\ Good(new_prototype(a, room)) /\ Same(a, new_prototype(a, room))
         /\ Behind(new_prototype(a, room), room)
<1> DEFINE req == required_size(room)
           b == grow_buff(a, req)
           buff == [o \in DOMAIN b.buff \cup {b.size} |->
                      IF o = b.size THEN Zeroed(room) ELSE b.buff[o]]
           size == b.size + req
           max == IF Len(b.slots) = b.max_slots THEN GROW_FACTOR * b.max_slots ELSE b.max_slots
           c == new_prototype(a, room)
<1>1. req \in Nat \ {0}
  BY SizeIs
<1>2. /\ Good(b) /\ Same(a, b) /\ b.size + req <= b.capacity
  BY <1>1, GrowBuffOK
<1>3. c = [b EXCEPT !.buff = buff, !.size = size, !.max_slots = max]
  BY DEF new_prototype, Reserved
<1> HIDE DEF c, b, req
<1>4. Tidy(b) /\ Tree(b) /\ Opened(b)
  BY <1>2 DEF Good
<1>5. c = [buff |-> buff, size |-> size, capacity |-> b.capacity, slots |-> b.slots,
           max_slots |-> max, context |-> b.context, st |-> b.st, asserts |-> b.asserts]
  <2>1. Shape(b)
    BY <1>4 DEF Tidy
  <2> HIDE DEF buff, size, max
  <2> QED BY <1>3, <2>1 DEF Shape
<1> HIDE DEF buff, size, max
<1>6. /\ c.buff = buff /\ c.size = size /\ c.capacity = b.capacity /\ c.slots = b.slots
      /\ c.max_slots = max /\ c.context = b.context /\ c.st = b.st /\ c.asserts = b.asserts
  BY <1>5
<1>7. SlotsIn(c) = SlotsIn(b)
  BY <1>6 DEF SlotsIn
<1>8. /\ b.size \in Nat /\ size \in Nat /\ size = b.size + req /\ size <= b.capacity
      /\ max \in Nat \ {0} /\ Len(b.slots) < max /\ b.capacity \in Nat \ {0}
  <2>1. /\ b.size \in Nat /\ b.capacity \in Nat \ {0} /\ b.max_slots \in Nat \ {0}
        /\ Len(b.slots) \in Nat /\ Len(b.slots) <= b.max_slots
    BY <1>4 DEF Tidy, Counts
  <2> QED BY <1>1, <1>2, <2>1 DEF size, max, GROW_FACTOR
<1>9. /\ DOMAIN buff = DOMAIN b.buff \cup {b.size} /\ buff[b.size] = Zeroed(room)
      /\ \A o \in DOMAIN b.buff : o # b.size => buff[o] = b.buff[o]
      /\ buff = [o \in DOMAIN buff |-> buff[o]]
  BY DEF buff
<1>10. \A s \in SlotsIn(b) : /\ b.slots[s + 1] \in DOMAIN b.buff /\ b.slots[s + 1] # b.size
                             /\ b.slots[s + 1] + SizeAt(b, s) <= b.size
  <2> TAKE s \in SlotsIn(b)
  <2>1. /\ b.slots[s + 1] \in DOMAIN b.buff /\ b.slots[s + 1] \in Nat /\ SizeAt(b, s) \in Nat \ {0}
        /\ b.slots[s + 1] + SizeAt(b, s) <= b.size
    BY <1>4, AtOK
  <2> QED BY <1>8, <2>1
<1>11. \A s \in SlotsIn(b) : At(c, s) = At(b, s) /\ SizeAt(c, s) = SizeAt(b, s)
  BY <1>6, <1>9, <1>10 DEF At, SizeAt
<1>12. Same(a, c)
  <2>1. SlotsIn(b) = SlotsIn(a)
    BY <1>2 DEF Same, SlotsIn
  <2> QED BY <1>2, <1>6, <1>11, <2>1 DEF Same
<1>13. Tree(c) /\ Opened(c)
  BY <1>12, SameTree DEF Good
<1>14. Shape(c)
  BY <1>5, <1>6 DEF Shape
<1>15. Buffer(c)
  <2>1. Zeroed(room) \in Protos(DOMAIN b.st.text, Len(b.slots)) /\ InRoom(Zeroed(room))
    BY <1>4, ZeroedOK
  <2>2. /\ DOMAIN b.buff \subseteq Nat
        /\ \A o \in DOMAIN b.buff :
             b.buff[o] \in Protos(DOMAIN b.st.text, Len(b.slots)) /\ InRoom(b.buff[o])
    BY <1>4 DEF Tidy, Buffer
  <2>3. \A o \in DOMAIN buff : buff[o] \in Protos(DOMAIN b.st.text, Len(b.slots)) /\ InRoom(buff[o])
    BY <1>9, <2>1, <2>2
  <2> QED BY <1>6, <1>8, <1>9, <2>2, <2>3 DEF Buffer
<1>16. Laid(c)
  <2>1. \A s \in SlotsIn(b) : b.slots[s + 1] + SizeAt(b, s) <= size
    <3> TAKE s \in SlotsIn(b)
    <3>1. /\ b.slots[s + 1] \in Nat /\ SizeAt(b, s) \in Nat
          /\ b.slots[s + 1] + SizeAt(b, s) <= b.size
      BY <1>4, AtOK
    <3> QED BY <1>1, <1>8, <3>1
  <2>2. \A s \in SlotsIn(b) : b.slots[s + 1] \in DOMAIN buff
    BY <1>9, <1>10
  <2> QED BY <1>4, <1>6, <1>7, <1>11, <2>1, <2>2 DEF Tidy, Laid
<1>17. Counts(c)
  <2>1. Len(b.slots) \in Nat \ {0} /\ b.slots \in Seq(Nat)
    BY <1>4 DEF Tidy, Counts
  <2>2. Len(b.slots) <= max
    BY <1>8, <2>1
  <2> QED BY <1>6, <1>8, <2>1, <2>2 DEF Counts
<1>18. Tidy(c)
  BY <1>4, <1>6, <1>14, <1>15, <1>16, <1>17 DEF Tidy
<1>19. NewOffset(c, room) = b.size
  BY <1>1, <1>6, <1>8 DEF NewOffset, req
<1>20. Behind(c, room)
  BY <1>6, <1>7, <1>8, <1>9, <1>10, <1>11, <1>19 DEF Behind, req
<1> QED BY <1>12, <1>13, <1>18, <1>20 DEF Good, c

\* The same but for the prototype p of the slot h.
SameBut(a, b, h, p) ==
  /\ Len(b.slots) = Len(a.slots)
  /\ \A s \in SlotsIn(a) : At(b, s) = IF s = h THEN p ELSE At(a, s)
  /\ b.context = a.context /\ b.st = a.st /\ b.asserts = a.asserts

\* A prototype that nests the same slots leaves the tree.
LEMMA SameButTree ==
  ASSUME NEW a, NEW b, NEW h, NEW p, SameBut(a, b, h, p), Tree(a), Opened(a),
         p.nesteds = Kids(a, h)
  PROVE  Tree(b) /\ Opened(b) /\ SlotsIn(b) = SlotsIn(a)
<1>1. \A s \in SlotsIn(a) : Kids(b, s) = Kids(a, s)
  BY DEF SameBut, Kids
<1> QED BY <1>1, TreeOfKids, OpenedSame DEF SameBut

\* The open prototype is written over by one of its size.
LEMMA WithPrototypeTidy ==
  ASSUME NEW a, Tidy(a), Slot(a) \in SlotsIn(a), NEW p, p.max = aasm_prototype(a).max,
         p \in Protos(DOMAIN a.st.text, Len(a.slots)), InRoom(p)
  PROVE  /\ Tidy(WithPrototype(a, p)) /\ SameBut(a, WithPrototype(a, p), Slot(a), p)
         /\ WithPrototype(a, p).slots = a.slots
<1> DEFINE h == Slot(a)
           off == a.slots[h + 1]
           buff == [a.buff EXCEPT ![off] = p]
           b == WithPrototype(a, p)
<1>1. b = [a EXCEPT !.buff = buff]
  <2>1. b = [a EXCEPT !.buff[off] = p]
    BY DEF WithPrototype
  <2>2. [a EXCEPT !.buff[off] = p] = [a EXCEPT !.buff = buff]
    OBVIOUS
  <2> QED BY <2>1, <2>2
<1>2. /\ off \in DOMAIN a.buff /\ off \in Nat /\ aasm_prototype(a) = a.buff[off]
  <2>1. At(a, h) = a.buff[off]
    BY DEF At
  <2>2. h \in SlotsIn(a)
    OBVIOUS
  <2> HIDE DEF h, off
  <2>3. a.slots[h + 1] \in DOMAIN a.buff /\ a.slots[h + 1] \in Nat
    BY <2>2, AtOK
  <2> QED BY <2>1, <2>3 DEF aasm_prototype, h, off
<1>3. h \in SlotsIn(a) /\ p.max = At(a, h).max
  BY DEF aasm_prototype
<1>4. off = a.slots[h + 1]
  OBVIOUS
<1> HIDE DEF b, h, off
<1>5. b = [buff |-> buff, size |-> a.size, capacity |-> a.capacity, slots |-> a.slots,
           max_slots |-> a.max_slots, context |-> a.context, st |-> a.st, asserts |-> a.asserts]
  <2>1. Shape(a)
    BY DEF Tidy
  <2> HIDE DEF buff
  <2> QED BY <1>1, <2>1 DEF Shape
<1>6. /\ DOMAIN buff = DOMAIN a.buff /\ buff[off] = p
      /\ \A o \in DOMAIN a.buff : o # off => buff[o] = a.buff[o]
      /\ buff = [o \in DOMAIN buff |-> buff[o]]
  <2>1. a.buff = [o \in DOMAIN a.buff |-> a.buff[o]]
    BY DEF Tidy, Buffer
  <2> QED BY <1>2, <2>1
<1> HIDE DEF buff
<1>7. /\ b.buff = buff /\ b.size = a.size /\ b.capacity = a.capacity /\ b.slots = a.slots
      /\ b.max_slots = a.max_slots /\ b.context = a.context /\ b.st = a.st /\ b.asserts = a.asserts
  BY <1>5
<1>8. SlotsIn(b) = SlotsIn(a)
  BY <1>7 DEF SlotsIn
<1>9. \A s \in SlotsIn(a) : a.slots[s + 1] \in DOMAIN a.buff /\ (s # h => a.slots[s + 1] # off)
  <2> TAKE s \in SlotsIn(a)
  <2>1. /\ a.slots[s + 1] \in DOMAIN a.buff /\ a.slots[s + 1] \in Nat /\ SizeAt(a, s) \in Nat \ {0}
    BY AtOK
  <2>2. SizeAt(a, h) \in Nat \ {0}
    BY <1>3, AtOK
  <2>3. s # h => \/ a.slots[s + 1] + SizeAt(a, s) <= off
                 \/ off + SizeAt(a, h) <= a.slots[s + 1]
    BY <1>3, <1>4 DEF Tidy, Laid
  <2> QED BY <1>2, <2>1, <2>2, <2>3
<1>10. \A s \in SlotsIn(a) : At(b, s) = IF s = h THEN p ELSE At(a, s)
  BY <1>4, <1>6, <1>7, <1>9 DEF At
<1>11. SameBut(a, b, h, p)
  BY <1>7, <1>10 DEF SameBut
<1>12. \A s \in SlotsIn(a) : SizeAt(b, s) = SizeAt(a, s)
  BY <1>3, <1>10 DEF SizeAt
<1>13. Shape(b)
  BY <1>5, <1>7 DEF Shape
<1>14. Buffer(b)
  <2>1. \A o \in DOMAIN buff : buff[o] \in Protos(DOMAIN a.st.text, Len(a.slots)) /\ InRoom(buff[o])
    BY <1>6 DEF Tidy, Buffer
  <2> QED BY <1>6, <1>7, <2>1 DEF Tidy, Buffer
<1>15. Laid(b)
  BY <1>6, <1>7, <1>8, <1>12 DEF Tidy, Laid
<1>16. Counts(b)
  BY <1>7 DEF Tidy, Counts
<1>17. Tidy(b)
  BY <1>7, <1>13, <1>14, <1>15, <1>16 DEF Tidy
<1> QED BY <1>7, <1>11, <1>17 DEF b, h

\* The open prototype is replaced by its copy at the end of the buffer.
LEMMA ReplacedOK ==
  ASSUME NEW c, Good(c), NEW room \in Caps, Behind(c, room),
         NEW p, p = Enlarged(aasm_prototype(c), room), InRoom(p)
  PROVE  /\ Good(ReplacedByLast(c, room))
         /\ SameBut(c, ReplacedByLast(c, room), Slot(c), p)
<1> DEFINE h == Slot(c)
           off == NewOffset(c, room)
           buff == [c.buff EXCEPT ![off] = p]
           slots == [i \in DOMAIN c.slots |-> IF i = h + 1 THEN off ELSE c.slots[i]]
           b == ReplacedByLast(c, room)
<1>1. b = [c EXCEPT !.buff = buff, !.slots = slots]
  <2>1. b = [c EXCEPT !.buff[off] = p, !.slots = slots]
    BY DEF ReplacedByLast, Replaced
  <2>2. [c EXCEPT !.buff[off] = p] = [c EXCEPT !.buff = buff]
    OBVIOUS
  <2> HIDE DEF slots
  <2> QED BY <2>1, <2>2
<1>2. Tidy(c) /\ Tree(c) /\ Opened(c)
  BY DEF Good
<1>3. h \in SlotsIn(c)
  BY <1>2, SlotOK
<1>4. /\ off \in Nat /\ off \in DOMAIN c.buff /\ off + required_size(room) = c.size
      /\ \A s \in SlotsIn(c) : c.slots[s + 1] + SizeAt(c, s) <= off
  BY DEF Behind
<1>5. aasm_prototype(c) = At(c, h)
  BY DEF aasm_prototype
<1> HIDE DEF b, h, off
<1>6. /\ p \in Protos(DOMAIN c.st.text, Len(c.slots)) /\ p.max = room
      /\ p.nesteds = At(c, h).nesteds
  <2> DEFINE q == At(c, h)
             R == DOMAIN c.st.text
             n == Len(c.slots)
  <2>1. q \in Protos(R, n)
    BY <1>2, <1>3, AtOK
  <2>2. p = [q EXCEPT !.max = room, !.locals = 0]
    BY <1>5 DEF Enlarged
  <2> HIDE DEF q
  <2>3. p = [source |-> q.source, symbol |-> q.symbol, locals |-> 0, code |-> q.code,
             consts |-> q.consts, imports |-> q.imports, nesteds |-> q.nesteds, max |-> room]
    <3>1. q = [source |-> q.source, symbol |-> q.symbol, locals |-> q.locals, code |-> q.code,
               consts |-> q.consts, imports |-> q.imports, nesteds |-> q.nesteds, max |-> q.max]
      BY <2>1 DEF Protos
    <3> QED BY <2>2, <3>1
  <2>4. /\ q.source \in R /\ q.symbol \in R /\ q.code \in Seq(AnyCode)
        /\ q.consts \in Seq(Plain \cup [string : R])
        /\ q.imports \in Seq([module : R, name : R]) /\ q.nesteds \in Seq(0 .. n - 1)
    BY <2>1 DEF Protos
  <2> HIDE DEF R, n
  <2>5. p \in Protos(R, n)
    BY <2>3, <2>4, HostsOwn DEF Protos
  <2>6. p.max = room /\ p.nesteds = q.nesteds
    BY <2>3
  <2> QED BY <2>5, <2>6 DEF q, R, n
<1>7. b = [buff |-> buff, size |-> c.size, capacity |-> c.capacity, slots |-> slots,
           max_slots |-> c.max_slots, context |-> c.context, st |-> c.st, asserts |-> c.asserts]
  <2>1. Shape(c)
    BY <1>2 DEF Tidy
  <2> HIDE DEF buff, slots
  <2> QED BY <1>1, <2>1 DEF Shape
<1>8. /\ DOMAIN buff = DOMAIN c.buff /\ buff[off] = p
      /\ \A o \in DOMAIN c.buff : o # off => buff[o] = c.buff[o]
      /\ buff = [o \in DOMAIN buff |-> buff[o]]
  <2>1. c.buff = [o \in DOMAIN c.buff |-> c.buff[o]]
    BY <1>2 DEF Tidy, Buffer
  <2> QED BY <1>4, <2>1
<1>9. /\ c.slots \in Seq(Nat) /\ DOMAIN c.slots = 1 .. Len(c.slots) /\ Len(c.slots) \in Nat \ {0}
      /\ c.slots \in [1 .. Len(c.slots) -> Nat]
  <2>1. c.slots \in Seq(Nat) /\ Len(c.slots) \in Nat \ {0}
    BY <1>2 DEF Tidy, Counts
  <2> QED BY <2>1, LenProperties
<1>10. /\ slots \in Seq(Nat) /\ Len(slots) = Len(c.slots)
       /\ \A s \in SlotsIn(c) : slots[s + 1] = IF s = h THEN off ELSE c.slots[s + 1]
  <2> DEFINE n == Len(c.slots)
  <2>1. slots \in [1 .. n -> Nat]
    BY <1>4, <1>9
  <2>2. \A s \in SlotsIn(c) : s + 1 \in 1 .. n /\ (s + 1 = h + 1 <=> s = h)
    BY <1>3, <1>9 DEF SlotsIn
  <2>3. \A s \in SlotsIn(c) : slots[s + 1] = IF s = h THEN off ELSE c.slots[s + 1]
    <3>1. \A i \in 1 .. n : slots[i] = IF i = h + 1 THEN off ELSE c.slots[i]
      BY <1>9
    <3> HIDE DEF slots
    <3> QED BY <2>2, <3>1
  <2> HIDE DEF slots
  <2> QED BY <1>9, <2>1, <2>3
<1> HIDE DEF buff, slots
<1>11. /\ b.buff = buff /\ b.size = c.size /\ b.capacity = c.capacity /\ b.slots = slots
       /\ b.max_slots = c.max_slots /\ b.context = c.context /\ b.st = c.st /\ b.asserts = c.asserts
  BY <1>7
<1>12. SlotsIn(b) = SlotsIn(c)
  BY <1>10, <1>11 DEF SlotsIn
<1>13. \A s \in SlotsIn(c) : /\ c.slots[s + 1] \in DOMAIN c.buff /\ c.slots[s + 1] # off
                             /\ c.slots[s + 1] \in Nat /\ SizeAt(c, s) \in Nat \ {0}
  <2> TAKE s \in SlotsIn(c)
  <2>1. /\ c.slots[s + 1] \in DOMAIN c.buff /\ c.slots[s + 1] \in Nat /\ SizeAt(c, s) \in Nat \ {0}
    BY <1>2, AtOK
  <2>2. c.slots[s + 1] + SizeAt(c, s) <= off
    BY <1>4
  <2> QED BY <1>4, <2>1, <2>2
<1>14. \A s \in SlotsIn(c) : At(b, s) = IF s = h THEN p ELSE At(c, s)
  BY <1>8, <1>10, <1>11, <1>13 DEF At
<1>15. SameBut(c, b, h, p)
  BY <1>10, <1>11, <1>14 DEF SameBut
<1>16. Tree(b) /\ Opened(b)
  BY <1>2, <1>6, <1>15, SameButTree DEF Kids
<1>17. \A s \in SlotsIn(c) : SizeAt(b, s) = IF s = h THEN required_size(room) ELSE SizeAt(c, s)
  BY <1>6, <1>14 DEF SizeAt
<1>18. Shape(b)
  BY <1>7, <1>11 DEF Shape
<1>19. Buffer(b)
  <2>1. \A o \in DOMAIN buff : buff[o] \in Protos(DOMAIN c.st.text, Len(c.slots)) /\ InRoom(buff[o])
    BY <1>2, <1>6, <1>8 DEF Tidy, Buffer
  <2> QED BY <1>2, <1>8, <1>10, <1>11, <2>1 DEF Tidy, Buffer
<1>20. Laid(b)
  <2>1. ASSUME NEW s \in SlotsIn(c)
        PROVE  slots[s + 1] \in DOMAIN buff /\ slots[s + 1] + SizeAt(b, s) <= c.size
    <3>1. CASE s = h
      <4>1. slots[s + 1] = off /\ SizeAt(b, s) = required_size(room) /\ c.size \in Nat
        BY <1>2, <1>10, <1>17, <3>1 DEF Tidy, Counts
      <4> QED BY <1>4, <1>8, <4>1
    <3>2. CASE s # h
      <4>1. c.slots[s + 1] + SizeAt(c, s) <= c.size
        BY <1>2 DEF Tidy, Laid
      <4> QED BY <1>8, <1>10, <1>13, <1>17, <3>2, <4>1
    <3> QED BY <3>1, <3>2
  <2>2. ASSUME NEW s \in SlotsIn(c), NEW t \in SlotsIn(c), s # t
        PROVE  \/ slots[s + 1] + SizeAt(b, s) <= slots[t + 1]
               \/ slots[t + 1] + SizeAt(b, t) <= slots[s + 1]
    <3>1. CASE s = h
      BY <1>4, <1>10, <1>17, <2>2, <3>1
    <3>2. CASE t = h
      BY <1>4, <1>10, <1>17, <2>2, <3>2
    <3>3. CASE s # h /\ t # h
      BY <1>2, <1>10, <1>17, <2>2, <3>3 DEF Tidy, Laid
    <3> QED BY <3>1, <3>2, <3>3
  <2> QED BY <1>11, <1>12, <2>1, <2>2 DEF Laid
<1>21. Counts(b)
  BY <1>2, <1>10, <1>11 DEF Tidy, Counts
<1>22. Tidy(b)
  BY <1>2, <1>11, <1>18, <1>19, <1>20, <1>21 DEF Tidy
<1> QED BY <1>15, <1>16, <1>22 DEF Good, b, h

\* The same program but for the open prototype, of which what is nested stays.
Steady(a, b) ==
  /\ Len(b.slots) = Len(a.slots) /\ b.context = a.context
  /\ aasm_prototype(b).nesteds = aasm_prototype(a).nesteds

\* The same items.
SameItems(p, q) ==
  /\ q.code = p.code /\ q.consts = p.consts /\ q.imports = p.imports
  /\ q.nesteds = p.nesteds

\* The same program and strings, perhaps at other places.
Keeps(a, b) ==
  /\ Good(b) /\ Steady(a, b) /\ b.st = a.st /\ b.asserts = a.asserts
  /\ SameItems(aasm_prototype(a), aasm_prototype(b))

\* The items of a prototype fit a room.
Fits(p, room) ==
  /\ Len(p.code) <= room.code /\ Len(p.consts) <= room.consts
  /\ Len(p.imports) <= room.imports /\ Len(p.nesteds) <= room.nesteds

\* What Enlarged keeps.
LEMMA EnlargedIs ==
  ASSUME NEW R, NEW n, NEW p \in Protos(R, n), NEW room \in Caps, Fits(p, room)
  PROVE  /\ SameItems(p, Enlarged(p, room)) /\ Enlarged(p, room).max = room
         /\ InRoom(Enlarged(p, room))
<1>1. p = [source |-> p.source, symbol |-> p.symbol, locals |-> p.locals, code |-> p.code,
           consts |-> p.consts, imports |-> p.imports, nesteds |-> p.nesteds, max |-> p.max]
  BY DEF Protos
<1>2. Enlarged(p, room) =
        [source |-> p.source, symbol |-> p.symbol, locals |-> 0, code |-> p.code,
         consts |-> p.consts, imports |-> p.imports, nesteds |-> p.nesteds, max |-> room]
  <2>1. Enlarged(p, room) = [p EXCEPT !.max = room, !.locals = 0]
    BY DEF Enlarged
  <2>2. \A q : p = q => Enlarged(p, room) = [q EXCEPT !.max = room, !.locals = 0]
    BY <2>1
  <2>3. PICK q : q = p
    OBVIOUS
  <2>4. Enlarged(p, room) = [q EXCEPT !.max = room, !.locals = 0]
    BY <2>1, <2>3
  <2>5. q = [source |-> q.source, symbol |-> q.symbol, locals |-> q.locals, code |-> q.code,
             consts |-> q.consts, imports |-> q.imports, nesteds |-> q.nesteds, max |-> q.max]
    BY <1>1, <2>3
  <2> QED BY <2>3, <2>4, <2>5
<1> QED BY <1>2 DEF SameItems, InRoom, Fits

\* Reserving room for what is there changes neither the program nor its strings.
LEMMA ReserveOK ==
  ASSUME NEW a, Good(a), NEW room \in Caps, Fits(aasm_prototype(a), room)
  PROVE  /\ Keeps(a, aasm_reserve(a, room))
         /\ \A s \in Sections : aasm_prototype(aasm_reserve(a, room)).max[s] >= room[s]
<1> DEFINE b == aasm_reserve(a, room)
           h == Slot(a)
<1>1. h \in SlotsIn(a) /\ Tidy(a)
  BY SlotOK DEF Good
<1>2. CASE \A s \in Sections : aasm_prototype(a).max[s] >= room[s]
  <2>1. b = a
    BY <1>2 DEF aasm_reserve
  <2> QED BY <1>2, <2>1 DEF Keeps, Steady, SameItems
<1>3. CASE ~ \A s \in Sections : aasm_prototype(a).max[s] >= room[s]
  <2> DEFINE c == new_prototype(a, room)
             q == aasm_prototype(c)
             p == Enlarged(q, room)
  <2>1. b = ReplacedByLast(c, room)
    BY <1>3 DEF aasm_reserve
  <2>2. Good(c) /\ Same(a, c) /\ Behind(c, room)
    BY NewPrototypeOK
  <2> HIDE DEF c
  <2>3. Slot(c) = h /\ q = aasm_prototype(a) /\ Slot(c) \in SlotsIn(c)
    <3>1. Slot(c) = h
      BY <2>2 DEF Same, Slot
    <3> QED BY <1>1, <2>2, <3>1 DEF Same, aasm_prototype, SlotsIn
  <2>4. q \in Protos(DOMAIN c.st.text, Len(c.slots))
    BY <2>2, <2>3, AtOK DEF aasm_prototype, Good
  <2>5. SameItems(q, p) /\ p.max = room /\ InRoom(p)
    BY <2>3, <2>4, EnlargedIs
  <2> HIDE DEF p
  <2>6. Good(b) /\ SameBut(c, b, h, p)
    BY <2>1, <2>2, <2>3, <2>5, ReplacedOK DEF p
  <2> HIDE DEF b, h
  <2>7. /\ Len(b.slots) = Len(a.slots) /\ b.context = a.context /\ b.st = a.st
        /\ b.asserts = a.asserts /\ At(b, h) = p
    BY <1>1, <2>2, <2>6, <2>3 DEF SameBut, Same, SlotsIn
  <2>8. aasm_prototype(b) = p
    <3>1. Slot(b) = h
      BY <2>7 DEF Slot, h
    <3> QED BY <2>7, <3>1 DEF aasm_prototype
  <2>9. \A s \in Sections : p.max[s] >= room[s]
    <3>1. \A s \in Sections : room[s] \in Nat
      BY DEF Caps, Sections
    <3> QED BY <2>5, <3>1
  <2> QED BY <2>3, <2>5, <2>6, <2>7, <2>8, <2>9 DEF Keeps, Steady, SameItems, b
<1> QED BY <1>2, <1>3

\* So does making room for one more item.
LEMMA OpenGrown ==
  ASSUME NEW a, Good(a), NEW s \in Sections
  PROVE  Keeps(a, Grown(a, s))
<1> DEFINE b == Grown(a, s)
           p == aasm_prototype(a)
           room == [p.max EXCEPT ![s] = 2 * p.max[s]]
<1>1. Len(p[s]) # p.max[s] => b = a
  BY DEF Grown
<1>2. Len(p[s]) = p.max[s] => b = aasm_reserve(a, room)
  BY DEF Grown, GROW_FACTOR
<1>3. p.max \in Caps /\ InRoom(p)
  BY SlotOK, AtOK DEF Good, aasm_prototype
<1> HIDE DEF b, p
<1>4. p.max = [code |-> p.max.code, consts |-> p.max.consts, imports |-> p.max.imports,
               nesteds |-> p.max.nesteds]
      /\ p.max.code \in Nat /\ p.max.consts \in Nat /\ p.max.imports \in Nat /\ p.max.nesteds \in Nat
  BY <1>3 DEF Caps
<1>5. /\ room.code = IF s = "code" THEN 2 * p.max.code ELSE p.max.code
      /\ room.consts = IF s = "consts" THEN 2 * p.max.consts ELSE p.max.consts
      /\ room.imports = IF s = "imports" THEN 2 * p.max.imports ELSE p.max.imports
      /\ room.nesteds = IF s = "nesteds" THEN 2 * p.max.nesteds ELSE p.max.nesteds
      /\ room = [code |-> room.code, consts |-> room.consts, imports |-> room.imports,
                 nesteds |-> room.nesteds]
  BY <1>4 DEF GROW_FACTOR, Sections
<1> HIDE DEF room
<1>6. room \in Caps
  BY <1>4, <1>5 DEF Caps
<1>7. Fits(p, room)
  <2>1. /\ p.max.code <= room.code /\ p.max.consts <= room.consts
        /\ p.max.imports <= room.imports /\ p.max.nesteds <= room.nesteds
    BY <1>4, <1>5
  <2> DEFINE u == Len(p.code)
             v == Len(p.consts)
             w == Len(p.imports)
             x == Len(p.nesteds)
  <2>2. p \in Protos(DOMAIN a.st.text, Len(a.slots))
    BY SlotOK, AtOK DEF Good, aasm_prototype, p
  <2>3. u \in Nat /\ v \in Nat /\ w \in Nat /\ x \in Nat
    BY <2>2, LenProperties DEF Protos
  <2>4. u <= p.max.code /\ v <= p.max.consts /\ w <= p.max.imports /\ x <= p.max.nesteds
    BY <1>3 DEF InRoom
  <2>5. u <= room.code /\ v <= room.consts /\ w <= room.imports /\ x <= room.nesteds
    <3> HIDE DEF u, v, w, x
    <3> QED BY <1>4, <1>5, <2>1, <2>3, <2>4
  <2> QED BY <2>5 DEF Fits
<1>8. Len(p[s]) = p.max[s] => Keeps(a, b)
  BY <1>2, <1>6, <1>7, ReserveOK DEF p
<1>9. Len(p[s]) # p.max[s] => Keeps(a, b)
  BY <1>1 DEF Keeps, Steady, SameItems
<1> QED BY <1>8, <1>9 DEF b

\* Sequences over more elements.
LEMMA SeqIncluded ==
  ASSUME NEW S, NEW T, S \subseteq T
  PROVE  Seq(S) \subseteq Seq(T)
<1> SUFFICES ASSUME NEW s \in Seq(S) PROVE s \in Seq(T)
  OBVIOUS
<1> DEFINE n == Len(s)
<1>1. n \in Nat /\ s \in [1 .. n -> S]
  BY LenProperties
<1> HIDE DEF n
<1>2. s \in [1 .. n -> T]
  BY <1>1
<1> QED BY <1>1, <1>2, SeqDef

\* Other contexts, another string table, another outcome of the assertions.
Changed(a, c, t, x) ==
  [buff |-> a.buff, size |-> a.size, capacity |-> a.capacity, slots |-> a.slots,
   max_slots |-> a.max_slots, context |-> c, st |-> t, asserts |-> x]

\* The same prototypes at the same places.
Beside(a, b) ==
  /\ Tidy(b) /\ b.slots = a.slots /\ SlotsIn(b) = SlotsIn(a)
  /\ \A s \in SlotsIn(a) : At(b, s) = At(a, s)
  /\ b.size = a.size /\ b.capacity = a.capacity /\ b.max_slots = a.max_slots

\* What else the assembler has changes: its contexts, its strings, its assertions.
LEMMA OthersTidy ==
  ASSUME NEW a, Tidy(a), NEW c, NEW t, TableOK(t), Extends(a.st, t), NEW x \in BOOLEAN,
         NEW b, b = Changed(a, c, t, x)
  PROVE  Beside(a, b)
<1>1. b = [buff |-> a.buff, size |-> a.size, capacity |-> a.capacity, slots |-> a.slots,
           max_slots |-> a.max_slots, context |-> c, st |-> t, asserts |-> x]
  BY DEF Changed
<1>2. /\ b.buff = a.buff /\ b.size = a.size /\ b.capacity = a.capacity /\ b.slots = a.slots
      /\ b.max_slots = a.max_slots /\ b.context = c /\ b.st = t /\ b.asserts = x
  BY <1>1
<1>3. SlotsIn(b) = SlotsIn(a) /\ \A s \in SlotsIn(a) : At(b, s) = At(a, s)
  BY <1>2 DEF SlotsIn, At
<1>4. Shape(b)
  BY <1>1, <1>2 DEF Shape
<1>5. \A o \in DOMAIN a.buff : a.buff[o] \in Protos(DOMAIN t.text, Len(a.slots))
  <2>1. DOMAIN a.st.text \subseteq DOMAIN t.text
    BY DEF Extends
  <2>2. Seq(Plain \cup [string : DOMAIN a.st.text]) \subseteq Seq(Plain \cup [string : DOMAIN t.text])
    <3>1. Plain \cup [string : DOMAIN a.st.text] \subseteq Plain \cup [string : DOMAIN t.text]
      BY <2>1
    <3> QED BY <3>1, SeqIncluded
  <2>3. Seq([module : DOMAIN a.st.text, name : DOMAIN a.st.text])
          \subseteq Seq([module : DOMAIN t.text, name : DOMAIN t.text])
    <3> DEFINE U == [module : DOMAIN a.st.text, name : DOMAIN a.st.text]
               V == [module : DOMAIN t.text, name : DOMAIN t.text]
    <3>1. U \subseteq V
      BY <2>1
    <3> HIDE DEF U, V
    <3>2. Seq(U) \subseteq Seq(V)
      BY <3>1, SeqIncluded
    <3> QED BY <3>2 DEF U, V
  <2>4. Protos(DOMAIN a.st.text, Len(a.slots)) \subseteq Protos(DOMAIN t.text, Len(a.slots))
    <3> DEFINE R == DOMAIN a.st.text
               U == DOMAIN t.text
    <3>1. R \subseteq U /\ Seq(Plain \cup [string : R]) \subseteq Seq(Plain \cup [string : U])
          /\ Seq([module : R, name : R]) \subseteq Seq([module : U, name : U])
      BY <2>1, <2>2, <2>3
    <3> HIDE DEF R, U
    <3>2. Protos(R, Len(a.slots)) \subseteq Protos(U, Len(a.slots))
      BY <3>1 DEF Protos
    <3> QED BY <3>2 DEF R, U
  <2> QED BY <2>4 DEF Tidy, Buffer
<1>6. Buffer(b)
  BY <1>2, <1>5 DEF Tidy, Buffer
<1>7. Laid(b)
  BY <1>2, <1>3 DEF Tidy, Laid, SizeAt
<1>8. Counts(b)
  BY <1>2 DEF Tidy, Counts
<1> QED BY <1>2, <1>3, <1>4, <1>6, <1>7, <1>8 DEF Tidy, Beside

\* An assertion that fails.
LEMMA FailedOK ==
  ASSUME NEW a, Tidy(a), NEW b, b = [a EXCEPT !.asserts = FALSE]
  PROVE  /\ Tidy(b) /\ (Good(a) => Good(b) /\ Steady(a, b)) /\ (Opened(a) => Opened(b))
         /\ b.st = a.st /\ b.asserts = FALSE
<1>1. b = Changed(a, a.context, a.st, FALSE)
  <2>1. Shape(a)
    BY DEF Good, Tidy
  <2> QED BY <2>1 DEF Shape, Changed
<1>2. TableOK(a.st) /\ Extends(a.st, a.st)
  BY DEF Tidy, Extends
<1>2a. FALSE \in BOOLEAN
  OBVIOUS
<1>3. /\ Tidy(b) /\ b.slots = a.slots /\ SlotsIn(b) = SlotsIn(a)
      /\ \A s \in SlotsIn(a) : At(b, s) = At(a, s)
      /\ b.context = a.context /\ b.st = a.st /\ b.asserts = FALSE
  <2>1. Beside(a, b)
    BY <1>1, <1>2, <1>2a, OthersTidy
  <2>2. b.context = a.context /\ b.st = a.st /\ b.asserts = FALSE
    BY <1>1 DEF Changed
  <2> QED BY <2>1, <2>2 DEF Beside
<1>4. Opened(a) => Opened(b)
  BY <1>3, OpenedSame
<1>5. Tree(a) => Tree(b)
  BY <1>3, TreeOfKids DEF Kids
<1>6. Opened(a) => aasm_prototype(b) = aasm_prototype(a)
  BY <1>3, SlotOK DEF aasm_prototype, Slot
<1> QED BY <1>3, <1>4, <1>5, <1>6 DEF Good, Steady

\* More strings.
LEMMA StringsOK ==
  ASSUME NEW a, Good(a), NEW t, TableOK(t), Extends(a.st, t), NEW b, b = [a EXCEPT !.st = t]
  PROVE  /\ Good(b) /\ Steady(a, b) /\ b.st = t /\ b.asserts = a.asserts
         /\ aasm_prototype(b) = aasm_prototype(a)
<1>1. b = Changed(a, a.context, t, a.asserts)
  <2>1. Shape(a)
    BY DEF Good, Tidy
  <2> QED BY <2>1 DEF Shape, Changed
<1>2. Tidy(a) /\ a.asserts \in BOOLEAN
  BY DEF Good, Tidy
<1>3. /\ Tidy(b) /\ b.slots = a.slots /\ SlotsIn(b) = SlotsIn(a)
      /\ \A s \in SlotsIn(a) : At(b, s) = At(a, s)
      /\ b.context = a.context /\ b.st = t /\ b.asserts = a.asserts
  <2>1. Beside(a, b)
    BY <1>1, <1>2, OthersTidy
  <2>2. b.context = a.context /\ b.st = t /\ b.asserts = a.asserts
    BY <1>1 DEF Changed
  <2> QED BY <2>1, <2>2 DEF Beside
<1>4. Opened(b) /\ Tree(b)
  BY <1>3, OpenedSame, TreeOfKids DEF Kids, Good
<1>5. aasm_prototype(b) = aasm_prototype(a)
  BY <1>3, SlotOK DEF aasm_prototype, Slot, Good
<1> QED BY <1>3, <1>4, <1>5 DEF Good, Steady

\* Another prototype is opened, or one is closed.
LEMMA ContextOK ==
  ASSUME NEW a, Good(a), NEW c, c \in Seq([slot : SlotsIn(a), idx : Nat]), c # <<>>,
         NEW b, b = [a EXCEPT !.context = c]
  PROVE  /\ Good(b) /\ b.slots = a.slots /\ b.context = c /\ b.st = a.st
         /\ b.asserts = a.asserts
<1>1. b = Changed(a, c, a.st, a.asserts)
  <2>1. Shape(a)
    BY DEF Good, Tidy
  <2> QED BY <2>1 DEF Shape, Changed
<1>2. Tidy(a) /\ a.asserts \in BOOLEAN /\ TableOK(a.st) /\ Extends(a.st, a.st)
  BY DEF Good, Tidy, Extends
<1>3. /\ Tidy(b) /\ b.slots = a.slots /\ SlotsIn(b) = SlotsIn(a)
      /\ \A s \in SlotsIn(a) : At(b, s) = At(a, s)
      /\ b.context = c /\ b.st = a.st /\ b.asserts = a.asserts
  <2>1. Beside(a, b)
    BY <1>1, <1>2, OthersTidy
  <2>2. b.context = c /\ b.st = a.st /\ b.asserts = a.asserts
    BY <1>1 DEF Changed
  <2> QED BY <2>1, <2>2 DEF Beside
<1>4. Opened(b) /\ Tree(b)
  BY <1>3, TreeOfKids DEF Opened, Kids, Good
<1> QED BY <1>3, <1>4 DEF Good

\* The open prototype is written over, by one that nests the same.
LEMMA WrittenOverOK ==
  ASSUME NEW a, Good(a), NEW p, p.max = aasm_prototype(a).max,
         p.nesteds = aasm_prototype(a).nesteds,
         p \in Protos(DOMAIN a.st.text, Len(a.slots)), InRoom(p),
         NEW b, b = WithPrototype(a, p)
  PROVE  /\ Good(b) /\ Steady(a, b) /\ b.st = a.st /\ b.asserts = a.asserts
         /\ aasm_prototype(b) = p
<1>1. Tidy(a) /\ Tree(a) /\ Opened(a) /\ Slot(a) \in SlotsIn(a)
  BY SlotOK DEF Good
<1>2. Tidy(b) /\ SameBut(a, b, Slot(a), p)
  BY <1>1, WithPrototypeTidy
<1>3. p.nesteds = Kids(a, Slot(a))
  BY DEF Kids, aasm_prototype
<1>4. Tree(b) /\ Opened(b)
  BY <1>1, <1>2, <1>3, SameButTree
<1>5. aasm_prototype(b) = p /\ b.context = a.context /\ Len(b.slots) = Len(a.slots)
  BY <1>1, <1>2 DEF SameBut, aasm_prototype, Slot
<1> QED BY <1>2, <1>4, <1>5 DEF Good, Steady, SameBut

\* What a section may hold: R are references of strings, n is how many slots there are.
IsItem(R, n, s, x) ==
  CASE s = "code" -> x \in AnyCode
    [] s = "consts" -> x \in Plain \cup [string : R]
    [] s = "imports" -> x \in [module : R, name : R]
    [] s = "nesteds" -> x \in 0 .. n - 1

\* A prototype, member by member.
Members(R, n, f, g, l, c, k, i, d, m) ==
  /\ f \in R /\ g \in R /\ l \in AnyLocals /\ c \in Seq(AnyCode)
  /\ k \in Seq(Plain \cup [string : R]) /\ i \in Seq([module : R, name : R])
  /\ d \in Seq(0 .. n - 1) /\ m \in Caps

\* Such members make a prototype.
LEMMA ProtoOf ==
  ASSUME NEW R, NEW n, NEW f, NEW g, NEW l, NEW c, NEW k, NEW i, NEW d, NEW m,
         Members(R, n, f, g, l, c, k, i, d, m)
  PROVE  [source |-> f, symbol |-> g, locals |-> l, code |-> c, consts |-> k,
          imports |-> i, nesteds |-> d, max |-> m] \in Protos(R, n)
BY DEF Protos, Members

\* One more item where there is room for it.
LEMMA AppendedOK ==
  ASSUME NEW R, NEW n, NEW q \in Protos(R, n), InRoom(q), NEW s \in Sections \ {"nesteds"},
         Len(q[s]) < q.max[s], NEW x, IsItem(R, n, s, x),
         NEW p, p = [q EXCEPT ![s] = Append(@, x)]
  PROVE  /\ p \in Protos(R, n) /\ InRoom(p) /\ p.max = q.max
         /\ p.nesteds = q.nesteds
<1>1. /\ q.source \in R /\ q.symbol \in R /\ q.locals \in AnyLocals
      /\ q.code \in Seq(AnyCode) /\ q.consts \in Seq(Plain \cup [string : R])
      /\ q.imports \in Seq([module : R, name : R]) /\ q.nesteds \in Seq(0 .. n - 1)
      /\ q.max \in Caps
  BY DEF Protos
<1>1a. q = [source |-> q.source, symbol |-> q.symbol, locals |-> q.locals, code |-> q.code,
              consts |-> q.consts, imports |-> q.imports, nesteds |-> q.nesteds, max |-> q.max]
  BY DEF Protos
<1>2. /\ q.max.code \in Nat /\ q.max.consts \in Nat /\ q.max.imports \in Nat
      /\ q.max.nesteds \in Nat
  BY <1>1 DEF Caps
<1>3. Len(q.code) \in Nat /\ Len(q.consts) \in Nat /\ Len(q.imports) \in Nat /\ Len(q.nesteds) \in Nat
  BY <1>1, LenProperties
<1>4. CASE s = "code"
  <2> DEFINE S == AnyCode
             e == Append(q.code, x)
  <2>1. x \in S /\ q.code \in Seq(S) /\ Len(q.code) < q.max.code
    BY <1>1, <1>4 DEF IsItem
  <2> HIDE DEF S
  <2>2. e \in Seq(S) /\ Len(e) = Len(q.code) + 1
    BY <2>1, AppendProperties
  <2>3. p = [q EXCEPT !.code = e]
    BY <1>4
  <2> HIDE DEF e
  <2>4. p = [source |-> q.source, symbol |-> q.symbol, locals |-> q.locals, code |-> e, consts |-> q.consts, imports |-> q.imports, nesteds |-> q.nesteds, max |-> q.max]
    BY <1>1a, <2>3
  <2>5. Len(e) <= q.max.code
    <3> DEFINE m == Len(q.code)
    <3> HIDE DEF m
    <3>1. m \in Nat /\ m < q.max.code /\ Len(e) = m + 1 /\ q.max.code \in Nat
      BY <1>2, <1>3, <2>1, <2>2 DEF m
    <3> QED BY <3>1
  <2>6. p \in Protos(R, n)
    <3>1. Members(R, n, q.source, q.symbol, q.locals, e, q.consts, q.imports, q.nesteds, q.max)
      BY <1>1, <2>2 DEF Members, S
    <3>2. [source |-> q.source, symbol |-> q.symbol, locals |-> q.locals, code |-> e, consts |-> q.consts, imports |-> q.imports, nesteds |-> q.nesteds, max |-> q.max]
            \in Protos(R, n)
      BY <3>1, ProtoOf, Zenon
    <3> QED BY <3>2, <2>4, Zenon
  <2>7. InRoom(p) /\ p.max = q.max /\ p.nesteds = q.nesteds
    BY <2>4, <2>5 DEF InRoom
  <2> QED BY <1>4, <2>6, <2>7 DEF e
<1>5. CASE s = "consts"
  <2> DEFINE S == Plain \cup [string : R]
             e == Append(q.consts, x)
  <2>1. x \in S /\ q.consts \in Seq(S) /\ Len(q.consts) < q.max.consts
    BY <1>1, <1>5 DEF IsItem
  <2> HIDE DEF S
  <2>2. e \in Seq(S) /\ Len(e) = Len(q.consts) + 1
    BY <2>1, AppendProperties
  <2>3. p = [q EXCEPT !.consts = e]
    BY <1>5
  <2> HIDE DEF e
  <2>4. p = [source |-> q.source, symbol |-> q.symbol, locals |-> q.locals, code |-> q.code, consts |-> e, imports |-> q.imports, nesteds |-> q.nesteds, max |-> q.max]
    BY <1>1a, <2>3
  <2>5. Len(e) <= q.max.consts
    <3> DEFINE m == Len(q.consts)
    <3> HIDE DEF m
    <3>1. m \in Nat /\ m < q.max.consts /\ Len(e) = m + 1 /\ q.max.consts \in Nat
      BY <1>2, <1>3, <2>1, <2>2 DEF m
    <3> QED BY <3>1
  <2>6. p \in Protos(R, n)
    <3>1. Members(R, n, q.source, q.symbol, q.locals, q.code, e, q.imports, q.nesteds, q.max)
      BY <1>1, <2>2 DEF Members, S
    <3>2. [source |-> q.source, symbol |-> q.symbol, locals |-> q.locals, code |-> q.code, consts |-> e, imports |-> q.imports, nesteds |-> q.nesteds, max |-> q.max]
            \in Protos(R, n)
      BY <3>1, ProtoOf, Zenon
    <3> QED BY <3>2, <2>4, Zenon
  <2>7. InRoom(p) /\ p.max = q.max /\ p.nesteds = q.nesteds
    BY <2>4, <2>5 DEF InRoom
  <2> QED BY <1>5, <2>6, <2>7 DEF e
<1>6. CASE s = "imports"
  <2> DEFINE S == [module : R, name : R]
             e == Append(q.imports, x)
  <2>1. x \in S /\ q.imports \in Seq(S) /\ Len(q.imports) < q.max.imports
    BY <1>1, <1>6 DEF IsItem
  <2> HIDE DEF S
  <2>2. e \in Seq(S) /\ Len(e) = Len(q.imports) + 1
    BY <2>1, AppendProperties
  <2>3. p = [q EXCEPT !.imports = e]
    BY <1>6
  <2> HIDE DEF e
  <2>4. p = [source |-> q.source, symbol |-> q.symbol, locals |-> q.locals, code |-> q.code, consts |-> q.consts, imports |-> e, nesteds |-> q.nesteds, max |-> q.max]
    BY <1>1a, <2>3
  <2>5. Len(e) <= q.max.imports
    <3> DEFINE m == Len(q.imports)
    <3> HIDE DEF m
    <3>1. m \in Nat /\ m < q.max.imports /\ Len(e) = m + 1 /\ q.max.imports \in Nat
      BY <1>2, <1>3, <2>1, <2>2 DEF m
    <3> QED BY <3>1
  <2>6. p \in Protos(R, n)
    <3>1. Members(R, n, q.source, q.symbol, q.locals, q.code, q.consts, e, q.nesteds, q.max)
      BY <1>1, <2>2 DEF Members, S
    <3>2. [source |-> q.source, symbol |-> q.symbol, locals |-> q.locals, code |-> q.code, consts |-> q.consts, imports |-> e, nesteds |-> q.nesteds, max |-> q.max]
            \in Protos(R, n)
      BY <3>1, ProtoOf, Zenon
    <3> QED BY <3>2, <2>4, Zenon
  <2>7. InRoom(p) /\ p.max = q.max /\ p.nesteds = q.nesteds
    BY <2>4, <2>5 DEF InRoom
  <2> QED BY <1>6, <2>6, <2>7 DEF e
<1> QED BY <1>4, <1>5, <1>6 DEF Sections

\* One more prototype, nested in this one.
LEMMA AppendedNested ==
  ASSUME NEW R, NEW n, NEW q \in Protos(R, n), InRoom(q), Len(q.nesteds) < q.max.nesteds,
         NEW x \in 0 .. n - 1, NEW p, p = [q EXCEPT !.nesteds = Append(@, x)]
  PROVE  /\ p \in Protos(R, n) /\ InRoom(p) /\ p.max = q.max
         /\ p.nesteds = Append(q.nesteds, x)
<1>1. /\ q.source \in R /\ q.symbol \in R /\ q.locals \in AnyLocals
      /\ q.code \in Seq(AnyCode) /\ q.consts \in Seq(Plain \cup [string : R])
      /\ q.imports \in Seq([module : R, name : R]) /\ q.nesteds \in Seq(0 .. n - 1)
      /\ q.max \in Caps
  BY DEF Protos
<1>1a. q = [source |-> q.source, symbol |-> q.symbol, locals |-> q.locals, code |-> q.code,
              consts |-> q.consts, imports |-> q.imports, nesteds |-> q.nesteds, max |-> q.max]
  BY DEF Protos
<1>2. /\ q.max.code \in Nat /\ q.max.consts \in Nat /\ q.max.imports \in Nat
      /\ q.max.nesteds \in Nat
  BY <1>1 DEF Caps
<1>3. Len(q.code) \in Nat /\ Len(q.consts) \in Nat /\ Len(q.imports) \in Nat /\ Len(q.nesteds) \in Nat
  BY <1>1, LenProperties
  <1> DEFINE S == 0 .. n - 1
             e == Append(q.nesteds, x)
<1>4. x \in S /\ q.nesteds \in Seq(S) /\ Len(q.nesteds) < q.max.nesteds
    BY <1>1
<1> HIDE DEF S
<1>5. e \in Seq(S) /\ Len(e) = Len(q.nesteds) + 1
    BY <1>4, AppendProperties
<1>6. p = [q EXCEPT !.nesteds = e]
    OBVIOUS
<1> HIDE DEF e
<1>7. p = [source |-> q.source, symbol |-> q.symbol, locals |-> q.locals, code |-> q.code, consts |-> q.consts, imports |-> q.imports, nesteds |-> e, max |-> q.max]
    BY <1>1a, <1>6
<1>8. Len(e) <= q.max.nesteds
    <3> DEFINE m == Len(q.nesteds)
    <3> HIDE DEF m
    <3>1. m \in Nat /\ m < q.max.nesteds /\ Len(e) = m + 1 /\ q.max.nesteds \in Nat
      BY <1>2, <1>3, <1>4, <1>5 DEF m
    <3> QED BY <3>1
<1>9. p \in Protos(R, n)
    <3>1. Members(R, n, q.source, q.symbol, q.locals, q.code, q.consts, q.imports, e, q.max)
      BY <1>1, <1>5 DEF Members, S
    <3>2. [source |-> q.source, symbol |-> q.symbol, locals |-> q.locals, code |-> q.code, consts |-> q.consts, imports |-> q.imports, nesteds |-> e, max |-> q.max]
            \in Protos(R, n)
      BY <3>1, ProtoOf, Zenon
    <3> QED BY <3>2, <1>7, Zenon
<1>10. InRoom(p) /\ p.max = q.max /\ p.nesteds = e
    BY <1>7, <1>8 DEF InRoom
<1> QED BY <1>9, <1>10 DEF e

\* A step of the assembler that keeps the tree, what is open and what strings mean.
Goes(a, b) == Good(b) /\ Steady(a, b) /\ Extends(a.st, b.st)

\* Such steps can be put together.
LEMMA GoesOn ==
  ASSUME NEW a, NEW b, NEW c, Goes(a, b), Goes(b, c)
  PROVE  Goes(a, c)
BY DEF Goes, Steady, Extends

\* What is open is a prototype.
LEMMA OpenOK ==
  ASSUME NEW a, Good(a)
  PROVE  /\ aasm_prototype(a) \in Protos(DOMAIN a.st.text, Len(a.slots))
         /\ InRoom(aasm_prototype(a))
<1>1. Slot(a) \in SlotsIn(a) /\ Tidy(a)
  BY SlotOK DEF Good
<1> QED BY <1>1, AtOK DEF aasm_prototype

\* An item is stored, or there is no room for it.
LEMMA StoredOK ==
  ASSUME NEW a, Good(a), NEW s \in Sections \ {"nesteds"}, NEW x,
         IsItem(DOMAIN a.st.text, Len(a.slots), s, x)
  PROVE  Goes(a, Stored(a, s, x))
<1> DEFINE b == Stored(a, s, x)
           q == aasm_prototype(a)
           p == [q EXCEPT ![s] = Append(@, x)]
<1>1. q \in Protos(DOMAIN a.st.text, Len(a.slots)) /\ InRoom(q)
  BY OpenOK
<1>2. CASE HasRoom(a, s)
  <2>1. b = WithPrototype(a, p)
    BY <1>2 DEF Stored
  <2>2. Len(q[s]) < q.max[s]
    BY <1>2 DEF HasRoom
  <2> HIDE DEF q, b
  <2>3. /\ p \in Protos(DOMAIN a.st.text, Len(a.slots)) /\ InRoom(p) /\ p.max = q.max
        /\ p.nesteds = q.nesteds
    BY <1>1, <2>2, AppendedOK
  <2> HIDE DEF p
  <2>4. Good(b) /\ Steady(a, b) /\ b.st = a.st
    BY <2>1, <2>3, WrittenOverOK DEF q
  <2> QED BY <2>4 DEF Goes, Extends, b
<1>3. CASE ~HasRoom(a, s)
  <2>1. b = [a EXCEPT !.asserts = FALSE]
    BY <1>3 DEF Stored
  <2> HIDE DEF b
  <2>2. Good(b) /\ Steady(a, b) /\ b.st = a.st
    BY <2>1, FailedOK DEF Good
  <2> QED BY <2>2 DEF Goes, Extends, b
<1> QED BY <1>2, <1>3

\* aasm_emit, aasm_add_constant, the end of aasm_add_import.
LEMMA AddOK ==
  ASSUME NEW a, Good(a), NEW s \in Sections \ {"nesteds"}, NEW x,
         IsItem(DOMAIN a.st.text, Len(a.slots), s, x)
  PROVE  Goes(a, Add(a, s, x))
<1> DEFINE g == Grown(a, s)
<1>1. Keeps(a, g)
  BY OpenGrown
<1> HIDE DEF g
<1>2. Goes(a, g)
  BY <1>1 DEF Keeps, Goes, Extends
<1>3. g.st = a.st /\ Len(g.slots) = Len(a.slots) /\ Good(g)
  BY <1>1 DEF Keeps, Steady
<1>4. IsItem(DOMAIN g.st.text, Len(g.slots), s, x)
  BY <1>3
<1>5. Goes(g, Stored(g, s, x))
  BY <1>3, <1>4, StoredOK
<1>6. Add(a, s, x) = Stored(g, s, x)
  BY DEF Add, g
<1> QED BY <1>2, <1>5, <1>6, GoesOn

\* aasm_string_to_ref: the string has a reference afterwards.
LEMMA InternOK ==
  ASSUME NEW a, Good(a), NEW s \in Strings \cup {EMPTY}
  PROVE  LET b == aasm_string_to_ref(a, s)
         IN  /\ Goes(a, b) /\ HasText(b.st, s) /\ aasm_prototype(b) = aasm_prototype(a)
             /\ RefOf(b, s) \in DOMAIN b.st.text /\ b.asserts = a.asserts
<1> DEFINE b == aasm_string_to_ref(a, s)
           t == AsmTable(a.st, s)
<1>1. TableOK(a.st)
  BY DEF Good, Tidy
<1>2. TableOK(t) /\ Extends(a.st, t) /\ HasText(t, s)
  BY <1>1, AsmTableOK
<1>3. b = [a EXCEPT !.st = t]
  BY DEF aasm_string_to_ref
<1> HIDE DEF t, b
<1>4. /\ Good(b) /\ Steady(a, b) /\ b.st = t /\ aasm_prototype(b) = aasm_prototype(a)
      /\ b.asserts = a.asserts
  BY <1>2, <1>3, StringsOK
<1>5. RefOf(b, s) \in DOMAIN b.st.text
  BY <1>2, <1>4, RefIs DEF RefOf
<1> QED BY <1>2, <1>4, <1>5 DEF Goes, b

\* A string that has a reference has one for good.
LEMMA HasOn ==
  ASSUME NEW a, NEW b, Goes(a, b), NEW s \in Strings \cup {EMPTY}, HasText(a.st, s)
  PROVE  HasText(b.st, s) /\ RefOf(b, s) \in DOMAIN b.st.text
<1>1. HasText(b.st, s)
  BY DEF Goes, Extends, HasText
<1>2. TableOK(b.st)
  BY DEF Goes, Good, Tidy
<1> QED BY <1>1, <1>2, RefIs DEF RefOf

\* AddString and aasm_add_import: the strings are interned before the item is added.
LEMMA AddStringOK ==
  ASSUME NEW a, Good(a), NEW s \in Strings \cup {EMPTY}
  PROVE  Goes(a, AddString(a, s))
<1> DEFINE b == aasm_string_to_ref(a, s)
           x == [string |-> RefOf(b, s)]
<1>1. Goes(a, b) /\ RefOf(b, s) \in DOMAIN b.st.text
  BY InternOK
<1>2. AddString(a, s) = Add(b, "consts", x)
  BY DEF AddString, AddRef, aasm_add_constant
<1> HIDE DEF b
<1>3. IsItem(DOMAIN b.st.text, Len(b.slots), "consts", x)
  BY <1>1 DEF IsItem
<1>4. "consts" \in Sections \ {"nesteds"} /\ Good(b)
  BY <1>1 DEF Sections, Goes
<1> HIDE DEF x
<1>5. Goes(b, Add(b, "consts", x))
  BY <1>3, <1>4, AddOK
<1> QED BY <1>1, <1>2, <1>5, GoesOn

\* aasm_add_import interns two strings and adds their references.
LEMMA AddImportOK ==
  ASSUME NEW a, Good(a), NEW m \in Strings \cup {EMPTY}, NEW n \in Strings \cup {EMPTY}
  PROVE  Goes(a, aasm_add_import(a, m, n))
<1> DEFINE b == aasm_string_to_ref(a, m)
           c == aasm_string_to_ref(b, n)
           x == [module |-> RefOf(c, m), name |-> RefOf(c, n)]
<1>1. Goes(a, b) /\ HasText(b.st, m) /\ Good(b)
  BY InternOK DEF Goes
<1> HIDE DEF b
<1>2. Goes(b, c) /\ RefOf(c, n) \in DOMAIN c.st.text /\ Good(c)
  BY <1>1, InternOK DEF Goes
<1>3. aasm_add_import(a, m, n) = Add(c, "imports", x)
  BY DEF aasm_add_import, AddRefs, b
<1> HIDE DEF c
<1>4. RefOf(c, m) \in DOMAIN c.st.text
  BY <1>1, <1>2, HasOn
<1>5. IsItem(DOMAIN c.st.text, Len(c.slots), "imports", x)
  BY <1>2, <1>4 DEF IsItem
<1>6. "imports" \in Sections \ {"nesteds"}
  BY DEF Sections
<1> HIDE DEF x
<1>7. Goes(c, Add(c, "imports", x))
  BY <1>2, <1>5, <1>6, AddOK
<1> QED BY <1>1, <1>2, <1>3, <1>7, GoesOn

\* The same items and the same room for them.
SameRoom(p, q) == SameItems(p, q) /\ q.max = p.max

\* WithPrototype for a prototype with other members than its items.
LEMMA SetOK ==
  ASSUME NEW a, Good(a), NEW p, p \in Protos(DOMAIN a.st.text, Len(a.slots)),
         InRoom(p), p.max = aasm_prototype(a).max, p.nesteds = aasm_prototype(a).nesteds
  PROVE  /\ Goes(a, WithPrototype(a, p)) /\ aasm_prototype(WithPrototype(a, p)) = p
         /\ WithPrototype(a, p).asserts = a.asserts
<1> DEFINE b == WithPrototype(a, p)
<1>1. b = WithPrototype(a, p)
  OBVIOUS
<1> HIDE DEF b
<1>2. /\ Good(b) /\ Steady(a, b) /\ b.st = a.st /\ b.asserts = a.asserts
      /\ aasm_prototype(b) = p
  BY <1>1, WrittenOverOK
<1> QED BY <1>1, <1>2 DEF Goes, Extends

\* The members of a prototype.
LEMMA MembersOf ==
  ASSUME NEW R, NEW n, NEW q \in Protos(R, n)
  PROVE  /\ Members(R, n, q.source, q.symbol, q.locals, q.code, q.consts, q.imports, q.nesteds, q.max)
         /\ q = [source |-> q.source, symbol |-> q.symbol, locals |-> q.locals, code |-> q.code,
                 consts |-> q.consts, imports |-> q.imports, nesteds |-> q.nesteds, max |-> q.max]
BY DEF Protos, Members

\* WithName: the string has a reference.
LEMMA WithNameOK ==
  ASSUME NEW a, Good(a), NEW field \in {"source", "symbol"}, NEW s \in Strings \cup {EMPTY},
         HasText(a.st, s)
  PROVE  /\ Goes(a, WithName(a, field, s))
         /\ SameRoom(aasm_prototype(a), aasm_prototype(WithName(a, field, s)))
         /\ WithName(a, field, s).asserts = a.asserts
<1> DEFINE R == DOMAIN a.st.text
           n == Len(a.slots)
           q == aasm_prototype(a)
           r == RefOf(a, s)
           p == [q EXCEPT ![field] = r]
<1>1. q \in Protos(R, n) /\ InRoom(q)
  BY OpenOK
<1>2. r \in R
  <2>1. TableOK(a.st)
    BY DEF Good, Tidy
  <2> QED BY <2>1, RefIs DEF RefOf
<1>3. WithName(a, field, s) = WithPrototype(a, p)
  BY DEF WithName
<1> HIDE DEF R, n, q, r
<1>4. /\ Members(R, n, q.source, q.symbol, q.locals, q.code, q.consts, q.imports, q.nesteds, q.max)
      /\ q = [source |-> q.source, symbol |-> q.symbol, locals |-> q.locals, code |-> q.code,
              consts |-> q.consts, imports |-> q.imports, nesteds |-> q.nesteds, max |-> q.max]
  BY <1>1, MembersOf
<1> DEFINE Goal == p \in Protos(R, n) /\ InRoom(p) /\ SameRoom(q, p)
<1>5. ASSUME field = "source" PROVE Goal
  <2>1. p = [q EXCEPT !.source = r]
    BY <1>5
  <2>2. p = [source |-> r, symbol |-> q.symbol, locals |-> q.locals, code |-> q.code, consts |-> q.consts, imports |-> q.imports, nesteds |-> q.nesteds, max |-> q.max]
    BY <1>4, <2>1
  <2>3. Members(R, n, r, q.symbol, q.locals, q.code, q.consts, q.imports, q.nesteds, q.max)
    BY <1>2, <1>4 DEF Members
  <2>4. [source |-> r, symbol |-> q.symbol, locals |-> q.locals, code |-> q.code, consts |-> q.consts, imports |-> q.imports, nesteds |-> q.nesteds, max |-> q.max]
          \in Protos(R, n)
    BY <2>3, ProtoOf, Zenon
  <2>5. p \in Protos(R, n)
    BY <2>2, <2>4, Zenon
  <2>6. /\ p.code = q.code /\ p.consts = q.consts /\ p.imports = q.imports
        /\ p.nesteds = q.nesteds /\ p.max = q.max
    BY <2>2
  <2> HIDE DEF p
  <2> QED BY <1>1, <2>5, <2>6 DEF InRoom, SameRoom, SameItems
<1>6. ASSUME field = "symbol" PROVE Goal
  <2>1. p = [q EXCEPT !.symbol = r]
    BY <1>6
  <2>2. p = [source |-> q.source, symbol |-> r, locals |-> q.locals, code |-> q.code, consts |-> q.consts, imports |-> q.imports, nesteds |-> q.nesteds, max |-> q.max]
    BY <1>4, <2>1
  <2>3. Members(R, n, q.source, r, q.locals, q.code, q.consts, q.imports, q.nesteds, q.max)
    BY <1>2, <1>4 DEF Members
  <2>4. [source |-> q.source, symbol |-> r, locals |-> q.locals, code |-> q.code, consts |-> q.consts, imports |-> q.imports, nesteds |-> q.nesteds, max |-> q.max]
          \in Protos(R, n)
    BY <2>3, ProtoOf, Zenon
  <2>5. p \in Protos(R, n)
    BY <2>2, <2>4, Zenon
  <2>6. /\ p.code = q.code /\ p.consts = q.consts /\ p.imports = q.imports
        /\ p.nesteds = q.nesteds /\ p.max = q.max
    BY <2>2
  <2> HIDE DEF p
  <2> QED BY <1>1, <2>5, <2>6 DEF InRoom, SameRoom, SameItems
<1>7. Goal
  <2> HIDE DEF Goal
  <2> QED BY <1>5, <1>6
<1> HIDE DEF p
<1>8. p.max = q.max /\ p.nesteds = q.nesteds
  BY <1>7 DEF SameRoom, SameItems
<1>9. /\ Goes(a, WithPrototype(a, p)) /\ aasm_prototype(WithPrototype(a, p)) = p
      /\ WithPrototype(a, p).asserts = a.asserts
  BY <1>7, <1>8, SetOK DEF R, n, q
<1> QED BY <1>3, <1>7, <1>9 DEF q

\* A name is interned, then set.
LEMMA SetNameOK ==
  ASSUME NEW a, Good(a), NEW field \in {"source", "symbol"}, NEW s \in Strings \cup {EMPTY}
  PROVE  /\ Goes(a, SetName(a, field, s))
         /\ SameRoom(aasm_prototype(a), aasm_prototype(SetName(a, field, s)))
         /\ SetName(a, field, s).asserts = a.asserts
<1> DEFINE b == aasm_string_to_ref(a, s)
<1>1. /\ Goes(a, b) /\ HasText(b.st, s) /\ aasm_prototype(b) = aasm_prototype(a)
      /\ b.asserts = a.asserts
  BY InternOK
<1>2. SetName(a, field, s) = WithName(b, field, s)
  BY DEF SetName
<1> HIDE DEF b
<1>3. Good(b)
  BY <1>1 DEF Goes
<1>4. /\ Goes(b, WithName(b, field, s))
      /\ SameRoom(aasm_prototype(b), aasm_prototype(WithName(b, field, s)))
      /\ WithName(b, field, s).asserts = b.asserts
  BY <1>1, <1>3, WithNameOK
<1> QED BY <1>1, <1>2, <1>4, GoesOn

\* The members that hold no strings: local variables and code.
LEMMA FilledOK ==
  ASSUME NEW a, Good(a), NEW l \in AnyLocals, NEW c \in Seq(AnyCode),
         Len(c) <= aasm_prototype(a).max.code,
         NEW p, p = [aasm_prototype(a) EXCEPT !.locals = l, !.code = c]
  PROVE  Goes(a, WithPrototype(a, p)) /\ WithPrototype(a, p).asserts = a.asserts
<1> DEFINE R == DOMAIN a.st.text
           n == Len(a.slots)
           q == aasm_prototype(a)
<1>1. q \in Protos(R, n) /\ InRoom(q)
  BY OpenOK
<1>2. p = [q EXCEPT !.locals = l, !.code = c] /\ Len(c) <= q.max.code
  OBVIOUS
<1> HIDE DEF R, n, q
<1>3. /\ Members(R, n, q.source, q.symbol, q.locals, q.code, q.consts, q.imports, q.nesteds, q.max)
      /\ q = [source |-> q.source, symbol |-> q.symbol, locals |-> q.locals, code |-> q.code,
              consts |-> q.consts, imports |-> q.imports, nesteds |-> q.nesteds, max |-> q.max]
  BY <1>1, MembersOf
<1>4. p = [source |-> q.source, symbol |-> q.symbol, locals |-> l, code |-> c, consts |-> q.consts, imports |-> q.imports, nesteds |-> q.nesteds, max |-> q.max]
  BY <1>2, <1>3
<1>5. Members(R, n, q.source, q.symbol, l, c, q.consts, q.imports, q.nesteds, q.max)
  BY <1>3 DEF Members
<1>6. [source |-> q.source, symbol |-> q.symbol, locals |-> l, code |-> c, consts |-> q.consts, imports |-> q.imports, nesteds |-> q.nesteds, max |-> q.max]
        \in Protos(R, n)
  BY <1>5, ProtoOf, Zenon
<1>7. p \in Protos(R, n)
  BY <1>4, <1>6, Zenon
<1>8. /\ p.code = c /\ p.consts = q.consts /\ p.imports = q.imports
      /\ p.nesteds = q.nesteds /\ p.max = q.max
  BY ONLY <1>4
<1>9. InRoom(p)
  BY ONLY <1>1, <1>2, <1>8 DEF InRoom
<1> QED BY <1>7, <1>8, <1>9, SetOK DEF R, n, q

\* A new slot, nested last in the slot h: the tree stays one.
LEMMA TreeGrows ==
  ASSUME NEW a, NEW b, Tree(a), NEW N, N = Len(a.slots), Len(b.slots) = N + 1,
         NEW h \in SlotsIn(a), Kids(b, h) = Append(Kids(a, h), N), Kids(b, N) = <<>>,
         \A s \in SlotsIn(a) : s # h => Kids(b, s) = Kids(a, s)
  PROVE  Tree(b)
<1> DEFINE S == SlotsIn(a)
           T == SlotsIn(b)
           new == Len(Kids(a, h)) + 1
<1>1. N \in Nat \ {0} /\ S = 0 .. N - 1 /\ T = 0 .. N
  BY DEF Tree, SlotsIn
<1>2. T = S \cup {N} /\ N \notin S /\ \A s \in S : s \in Nat /\ s < N
  BY <1>1
<1>3. \A s \in S : Kids(a, s) \in Seq(S)
  BY DEF Tree
<1>4. \A s \in S : Kids(b, s) \in Seq(T)
  <2> TAKE s \in S
  <2>1. Seq(S) \subseteq Seq(T)
    BY <1>2, SeqIncluded
  <2>2. Append(Kids(a, h), N) \in Seq(T)
    <3>1. Kids(a, h) \in Seq(T) /\ N \in T
      BY <1>2, <1>3, <2>1
    <3> HIDE DEF T
    <3> QED BY <3>1, AppendProperties
  <2> QED BY <1>3, <2>1, <2>2
<1>5. \A s \in T : Kids(b, s) \in Seq(T)
  BY <1>2, <1>4, EmptySeq
<1>6. /\ new \in Nat /\ new \in DOMAIN Kids(b, h) /\ Kids(b, h)[new] = N
      /\ \A k \in DOMAIN Kids(a, h) : k \in DOMAIN Kids(b, h) /\ Kids(b, h)[k] = Kids(a, h)[k]
      /\ \A k \in DOMAIN Kids(b, h) : k = new \/ k \in DOMAIN Kids(a, h)
  <2> DEFINE q == Kids(a, h)
             n == Len(q)
  <2>1. q \in Seq(S) /\ n \in Nat /\ DOMAIN q = 1 .. n
    BY <1>3, LenProperties
  <2>2. q \in Seq(T) /\ N \in T
    BY <1>2, <2>1, SeqIncluded
  <2> DEFINE e == Append(q, N)
  <2> HIDE DEF q
  <2>3. /\ Len(e) = n + 1 /\ e \in Seq(T) /\ e[n + 1] = N
        /\ \A k \in 1 .. n : e[k] = q[k]
    <3> HIDE DEF T
    <3> QED BY <2>2, AppendProperties
  <2> HIDE DEF e, n
  <2>4. DOMAIN e = 1 .. n + 1
    BY <2>3, LenProperties
  <2>5. /\ n + 1 \in Nat /\ n + 1 \in DOMAIN e /\ e[n + 1] = N
        /\ \A k \in DOMAIN q : k \in DOMAIN e /\ e[k] = q[k]
        /\ \A k \in DOMAIN e : k = n + 1 \/ k \in DOMAIN q
    BY <2>1, <2>3, <2>4
  <2>6. Kids(b, h) = e
    BY DEF e, q
  <2> QED BY <2>5, <2>6 DEF n, q
<1> HIDE DEF new
<1>7. ASSUME NEW s \in S
      PROVE  /\ \A k \in DOMAIN Kids(a, s) : k \in DOMAIN Kids(b, s) /\ Kids(b, s)[k] = Kids(a, s)[k]
             /\ \A k \in DOMAIN Kids(b, s) :
                  \/ k \in DOMAIN Kids(a, s) /\ Kids(b, s)[k] = Kids(a, s)[k]
                  \/ s = h /\ k = new /\ Kids(b, s)[k] = N
  BY <1>6
<1>8. ASSUME NEW s \in S, NEW k \in DOMAIN Kids(a, s) PROVE Kids(a, s)[k] \in S
  <2> HIDE DEF S
  <2> QED BY <1>3, ElementOfSeq, LenProperties
<1>9. DOMAIN Kids(b, N) = {}
  BY EmptySeq
<1> HIDE DEF S, T
<1>10. \A s \in T : \A k \in DOMAIN Kids(b, s) : s < Kids(b, s)[k]
  <2> TAKE s \in T
  <2> TAKE k \in DOMAIN Kids(b, s)
  <2>1. s \in S
    BY <1>2, <1>9
  <2>2. CASE k \in DOMAIN Kids(a, s) /\ Kids(b, s)[k] = Kids(a, s)[k]
    BY <2>1, <2>2 DEF Tree, S
  <2>3. CASE Kids(b, s)[k] = N
    BY <1>2, <2>1, <2>3
  <2> QED BY <1>7, <2>1, <2>2, <2>3
<1>11. \A s, t \in T : \A k \in DOMAIN Kids(b, s), l \in DOMAIN Kids(b, t) :
         Kids(b, s)[k] = Kids(b, t)[l] => s = t /\ k = l
  <2> SUFFICES ASSUME NEW s \in T, NEW t \in T, NEW k \in DOMAIN Kids(b, s),
                      NEW l \in DOMAIN Kids(b, t), Kids(b, s)[k] = Kids(b, t)[l]
               PROVE  s = t /\ k = l
    OBVIOUS
  <2>1. s \in S /\ t \in S
    BY <1>2, <1>9
  <2>2. \/ k \in DOMAIN Kids(a, s) /\ Kids(b, s)[k] = Kids(a, s)[k] /\ Kids(a, s)[k] \in S
        \/ s = h /\ k = new /\ Kids(b, s)[k] = N
    BY <1>7, <1>8, <2>1
  <2>3. \/ l \in DOMAIN Kids(a, t) /\ Kids(b, t)[l] = Kids(a, t)[l] /\ Kids(a, t)[l] \in S
        \/ t = h /\ l = new /\ Kids(b, t)[l] = N
    BY <1>7, <1>8, <2>1
  <2>4. CASE k \in DOMAIN Kids(a, s) /\ Kids(b, s)[k] = Kids(a, s)[k]
             /\ l \in DOMAIN Kids(a, t) /\ Kids(b, t)[l] = Kids(a, t)[l]
    <3>1. \A u, v \in S : \A i \in DOMAIN Kids(a, u), j \in DOMAIN Kids(a, v) :
            Kids(a, u)[i] = Kids(a, v)[j] => u = v /\ i = j
      BY Zenon DEF Tree, S
    <3>2. Kids(a, s)[k] = Kids(a, t)[l]
      BY <2>4
    <3>3. \A i \in DOMAIN Kids(a, s), j \in DOMAIN Kids(a, t) :
            Kids(a, s)[i] = Kids(a, t)[j] => s = t /\ i = j
      BY ONLY <2>1, <3>1, Zenon
    <3>4. k \in DOMAIN Kids(a, s) /\ l \in DOMAIN Kids(a, t)
      BY <2>4
    <3> QED BY ONLY <3>2, <3>3, <3>4
  <2> QED BY <1>2, <2>2, <2>3, <2>4
<1>12. \A c \in T \ {0} : \E s \in T : \E k \in DOMAIN Kids(b, s) : Kids(b, s)[k] = c
  <2> TAKE c \in T \ {0}
  <2>1. CASE c \in S
    <3>1. PICK s \in S : \E k \in DOMAIN Kids(a, s) : Kids(a, s)[k] = c
      BY <2>1 DEF Tree, S
    <3> QED BY <1>2, <1>7, <3>1
  <2>2. CASE c = N
    <3>1. h \in T
      BY <1>2 DEF S
    <3> QED BY <1>6, <2>2, <3>1
  <2> QED BY <1>2, <2>1, <2>2
<1> QED BY <1>1, <1>5, <1>10, <1>11, <1>12 DEF Tree, T

\* The slot of a new prototype: no other leads to it, and nothing is nested in it.
LEMMA WithSlotTidy ==
  ASSUME NEW c, Good(c), Behind(c, DefaultRoom), NEW N, N = Len(c.slots),
         NEW d, d = WithSlot(c)
  PROVE  /\ Tidy(d) /\ Opened(d) /\ Len(d.slots) = N + 1 /\ SlotsIn(d) = SlotsIn(c) \cup {N}
         /\ \A s \in SlotsIn(c) : At(d, s) = At(c, s)
         /\ At(d, N) = Zeroed(DefaultRoom)
         /\ d.context = c.context /\ d.st = c.st /\ d.asserts = c.asserts
<1> DEFINE off == NewOffset(c, DefaultRoom)
           slots == Append(c.slots, off)
<1>1. Tidy(c) /\ Opened(c) /\ DefaultRoom \in Caps
  BY AssemblerAssumption DEF Good, Caps
<1>2. /\ off \in Nat /\ off \in DOMAIN c.buff /\ c.buff[off] = Zeroed(DefaultRoom)
      /\ off + required_size(DefaultRoom) = c.size
      /\ \A s \in SlotsIn(c) : c.slots[s + 1] + SizeAt(c, s) <= off
      /\ Len(c.slots) < c.max_slots
  BY DEF Behind
<1>3. d = [c EXCEPT !.slots = slots]
  BY DEF WithSlot
<1> HIDE DEF off, slots
<1>4. d = [buff |-> c.buff, size |-> c.size, capacity |-> c.capacity, slots |-> slots,
           max_slots |-> c.max_slots, context |-> c.context, st |-> c.st, asserts |-> c.asserts]
  BY <1>1, <1>3 DEF Tidy, Shape
<1>5. /\ d.buff = c.buff /\ d.size = c.size /\ d.capacity = c.capacity /\ d.slots = slots
      /\ d.max_slots = c.max_slots /\ d.context = c.context /\ d.st = c.st /\ d.asserts = c.asserts
  BY <1>4
<1>6. N \in Nat \ {0} /\ c.slots \in Seq(Nat) /\ N < c.max_slots /\ c.max_slots \in Nat
  BY <1>1, <1>2 DEF Tidy, Counts
<1>7. /\ slots \in Seq(Nat) /\ Len(slots) = N + 1 /\ slots[N + 1] = off
      /\ \A i \in 1 .. N : slots[i] = c.slots[i]
  BY <1>2, <1>6, AppendProperties DEF slots
<1>8. SlotsIn(d) = 0 .. N /\ SlotsIn(c) = 0 .. N - 1
  BY <1>5, <1>7 DEF SlotsIn
<1>9. SlotsIn(d) = SlotsIn(c) \cup {N} /\ N \notin SlotsIn(c)
      /\ \A s \in SlotsIn(c) : s + 1 \in 1 .. N
  BY <1>6, <1>8
<1>10. \A s \in SlotsIn(c) : d.slots[s + 1] = c.slots[s + 1] /\ At(d, s) = At(c, s)
                             /\ SizeAt(d, s) = SizeAt(c, s)
  BY <1>5, <1>7, <1>9 DEF At, SizeAt
<1>11. At(d, N) = Zeroed(DefaultRoom) /\ d.slots[N + 1] = off
       /\ SizeAt(d, N) = required_size(DefaultRoom)
  BY <1>2, <1>5, <1>7 DEF At, SizeAt, Zeroed
<1>12. Shape(d)
  BY <1>4, <1>5 DEF Shape
<1>13. Buffer(d)
  <2>1. Seq(0 .. N - 1) \subseteq Seq(0 .. N)
    BY <1>6, SeqIncluded
  <2>2. Protos(DOMAIN c.st.text, N) \subseteq Protos(DOMAIN c.st.text, N + 1)
    <3>1. N + 1 - 1 = N
      BY <1>6
    <3> DEFINE U == 0 .. N - 1
               V == 0 .. N
    <3>2. Seq(U) \subseteq Seq(V) /\ V = 0 .. N + 1 - 1
      BY <2>1, <3>1
    <3>3. U = 0 .. N - 1
      OBVIOUS
    <3> HIDE DEF U, V
    <3> QED BY <3>2, <3>3 DEF Protos
  <2>3. \A o \in DOMAIN c.buff : c.buff[o] \in Protos(DOMAIN c.st.text, N + 1) /\ InRoom(c.buff[o])
    BY <1>1, <2>2 DEF Tidy, Buffer
  <2> QED BY <1>1, <1>5, <1>7, <2>3 DEF Tidy, Buffer
<1>14. Laid(d)
  <2>1. required_size(DefaultRoom) \in Nat \ {0} /\ c.size \in Nat
    BY <1>1, SizeIs DEF Tidy, Counts
  <2>2. \A s \in SlotsIn(d) : d.slots[s + 1] \in DOMAIN d.buff /\ d.slots[s + 1] + SizeAt(d, s) <= d.size
    <3> TAKE s \in SlotsIn(d)
    <3>1. CASE s = N
      BY <1>2, <1>5, <1>11, <2>1, <3>1
    <3>2. CASE s \in SlotsIn(c)
      BY <1>1, <1>5, <1>10, <3>2, AtOK
    <3> QED BY <1>9, <3>1, <3>2
  <2>3. \A s, t \in SlotsIn(d) : s # t =>
          \/ d.slots[s + 1] + SizeAt(d, s) <= d.slots[t + 1]
          \/ d.slots[t + 1] + SizeAt(d, t) <= d.slots[s + 1]
    <3> TAKE s, t \in SlotsIn(d)
    <3>1. CASE s = N /\ t \in SlotsIn(c)
      BY <1>2, <1>10, <1>11, <3>1
    <3>2. CASE t = N /\ s \in SlotsIn(c)
      BY <1>2, <1>10, <1>11, <3>2
    <3>3. CASE s \in SlotsIn(c) /\ t \in SlotsIn(c)
      BY <1>1, <1>10, <3>3 DEF Tidy, Laid
    <3> QED BY <1>9, <3>1, <3>2, <3>3
  <2> QED BY <2>2, <2>3 DEF Laid
<1>15. Counts(d)
  <2>1. /\ c.size \in Nat /\ c.capacity \in Nat \ {0} /\ c.max_slots \in Nat \ {0}
        /\ c.size <= c.capacity
    BY <1>1 DEF Tidy, Counts
  <2>2. N + 1 \in Nat \ {0} /\ N + 1 <= c.max_slots
    BY ONLY <1>6
  <2> QED BY ONLY <1>5, <1>7, <2>1, <2>2 DEF Counts
<1>16. Tidy(d)
  <2>1. d.st = c.st /\ d.asserts = c.asserts
    BY <1>5
  <2>2. TableOK(c.st) /\ c.asserts \in BOOLEAN
    BY <1>1 DEF Tidy
  <2>3. TableOK(d.st) /\ d.asserts \in BOOLEAN
    BY ONLY <2>1, <2>2, Zenon
  <2> QED BY <1>12, <1>13, <1>14, <1>15, <2>3, Zenon DEF Tidy
<1>17. Opened(d)
  <2> DEFINE C == [slot : SlotsIn(c), idx : Nat]
             D == [slot : SlotsIn(d), idx : Nat]
  <2>1. c.context \in Seq(C) /\ c.context # <<>> /\ C \subseteq D
    BY <1>1, <1>9 DEF Opened
  <2> HIDE DEF C, D
  <2>2. c.context \in Seq(D)
    BY <2>1, SeqIncluded
  <2> QED BY <1>5, <2>1, <2>2 DEF Opened, D
<1> QED BY <1>5, <1>7, <1>9, <1>10, <1>11, <1>16, <1>17

\* What the assembler is, even when an assertion failed.
Fine(a) == Tidy(a) /\ Opened(a) /\ (a.asserts => Tree(a))

\* A prototype that is new is the last nested one of the open prototype, and open.
IsPushed(a, b) ==
  /\ Good(b) /\ Len(b.context) = Len(a.context) + 1
  /\ aasm_prototype(b) = Zeroed(DefaultRoom)

\* The end of push_unsafe: the new slot is nested and open, or an assertion failed.
LEMMA NestedOK ==
  ASSUME NEW c, Good(c), Behind(c, DefaultRoom), NEW N, N = Len(c.slots),
         NEW d, d = WithSlot(c), NEW f, f = Nested(d, N)
  PROVE  Fine(f) /\ f.st = c.st /\ (f.asserts => IsPushed(c, f))
<1>1. /\ Tidy(d) /\ Opened(d) /\ Len(d.slots) = N + 1 /\ SlotsIn(d) = SlotsIn(c) \cup {N}
      /\ \A s \in SlotsIn(c) : At(d, s) = At(c, s)
      /\ At(d, N) = Zeroed(DefaultRoom)
      /\ d.context = c.context /\ d.st = c.st /\ d.asserts = c.asserts
  BY WithSlotTidy
<1>2. Tree(c) /\ Opened(c) /\ N \in Nat \ {0} /\ N \notin SlotsIn(c)
  <2>1. N \in Nat \ {0}
    BY DEF Good, Tidy, Counts
  <2> QED BY <2>1 DEF Good, SlotsIn
<1>3. CASE ~HasRoom(d, "nesteds")
  <2>1. f = [d EXCEPT !.asserts = FALSE]
    BY <1>3 DEF Nested
  <2>2. Tidy(f) /\ Opened(f) /\ f.st = d.st /\ f.asserts = FALSE
    BY <1>1, <2>1, FailedOK
  <2> QED BY <1>1, <2>2 DEF Fine
<1>4. CASE HasRoom(d, "nesteds")
  <2> DEFINE h == Slot(d)
             q == aasm_prototype(d)
             p == [q EXCEPT !.nesteds = Append(@, N)]
             e == WithPrototype(d, p)
             n == Len(q.nesteds)
             x == [slot |-> N, idx |-> n]
             R == DOMAIN d.st.text
  <2>1. f = [e EXCEPT !.context = Append(@, x)]
    BY <1>4 DEF Nested
  <2>2. h \in SlotsIn(c) /\ h = Slot(c) /\ h \in SlotsIn(d) /\ q = At(d, h) /\ At(d, h) = At(c, h)
    <3>1. Slot(c) \in SlotsIn(c)
      BY <1>2, SlotOK
    <3>2. Slot(d) = Slot(c)
      BY <1>1 DEF Slot
    <3> QED BY <1>1, <3>1, <3>2 DEF aasm_prototype
  <2>3. q \in Protos(R, N + 1) /\ InRoom(q)
    BY <1>1, <2>2, AtOK
  <2>4. Len(q["nesteds"]) < q.max["nesteds"]
    BY <1>4 DEF HasRoom
  <2> HIDE DEF q, e, h, R, p
  <2>6. p \in Protos(R, N + 1) /\ InRoom(p) /\ p.max = q.max /\ p.nesteds = Append(q.nesteds, N)
    <3> DEFINE M == N + 1
    <3>1. N \in 0 .. M - 1
      BY <1>2
    <3> HIDE DEF M
    <3>2. q \in Protos(R, M) /\ Len(q.nesteds) < q.max.nesteds
      BY <2>3, <2>4 DEF M
    <3>3. p = [q EXCEPT !.nesteds = Append(@, N)]
      BY DEF p
    <3>4. /\ p \in Protos(R, M) /\ InRoom(p) /\ p.max = q.max
          /\ p.nesteds = Append(q.nesteds, N)
      BY <2>3, <3>1, <3>2, <3>3, AppendedNested
    <3> QED BY <3>4 DEF M
  <2>7. Tidy(e) /\ SameBut(d, e, h, p) /\ e.slots = d.slots
    BY <1>1, <2>2, <2>6, WithPrototypeTidy DEF e, h, q, R
  <2>8. /\ e.context = c.context /\ e.st = c.st /\ e.asserts = c.asserts /\ Len(e.slots) = N + 1
        /\ \A s \in SlotsIn(d) : At(e, s) = IF s = h THEN p ELSE At(d, s)
    BY <1>1, <2>7 DEF SameBut
  <2>9. Tree(e)
    <3>1. Kids(e, h) = Append(Kids(c, h), N)
      BY <2>2, <2>6, <2>8 DEF Kids
    <3>2. Kids(e, N) = <<>>
      BY <1>1, <1>2, <2>2, <2>8 DEF Kids, Zeroed
    <3>3. \A s \in SlotsIn(c) : s # h => Kids(e, s) = Kids(c, s)
      BY <1>1, <2>8 DEF Kids
    <3> QED BY <1>2, <2>2, <2>8, <3>1, <3>2, <3>3, TreeGrows
  <2>10. SlotsIn(e) = SlotsIn(d)
    BY <2>7 DEF SlotsIn
  <2>11. n \in Nat
    BY <2>3, LenProperties DEF Protos
  <2> HIDE DEF n
  <2> DEFINE C == [slot : SlotsIn(e), idx : Nat]
             y == Append(c.context, x)
  <2>12. x \in C
    BY <1>1, <2>10, <2>11
  <2>13. c.context \in Seq(C) /\ c.context # <<>>
    BY <1>1, <2>10 DEF Opened
  <2> HIDE DEF C, x
  <2>14. /\ y \in Seq(C) /\ y # <<>> /\ Len(y) = Len(c.context) + 1 /\ y[Len(y)] = x
    <3> DEFINE m == Len(c.context)
    <3>1. m \in Nat
      BY <2>13, LenProperties
    <3>2. y \in Seq(C) /\ Len(y) = m + 1 /\ y[m + 1] = x
      BY <2>12, <2>13, AppendProperties
    <3> HIDE DEF y, m
    <3>3. y # <<>>
      <4>1. m + 1 # 0
        BY <3>1
      <4> QED BY <3>2, <4>1, EmptySeq
    <3> QED BY <3>2, <3>3 DEF m
  <2>15. f = [e EXCEPT !.context = y]
    BY <2>1, <2>8
  <2> HIDE DEF y
  <2>16. Good(e)
    <3>1. Opened(e)
      BY <2>8, <2>13 DEF Opened, C
    <3> QED BY <2>7, <2>9, <3>1 DEF Good
  <2>17. Good(f) /\ f.slots = e.slots /\ f.context = y /\ f.st = e.st /\ f.asserts = e.asserts
    BY <2>14, <2>15, <2>16, ContextOK DEF C
  <2>18. aasm_prototype(f) = Zeroed(DefaultRoom)
    <3>1. Slot(f) = N
      BY <2>14, <2>17 DEF Slot, x
    <3>2. At(f, N) = At(e, N)
      <4>1. f = [e EXCEPT !.context = y] /\ Shape(e)
        BY <2>15, <2>7 DEF Tidy
      <4>2. f.buff = e.buff /\ f.slots = e.slots
        BY <4>1 DEF Shape
      <4> QED BY <4>2 DEF At
    <3>3. At(e, N) = At(d, N)
      BY <1>1, <1>2, <2>2, <2>8
    <3> QED BY <1>1, <3>1, <3>2, <3>3 DEF aasm_prototype
  <2> QED BY <2>8, <2>14, <2>17, <2>18 DEF Fine, Good, IsPushed
<1> QED BY <1>3, <1>4

\* aasm_push, whether its assertions hold or not.
LEMMA PushOK ==
  ASSUME NEW a, Good(a), NEW f, f = aasm_push(a)
  PROVE  Fine(f) /\ f.st = a.st /\ (f.asserts => IsPushed(a, f))
<1> DEFINE g == Grown(a, "nesteds")
           c == new_prototype(g, DefaultRoom)
           d == WithSlot(c)
<1>1. Keeps(a, g) /\ Good(g)
  BY OpenGrown DEF Keeps, Sections
<1>2. f = Nested(d, Len(g.slots))
  BY DEF aasm_push, push_unsafe
<1>3. DefaultRoom \in Caps
  BY AssemblerAssumption DEF Caps
<1> HIDE DEF g
<1>4. Good(c) /\ Same(g, c) /\ Behind(c, DefaultRoom)
  BY <1>1, <1>3, NewPrototypeOK
<1> HIDE DEF c
<1>5. Len(c.slots) = Len(g.slots) /\ c.st = a.st /\ c.context = a.context
  BY <1>1, <1>4 DEF Same, Keeps, Steady
<1>6. d = WithSlot(c)
  OBVIOUS
<1> HIDE DEF d
<1>7. Fine(f) /\ f.st = c.st /\ (f.asserts => IsPushed(c, f))
  BY <1>2, <1>4, <1>5, <1>6, NestedOK
<1> QED BY <1>5, <1>7 DEF IsPushed

\* Step by step up to N.
LEMMA StepByStep ==
  ASSUME NEW N \in Nat, NEW b \in Nat, NEW S, b \in S,
         \A i \in b .. N : i # b /\ i - 1 \in S => i \in S
  PROVE  \A i \in b .. N : i \in S
<1> DEFINE Failed == {i \in b .. N : i \notin S}
<1> SUFFICES ASSUME Failed # {} PROVE FALSE
  OBVIOUS
<1>1. PICK m \in Failed : \A y \in Failed : m <= y
  <2>1. Failed \subseteq Nat
    OBVIOUS
  <2> QED BY <2>1, Least
<1>2. m \in b + 1 .. N
  OBVIOUS
<1>3. m - 1 \in b .. N /\ m - 1 \notin Failed
  BY <1>1, <1>2
<1> QED BY <1>1, <1>2, <1>3

\* AddConsts goes from one constant to the next.
LEMMA AddConstsGoes ==
  ASSUME NEW a, NEW consts, Len(consts) \in Nat
  PROVE  \E G : /\ AddConsts(a, consts) = G[Len(consts)]
                /\ G[0] = a
                /\ \A i \in 1 .. Len(consts) : G[i] = AddWritten(G[i - 1], consts[i])
<1> DEFINE N == Len(consts)
           Rule(f, m) == f = [i \in 0 .. m |-> IF i = 0 THEN a ELSE AddWritten(f[i - 1], consts[i])]
           Failed == {m \in 0 .. N : ~ \E f : Rule(f, m)}
           G == CHOOSE f : f = [i \in 0 .. N |-> IF i = 0 THEN a ELSE AddWritten(f[i - 1], consts[i])]
<1>0. N \in Nat /\ N >= 0
  OBVIOUS
<1>1. \E f : Rule(f, 0)
  <2> DEFINE f == [i \in 0 .. 0 |-> a]
  <2>1. Rule(f, 0)
    OBVIOUS
  <2> QED BY <2>1
<1>2. ASSUME NEW m \in 1 .. N, \E f : Rule(f, m - 1) PROVE \E f : Rule(f, m)
  <2>1. PICK f : Rule(f, m - 1)
    BY <1>2
  <2> DEFINE g == [i \in 0 .. m |-> IF i = m THEN AddWritten(f[m - 1], consts[m]) ELSE f[i]]
  <2> HIDE DEF N
  <2>2. m \in Nat /\ m - 1 \in 0 .. m - 1 /\ m \in 0 .. m /\ m # 0
    BY <1>0
  <2>3. ASSUME NEW i \in 0 .. m PROVE g[i] = (IF i = 0 THEN a ELSE AddWritten(g[i - 1], consts[i]))
    <3>1. CASE i = m
      <4>1. g[m - 1] = f[m - 1]
        BY <2>2
      <4>2. g[m] = AddWritten(f[m - 1], consts[m])
        BY <2>2
      <4> QED BY <2>2, <3>1, <4>1, <4>2
    <3>2. CASE i # m
      <4>1. i \in 0 .. m - 1 /\ g[i] = f[i] /\ (i # 0 => i - 1 \in 0 .. m /\ i - 1 # m)
        BY <2>2, <3>2
      <4>2. i # 0 => g[i - 1] = f[i - 1]
        BY <4>1
      <4>3. f[i] = (IF i = 0 THEN a ELSE AddWritten(f[i - 1], consts[i]))
        BY <2>1, <4>1
      <4> QED BY <4>1, <4>2, <4>3
    <3> QED BY <3>1, <3>2
  <2>4. DOMAIN g = 0 .. m
    OBVIOUS
  <2>5. g = [i \in 0 .. m |-> g[i]]
    OBVIOUS
  <2> HIDE DEF g
  <2>6. Rule(g, m)
    BY <2>3, <2>5
  <2> QED BY <2>6
<1>3. Failed = {}
  <2> SUFFICES ASSUME Failed # {} PROVE FALSE
    OBVIOUS
  <2> HIDE DEF Rule, N
  <2>1. PICK m \in Failed : \A y \in Failed : m <= y
    <3>1. Failed \subseteq Nat
      BY <1>0
    <3> QED BY <3>1, Least
  <2>2. m \in 1 .. N
    BY <1>0, <1>1, <2>1
  <2>3. m - 1 \in 0 .. N /\ m - 1 \notin Failed
    BY <1>0, <2>1, <2>2
  <2> QED BY <1>2, <2>1, <2>2, <2>3
<1>4. \E f : Rule(f, N)
  <2> HIDE DEF Rule, N, G
  <2>1. N \in 0 .. N
    BY <1>0
  <2>2. N \notin Failed
    <3> HIDE DEF Failed
    <3> QED BY <1>3
  <2> QED BY <2>1, <2>2
<1>5. G = [i \in 0 .. N |-> IF i = 0 THEN a ELSE AddWritten(G[i - 1], consts[i])]
  <2> HIDE DEF N
  <2> QED BY <1>4, Zenon
<1>6. AddConsts(a, consts) = G[Len(consts)]
  BY Zenon DEF AddConsts
<1>7. /\ G[0] = a
      /\ \A i \in 1 .. N : G[i] = AddWritten(G[i - 1], consts[i])
  <2> HIDE DEF G, N
  <2>1. 0 \in 0 .. N /\ \A i \in 1 .. N : i \in 0 .. N /\ i # 0
    BY <1>0
  <2> QED BY <1>5, <2>1
<1> HIDE DEF G
<1> QED BY <1>6, <1>7

\* AddImports goes from one import to the next.
LEMMA AddImportsGoes ==
  ASSUME NEW a, NEW imports, Len(imports) \in Nat
  PROVE  \E G : /\ AddImports(a, imports) = G[Len(imports)]
                /\ G[0] = a
                /\ \A i \in 1 .. Len(imports) : G[i] = aasm_add_import(G[i - 1], imports[i].module, imports[i].name)
<1> DEFINE N == Len(imports)
           Rule(f, m) == f = [i \in 0 .. m |-> IF i = 0 THEN a ELSE aasm_add_import(f[i - 1], imports[i].module, imports[i].name)]
           Failed == {m \in 0 .. N : ~ \E f : Rule(f, m)}
           G == CHOOSE f : f = [i \in 0 .. N |-> IF i = 0 THEN a ELSE aasm_add_import(f[i - 1], imports[i].module, imports[i].name)]
<1>0. N \in Nat /\ N >= 0
  OBVIOUS
<1>1. \E f : Rule(f, 0)
  <2> DEFINE f == [i \in 0 .. 0 |-> a]
  <2>1. Rule(f, 0)
    OBVIOUS
  <2> QED BY <2>1
<1>2. ASSUME NEW m \in 1 .. N, \E f : Rule(f, m - 1) PROVE \E f : Rule(f, m)
  <2>1. PICK f : Rule(f, m - 1)
    BY <1>2
  <2> DEFINE g == [i \in 0 .. m |-> IF i = m THEN aasm_add_import(f[m - 1], imports[m].module, imports[m].name) ELSE f[i]]
  <2> HIDE DEF N
  <2>2. m \in Nat /\ m - 1 \in 0 .. m - 1 /\ m \in 0 .. m /\ m # 0
    BY <1>0
  <2>3. ASSUME NEW i \in 0 .. m PROVE g[i] = (IF i = 0 THEN a ELSE aasm_add_import(g[i - 1], imports[i].module, imports[i].name))
    <3>1. CASE i = m
      <4>1. g[m - 1] = f[m - 1]
        BY <2>2
      <4>2. g[m] = aasm_add_import(f[m - 1], imports[m].module, imports[m].name)
        BY <2>2
      <4> QED BY <2>2, <3>1, <4>1, <4>2
    <3>2. CASE i # m
      <4>1. i \in 0 .. m - 1 /\ g[i] = f[i] /\ (i # 0 => i - 1 \in 0 .. m /\ i - 1 # m)
        BY <2>2, <3>2
      <4>2. i # 0 => g[i - 1] = f[i - 1]
        BY <4>1
      <4>3. f[i] = (IF i = 0 THEN a ELSE aasm_add_import(f[i - 1], imports[i].module, imports[i].name))
        BY <2>1, <4>1
      <4> QED BY <4>1, <4>2, <4>3
    <3> QED BY <3>1, <3>2
  <2>4. DOMAIN g = 0 .. m
    OBVIOUS
  <2>5. g = [i \in 0 .. m |-> g[i]]
    OBVIOUS
  <2> HIDE DEF g
  <2>6. Rule(g, m)
    BY <2>3, <2>5
  <2> QED BY <2>6
<1>3. Failed = {}
  <2> SUFFICES ASSUME Failed # {} PROVE FALSE
    OBVIOUS
  <2> HIDE DEF Rule, N
  <2>1. PICK m \in Failed : \A y \in Failed : m <= y
    <3>1. Failed \subseteq Nat
      BY <1>0
    <3> QED BY <3>1, Least
  <2>2. m \in 1 .. N
    BY <1>0, <1>1, <2>1
  <2>3. m - 1 \in 0 .. N /\ m - 1 \notin Failed
    BY <1>0, <2>1, <2>2
  <2> QED BY <1>2, <2>1, <2>2, <2>3
<1>4. \E f : Rule(f, N)
  <2> HIDE DEF Rule, N, G
  <2>1. N \in 0 .. N
    BY <1>0
  <2>2. N \notin Failed
    <3> HIDE DEF Failed
    <3> QED BY <1>3
  <2> QED BY <2>1, <2>2
<1>5. G = [i \in 0 .. N |-> IF i = 0 THEN a ELSE aasm_add_import(G[i - 1], imports[i].module, imports[i].name)]
  <2> HIDE DEF N
  <2> QED BY <1>4, Zenon
<1>6. AddImports(a, imports) = G[Len(imports)]
  BY Zenon DEF AddImports
<1>7. /\ G[0] = a
      /\ \A i \in 1 .. N : G[i] = aasm_add_import(G[i - 1], imports[i].module, imports[i].name)
  <2> HIDE DEF G, N
  <2>1. 0 \in 0 .. N /\ \A i \in 1 .. N : i \in 0 .. N /\ i # 0
    BY <1>0
  <2> QED BY <1>5, <2>1
<1> HIDE DEF G
<1> QED BY <1>6, <1>7

\* Loading goes from one prototype to the next.
LEMMA LoadingGoes ==
  ASSUME NEW a, NEW chunk, Len(chunk) \in Nat, Len(chunk) >= 1
  PROVE  /\ Loading(a, chunk)[1] = ReadInto(a, chunk[1].proto)
         /\ \A i \in 2 .. Len(chunk) :
              Loading(a, chunk)[i] = ReadNested(Loading(a, chunk)[i - 1], chunk[i])
<1> DEFINE N == Len(chunk)
           Rule(f, m) == f = [i \in 1 .. m |-> IF i = 1 THEN ReadInto(a, chunk[1].proto) ELSE ReadNested(f[i - 1], chunk[i])]
           Failed == {m \in 1 .. N : ~ \E f : Rule(f, m)}
           G == CHOOSE f : f = [i \in 1 .. N |-> IF i = 1 THEN ReadInto(a, chunk[1].proto) ELSE ReadNested(f[i - 1], chunk[i])]
<1>0. N \in Nat /\ N >= 1
  OBVIOUS
<1>1. \E f : Rule(f, 1)
  <2> DEFINE f == [i \in 1 .. 1 |-> ReadInto(a, chunk[1].proto)]
  <2>1. Rule(f, 1)
    OBVIOUS
  <2> QED BY <2>1
<1>2. ASSUME NEW m \in 2 .. N, \E f : Rule(f, m - 1) PROVE \E f : Rule(f, m)
  <2>1. PICK f : Rule(f, m - 1)
    BY <1>2
  <2> DEFINE g == [i \in 1 .. m |-> IF i = m THEN ReadNested(f[m - 1], chunk[m]) ELSE f[i]]
  <2> HIDE DEF N
  <2>2. m \in Nat /\ m - 1 \in 1 .. m - 1 /\ m \in 1 .. m /\ m # 1
    BY <1>0
  <2>3. ASSUME NEW i \in 1 .. m PROVE g[i] = (IF i = 1 THEN ReadInto(a, chunk[1].proto) ELSE ReadNested(g[i - 1], chunk[i]))
    <3>1. CASE i = m
      <4>1. g[m - 1] = f[m - 1]
        BY <2>2
      <4>2. g[m] = ReadNested(f[m - 1], chunk[m])
        BY <2>2
      <4> QED BY <2>2, <3>1, <4>1, <4>2
    <3>2. CASE i # m
      <4>1. i \in 1 .. m - 1 /\ g[i] = f[i] /\ (i # 1 => i - 1 \in 1 .. m /\ i - 1 # m)
        BY <2>2, <3>2
      <4>2. i # 1 => g[i - 1] = f[i - 1]
        BY <4>1
      <4>3. f[i] = (IF i = 1 THEN ReadInto(a, chunk[1].proto) ELSE ReadNested(f[i - 1], chunk[i]))
        BY <2>1, <4>1
      <4> QED BY <4>1, <4>2, <4>3
    <3> QED BY <3>1, <3>2
  <2>4. DOMAIN g = 1 .. m
    OBVIOUS
  <2>5. g = [i \in 1 .. m |-> g[i]]
    OBVIOUS
  <2> HIDE DEF g
  <2>6. Rule(g, m)
    BY <2>3, <2>5
  <2> QED BY <2>6
<1>3. Failed = {}
  <2> SUFFICES ASSUME Failed # {} PROVE FALSE
    OBVIOUS
  <2> HIDE DEF Rule, N
  <2>1. PICK m \in Failed : \A y \in Failed : m <= y
    <3>1. Failed \subseteq Nat
      BY <1>0
    <3> QED BY <3>1, Least
  <2>2. m \in 2 .. N
    BY <1>0, <1>1, <2>1
  <2>3. m - 1 \in 1 .. N /\ m - 1 \notin Failed
    BY <1>0, <2>1, <2>2
  <2> QED BY <1>2, <2>1, <2>2, <2>3
<1>4. \E f : Rule(f, N)
  <2> HIDE DEF Rule, N, G
  <2>1. N \in 1 .. N
    BY <1>0
  <2>2. N \notin Failed
    <3> HIDE DEF Failed
    <3> QED BY <1>3
  <2> QED BY <2>1, <2>2
<1>5. G = [i \in 1 .. N |-> IF i = 1 THEN ReadInto(a, chunk[1].proto) ELSE ReadNested(G[i - 1], chunk[i])]
  <2> HIDE DEF N
  <2> QED BY <1>4, Zenon
<1>6. Loading(a, chunk) = G
  BY Zenon DEF Loading
<1>7. /\ G[1] = ReadInto(a, chunk[1].proto)
      /\ \A i \in 2 .. N : G[i] = ReadNested(G[i - 1], chunk[i])
  <2> HIDE DEF G, N
  <2>1. 1 \in 1 .. N /\ \A i \in 2 .. N : i \in 1 .. N /\ i # 1
    BY <1>0
  <2> QED BY <1>5, <2>1
<1> HIDE DEF G
<1> QED BY <1>6, <1>7

\* Strings with the empty one.
Words == Strings \cup {EMPTY}

\* A prototype as chunks have them.
Writings ==
  [source : Words, symbol : Words, locals : AnyLocals, code : Seq(AnyCode),
   consts : Seq(Plain \cup [string : Words]),
   imports : Seq([module : Words, name : Words]), nesteds : Nat]

\* All constants of a chunk are added.
LEMMA AddConstsOK ==
  ASSUME NEW a, Good(a), NEW consts \in Seq(Plain \cup [string : Words])
  PROVE  Goes(a, AddConsts(a, consts))
<1> DEFINE N == Len(consts)
           E == Plain \cup [string : Words]
<1>1. N \in Nat /\ DOMAIN consts = 1 .. N
  BY LenProperties
<1>2. PICK G : /\ AddConsts(a, consts) = G[N] /\ G[0] = a
               /\ \A i \in 1 .. N : G[i] = AddWritten(G[i - 1], consts[i])
  BY <1>1, AddConstsGoes
<1>3. \A i \in 1 .. N : consts[i] \in E
  <2> HIDE DEF E
  <2>1. consts \in Seq(E)
    BY DEF E
  <2> QED BY <1>1, <2>1, ElementOfSeq
<1> DEFINE S == {i \in 0 .. N : Goes(a, G[i])}
<1>4. 0 \in S
  <2>1. Goes(a, a)
    BY DEF Goes, Steady, Extends
  <2> QED BY <1>1, <1>2, <2>1
<1>5. ASSUME NEW i \in 1 .. N, i - 1 \in S PROVE i \in S
  <2> DEFINE b == G[i - 1]
             x == consts[i]
  <2>1. Goes(a, b) /\ Good(b) /\ G[i] = AddWritten(b, x) /\ x \in E
    BY <1>2, <1>3, <1>5 DEF Goes
  <2> HIDE DEF b, x
  <2>2. CASE x \in Plain
    <3>1. AddWritten(b, x) = Add(b, "consts", x)
      BY <2>2 DEF AddWritten, aasm_add_constant
    <3>2. IsItem(DOMAIN b.st.text, Len(b.slots), "consts", x)
      BY <2>2 DEF IsItem
    <3>3. "consts" \in Sections \ {"nesteds"}
      BY DEF Sections
    <3>4. Goes(b, Add(b, "consts", x))
      BY <2>1, <3>2, <3>3, AddOK
    <3>5. Goes(a, G[i])
      BY <2>1, <3>1, <3>4, GoesOn
    <3> QED BY <1>1, <3>5
  <2>3. CASE x \notin Plain
    <3>1. x.string \in Strings \cup {EMPTY}
      BY <2>1, <2>3 DEF Words
    <3>2. AddWritten(b, x) = AddString(b, x.string)
      BY <2>3 DEF AddWritten
    <3>3. Goes(b, AddString(b, x.string))
      BY <2>1, <3>1, AddStringOK
    <3>4. Goes(a, G[i])
      BY <2>1, <3>2, <3>3, GoesOn
    <3> QED BY <1>1, <3>4
  <2> QED BY <2>2, <2>3
<1>6. N \in S
  <2> HIDE DEF S, N
  <2>1. \A i \in 0 .. N : i # 0 /\ i - 1 \in S => i \in S
    BY <1>1, <1>5
  <2>2. \A i \in 0 .. N : i \in S
    BY <1>1, <1>4, <2>1, StepByStep
  <2> QED BY <1>1, <2>2
<1> QED BY <1>2, <1>6

\* All imports of a chunk are added.
LEMMA AddImportsOK ==
  ASSUME NEW a, Good(a), NEW imports \in Seq([module : Words, name : Words])
  PROVE  Goes(a, AddImports(a, imports))
<1> DEFINE N == Len(imports)
           E == [module : Words, name : Words]
<1>1. N \in Nat /\ DOMAIN imports = 1 .. N
  BY LenProperties
<1>2. PICK G : /\ AddImports(a, imports) = G[N] /\ G[0] = a
               /\ \A i \in 1 .. N :
                    G[i] = aasm_add_import(G[i - 1], imports[i].module, imports[i].name)
  BY <1>1, AddImportsGoes
<1>3. \A i \in 1 .. N : imports[i] \in E
  <2> HIDE DEF E
  <2>1. imports \in Seq(E)
    BY DEF E
  <2> QED BY <1>1, <2>1, ElementOfSeq
<1> DEFINE S == {i \in 0 .. N : Goes(a, G[i])}
<1>4. 0 \in S
  <2>1. Goes(a, a)
    BY DEF Goes, Steady, Extends
  <2> QED BY <1>1, <1>2, <2>1
<1>5. ASSUME NEW i \in 1 .. N, i - 1 \in S PROVE i \in S
  <2> DEFINE b == G[i - 1]
             x == imports[i]
  <2>1. Goes(a, b) /\ Good(b) /\ G[i] = aasm_add_import(b, x.module, x.name) /\ x \in E
    BY <1>2, <1>3, <1>5 DEF Goes
  <2> HIDE DEF b, x
  <2>2. x.module \in Strings \cup {EMPTY} /\ x.name \in Strings \cup {EMPTY}
    BY <2>1 DEF Words
  <2>3. Goes(b, aasm_add_import(b, x.module, x.name))
    BY <2>1, <2>2, AddImportOK
  <2>4. Goes(a, G[i])
    BY <2>1, <2>3, GoesOn
  <2> QED BY <1>1, <2>4
<1>6. N \in S
  <2> HIDE DEF S, N
  <2>1. \A i \in 0 .. N : i # 0 /\ i - 1 \in S => i \in S
    BY <1>1, <1>5
  <2>2. \A i \in 0 .. N : i \in S
    BY <1>1, <1>4, <2>1, StepByStep
  <2> QED BY <1>1, <2>2
<1> QED BY <1>2, <1>6

\* ReadInto a prototype that has no items.
LEMMA ReadIntoOK ==
  ASSUME NEW a, Good(a), SameItems(Zeroed(DefaultRoom), aasm_prototype(a)), NEW t \in Writings
  PROVE  Goes(a, ReadInto(a, t))
<1> DEFINE room == Needed(t)
           b == aasm_reserve(a, room)
           c == SetName(b, "source", t.source)
           d == SetName(c, "symbol", t.symbol)
           q == aasm_prototype(d)
           p == [q EXCEPT !.locals = t.locals, !.code = t.code]
           e == WithPrototype(d, p)
           f == AddConsts(e, t.consts)
<1>1. /\ t.source \in Words /\ t.symbol \in Words /\ t.locals \in AnyLocals
      /\ t.code \in Seq(AnyCode) /\ t.consts \in Seq(Plain \cup [string : Words])
      /\ t.imports \in Seq([module : Words, name : Words]) /\ t.nesteds \in Nat
  BY DEF Writings
<1>2. /\ room.code = Len(t.code) /\ room \in Caps
  <2>1. Len(t.code) \in Nat /\ Len(t.consts) \in Nat /\ Len(t.imports) \in Nat
    BY <1>1, LenProperties
  <2>2. /\ room = [code |-> Len(t.code), consts |-> Len(t.consts), imports |-> Len(t.imports),
                   nesteds |-> t.nesteds]
    BY DEF Needed
  <2> QED BY <1>1, <2>1, <2>2 DEF Caps
<1>3. ReadInto(a, t) = AddImports(f, t.imports)
  BY DEF ReadInto, Filled, Headed
<1> HIDE DEF room
<1>4. Fits(aasm_prototype(a), room)
  <2> DEFINE r == aasm_prototype(a)
  <2>1. Len(<<>>) = 0
    BY EmptySeq
  <2>2. r.code = <<>> /\ r.consts = <<>> /\ r.imports = <<>> /\ r.nesteds = <<>>
    BY DEF SameItems, Zeroed
  <2>3. room.code \in Nat /\ room.consts \in Nat /\ room.imports \in Nat /\ room.nesteds \in Nat
    BY <1>2 DEF Caps
  <2> HIDE DEF r
  <2>4. /\ 0 <= room.code /\ 0 <= room.consts /\ 0 <= room.imports /\ 0 <= room.nesteds
    BY <2>3
  <2>5. Fits(r, room)
    BY <2>1, <2>2, <2>4 DEF Fits
  <2> QED BY <2>5 DEF r
<1>5. Goes(a, b) /\ Good(b) /\ Len(t.code) <= aasm_prototype(b).max.code
  <2>1. /\ Keeps(a, b)
        /\ \A s \in Sections : aasm_prototype(b).max[s] >= room[s]
    BY <1>2, <1>4, ReserveOK
  <2> HIDE DEF b
  <2>2. Goes(a, b) /\ Good(b)
    BY <2>1 DEF Keeps, Goes, Extends
  <2>3. "code" \in Sections
    BY DEF Sections
  <2>4. aasm_prototype(b).max["code"] >= room["code"]
    BY <2>1, <2>3
  <2>5. aasm_prototype(b).max \in Caps
    BY <2>2, OpenOK DEF Protos
  <2>6. aasm_prototype(b).max.code \in Nat /\ room.code \in Nat
    BY <1>2, <2>5 DEF Caps
  <2> QED BY <1>2, <2>2, <2>4, <2>6
<1> HIDE DEF b
<1>6. Goes(b, c) /\ Good(c) /\ SameRoom(aasm_prototype(b), aasm_prototype(c))
  BY <1>1, <1>5, SetNameOK DEF Goes, Words
<1> HIDE DEF c
<1>7. Goes(c, d) /\ Good(d) /\ SameRoom(aasm_prototype(c), aasm_prototype(d))
  BY <1>1, <1>6, SetNameOK DEF Goes, Words
<1> HIDE DEF d
<1>8. Len(t.code) <= q.max.code
  BY <1>5, <1>6, <1>7 DEF SameRoom
<1>9. Goes(d, e) /\ Good(e)
  <2>1. Goes(d, e)
    BY <1>1, <1>7, <1>8, FilledOK
  <2> QED BY <2>1 DEF Goes
<1> HIDE DEF e
<1>10. Goes(e, f) /\ Good(f)
  <2>1. Goes(e, f)
    BY <1>1, <1>9, AddConstsOK
  <2> QED BY <2>1 DEF Goes
<1> HIDE DEF f
<1>11. Goes(f, ReadInto(a, t))
  BY <1>1, <1>3, <1>10, AddImportsOK
<1>12. Goes(a, d)
  BY <1>5, <1>6, <1>7, GoesOn
<1>13. Goes(a, f)
  BY <1>9, <1>10, <1>12, GoesOn
<1> QED BY <1>11, <1>13, GoesOn

\* Every reference has its string.
LEMMA TextOK ==
  ASSUME NEW a, Good(a), NEW r \in DOMAIN a.st.text
  PROVE  Text(a, r) \in Words
<1>1. a.st.text \in UNION {[D -> Strings \cup {EMPTY}] : D \in SUBSET Nat}
  <2>1. a.st \in Tables
    BY DEF Good, Tidy, TableOK
  <2> QED BY <2>1 DEF Tables
<1>2. PICK D \in SUBSET Nat : a.st.text \in [D -> Strings \cup {EMPTY}]
  BY <1>1
<1> QED BY <1>2 DEF Text, astring_table_to_string, Words

\* A prototype with its strings, and how many are nested in it.
LEMMA WrittenOK ==
  ASSUME NEW a, Good(a), NEW h \in SlotsIn(a)
  PROVE  [Written(a, At(a, h)) EXCEPT !.nesteds = Len(@)] \in Writings
<1> DEFINE p == At(a, h)
           R == DOMAIN a.st.text
           E == Plain \cup [string : Words]
           F == [module : Words, name : Words]
           consts == [i \in DOMAIN p.consts |-> ConstantOf(a, p.consts[i])]
           imports == [i \in DOMAIN p.imports |->
                         [module |-> Text(a, p.imports[i].module),
                          name |-> Text(a, p.imports[i].name)]]
           source == Text(a, p.source)
           symbol == Text(a, p.symbol)
           t == [Written(a, p) EXCEPT !.nesteds = Len(@)]
<1>1. p \in Protos(R, Len(a.slots))
  BY AtOK DEF Good
<1>2. Members(R, Len(a.slots), p.source, p.symbol, p.locals, p.code, p.consts, p.imports, p.nesteds, p.max)
  BY <1>1, MembersOf
<1>3. Written(a, p) = [source |-> source, symbol |-> symbol, locals |-> p.locals, code |-> p.code,
                       consts |-> consts, imports |-> imports, nesteds |-> p.nesteds]
  BY DEF Written
<1> HIDE DEF p
<1>4. source \in Words /\ symbol \in Words
  BY <1>2, TextOK DEF Members
<1>5. consts \in Seq(E)
  <2> DEFINE S == Plain \cup [string : R]
             n == Len(p.consts)
  <2>1. p.consts \in Seq(S)
    BY <1>2 DEF Members
  <2>2. n \in Nat /\ DOMAIN p.consts = 1 .. n
    BY <2>1, LenProperties
  <2>3. \A i \in 1 .. n : p.consts[i] \in S
    <3> HIDE DEF S
    <3> QED BY <2>1, <2>2, ElementOfSeq
  <2>4. ASSUME NEW x \in S PROVE ConstantOf(a, x) \in E
    <3>1. CASE x \in Plain
      BY <3>1 DEF ConstantOf
    <3>2. CASE x \notin Plain
      <4>1. x.string \in R
        BY <2>4, <3>2
      <4> QED BY <3>2, <4>1, TextOK DEF ConstantOf
    <3> QED BY <3>1, <3>2
  <2> HIDE DEF S, n, E
  <2>5. consts \in [1 .. n -> E]
    BY <2>2, <2>3, <2>4
  <2> HIDE DEF consts
  <2> QED BY <2>2, <2>5, SeqDef
<1>6. imports \in Seq(F)
  <2> DEFINE S == [module : R, name : R]
             n == Len(p.imports)
  <2>1. p.imports \in Seq(S)
    BY <1>2 DEF Members
  <2>2. n \in Nat /\ DOMAIN p.imports = 1 .. n
    BY <2>1, LenProperties
  <2>3. \A i \in 1 .. n : p.imports[i] \in S
    <3> HIDE DEF S
    <3> QED BY <2>1, <2>2, ElementOfSeq
  <2>4. ASSUME NEW x \in S
        PROVE  [module |-> Text(a, x.module), name |-> Text(a, x.name)] \in F
    BY TextOK
  <2> HIDE DEF S, n, F
  <2>5. imports \in [1 .. n -> F]
    BY <2>2, <2>3, <2>4
  <2> HIDE DEF imports
  <2> QED BY <2>2, <2>5, SeqDef
<1>7. Len(p.nesteds) \in Nat
  BY <1>2, LenProperties DEF Members
<1> DEFINE n == Len(p.nesteds)
<1> HIDE DEF consts, imports, source, symbol
<1>8. t = [source |-> source, symbol |-> symbol, locals |-> p.locals, code |-> p.code,
           consts |-> consts, imports |-> imports, nesteds |-> n]
  BY <1>3
<1>9. p.locals \in AnyLocals /\ p.code \in Seq(AnyCode)
  BY <1>2 DEF Members
<1> HIDE DEF n, t
<1>10. n \in Nat
  BY <1>7 DEF n
<1>11. t \in Writings
  BY <1>4, <1>5, <1>6, <1>8, <1>9, <1>10 DEF Writings
<1> QED BY <1>11 DEF t, p

\* What save_chunk gives: the root first, and no prototype more than one level below the
\* one before it.
Chunks ==
  {c \in Seq([level : Nat, proto : Writings]) :
     /\ Len(c) >= 1 /\ c[1].level = 0
     /\ \A k \in 2 .. Len(c) : 1 <= c[k].level /\ c[k].level <= c[k - 1].level + 1}

\* save_chunk gives such a chunk.
LEMMA SavedOK ==
  ASSUME NEW a, Good(a)
  PROVE  save_chunk(a) \in Chunks
<1> DEFINE vs == Visit(a)
           N == Len(a.slots)
           c == save_chunk(a)
           E == [level : Nat, proto : Writings]
<1>1. Tree(a) /\ N \in Nat \ {0}
  BY DEF Good, Tree
<1>2. /\ vs \in Seq(Visits(a)) /\ Len(vs) = N
      /\ vs[1] = [slot |-> 0, level |-> 0]
      /\ \A k \in 2 .. N : 1 <= vs[k].level /\ vs[k].level <= vs[k - 1].level + 1
  BY <1>1, VisitIs
<1>3. DOMAIN vs = 1 .. N /\ \A k \in 1 .. N : vs[k] \in Visits(a)
  BY <1>2, LenProperties, ElementOfSeq
<1> HIDE DEF vs
<1>4. c = [k \in 1 .. N |-> Saved(a, vs[k])]
  BY <1>3 DEF save_chunk, WrittenAll, vs
<1> HIDE DEF N, c
<1>5. \A k \in 1 .. N : Saved(a, vs[k]) \in E /\ Saved(a, vs[k]).level = vs[k].level
  <2> TAKE k \in 1 .. N
  <2>1. vs[k].slot \in SlotsIn(a) /\ vs[k].level \in Nat
    BY <1>3 DEF Visits
  <2>2. [Written(a, At(a, vs[k].slot)) EXCEPT !.nesteds = Len(@)] \in Writings
    BY <2>1, WrittenOK
  <2> QED BY <2>1, <2>2 DEF Saved
<1>6. c \in [1 .. N -> E] /\ \A k \in 1 .. N : c[k].level = vs[k].level
  BY <1>4, <1>5
<1> HIDE DEF E
<1>7. c \in Seq(E) /\ Len(c) = N
  BY <1>1, <1>6, LenProperties, SeqDef
<1>8. /\ N >= 1 /\ 1 \in 1 .. N
      /\ \A k \in 2 .. N : k \in 1 .. N /\ k - 1 \in 1 .. N
  BY <1>1
<1>9. c[1].level = 0
  BY <1>2, <1>6, <1>8
<1>10. \A k \in 2 .. N : 1 <= c[k].level /\ c[k].level <= c[k - 1].level + 1
  BY <1>2, <1>6, <1>8
<1>11. c \in Chunks
  BY <1>7, <1>8, <1>9, <1>10 DEF Chunks, E
<1> QED BY <1>11 DEF c

\* As long as the program runs, fine is as good as good.
LEMMA FineGood ==
  ASSUME NEW a
  PROVE  /\ Good(a) => Fine(a)
         /\ Fine(a) /\ a.asserts => Good(a)
BY DEF Good, Fine

\* Prototypes are closed.
LEMMA ClosedOK ==
  ASSUME NEW a, Fine(a), NEW level \in Nat, 1 <= level, level <= Len(a.context),
         NEW b, b = ClosedTo(a, level)
  PROVE  Fine(b) /\ Len(b.context) = level /\ b.asserts = a.asserts
<1> DEFINE c == SubSeq(a.context, 1, level)
           C == [slot : SlotsIn(a), idx : Nat]
<1>1. Tidy(a) /\ a.context \in Seq(C)
  BY DEF Fine, Opened
<1> HIDE DEF C
<1>2. Len(a.context) \in Nat
  BY <1>1, LenProperties
<1>3. c \in Seq(C) /\ Len(c) = level
  <2> DEFINE n == Len(a.context)
             s == a.context
  <2>1. 1 \in 1 .. n /\ level \in 1 - 1 .. n /\ 1 \in 1 .. n + 1
    BY <1>2
  <2> HIDE DEF n
  <2>2. s \in Seq(C) /\ 1 \in 1 .. Len(s) + 1 /\ level \in 1 - 1 .. Len(s)
    BY <1>1, <2>1 DEF n
  <2>3. c \in Seq(C) /\ Len(c) = IF level < 1 THEN 0 ELSE level - 1 + 1
    BY <2>2, SubSeqProperties
  <2> HIDE DEF c
  <2> QED BY <2>3
<1>4. c # <<>>
  BY <1>3, EmptySeq
<1>5. b = Changed(a, c, a.st, a.asserts)
  <2>1. Shape(a) /\ b = [a EXCEPT !.context = c]
    BY <1>1 DEF Tidy, ClosedTo
  <2> HIDE DEF c
  <2> QED BY <2>1 DEF Shape, Changed
<1> HIDE DEF c
<1>6. TableOK(a.st) /\ Extends(a.st, a.st) /\ a.asserts \in BOOLEAN
  BY <1>1 DEF Tidy, Extends
<1>7. Beside(a, b)
  BY <1>1, <1>5, <1>6, OthersTidy
<1>8. b.context = c /\ b.asserts = a.asserts
  BY <1>5 DEF Changed
<1>9. Opened(b)
  BY <1>3, <1>4, <1>7, <1>8 DEF Opened, Beside, C
<1>10. Tree(a) => Tree(b)
  BY <1>7, TreeOfKids DEF Beside, Kids
<1> QED BY <1>3, <1>7, <1>8, <1>9, <1>10 DEF Fine, Beside

\* A chunk is read into an assembler that has nothing but its root.
LEMMA LoadedOK ==
  ASSUME NEW a, Good(a), Len(a.context) = 1,
         SameItems(Zeroed(DefaultRoom), aasm_prototype(a)), NEW chunk \in Chunks
  PROVE  Fine(load_chunk(a, chunk))
<1> DEFINE N == Len(chunk)
           E == [level : Nat, proto : Writings]
<1>1. /\ chunk \in Seq(E) /\ N >= 1 /\ chunk[1].level = 0
      /\ \A k \in 2 .. N : 1 <= chunk[k].level /\ chunk[k].level <= chunk[k - 1].level + 1
  BY DEF Chunks
<1>2. N \in Nat /\ DOMAIN chunk = 1 .. N
  BY <1>1, LenProperties
<1>3. \A k \in 1 .. N : chunk[k].level \in Nat /\ chunk[k].proto \in Writings
  <2>1. \A x \in E : x.level \in Nat /\ x.proto \in Writings
    OBVIOUS
  <2> HIDE DEF E
  <2>2. \A k \in 1 .. N : chunk[k] \in E
    BY <1>1, <1>2, ElementOfSeq
  <2> QED BY <2>1, <2>2
<1> DEFINE G == Loading(a, chunk)
<1>4. /\ G[1] = ReadInto(a, chunk[1].proto)
      /\ \A k \in 2 .. N : G[k] = ReadNested(G[k - 1], chunk[k])
  <2>1. Len(chunk) \in Nat /\ Len(chunk) >= 1
    BY <1>1, <1>2
  <2> QED BY <2>1, LoadingGoes, Zenon
<1> HIDE DEF G
<1> HIDE DEF N
<1> DEFINE S == {k \in 1 .. N : /\ Fine(G[k])
                                /\ (G[k].asserts => Len(G[k].context) = chunk[k].level + 1)}
<1>5. 1 \in S
  <2>1. 1 \in 1 .. N
    BY <1>1, <1>2
  <2>2. Goes(a, G[1])
    BY <1>3, <1>4, <2>1, ReadIntoOK
  <2>3. Fine(G[1]) /\ Len(G[1].context) = 1
    BY <2>2, FineGood DEF Goes, Steady
  <2>4. Len(G[1].context) = chunk[1].level + 1
    BY <1>1, <2>3
  <2> QED BY <2>1, <2>3, <2>4
<1>6. ASSUME NEW k \in 1 .. N, k # 1, k - 1 \in S PROVE k \in S
  <2> DEFINE b == G[k - 1]
             c == chunk[k]
             d == ClosedTo(b, c.level)
             e == aasm_push(d)
             f == G[k]
  <2>1. k \in 2 .. N /\ k - 1 \in 1 .. N
    BY <1>2, <1>6
  <2>2. f = ReadNested(b, c)
    BY <1>4, <2>1
  <2>3. Fine(b) /\ (b.asserts => Len(b.context) = chunk[k - 1].level + 1)
    BY <1>6
  <2>4. c.level \in Nat /\ 1 <= c.level /\ c.level <= chunk[k - 1].level + 1 /\ c.proto \in Writings
    BY <1>1, <1>3, <2>1
  <2> DEFINE Goal == Fine(f) /\ (f.asserts => Len(f.context) = c.level + 1)
  <2> HIDE DEF b, c
  <2>5. ASSUME ~b.asserts PROVE Goal
    <3>1. f = b
      BY <2>2, <2>5 DEF ReadNested
    <3> QED BY <2>3, <2>5, <3>1
  <2>6. ASSUME b.asserts PROVE Goal
    <3>1. Fine(d) /\ Len(d.context) = c.level /\ d.asserts = b.asserts
      BY <2>3, <2>4, <2>6, ClosedOK
    <3> HIDE DEF d
    <3>2. Good(d)
      BY <2>6, <3>1, FineGood
    <3>3. Fine(e) /\ (e.asserts => IsPushed(d, e))
      BY <3>2, PushOK
    <3>4. f = ReadPushed(e, c)
      BY <2>2, <2>6 DEF ReadNested, Pushed, d
    <3> HIDE DEF e
    <3>5. ASSUME ~e.asserts PROVE Goal
      <4>1. f = e
        BY <3>4, <3>5 DEF ReadPushed
      <4> QED BY <3>3, <3>5, <4>1
    <3>6. ASSUME e.asserts PROVE Goal
      <4>1. f = ReadInto(e, c.proto)
        BY <3>4, <3>6 DEF ReadPushed
      <4>2. /\ Good(e) /\ Len(e.context) = c.level + 1
            /\ SameItems(Zeroed(DefaultRoom), aasm_prototype(e))
        BY <3>1, <3>3, <3>6 DEF IsPushed, SameItems
      <4> HIDE DEF f
      <4>3. Goes(e, f)
        BY <2>4, <4>1, <4>2, ReadIntoOK
      <4> QED BY <4>2, <4>3, FineGood DEF Goes, Steady
    <3> HIDE DEF Goal
    <3> QED BY <3>5, <3>6, Zenon
  <2>7. Goal
    <3> HIDE DEF Goal
    <3> QED BY <2>5, <2>6, Zenon
  <2> QED BY <2>7 DEF c
<1>7. N \in S
  <2> HIDE DEF S
  <2>1. \A k \in 1 .. N : k # 1 /\ k - 1 \in S => k \in S
    BY <1>6
  <2>2. \A k \in 1 .. N : k \in S
    BY <1>2, <1>5, <2>1, StepByStep
  <2> QED BY <1>1, <1>2, <2>2
<1> DEFINE b == G[N]
<1>8. Fine(b)
  BY <1>7
<1>9. load_chunk(a, chunk) = ClosedTo(b, 1)
  BY DEF load_chunk, N, G
<1> HIDE DEF b
<1>10. 1 <= Len(b.context)
  <2>1. Len(b.context) \in Nat \ {0}
    BY <1>8, SlotOK DEF Fine
  <2> QED BY <2>1
<1> QED BY <1>8, <1>9, <1>10, ClosedOK

\* aasm_load of nothing: a root without items.
LEMMA StartedOK ==
  /\ Good(Started) /\ Len(Started.context) = 1
  /\ aasm_prototype(Started) = Zeroed(DefaultRoom)
  /\ Len(Started.slots) = 1 /\ Started.asserts
<1> DEFINE req == required_size(DefaultRoom)
           z == Zeroed(DefaultRoom)
           t == astring_table_init(128, 16)
           cap == INIT_SLOT_COUNT * req
           f == [Fresh EXCEPT !.max_slots = INIT_SLOT_COUNT, !.capacity = cap]
           nil == <<>>
           none == [o \in {} |-> 0]
           ctx == <<[slot |-> 0, idx |-> 0]>>
           slots == <<0>>
           buff == [o \in {0} |-> z]
           a == Started
<1>1. DefaultRoom \in Caps /\ INIT_SLOT_COUNT \in Nat \ {0}
  BY AssemblerAssumption DEF Caps
<1>2. req \in Nat \ {0}
  BY <1>1, SizeIs
<1>3. TableOK(t)
  BY InitTable
<1>4. a = WithRoot(new_prototype(f, DefaultRoom))
  BY DEF Started
<1> HIDE DEF a, z, t, req
<1>5. cap \in Nat \ {0} /\ 0 + req <= cap
  <2>1. \A i \in Nat \ {0}, r \in Nat \ {0} : i * r \in Nat \ {0} /\ r <= i * r
    <3> TAKE i \in Nat \ {0}, r \in Nat \ {0}
    <3>1. i * r = (i - 1) * r + r
      BY SMT
    <3>2. i - 1 \in Nat /\ (i - 1) * r \in Nat
      BY SMT
    <3> DEFINE m == (i - 1) * r
    <3> HIDE DEF m
    <3>3. m \in Nat /\ i * r = m + r
      BY <3>1, <3>2 DEF m
    <3> QED BY <3>3
  <2> QED BY <1>1, <1>2, <2>1
<1> HIDE DEF cap
<1>5a. Fresh = [buff |-> none, size |-> 0, capacity |-> 0, slots |-> nil,
               max_slots |-> 0, context |-> nil, st |-> t, asserts |-> TRUE]
  BY DEF Fresh, t
<1>5b. DOMAIN none = {} /\ Len(nil) = 0
  BY EmptySeq
<1> HIDE DEF nil, none, ctx, slots, buff
<1>6. f = [buff |-> none, size |-> 0, capacity |-> cap, slots |-> nil,
           max_slots |-> INIT_SLOT_COUNT, context |-> nil, st |-> t, asserts |-> TRUE]
  <2>1. PICK r : r = Fresh
    OBVIOUS
  <2>2. f = [r EXCEPT !.max_slots = INIT_SLOT_COUNT, !.capacity = cap]
    BY <2>1
  <2> HIDE DEF f
  <2> QED BY <1>5a, <2>1, <2>2
<1> HIDE DEF f
<1>7. f.size = 0 /\ f.capacity = cap /\ f.slots = nil /\ f.max_slots = INIT_SLOT_COUNT
      /\ DOMAIN f.buff = {}
  BY <1>5b, <1>6
<1>8. grow_buff(f, req) = f
  BY <1>5, <1>7 DEF grow_buff
<1>9. new_prototype(f, DefaultRoom) =
        [buff |-> buff, size |-> req, capacity |-> cap, slots |-> nil,
         max_slots |-> INIT_SLOT_COUNT, context |-> nil, st |-> t, asserts |-> TRUE]
  <2> DEFINE b == [o \in DOMAIN f.buff \cup {f.size} |->
                     IF o = f.size THEN Zeroed(DefaultRoom) ELSE f.buff[o]]
             s == f.size + req
             m == IF Len(f.slots) = f.max_slots THEN GROW_FACTOR * f.max_slots ELSE f.max_slots
  <2>1. new_prototype(f, DefaultRoom) = [f EXCEPT !.buff = b, !.size = s, !.max_slots = m]
    BY <1>8 DEF new_prototype, Reserved, req
  <2>2. b = buff
    <3>1. DOMAIN f.buff \cup {f.size} = {0}
      BY <1>7
    <3> QED BY <1>7, <3>1 DEF z, buff
  <2>3. s = req /\ m = INIT_SLOT_COUNT
    <3>1. Len(f.slots) = 0
      BY <1>5b, <1>7
    <3> QED BY <1>1, <1>2, <1>7, <3>1
  <2> HIDE DEF b, s, m
  <2>4. PICK r : r = f
    OBVIOUS
  <2>5. new_prototype(f, DefaultRoom) = [r EXCEPT !.buff = b, !.size = s, !.max_slots = m]
    BY <2>1, <2>4
  <2>6. r = [buff |-> none, size |-> 0, capacity |-> cap, slots |-> nil,
             max_slots |-> INIT_SLOT_COUNT, context |-> nil, st |-> t, asserts |-> TRUE]
    BY <1>6, <2>4
  <2> QED BY <2>2, <2>3, <2>5, <2>6
<1>10. a = [buff |-> buff, size |-> req, capacity |-> cap, slots |-> slots,
            max_slots |-> INIT_SLOT_COUNT, context |-> ctx, st |-> t, asserts |-> TRUE]
  <2>1. a = [new_prototype(f, DefaultRoom) EXCEPT !.slots = slots, !.context = ctx]
    BY <1>4 DEF WithRoot, slots, ctx
  <2>2. PICK r : r = new_prototype(f, DefaultRoom)
    OBVIOUS
  <2>3. a = [r EXCEPT !.slots = slots, !.context = ctx]
    BY <2>1, <2>2
  <2>4. r = [buff |-> buff, size |-> req, capacity |-> cap, slots |-> nil,
             max_slots |-> INIT_SLOT_COUNT, context |-> nil, st |-> t, asserts |-> TRUE]
    BY <1>9, <2>2
  <2> QED BY <2>3, <2>4
<1>11. slots \in Seq(Nat) /\ Len(slots) = 1 /\ slots[1] = 0
  BY DEF slots
<1>12. /\ a.buff = buff /\ a.size = req /\ a.capacity = cap /\ a.slots = slots
       /\ a.max_slots = INIT_SLOT_COUNT /\ a.context = ctx /\ a.st = t
  BY <1>10
<1>12a. a.asserts \in BOOLEAN
  BY <1>10
<1>12b. a.slots \in Seq(Nat) /\ Len(a.slots) = 1 /\ a.slots[1] = 0
  BY <1>11, <1>12
<1>13. SlotsIn(a) = {0}
  <2>1. 0 .. 1 - 1 = {0}
    OBVIOUS
  <2> QED BY <1>12, <1>12b, <2>1 DEF SlotsIn
<1>14. buff[0] = z /\ DOMAIN buff = {0} /\ buff = [o \in DOMAIN buff |-> buff[o]]
  BY DEF buff
<1>15. At(a, 0) = z
  <2>1. 0 + 1 = 1
    OBVIOUS
  <2> QED BY <1>12, <1>12b, <1>14, <2>1 DEF At
<1>16. z.max = DefaultRoom /\ z.nesteds = <<>>
  BY DEF z, Zeroed
<1>17. z \in Protos(DOMAIN t.text, 1) /\ InRoom(z)
  <2>1. 0 \in DOMAIN t.text
    BY <1>3 DEF TableOK, Texts
  <2>2. z \in Protos(DOMAIN t.text, 1)
    BY <1>1, <2>1, EmptySeq DEF z, Zeroed, Protos
  <2>3. /\ Len(<<>>) = 0 /\ z.max = DefaultRoom /\ z.code = <<>>
        /\ z.consts = <<>> /\ z.imports = <<>> /\ z.nesteds = <<>>
    BY EmptySeq DEF z, Zeroed
  <2>4. /\ DefaultRoom.code \in Nat /\ DefaultRoom.consts \in Nat
        /\ DefaultRoom.imports \in Nat /\ DefaultRoom.nesteds \in Nat
    BY <1>1 DEF Caps
  <2> QED BY <2>2, <2>3, <2>4 DEF InRoom
<1>18. Shape(a)
  BY <1>10, <1>12, <1>12a DEF Shape
<1>19. Buffer(a)
  BY <1>12, <1>12b, <1>14, <1>17 DEF Buffer
<1>20. SizeAt(a, 0) = req
  BY <1>15, <1>16 DEF SizeAt, req
<1>21. Laid(a)
  <2>1. a.slots[0 + 1] = 0 /\ 0 + req <= a.size
    BY <1>2, <1>12, <1>12b
  <2> QED BY <1>12, <1>13, <1>14, <1>20, <2>1 DEF Laid
<1>22. Counts(a)
  BY <1>1, <1>2, <1>5, <1>12, <1>12b DEF Counts
<1>23. Tidy(a)
  BY <1>3, <1>12, <1>12a, <1>18, <1>19, <1>21, <1>22 DEF Tidy
<1>24. Opened(a) /\ Len(a.context) = 1
  <2> DEFINE x == [slot |-> 0, idx |-> 0]
             C == [slot : SlotsIn(a), idx : Nat]
  <2>1. x \in C
    BY <1>13
  <2> HIDE DEF x, C
  <2>2. <<x>> \in Seq(C) /\ Len(<<x>>) = 1 /\ <<x>> # <<>>
    BY <2>1
  <2> QED BY <1>12, <2>2 DEF Opened, ctx, x, C
<1>25. Tree(a)
  <2>1. Kids(a, 0) = <<>>
    BY <1>15, <1>16 DEF Kids
  <2>2. DOMAIN <<>> = {}
    BY EmptySeq
  <2>3. Len(a.slots) \in Nat \ {0}
    BY <1>12, <1>12b
  <2>4. <<>> \in Seq(SlotsIn(a))
    BY EmptySeq
  <2>5. \A s \in SlotsIn(a) : Kids(a, s) \in Seq(SlotsIn(a)) /\ DOMAIN Kids(a, s) = {}
    BY <1>13, <2>1, <2>2, <2>4
  <2> QED BY <1>13, <2>3, <2>5 DEF Tree
<1>26. Slot(a) = 0
  BY <1>12, <1>24 DEF Slot, ctx
<1>27. a.asserts
  BY <1>10
<1>28. Good(a) /\ Len(a.context) = 1 /\ aasm_prototype(a) = z /\ Len(a.slots) = 1
  BY <1>12b, <1>15, <1>23, <1>24, <1>25, <1>26 DEF Good, aasm_prototype
<1> QED BY <1>27, <1>28 DEF a, z

\* The inductive invariant: nothing is loaded, or all is as it should be.  A
\* push whose assertion fails leaves a slot that nothing refers to; the program
\* then ends.
AsmInv == self = Fresh \/ Fine(self)

\* A step that leads to an assembler that is good keeps the invariant.
LEMMA GoodIsFine ==
  ASSUME NEW a, NEW b, Goes(a, b)
  PROVE  Fine(b)
BY FineGood DEF Goes

\* What the host may use is loaded, and good.
LEMMA ReadyIsGood ==
  ASSUME AsmInv, Ready
  PROVE  Good(self)
<1>1. self # Fresh
  <2>1. Fresh.slots = <<>>
    BY DEF Fresh
  <2> QED BY <2>1 DEF Ready
<1>2. Fine(self) /\ self.asserts
  BY <1>1 DEF AsmInv, Ready
<1> QED BY <1>2, FineGood

\* aasm_emit, aasm_add_constant, aasm_add_import, and the setters.
LEMMA HostAdds ==
  ASSUME AsmInv, Ready,
         \/ \E i \in Codes : self' = aasm_emit(self, i)
         \/ \E c \in Plain : self' = aasm_add_constant(self, c)
         \/ \E s \in Strings : self' = AddString(self, s)
         \/ \E x \in Externals : self' = aasm_add_import(self, x[1], x[2])
         \/ \E s \in Names : self' = SetName(self, "source", s)
  PROVE  Fine(self')
<1> DEFINE R == DOMAIN self.st.text
           n == Len(self.slots)
<1>1. Good(self)
  BY ReadyIsGood
<1>2. ASSUME NEW i \in Codes, self' = aasm_emit(self, i)
      PROVE  Fine(self')
  <2>1. IsItem(R, n, "code", i) /\ "code" \in Sections \ {"nesteds"}
    BY HostsOwn DEF IsItem, Sections
  <2>2. Goes(self, Add(self, "code", i))
    BY <1>1, <2>1, AddOK
  <2> QED BY <1>2, <2>2, GoodIsFine DEF aasm_emit
<1>3. ASSUME NEW c \in Plain, self' = aasm_add_constant(self, c)
      PROVE  Fine(self')
  <2>1. IsItem(R, n, "consts", c) /\ "consts" \in Sections \ {"nesteds"}
    BY DEF IsItem, Sections
  <2>2. Goes(self, Add(self, "consts", c))
    BY <1>1, <2>1, AddOK
  <2> QED BY <1>3, <2>2, GoodIsFine DEF aasm_add_constant
<1>4. ASSUME NEW s \in Strings, self' = AddString(self, s)
      PROVE  Fine(self')
  <2>1. Goes(self, AddString(self, s))
    BY <1>1, AddStringOK
  <2> QED BY <1>4, <2>1, GoodIsFine
<1>5. ASSUME NEW x \in Externals, self' = aasm_add_import(self, x[1], x[2])
      PROVE  Fine(self')
  <2>1. x \in Strings \X Strings
    BY AssemblerAssumption
  <2>2. x[1] \in Strings /\ x[2] \in Strings
    BY <2>1
  <2>3. Goes(self, aasm_add_import(self, x[1], x[2]))
    BY <1>1, <2>2, AddImportOK
  <2> QED BY <1>5, <2>3, GoodIsFine
<1>6. ASSUME NEW s \in Names, self' = SetName(self, "source", s)
      PROVE  Fine(self')
  <2>1. s \in Strings
    BY AssemblerAssumption
  <2>2. Goes(self, SetName(self, "source", s))
    BY <1>1, <2>1, SetNameOK
  <2> QED BY <1>6, <2>2, GoodIsFine
<1> QED BY <1>2, <1>3, <1>4, <1>5, <1>6

\* aasm_push and aasm_module_push, whether their assertion holds or not.
LEMMA HostPushes ==
  ASSUME AsmInv, Ready,
         \/ self' = aasm_push(self)
         \/ \E s \in Names : self' = aasm_module_push(self, s)
  PROVE  Fine(self')
<1>1. Good(self)
  BY ReadyIsGood
<1>2. CASE self' = aasm_push(self)
  BY <1>1, <1>2, PushOK
<1>3. ASSUME NEW s \in Names, self' = aasm_module_push(self, s)
      PROVE  Fine(self')
  <2> DEFINE b == aasm_string_to_ref(self, s)
             f == aasm_push(b)
             g == WithName(f, "symbol", s)
  <2>1. s \in Strings \cup {EMPTY}
    BY AssemblerAssumption
  <2>2. Goes(self, b) /\ HasText(b.st, s)
    BY <1>1, <2>1, InternOK
  <2>3. self' = NamedIf(f, s)
    BY <1>3 DEF aasm_module_push
  <2> HIDE DEF b
  <2>4. Good(b)
    BY <2>2 DEF Goes
  <2>5. Fine(f) /\ f.st = b.st /\ (f.asserts => IsPushed(b, f))
    BY <2>4, PushOK
  <2>6. HasText(f.st, s)
    BY <2>2, <2>5
  <2>7. self' = IF f.asserts THEN g ELSE f
    BY <2>3 DEF NamedIf
  <2> HIDE DEF f
  <2>8. ASSUME f.asserts
        PROVE  Fine(self')
    <3>1. Good(f)
      BY <2>5, <2>8 DEF IsPushed
    <3>2. Goes(f, WithName(f, "symbol", s))
      BY <2>1, <2>6, <3>1, WithNameOK
    <3>3. self' = g
      BY <2>7, <2>8
    <3> QED BY <3>2, <3>3, GoodIsFine
  <2>9. ASSUME ~f.asserts
        PROVE  Fine(self')
    BY <2>5, <2>7, <2>9
  <2> QED BY <2>8, <2>9
<1> QED BY <1>2, <1>3

\* aasm_open and aasm_pop.
LEMMA HostOpensAndCloses ==
  ASSUME AsmInv, Open \/ Pop
  PROVE  Fine(self')
<1> DEFINE C == [slot : SlotsIn(self), idx : Nat]
<1>1. Good(self)
  BY ReadyIsGood DEF Open, Pop
<1>2. self.context \in Seq(C) /\ self.context # <<>>
  BY <1>1 DEF Good, Opened
<1>3. CASE Open
  <2> DEFINE ns == aasm_prototype(self).nesteds
  <2>1. PICK i \in 0 .. Len(ns) - 1 : self' = aasm_open(self, i)
    BY <1>3 DEF Open
  <2>2. ns \in Seq(SlotsIn(self))
    BY <1>1, OpenOK DEF Protos, SlotsIn
  <2> DEFINE x == [slot |-> ns[i + 1], idx |-> i]
             c == Append(self.context, x)
  <2>3. self' = [self EXCEPT !.context = c]
    BY <2>1 DEF aasm_open
  <2> HIDE DEF ns
  <2>4. i + 1 \in 1 .. Len(ns) /\ i \in Nat
    BY <2>1, <2>2
  <2>5. ns[i + 1] \in SlotsIn(self)
    BY <2>2, <2>4
  <2>6. x \in C
    BY <2>4, <2>5
  <2> HIDE DEF x, C
  <2>7. c \in Seq(C) /\ c # <<>>
    BY <1>2, <2>6
  <2> HIDE DEF c
  <2>8. Good(self')
    BY <1>1, <2>3, <2>7, ContextOK DEF C
  <2> QED BY <2>8, FineGood
<1>4. CASE Pop
  <2> DEFINE l == Len(self.context) - 1
  <2> HIDE DEF C
  <2>1. l \in Nat /\ 1 <= l /\ l <= Len(self.context)
    BY <1>2, <1>4 DEF Pop
  <2>2. self' = ClosedTo(self, l)
    BY <1>4 DEF Pop, aasm_pop, ClosedTo, Front
  <2> HIDE DEF l
  <2>3. Fine(self)
    BY <1>1, FineGood
  <2> QED BY <2>1, <2>2, <2>3, ClosedOK
<1> QED BY <1>3, <1>4

\* The number of local variables is all that is set.
LEMMA LocalsOK ==
  ASSUME NEW a, Good(a), NEW l \in LocalVars,
         NEW p, p = [aasm_prototype(a) EXCEPT !.locals = l]
  PROVE  Good(WithPrototype(a, p))
<1> DEFINE R == DOMAIN a.st.text
           n == Len(a.slots)
<1>1. PICK r : r = aasm_prototype(a)
  OBVIOUS
<1>2. r \in Protos(R, n) /\ InRoom(r)
  BY <1>1, OpenOK
<1>3. p = [r EXCEPT !.locals = l]
  BY <1>1
<1> HIDE DEF R, n
<1>4. p \in Protos(R, n) /\ p.max = r.max /\ SameItems(r, p)
  BY <1>2, <1>3, HostsOwn DEF Protos, SameItems
<1>5. InRoom(p)
  BY <1>2, <1>4 DEF InRoom, SameItems
<1>6. p.max = aasm_prototype(a).max /\ p.nesteds = aasm_prototype(a).nesteds
  BY <1>1, <1>4 DEF SameItems
<1> QED BY <1>4, <1>5, <1>6, WrittenOverOK DEF R, n

\* Setting the number of local variables, aasm_reserve and packing.
LEMMA HostArranges ==
  ASSUME AsmInv,
         \/ \E n \in LocalVars : SetLocals(n)
         \/ \E room \in Rooms : Reserve(room)
         \/ Pack
  PROVE  Fine(self')
<1>1. Good(self)
  BY ReadyIsGood DEF SetLocals, Reserve, Pack
<1>2. ASSUME NEW n \in LocalVars, SetLocals(n)
      PROVE  Fine(self')
  <2>1. self' = WithPrototype(self, [aasm_prototype(self) EXCEPT !.locals = n])
    BY <1>2 DEF SetLocals
  <2>2. Good(self')
    BY <1>1, <2>1, LocalsOK
  <2> QED BY <2>2, FineGood
<1>3. ASSUME NEW room \in Rooms, Reserve(room)
      PROVE  Fine(self')
  <2>1. room \in Caps
    BY AssemblerAssumption DEF Caps
  <2>2. Fits(aasm_prototype(self), room)
    BY <1>3 DEF Reserve, Fits, Sections
  <2>3. self' = aasm_reserve(self, room)
    BY <1>3 DEF Reserve
  <2>4. Good(self')
    BY <1>1, <2>1, <2>2, <2>3, ReserveOK DEF Keeps
  <2> QED BY <2>4, FineGood
<1>4. CASE Pack
  <2> DEFINE t == astring_table_pack(self.st)
  <2>1. TableOK(self.st)
    BY <1>1 DEF Good, Tidy
  <2>2. TableOK(t) /\ t.text = self.st.text
    BY <2>1, PackedOK
  <2>3. self' = [self EXCEPT !.st = t]
    BY <1>4 DEF Pack
  <2> HIDE DEF t
  <2>4. Extends(self.st, t)
    BY <2>2 DEF Extends
  <2>5. Good(self')
    BY <1>1, <2>2, <2>3, <2>4, StringsOK
  <2> QED BY <2>5, FineGood
<1> QED BY <1>2, <1>3, <1>4

\* aasm_load, of nothing and of the chunk that was saved.
LEMMA HostLoads ==
  ASSUME AsmInv, LoadNothing \/ SaveAndLoad
  PROVE  Fine(self')
<1>1. Good(Started) /\ Len(Started.context) = 1
  BY StartedOK
<1>2. CASE LoadNothing
  BY <1>1, <1>2, FineGood DEF LoadNothing
<1>3. CASE SaveAndLoad
  <2>1. Good(self)
    BY <1>3, ReadyIsGood DEF SaveAndLoad
  <2>2. save_chunk(self) \in Chunks
    BY <2>1, SavedOK
  <2>3. SameItems(Zeroed(DefaultRoom), aasm_prototype(Started))
    BY StartedOK DEF SameItems
  <2>4. PICK s : s = Started
    OBVIOUS
  <2>5. self' = load_chunk(s, save_chunk(self))
    BY <1>3, <2>4 DEF SaveAndLoad
  <2>6. Good(s) /\ Len(s.context) = 1 /\ SameItems(Zeroed(DefaultRoom), aasm_prototype(s))
    BY <1>1, <2>3, <2>4
  <2> QED BY <2>2, <2>5, <2>6, LoadedOK
<1> QED BY <1>2, <1>3

\* Every call of the library keeps the invariant.
LEMMA AsmStep ==
  ASSUME AsmInv, [Next]_vars
  PROVE  AsmInv'
<1>1. CASE UNCHANGED vars
  BY <1>1 DEF AsmInv, vars
<1>2. CASE Next
  <2>1. CASE \/ \E i \in Codes : Emit(i)
             \/ \E c \in Plain : AddConstant(c)
             \/ \E s \in Strings : AddStringConstant(s)
             \/ \E x \in Externals : AddImport(x[1], x[2])
             \/ \E s \in Names : SetSource(s)
    <3>1. Fine(self')
      BY <2>1, HostAdds
         DEF Emit, AddConstant, AddStringConstant, AddImport, SetSource, MayAdd
    <3> QED BY <3>1 DEF AsmInv
  <2>2. CASE Push \/ \E s \in Names : ModulePush(s)
    <3>1. Fine(self')
      BY <2>2, HostPushes DEF Push, ModulePush, MayAdd
    <3> QED BY <3>1 DEF AsmInv
  <2>3. CASE Open \/ Pop
    <3>1. Fine(self')
      BY <2>3, HostOpensAndCloses
    <3> QED BY <3>1 DEF AsmInv
  <2>4. CASE \/ \E n \in LocalVars : SetLocals(n)
             \/ \E room \in Rooms : Reserve(room)
             \/ Pack
    <3>1. Fine(self')
      BY <2>4, HostArranges
    <3> QED BY <3>1 DEF AsmInv
  <2>5. CASE LoadNothing \/ SaveAndLoad
    <3>1. Fine(self')
      BY <2>5, HostLoads
    <3> QED BY <3>1 DEF AsmInv
  <2>6. CASE Cleanup
    <3>1. self' = Fresh
      BY <2>6 DEF Cleanup
    <3>2. Fresh' = Fresh
      BY DEF Fresh
    <3> QED BY <3>1, <3>2 DEF AsmInv
  <2> QED BY <1>2, <2>1, <2>2, <2>3, <2>4, <2>5, <2>6 DEF Next
<1> QED BY <1>1, <1>2

\* The invariant holds in every state: whatever the host calls, in whatever
\* order, the buffer, the slots and the string table stay consistent.
THEOREM AssemblerIsFine == Spec => []AsmInv
<1>1. Init => AsmInv
  BY DEF Init, AsmInv
<1>2. AsmInv /\ [Next]_vars => AsmInv'
  BY AsmStep
<1> QED BY <1>1, <1>2, PTL DEF Spec

\* Of what nothing was loaded into, the table has no strings yet.
LEMMA FreshTable ==
  ASSUME self = Fresh
  PROVE  TableOK(self.st) /\ self.slots = <<>> /\ self.context = <<>>
<1>1. self.st = astring_table_init(128, 16) /\ self.slots = <<>> /\ self.context = <<>>
  BY DEF Fresh
<1> QED BY <1>1, InitTable

\* In every state the string table is a hash table of the strings interned.
LEMMA TableHolds ==
  ASSUME AsmInv
  PROVE  TableOK(self.st)
BY FreshTable DEF AsmInv, Fine, Tidy

\* What the invariant says of sizes.
LEMMA SizesHold ==
  ASSUME AsmInv
  PROVE  AssemblerTypeOK
<1>1. HEADER + self.st.n * SLOT + self.st.used <= self.st.bytes
  BY TableHolds DEF TableOK, Spacious
<1>2. CASE self = Fresh
  <2>1. self.slots = <<>> /\ self.context = <<>> /\ self.max_slots = 0
    BY <1>2 DEF Fresh
  <2>2. Len(self.slots) = 0 /\ DOMAIN self.context = {} /\ Slots = {}
    BY <2>1, EmptySeq DEF Slots
  <2> QED BY <1>1, <2>1, <2>2 DEF AssemblerTypeOK
<1>3. CASE Fine(self)
  <2>1. self.size <= self.capacity /\ Len(self.slots) <= self.max_slots
    BY <1>3 DEF Fine, Tidy, Counts
  <2>2. \A k \in DOMAIN self.context : self.context[k].slot \in Slots
    <3> DEFINE C == [slot : SlotsIn(self), idx : Nat]
    <3>1. self.context \in Seq(C)
      BY <1>3 DEF Fine, Opened
    <3>2. \A x \in C : x.slot \in SlotsIn(self)
      OBVIOUS
    <3> HIDE DEF C
    <3>3. \A k \in DOMAIN self.context : self.context[k] \in C
      BY <3>1
    <3> QED BY <3>2, <3>3 DEF Slots, SlotsIn
  <2>3. \A s \in Slots : self.slots[s + 1] \in DOMAIN self.buff
    BY <1>3 DEF Fine, Tidy, Laid, Slots, SlotsIn
  <2> QED BY <1>1, <2>1, <2>2, <2>3 DEF AssemblerTypeOK
<1> QED BY <1>2, <1>3 DEF AsmInv

\* What the invariant says of the extents of the prototypes.
LEMMA ExtentsApart ==
  ASSUME AsmInv
  PROVE  PrototypesAreApart
<1>1. CASE self = Fresh
  <2>1. self.slots = <<>>
    BY <1>1 DEF Fresh
  <2>2. Slots = {}
    BY <2>1, EmptySeq DEF Slots
  <2> QED BY <2>2 DEF PrototypesAreApart
<1>2. CASE Fine(self)
  <2> DEFINE at(s) == self.slots[s + 1]
  <2>1. Tidy(self) /\ Slots = SlotsIn(self)
    BY <1>2 DEF Fine, Slots, SlotsIn
  <2>2. \A s \in Slots : /\ at(s) \in Nat /\ SizeAt(self, s) \in Nat
                         /\ at(s) + SizeAt(self, s) <= self.size
    <3> TAKE s \in Slots
    <3>1. at(s) \in DOMAIN self.buff /\ at(s) + SizeAt(self, s) <= self.size
      BY <2>1 DEF Tidy, Laid
    <3>2. DOMAIN self.buff \subseteq Nat
      BY <2>1 DEF Tidy, Buffer
    <3>3. At(self, s).max \in Caps
      BY <2>1, <3>1 DEF Tidy, Buffer, At, Protos
    <3>4. SizeAt(self, s) \in Nat
      BY <3>3, SizeIs DEF SizeAt
    <3> QED BY <3>1, <3>2, <3>4
  <2>3. \A s, t \in Slots : s # t =>
          \/ at(s) + SizeAt(self, s) <= at(t)
          \/ at(t) + SizeAt(self, t) <= at(s)
    BY <2>1 DEF Tidy, Laid
  <2>4. self.size \in Nat
    BY <2>1 DEF Tidy, Counts
  <2> HIDE DEF at
  <2>5. \A s \in Slots : Extent(s) = at(s) .. at(s) + SizeAt(self, s) - 1
    BY DEF Extent, at
  <2>6. \A s \in Slots : Extent(s) \subseteq 0 .. self.size - 1
    BY <2>2, <2>4, <2>5
  <2>7. \A s \in Slots : \A t \in Slots \ {s} : Extent(s) \cap Extent(t) = {}
    <3> TAKE s \in Slots
    <3> TAKE t \in Slots \ {s}
    <3>1. \/ at(s) + SizeAt(self, s) <= at(t)
          \/ at(t) + SizeAt(self, t) <= at(s)
      BY <2>3
    <3> QED BY <2>2, <2>5, <3>1
  <2>8. \A s \in Slots : \A x \in Sections : Len(At(self, s)[x]) <= At(self, s).max[x]
    <3> TAKE s \in Slots
    <3>1. at(s) \in DOMAIN self.buff
      BY <2>1 DEF Tidy, Laid, at
    <3>2. InRoom(At(self, s))
      BY <2>1, <3>1 DEF Tidy, Buffer, At, at
    <3> QED BY <3>2 DEF InRoom, Sections
  <2> QED BY <2>6, <2>7, <2>8 DEF PrototypesAreApart
<1> QED BY <1>1, <1>2 DEF AsmInv

\* What the invariant says of lookups.
LEMMA LookupsHold ==
  ASSUME AsmInv
  PROVE  LookupsEnd /\ InternedAreFound
<1> DEFINE t == self.st
<1>1. TableOK(t)
  BY TableHolds
<1> HIDE DEF t
<1>2. /\ Refs(t) \in SUBSET (Nat \ {0}) /\ IsFiniteSet(Refs(t))
      /\ Cardinality(Refs(t)) = count(t) /\ count(t) \in Nat
  BY <1>1, CountIs DEF TableOK
<1>3. t.n \in Nat \ {0} /\ count(t) < t.n
  BY <1>1 DEF TableOK, Spacious, Tables
<1>4. \E i \in 0 .. t.n - 1 : t.slots[i] = 0
  BY <1>1, <1>2, <1>3, HasEmpty DEF TableOK
<1>5. \A r \in Refs(t) : astring_table_to_ref(t, t.text[r]) = r
  <2> TAKE r \in Refs(t)
  <2>1. t.text[r] \in Strings /\ t.text[r] # EMPTY
    BY <1>1, StringTableAssumption DEF TableOK, Texts
  <2>2. t.slots[Probe(t, t.text[r])] = r
    BY <1>1, ProbeFinds
  <2> QED BY <2>1, <2>2 DEF astring_table_to_ref
<1> QED BY <1>4, <1>5 DEF LookupsEnd, InternedAreFound, t, Refs

\* The prototypes are in the buffer, the contexts and slots lead to prototypes,
\* and the hash slots and strings fit in the block of the table, after every
\* growth, collection and load.
THEOREM AssemblerTypes == Spec => []AssemblerTypeOK
<1>1. AsmInv => AssemblerTypeOK
  BY SizesHold
<1> QED BY <1>1, AssemblerIsFine, PTL

\* No two prototypes overlap, none reaches behind the end of the buffer and none
\* holds more than it has room for, whatever is moved and replaced.
THEOREM PrototypesStayApart == Spec => []PrototypesAreApart
<1>1. AsmInv => PrototypesAreApart
  BY ExtentsApart
<1> QED BY <1>1, AssemblerIsFine, PTL

\* Each lookup in the string table comes to an end.
THEOREM EachLookupEnds == Spec => []LookupsEnd
<1>1. AsmInv => LookupsEnd
  BY LookupsHold
<1> QED BY <1>1, AssemblerIsFine, PTL

\* Each string that was interned is found under the reference it got.
THEOREM StringsAreFound == Spec => []InternedAreFound
<1>1. AsmInv => InternedAreFound
  BY LookupsHold
<1> QED BY <1>1, AssemblerIsFine, PTL

-----------------------------------------------------------------------------
\* What the host sees of the strings, the sections and the open prototype.

\* A function whose domain is 1 .. m is a sequence of m elements.
LEMMA FunctionIsSeq ==
  ASSUME NEW S, NEW m \in Nat, NEW f \in [1 .. m -> S]
  PROVE  f \in Seq(S) /\ Len(f) = m
<1>1. f \in Seq(S)
  BY SeqDef
<1>2. Len(f) \in Nat /\ DOMAIN f = 1 .. Len(f)
  BY <1>1, LenProperties
<1>3. 1 .. m = 1 .. Len(f)
  BY <1>2
<1>4. m = Len(f)
  <2> DEFINE n == Len(f)
  <2> HIDE DEF n
  <2>1. n \in Nat /\ 1 .. m = 1 .. n
    BY <1>2, <1>3 DEF n
  <2> QED BY <2>1 DEF n
<1> QED BY <1>1, <1>4

\* What the host sees of a prototype, member by member.
ConstsOf(a, s) == [i \in DOMAIN s |-> ConstantOf(a, s[i])]
ImportsOf(a, s) ==
  [i \in DOMAIN s |-> [module |-> Text(a, s[i].module), name |-> Text(a, s[i].name)]]
NestedsOf(s) == [k \in DOMAIN s |-> s[k] + 1]
Shows(a, p) ==
  [source |-> Text(a, p.source), symbol |-> Text(a, p.symbol),
   locals |-> p.locals, code |-> p.code, consts |-> ConstsOf(a, p.consts),
   imports |-> ImportsOf(a, p.imports), nesteds |-> NestedsOf(p.nesteds)]

\* Shown, without the update of a record.
LEMMA ShownIs ==
  ASSUME NEW a, NEW p
  PROVE  Shown(a, p) = Shows(a, p)
<1>1. PICK w : w = Written(a, p)
  OBVIOUS
<1>2. w = [source |-> Text(a, p.source), symbol |-> Text(a, p.symbol), locals |-> p.locals,
           code |-> p.code, consts |-> ConstsOf(a, p.consts),
           imports |-> ImportsOf(a, p.imports), nesteds |-> p.nesteds]
  BY <1>1 DEF Written, ConstsOf, ImportsOf
<1>3. Shown(a, p) = [w EXCEPT !.nesteds = [k \in DOMAIN w.nesteds |-> w.nesteds[k] + 1]]
  BY <1>1 DEF Shown
<1>4. w.nesteds = p.nesteds
  BY <1>2
<1>5. Shown(a, p) = [w EXCEPT !.nesteds = NestedsOf(p.nesteds)]
  BY <1>3, <1>4 DEF NestedsOf
<1> QED BY <1>2, <1>5 DEF Shows

\* A constant has one form: it is plain or refers to a string.
LEMMA ConstantHas ==
  ASSUME NEW R, R \subseteq Nat \cup Words, NEW c \in Plain \cup [string : R]
  PROVE  /\ c \in Plain => c \notin [string : R]
         /\ c \notin Plain => c \in [string : R]
<1>1. [string : R] \subseteq [string : Nat \cup Strings \cup {EMPTY}]
  BY DEF Words
<1> QED BY <1>1, AssemblerAssumption

\* What is shown of a prototype does not depend on the strings that were added
\* since.
LEMMA ShownOn ==
  ASSUME NEW a, NEW b, Extends(a.st, b.st), NEW n,
         NEW p \in Protos(DOMAIN a.st.text, n)
  PROVE  Shown(b, p) = Shown(a, p)
<1> DEFINE R == DOMAIN a.st.text
<1>1. \A r \in R : Text(b, r) = Text(a, r)
  BY DEF Extends, Text, astring_table_to_string
<1>2. /\ p.source \in R /\ p.symbol \in R
      /\ p.consts \in Seq(Plain \cup [string : R]) /\ p.imports \in Seq([module : R, name : R])
  BY DEF Protos
<1> HIDE DEF R
<1>3. \A i \in DOMAIN p.consts : ConstantOf(b, p.consts[i]) = ConstantOf(a, p.consts[i])
  <2> TAKE i \in DOMAIN p.consts
  <2>1. p.consts[i] \in Plain \cup [string : R]
    BY <1>2, ElementOfSeq, LenProperties
  <2>2. p.consts[i] \notin Plain => p.consts[i].string \in R
    BY <2>1
  <2> QED BY <1>1, <2>2 DEF ConstantOf
<1>4. \A i \in DOMAIN p.imports : /\ Text(b, p.imports[i].module) = Text(a, p.imports[i].module)
                                  /\ Text(b, p.imports[i].name) = Text(a, p.imports[i].name)
  <2> TAKE i \in DOMAIN p.imports
  <2>1. p.imports[i] \in [module : R, name : R]
    BY <1>2, ElementOfSeq, LenProperties
  <2> QED BY <1>1, <2>1
<1>5. Shows(b, p) = Shows(a, p)
  <2>1. ConstsOf(b, p.consts) = ConstsOf(a, p.consts)
    BY <1>3, Zenon DEF ConstsOf
  <2>2. ImportsOf(b, p.imports) = ImportsOf(a, p.imports)
    BY <1>4, Zenon DEF ImportsOf
  <2>3. Text(b, p.source) = Text(a, p.source) /\ Text(b, p.symbol) = Text(a, p.symbol)
    BY <1>1, <1>2
  <2> QED BY <2>1, <2>2, <2>3, Zenon DEF Shows
<1> QED BY <1>5, ShownIs

\* Only the open prototype may have changed, and strings were added.
Only(a, b) ==
  /\ Good(a) /\ Goes(a, b)
  /\ \A s \in SlotsIn(a) \ {Slot(a)} : At(b, s) = At(a, s)

\* Two such steps make one.
LEMMA OnlyOn ==
  ASSUME NEW a, NEW b, NEW c, Only(a, b), Only(b, c)
  PROVE  Only(a, c)
<1>1. Goes(a, c)
  BY GoesOn DEF Only
<1>2. SlotsIn(b) = SlotsIn(a) /\ Slot(b) = Slot(a)
  BY DEF Only, Goes, Steady, SlotsIn, Slot
<1> QED BY <1>1, <1>2 DEF Only

\* A program whose slots are all nested is shown as a whole.
LEMMA LinkedIs ==
  ASSUME NEW a, Tidy(a), a.asserts \/ Tree(a)
  PROVE  /\ Linked(a) = a.slots /\ Len(a.slots) \in Nat \ {0}
         /\ ProgramOf(a) = [i \in 1 .. Len(a.slots) |-> Shown(a, At(a, i - 1))]
<1>1. a.slots \in Seq(Nat) /\ Len(a.slots) \in Nat \ {0}
  BY DEF Tidy, Counts
<1>2. ~Orphan(a)
  <2>1. SUFFICES ASSUME Tree(a), Len(a.slots) > 1
                 PROVE \E s \in 0 .. Len(a.slots) - 1 : Len(a.slots) - 1 \in Range(At(a, s).nesteds)
    BY DEF Orphan
  <2>2. Len(a.slots) - 1 \in SlotsIn(a) \ {0}
    <3> DEFINE N == Len(a.slots)
    <3>1. N \in Nat \ {0} /\ N > 1
      BY <1>1, <2>1
    <3> HIDE DEF N
    <3>2. N - 1 \in (0 .. N - 1) \ {0}
      BY <3>1
    <3> QED BY <3>2 DEF SlotsIn, N
  <2>3. PICK s \in SlotsIn(a) : \E k \in DOMAIN Kids(a, s) : Kids(a, s)[k] = Len(a.slots) - 1
    BY <2>1, <2>2 DEF Tree
  <2> QED BY <2>3 DEF SlotsIn, Kids, Range
<1>3. Linked(a) = a.slots
  BY <1>2 DEF Linked
<1>4. DOMAIN a.slots = 1 .. Len(a.slots)
  BY <1>1, LenProperties
<1> QED BY <1>1, <1>3, <1>4 DEF ProgramOf

\* What such a step does to what the host sees.
Sees(a, b, P, Q, h) ==
  /\ Q = [P EXCEPT ![h] = Shown(b, aasm_prototype(b))]
  /\ OpenIn(b) = OpenIn(a)
Here(a, P, h) ==
  /\ h \in DOMAIN P /\ P # <<>> /\ h = Slot(a) + 1
  /\ P[h] = Shown(a, aasm_prototype(a))
  /\ h = OpenIn(a)[Len(OpenIn(a))]

\* The open prototype is in the program, at the place that is open.
LEMMA HereIs ==
  ASSUME NEW a, Good(a)
  PROVE  Here(a, ProgramOf(a), Slot(a) + 1)
<1> DEFINE N == Len(a.slots)
           h == Slot(a) + 1
           P == ProgramOf(a)
           m == Len(a.context)
<1>1. P = [i \in 1 .. N |-> Shown(a, At(a, i - 1))] /\ N \in Nat \ {0}
  BY LinkedIs DEF Good
<1>2. Slot(a) \in 0 .. N - 1 /\ m \in Nat \ {0}
  BY SlotOK DEF Good, SlotsIn
<1> HIDE DEF P, N
<1>3. h \in 1 .. N /\ h - 1 = Slot(a)
  BY <1>1, <1>2
<1>4. P[h] = Shown(a, aasm_prototype(a)) /\ DOMAIN P = 1 .. N
  BY <1>1, <1>3 DEF aasm_prototype
<1>5. P # <<>>
  <2>1. DOMAIN <<>> = {}
    BY EmptySeq
  <2> QED BY <1>3, <1>4, <2>1
<1>6. OpenIn(a) \in [1 .. m -> Int] /\ OpenIn(a)[m] = h
  <2>1. a.context \in Seq([slot : SlotsIn(a), idx : Nat])
    BY DEF Good, Opened
  <2>2. DOMAIN a.context = 1 .. m
    BY <2>1, LenProperties
  <2>3. \A k \in 1 .. m : a.context[k].slot \in Int
    <3>1. \A k \in 1 .. m : a.context[k] \in [slot : SlotsIn(a), idx : Nat]
      BY <2>1, ElementOfSeq
    <3>2. SlotsIn(a) \subseteq Int
      BY DEF SlotsIn
    <3> HIDE DEF m
    <3> QED BY <3>1, <3>2
  <2>4. m \in 1 .. m
    BY <1>2
  <2>5. OpenIn(a) = [k \in 1 .. m |-> a.context[k].slot + 1]
    BY <2>2 DEF OpenIn
  <2>6. \A k \in 1 .. m : a.context[k].slot + 1 \in Int
    BY <2>3
  <2> QED BY <2>4, <2>5, <2>6 DEF Slot
<1>7. Len(OpenIn(a)) = m
  <2> DEFINE o == OpenIn(a)
  <2>1. o \in [1 .. m -> Int] /\ m \in Nat
    BY <1>2, <1>6
  <2> HIDE DEF o, m
  <2>2. Len(o) = m
    BY <2>1, FunctionIsSeq
  <2> QED BY <2>2 DEF o
<1>8. h \in DOMAIN P
  BY <1>3, <1>4
<1> QED BY <1>4, <1>5, <1>6, <1>7, <1>8 DEF Here, P

\* The program is the same but for the prototype at the open place.
LEMMA OnlySees ==
  ASSUME NEW a, NEW b, Only(a, b)
  PROVE  Sees(a, b, ProgramOf(a), ProgramOf(b), Slot(a) + 1)
<1> DEFINE N == Len(a.slots)
           h == Slot(a) + 1
           P == ProgramOf(a)
           Q == ProgramOf(b)
           x == Shown(b, aasm_prototype(b))
<1>1. Good(a) /\ Good(b) /\ Len(b.slots) = N /\ b.context = a.context
  BY DEF Only, Goes, Steady
<1>2. P = [i \in 1 .. N |-> Shown(a, At(a, i - 1))] /\ N \in Nat \ {0}
  BY <1>1, LinkedIs DEF Good
<1>3. Q = [i \in 1 .. N |-> Shown(b, At(b, i - 1))]
  BY <1>1, LinkedIs DEF Good
<1>4. Slot(a) \in 0 .. N - 1 /\ SlotsIn(a) = 0 .. N - 1
  BY <1>1, SlotOK DEF Good, SlotsIn
<1>5. Slot(b) = Slot(a) /\ aasm_prototype(b) = At(b, Slot(a))
  BY <1>1 DEF Slot, aasm_prototype
<1>6. \A i \in 1 .. N : Shown(b, At(b, i - 1)) = IF i = h THEN x ELSE Shown(a, At(a, i - 1))
  <2> TAKE i \in 1 .. N
  <2>1. CASE i = h
    BY <1>4, <1>5, <2>1
  <2>2. CASE i # h
    <3>1. i - 1 \in SlotsIn(a) \ {Slot(a)}
      BY <1>2, <1>4, <2>2
    <3>2. At(b, i - 1) = At(a, i - 1)
      BY <3>1 DEF Only
    <3>3. At(a, i - 1) \in Protos(DOMAIN a.st.text, N)
      BY <1>1, <3>1, AtOK DEF Good
    <3>4. Shown(b, At(a, i - 1)) = Shown(a, At(a, i - 1))
      BY <3>3, ShownOn DEF Only, Goes
    <3> QED BY <2>2, <3>2, <3>4
  <2> QED BY <2>1, <2>2
<1>7. Q = [P EXCEPT ![h] = x]
  <2> HIDE DEF N, h, x, P, Q
  <2> DEFINE F(i) == Shown(a, At(a, i - 1))
             E(i) == Shown(b, At(b, i - 1))
  <2>1. P = [i \in 1 .. N |-> F(i)] /\ Q = [i \in 1 .. N |-> E(i)]
    BY <1>2, <1>3
  <2>2. \A i \in 1 .. N : E(i) = IF i = h THEN x ELSE F(i)
    BY <1>6
  <2> HIDE DEF F, E
  <2> QED BY <2>1, <2>2
<1>8. OpenIn(b) = OpenIn(a)
  BY <1>1 DEF OpenIn
<1> QED BY <1>7, <1>8 DEF Sees

\* A sequence with one more element.
OneMore(m, u, y, w) ==
  /\ m \in Nat /\ u = [i \in 1 .. m |-> u[i]] /\ w = [i \in 1 .. m + 1 |-> w[i]]
  /\ \A i \in 1 .. m : w[i] = u[i]
  /\ w[m + 1] = y

\* Such a sequence is the one that Append makes.
LEMMA AppendIs ==
  ASSUME NEW m, NEW u, NEW y, NEW w, OneMore(m, u, y, w)
  PROVE  w = Append(u, y)
<1>0. /\ m \in Nat /\ u = [i \in 1 .. m |-> u[i]] /\ w = [i \in 1 .. m + 1 |-> w[i]]
      /\ \A i \in 1 .. m : w[i] = u[i]
      /\ w[m + 1] = y
  BY DEF OneMore
<1> DEFINE T == {u[i] : i \in 1 .. m} \cup {y}
<1>1. u \in [1 .. m -> T] /\ y \in T
  <2>1. \A i \in 1 .. m : u[i] \in T
    OBVIOUS
  <2> HIDE DEF T
  <2>2. u \in [1 .. m -> T]
    BY <1>0, <2>1
  <2> QED BY <2>2 DEF T
<1> HIDE DEF T
<1>2. u \in Seq(T) /\ Len(u) = m
  BY <1>0, <1>1, FunctionIsSeq
<1> DEFINE v == Append(u, y)
<1>3. /\ v \in Seq(T) /\ Len(v) = m + 1 /\ v[m + 1] = y
      /\ \A i \in 1 .. m : v[i] = u[i]
  BY <1>1, <1>2, AppendProperties
<1>4. DOMAIN v = 1 .. m + 1 /\ v = [i \in DOMAIN v |-> v[i]]
  BY <1>3, LenProperties
<1> HIDE DEF v
<1>5. \A i \in 1 .. m + 1 : v[i] = w[i]
  <2> TAKE i \in 1 .. m + 1
  <2>1. i \in 1 .. m \/ i = m + 1
    BY <1>0
  <2> QED BY <1>0, <1>3, <2>1
<1>6. w = [i \in 1 .. m + 1 |-> v[i]]
  BY <1>0, <1>5
<1> QED BY <1>4, <1>6 DEF v

\* A prototype with one more item, member by member.
WithItem(q, s, x) == [q EXCEPT ![s] = Append(@, x)]
HasItem(p, q, s, x) ==
  p = [source |-> q.source, symbol |-> q.symbol, locals |-> q.locals,
       code |-> IF s = "code" THEN Append(q.code, x) ELSE q.code,
       consts |-> IF s = "consts" THEN Append(q.consts, x) ELSE q.consts,
       imports |-> IF s = "imports" THEN Append(q.imports, x) ELSE q.imports,
       nesteds |-> q.nesteds, max |-> q.max]

\* WithItem appends to one section and keeps the other members.
LEMMA AppendedIs ==
  ASSUME NEW R, NEW n, NEW q \in Protos(R, n), NEW s \in Sections \ {"nesteds"}, NEW x,
         NEW p, p = WithItem(q, s, x)
  PROVE  HasItem(p, q, s, x)
<1>1. q = [source |-> q.source, symbol |-> q.symbol, locals |-> q.locals, code |-> q.code,
           consts |-> q.consts, imports |-> q.imports, nesteds |-> q.nesteds, max |-> q.max]
  BY MembersOf
<1>2. s \in {"code", "consts", "imports"}
  BY DEF Sections
<1>3. p = [q EXCEPT ![s] = Append(q[s], x)]
  BY DEF WithItem
<1>4. CASE s = "code"
  <2> DEFINE e == Append(q.code, x)
  <2>1. p = [q EXCEPT !.code = e]
    BY <1>3, <1>4
  <2> HIDE DEF e
  <2>2. p = [source |-> q.source, symbol |-> q.symbol, locals |-> q.locals, code |-> e,
             consts |-> q.consts, imports |-> q.imports, nesteds |-> q.nesteds, max |-> q.max]
    BY <1>1, <2>1
  <2> QED BY <1>4, <2>2 DEF e, HasItem
<1>5. CASE s = "consts"
  <2> DEFINE e == Append(q.consts, x)
  <2>1. p = [q EXCEPT !.consts = e]
    BY <1>3, <1>5
  <2> HIDE DEF e
  <2>2. p = [source |-> q.source, symbol |-> q.symbol, locals |-> q.locals, code |-> q.code,
             consts |-> e, imports |-> q.imports, nesteds |-> q.nesteds, max |-> q.max]
    BY <1>1, <2>1
  <2> QED BY <1>5, <2>2 DEF e, HasItem
<1>6. CASE s = "imports"
  <2> DEFINE e == Append(q.imports, x)
  <2>1. p = [q EXCEPT !.imports = e]
    BY <1>3, <1>6
  <2> HIDE DEF e
  <2>2. p = [source |-> q.source, symbol |-> q.symbol, locals |-> q.locals, code |-> q.code,
             consts |-> q.consts, imports |-> e, nesteds |-> q.nesteds, max |-> q.max]
    BY <1>1, <2>1
  <2> QED BY <1>6, <2>2 DEF e, HasItem
<1> QED BY <1>2, <1>4, <1>5, <1>6

\* What the host sees of an item.
ImportOf(a, x) == [module |-> Text(a, x.module), name |-> Text(a, x.name)]
ItemOf(a, s, x) ==
  CASE s = "code" -> x
    [] s = "consts" -> ConstantOf(a, x)
    [] s = "imports" -> ImportOf(a, x)

\* One more constant is one more constant to the host.
LEMMA ConstsAppend ==
  ASSUME NEW a, NEW S, NEW q \in Seq(S), NEW x \in S
  PROVE  ConstsOf(a, Append(q, x)) = Append(ConstsOf(a, q), ConstantOf(a, x))
<1> DEFINE m == Len(q)
           e == Append(q, x)
           u == ConstsOf(a, q)
           w == ConstsOf(a, e)
           y == ConstantOf(a, x)
<1>1. m \in Nat /\ DOMAIN q = 1 .. m
  BY LenProperties
<1>2. /\ e \in Seq(S) /\ Len(e) = m + 1 /\ e[m + 1] = x
      /\ \A i \in 1 .. m : e[i] = q[i]
  BY AppendProperties
<1>3. DOMAIN e = 1 .. m + 1
  BY <1>2, LenProperties
<1> HIDE DEF e, m
<1>4. m + 1 \in 1 .. m + 1 /\ 1 .. m \subseteq 1 .. m + 1
  BY <1>1
<1>5. w = [i \in 1 .. m + 1 |-> w[i]] /\ u = [i \in 1 .. m |-> u[i]]
  BY <1>1, <1>3 DEF ConstsOf
<1>6. \A i \in 1 .. m : w[i] = u[i]
  BY <1>1, <1>2, <1>3, <1>4 DEF ConstsOf
<1>7. w[m + 1] = y
  BY <1>2, <1>3, <1>4 DEF ConstsOf
<1> HIDE DEF w, u, y
<1>8. w = Append(u, y)
  <2>1. OneMore(m, u, y, w)
    BY <1>1, <1>5, <1>6, <1>7 DEF OneMore
  <2> QED BY <2>1, AppendIs
<1> QED BY <1>8 DEF w, u, y, e

\* One more import is one more import to the host.
LEMMA ImportsAppend ==
  ASSUME NEW a, NEW S, NEW q \in Seq(S), NEW x \in S
  PROVE  ImportsOf(a, Append(q, x)) = Append(ImportsOf(a, q), ImportOf(a, x))
<1> DEFINE m == Len(q)
           e == Append(q, x)
           u == ImportsOf(a, q)
           w == ImportsOf(a, e)
           y == ImportOf(a, x)
<1>1. m \in Nat /\ DOMAIN q = 1 .. m
  BY LenProperties
<1>2. /\ e \in Seq(S) /\ Len(e) = m + 1 /\ e[m + 1] = x
      /\ \A i \in 1 .. m : e[i] = q[i]
  BY AppendProperties
<1>3. DOMAIN e = 1 .. m + 1
  BY <1>2, LenProperties
<1> HIDE DEF e, m
<1>4. m + 1 \in 1 .. m + 1 /\ 1 .. m \subseteq 1 .. m + 1
  BY <1>1
<1>5. w = [i \in 1 .. m + 1 |-> w[i]] /\ u = [i \in 1 .. m |-> u[i]]
  BY <1>1, <1>3 DEF ImportsOf
<1>6. \A i \in 1 .. m : w[i] = u[i]
  BY <1>1, <1>2, <1>3, <1>4 DEF ImportsOf
<1>7. w[m + 1] = y
  BY <1>2, <1>3, <1>4 DEF ImportsOf, ImportOf
<1> HIDE DEF w, u, y
<1>8. w = Append(u, y)
  <2>1. OneMore(m, u, y, w)
    BY <1>1, <1>5, <1>6, <1>7 DEF OneMore
  <2> QED BY <2>1, AppendIs
<1> QED BY <1>8 DEF w, u, y, e

\* The host sees the item at the end of its section.
LEMMA ShownAppend ==
  ASSUME NEW a, NEW R, NEW n, NEW q \in Protos(R, n), NEW s \in Sections \ {"nesteds"}, NEW x,
         NEW p, p = WithItem(q, s, x), IsItem(R, n, s, x)
  PROVE  Shown(a, p) = WithItem(Shown(a, q), s, ItemOf(a, s, x))
<1>1. HasItem(p, q, s, x)
  BY AppendedIs
<1>2. s \in {"code", "consts", "imports"}
  BY DEF Sections
<1>3. /\ p.source = q.source /\ p.symbol = q.symbol /\ p.locals = q.locals /\ p.nesteds = q.nesteds
      /\ p.code = IF s = "code" THEN Append(q.code, x) ELSE q.code
      /\ p.consts = IF s = "consts" THEN Append(q.consts, x) ELSE q.consts
      /\ p.imports = IF s = "imports" THEN Append(q.imports, x) ELSE q.imports
  BY <1>1 DEF HasItem
<1>4. q.consts \in Seq(Plain \cup [string : R]) /\ q.imports \in Seq([module : R, name : R])
  BY DEF Protos
<1> DEFINE f == Text(a, q.source)
           g == Text(a, q.symbol)
           l == q.locals
           c == q.code
           k == ConstsOf(a, q.consts)
           m == ImportsOf(a, q.imports)
           d == NestedsOf(q.nesteds)
<1>5. PICK r : r = Shown(a, q)
  OBVIOUS
<1>6. r = [source |-> f, symbol |-> g, locals |-> l, code |-> c, consts |-> k, imports |-> m, nesteds |-> d]
  BY <1>5, ShownIs DEF Shows
<1>7. Shown(a, p) =
        [source |-> f, symbol |-> g, locals |-> l, code |-> p.code,
         consts |-> ConstsOf(a, p.consts), imports |-> ImportsOf(a, p.imports), nesteds |-> d]
  BY <1>3, ShownIs DEF Shows
<1>8. CASE s = "code"
  <2>1. Shown(a, p) =
          [source |-> f, symbol |-> g, locals |-> l, code |-> Append(c, x), consts |-> k, imports |-> m, nesteds |-> d]
    BY <1>3, <1>7, <1>8
  <2>2. ItemOf(a, s, x) = x
    BY <1>8 DEF ItemOf
  <2> HIDE DEF f, g, l, c, k, m, d
  <2>3. [r EXCEPT !.code = Append(@, x)] =
          [source |-> f, symbol |-> g, locals |-> l, code |-> Append(c, x), consts |-> k, imports |-> m, nesteds |-> d]
    BY <1>6
  <2> QED BY <1>5, <1>8, <2>1, <2>2, <2>3 DEF WithItem
<1>9. CASE s = "consts"
  <2> DEFINE y == ConstantOf(a, x)
  <2>1. x \in Plain \cup [string : R]
    BY <1>9 DEF IsItem
  <2>2. ConstsOf(a, p.consts) = Append(k, y)
    <3>1. p.consts = Append(q.consts, x)
      BY <1>3, <1>9
    <3>2. ConstsOf(a, Append(q.consts, x)) = Append(ConstsOf(a, q.consts), y)
      BY <1>4, <2>1, ConstsAppend
    <3> QED BY <3>1, <3>2
  <2>3. ItemOf(a, s, x) = y
    BY <1>9 DEF ItemOf
  <2>4. Shown(a, p) =
          [source |-> f, symbol |-> g, locals |-> l, code |-> c, consts |-> Append(k, y), imports |-> m, nesteds |-> d]
    BY <1>3, <1>7, <1>9, <2>2
  <2> HIDE DEF f, g, l, c, k, m, d, y
  <2>5. [r EXCEPT !.consts = Append(@, y)] =
          [source |-> f, symbol |-> g, locals |-> l, code |-> c, consts |-> Append(k, y), imports |-> m, nesteds |-> d]
    BY <1>6
  <2> QED BY <1>5, <1>9, <2>3, <2>4, <2>5 DEF WithItem
<1>10. CASE s = "imports"
  <2> DEFINE y == ImportOf(a, x)
  <2>1. x \in [module : R, name : R]
    BY <1>10 DEF IsItem
  <2>2. ImportsOf(a, p.imports) = Append(m, y)
    <3>1. p.imports = Append(q.imports, x)
      BY <1>3, <1>10
    <3>2. ImportsOf(a, Append(q.imports, x)) = Append(ImportsOf(a, q.imports), y)
      BY <1>4, <2>1, ImportsAppend
    <3> QED BY <3>1, <3>2
  <2>3. ItemOf(a, s, x) = y
    BY <1>10 DEF ItemOf
  <2>4. Shown(a, p) =
          [source |-> f, symbol |-> g, locals |-> l, code |-> c, consts |-> k, imports |-> Append(m, y), nesteds |-> d]
    BY <1>3, <1>7, <1>10, <2>2
  <2> HIDE DEF f, g, l, c, k, m, d, y
  <2>5. [r EXCEPT !.imports = Append(@, y)] =
          [source |-> f, symbol |-> g, locals |-> l, code |-> c, consts |-> k, imports |-> Append(m, y), nesteds |-> d]
    BY <1>6
  <2> QED BY <1>5, <1>10, <2>3, <2>4, <2>5 DEF WithItem
<1> QED BY <1>2, <1>8, <1>9, <1>10

\* Of the prototype with more room the host sees that it has no local variables.
LEMMA ShownEnlarged ==
  ASSUME NEW a, NEW R, NEW n, NEW q \in Protos(R, n), NEW room
  PROVE  Shown(a, Enlarged(q, room)) = [Shown(a, q) EXCEPT !.locals = 0]
<1> DEFINE p == Enlarged(q, room)
<1>1. q = [source |-> q.source, symbol |-> q.symbol, locals |-> q.locals, code |-> q.code,
           consts |-> q.consts, imports |-> q.imports, nesteds |-> q.nesteds, max |-> q.max]
  BY MembersOf
<1>2. p = [source |-> q.source, symbol |-> q.symbol, locals |-> 0, code |-> q.code,
           consts |-> q.consts, imports |-> q.imports, nesteds |-> q.nesteds, max |-> room]
  <2>1. PICK r : r = q
    OBVIOUS
  <2>2. p = [r EXCEPT !.max = room, !.locals = 0]
    BY <2>1 DEF Enlarged
  <2>3. r = [source |-> r.source, symbol |-> r.symbol, locals |-> r.locals, code |-> r.code,
           consts |-> r.consts, imports |-> r.imports, nesteds |-> r.nesteds, max |-> r.max]
    BY <1>1, <2>1
  <2> HIDE DEF p
  <2> QED BY <2>1, <2>2, <2>3
<1> HIDE DEF p
<1>3. /\ p.source = q.source /\ p.symbol = q.symbol /\ p.locals = 0 /\ p.nesteds = q.nesteds
      /\ p.code = q.code /\ p.consts = q.consts /\ p.imports = q.imports
  BY <1>2
<1>4. Shows(a, p) = [Shows(a, q) EXCEPT !.locals = 0]
  BY <1>3 DEF Shows
<1> QED BY <1>4, ShownIs DEF p

\* Nothing but the open prototype: neither strings nor the assertions.
Alone(a, b) == Only(a, b) /\ b.st = a.st /\ b.asserts = a.asserts

\* A step that changes nothing is such a step.
LEMMA AloneSelf ==
  ASSUME NEW a, Good(a)
  PROVE  Alone(a, a)
BY DEF Alone, Only, Goes, Steady, Extends

\* Two such steps make one.
LEMMA AloneOn ==
  ASSUME NEW a, NEW b, NEW c, Alone(a, b), Alone(b, c)
  PROVE  Alone(a, c)
BY OnlyOn DEF Alone

\* WithPrototype.
LEMMA SetAlone ==
  ASSUME NEW a, Good(a), NEW p, p \in Protos(DOMAIN a.st.text, Len(a.slots)),
         InRoom(p), p.max = aasm_prototype(a).max, p.nesteds = aasm_prototype(a).nesteds,
         NEW b, b = WithPrototype(a, p)
  PROVE  Alone(a, b) /\ aasm_prototype(b) = p
<1>1. Goes(a, b) /\ aasm_prototype(b) = p /\ b.asserts = a.asserts
  BY SetOK
<1>2. SameBut(a, b, Slot(a), p)
  BY SlotOK, WithPrototypeTidy DEF Good
<1> QED BY <1>1, <1>2 DEF Alone, Only, SameBut

\* aasm_reserve: the open prototype is as before or has more room.
LEMMA ReserveAlone ==
  ASSUME NEW a, Good(a), NEW room \in Caps, Fits(aasm_prototype(a), room),
         NEW b, b = aasm_reserve(a, room)
  PROVE  /\ Alone(a, b)
         /\ IF \A s \in Sections : aasm_prototype(a).max[s] >= room[s]
            THEN aasm_prototype(b) = aasm_prototype(a)
            ELSE aasm_prototype(b) = Enlarged(aasm_prototype(a), room)
<1> DEFINE h == Slot(a)
<1>1. h \in SlotsIn(a) /\ Tidy(a)
  BY SlotOK DEF Good
<1>2. CASE \A s \in Sections : aasm_prototype(a).max[s] >= room[s]
  <2>1. b = a
    BY <1>2 DEF aasm_reserve
  <2> QED BY <1>2, <2>1, AloneSelf
<1>3. CASE ~ \A s \in Sections : aasm_prototype(a).max[s] >= room[s]
  <2> DEFINE c == new_prototype(a, room)
             q == aasm_prototype(c)
             p == Enlarged(q, room)
  <2>1. b = ReplacedByLast(c, room)
    BY <1>3 DEF aasm_reserve
  <2>2. Good(c) /\ Same(a, c) /\ Behind(c, room)
    BY NewPrototypeOK
  <2> HIDE DEF c
  <2>3. Slot(c) = h /\ q = aasm_prototype(a)
    <3>1. Slot(c) = h
      BY <2>2 DEF Same, Slot
    <3> QED BY <1>1, <2>2, <3>1 DEF Same, aasm_prototype
  <2>4. q \in Protos(DOMAIN a.st.text, Len(a.slots))
    BY <2>3, OpenOK
  <2>5. InRoom(p)
    BY <2>3, <2>4, EnlargedIs
  <2> HIDE DEF p
  <2>6. Good(b) /\ SameBut(c, b, h, p)
    BY <2>1, <2>2, <2>3, <2>5, ReplacedOK DEF p
  <2> HIDE DEF h
  <2>7. /\ Len(b.slots) = Len(a.slots) /\ b.context = a.context /\ b.st = a.st
        /\ b.asserts = a.asserts /\ At(b, h) = p
        /\ \A s \in SlotsIn(a) \ {h} : At(b, s) = At(a, s)
    BY <1>1, <2>2, <2>6, <2>3 DEF SameBut, Same, SlotsIn
  <2>8. aasm_prototype(b) = p
    <3>1. Slot(b) = h
      BY <2>7 DEF Slot, h
    <3> QED BY <2>7, <3>1 DEF aasm_prototype
  <2>9. p.nesteds = q.nesteds
    BY <2>3, <2>4, EnlargedIs DEF p, SameItems
  <2>10. Goes(a, b)
    BY <2>3, <2>6, <2>7, <2>8, <2>9 DEF Goes, Steady, Extends
  <2>11. Alone(a, b)
    BY <2>7, <2>10 DEF Alone, Only, h
  <2> QED BY <1>3, <2>3, <2>8, <2>11 DEF p
<1> QED BY <1>2, <1>3

\* Room for one more item: what the host sees of the open prototype.
Roomier(a, b) ==
  /\ Alone(a, b)
  /\ \/ aasm_prototype(b) = aasm_prototype(a)
     \/ \E room \in Caps : aasm_prototype(b) = Enlarged(aasm_prototype(a), room)

\* aasm_reserve with twice the room, when a section is full (aasm_emit and the like).
LEMMA GrownAlone ==
  ASSUME NEW a, Good(a), NEW s \in Sections
  PROVE  Roomier(a, Grown(a, s))
<1> DEFINE b == Grown(a, s)
           p == aasm_prototype(a)
           room == [p.max EXCEPT ![s] = 2 * p.max[s]]
<1>1. Len(p[s]) # p.max[s] => b = a
  BY DEF Grown
<1>2. Len(p[s]) = p.max[s] => b = aasm_reserve(a, room)
  BY DEF Grown, GROW_FACTOR
<1>3. p.max \in Caps /\ InRoom(p)
  BY SlotOK, AtOK DEF Good, aasm_prototype
<1> HIDE DEF b, p
<1>4. p.max = [code |-> p.max.code, consts |-> p.max.consts, imports |-> p.max.imports,
               nesteds |-> p.max.nesteds]
      /\ p.max.code \in Nat /\ p.max.consts \in Nat /\ p.max.imports \in Nat /\ p.max.nesteds \in Nat
  BY <1>3 DEF Caps
<1>5. /\ room.code = IF s = "code" THEN 2 * p.max.code ELSE p.max.code
      /\ room.consts = IF s = "consts" THEN 2 * p.max.consts ELSE p.max.consts
      /\ room.imports = IF s = "imports" THEN 2 * p.max.imports ELSE p.max.imports
      /\ room.nesteds = IF s = "nesteds" THEN 2 * p.max.nesteds ELSE p.max.nesteds
      /\ room = [code |-> room.code, consts |-> room.consts, imports |-> room.imports,
                 nesteds |-> room.nesteds]
  BY <1>4 DEF Sections
<1> HIDE DEF room
<1>6. room \in Caps
  BY <1>4, <1>5 DEF Caps
<1>7. Fits(p, room)
  <2>1. /\ p.max.code <= room.code /\ p.max.consts <= room.consts
        /\ p.max.imports <= room.imports /\ p.max.nesteds <= room.nesteds
    BY <1>4, <1>5
  <2> DEFINE u == Len(p.code)
             v == Len(p.consts)
             w == Len(p.imports)
             x == Len(p.nesteds)
  <2>2. p \in Protos(DOMAIN a.st.text, Len(a.slots))
    BY SlotOK, AtOK DEF Good, aasm_prototype, p
  <2>3. u \in Nat /\ v \in Nat /\ w \in Nat /\ x \in Nat
    BY <2>2, LenProperties DEF Protos
  <2>4. u <= p.max.code /\ v <= p.max.consts /\ w <= p.max.imports /\ x <= p.max.nesteds
    BY <1>3 DEF InRoom
  <2>5. u <= room.code /\ v <= room.consts /\ w <= room.imports /\ x <= room.nesteds
    <3> HIDE DEF u, v, w, x
    <3> QED BY <1>4, <1>5, <2>1, <2>3, <2>4
  <2> QED BY <2>5 DEF Fits
<1>8. Len(p[s]) = p.max[s] => Roomier(a, b)
  <2> HAVE Len(p[s]) = p.max[s]
  <2>1. b = aasm_reserve(a, room)
    BY <1>2
  <2>2. /\ Alone(a, b)
        /\ IF \A x \in Sections : p.max[x] >= room[x]
            THEN aasm_prototype(b) = p ELSE aasm_prototype(b) = Enlarged(p, room)
    BY <1>6, <1>7, <2>1, ReserveAlone DEF p
  <2>3. aasm_prototype(b) = p \/ aasm_prototype(b) = Enlarged(p, room)
    BY <2>2
  <2> QED BY <1>6, <2>2, <2>3 DEF Roomier, p
<1>9. Len(p[s]) # p.max[s] => Roomier(a, b)
  BY <1>1, AloneSelf DEF Roomier
<1> QED BY <1>8, <1>9 DEF b

\* Where there is room none is made.
LEMMA RoomStays ==
  ASSUME NEW a, Good(a), NEW s \in Sections, HasRoom(a, s)
  PROVE  Grown(a, s) = a
<1> DEFINE p == aasm_prototype(a)
           m == Len(p[s])
           n == p.max[s]
<1>1. p \in Protos(DOMAIN a.st.text, Len(a.slots))
  BY OpenOK
<1>2. n \in Nat /\ m \in Nat
  <2>1. p.max[s] \in Nat
    BY <1>1 DEF Protos, Caps, Sections
  <2>2. /\ Len(p.code) \in Nat /\ Len(p.consts) \in Nat /\ Len(p.imports) \in Nat
        /\ Len(p.nesteds) \in Nat
    BY <1>1, LenProperties DEF Protos
  <2> HIDE DEF p
  <2>3. Len(p[s]) \in Nat
    BY <2>2 DEF Sections
  <2> QED BY <2>1, <2>3
<1>3. m < n
  BY DEF HasRoom
<1>4. m # n
  <2> HIDE DEF m, n
  <2> QED BY <1>2, <1>3
<1> QED BY <1>4 DEF Grown

\* An item is stored, or the assertion that there is room fails.
IsStored(a, s, x, b) ==
  /\ Only(a, b) /\ b.st = a.st
  /\ IF HasRoom(a, s)
     THEN b.asserts = a.asserts /\ aasm_prototype(b) = WithItem(aasm_prototype(a), s, x)
     ELSE b.asserts = FALSE /\ aasm_prototype(b) = aasm_prototype(a)

\* Stored does one or the other, to the open prototype only.
LEMMA StoredOnly ==
  ASSUME NEW a, Good(a), NEW s \in Sections \ {"nesteds"}, NEW x,
         IsItem(DOMAIN a.st.text, Len(a.slots), s, x), NEW b, b = Stored(a, s, x)
  PROVE  IsStored(a, s, x, b)
<1> DEFINE q == aasm_prototype(a)
           p == WithItem(q, s, x)
<1>1. q \in Protos(DOMAIN a.st.text, Len(a.slots)) /\ InRoom(q)
  BY OpenOK
<1>2. CASE HasRoom(a, s)
  <2>1. b = WithPrototype(a, p)
    BY <1>2 DEF Stored, WithItem
  <2>2. Len(q[s]) < q.max[s]
    BY <1>2 DEF HasRoom
  <2> HIDE DEF q
  <2>3. /\ p \in Protos(DOMAIN a.st.text, Len(a.slots)) /\ InRoom(p) /\ p.max = q.max
        /\ p.nesteds = q.nesteds
    <3> DEFINE e == [q EXCEPT ![s] = Append(@, x)]
    <3>1. p = e
      BY DEF WithItem
    <3> HIDE DEF p
    <3>2. /\ e \in Protos(DOMAIN a.st.text, Len(a.slots)) /\ InRoom(e) /\ e.max = q.max
          /\ e.nesteds = q.nesteds
      BY <1>1, <2>2, AppendedOK
    <3> QED BY <3>1, <3>2
  <2> HIDE DEF p
  <2>4. Alone(a, b) /\ aasm_prototype(b) = p
    BY <2>1, <2>3, SetAlone DEF q
  <2> QED BY <1>2, <2>4 DEF Alone, p, q, IsStored
<1>3. CASE ~HasRoom(a, s)
  <2>1. b = [a EXCEPT !.asserts = FALSE]
    BY <1>3 DEF Stored
  <2>2. Good(b) /\ Steady(a, b) /\ b.st = a.st /\ b.asserts = FALSE
    BY <2>1, FailedOK DEF Good
  <2>3. Shape(a)
    BY DEF Good, Tidy
  <2>4. b.buff = a.buff /\ b.slots = a.slots /\ b.context = a.context
    BY <2>1, <2>3 DEF Shape
  <2>5. \A t : At(b, t) = At(a, t)
    BY <2>4 DEF At
  <2>6. aasm_prototype(b) = aasm_prototype(a)
    BY <2>4, <2>5 DEF aasm_prototype, Slot
  <2> QED BY <1>3, <2>2, <2>5, <2>6 DEF Only, Goes, Extends, IsStored
<1> QED BY <1>2, <1>3

\* The item goes to the end of its section after there was room made for it, or
\* only room was made.
LEMMA AddOnly ==
  ASSUME NEW a, Good(a), NEW s \in Sections \ {"nesteds"}, NEW x,
         IsItem(DOMAIN a.st.text, Len(a.slots), s, x), NEW b, b = Add(a, s, x)
  PROVE  /\ Only(a, b) /\ b.st = a.st
         /\ \E g : /\ Roomier(a, g)
                   /\ \/ aasm_prototype(b) = aasm_prototype(g)
                      \/ aasm_prototype(b) = WithItem(aasm_prototype(g), s, x)
         /\ HasRoom(a, s) => /\ b.asserts = a.asserts
                             /\ aasm_prototype(b) = WithItem(aasm_prototype(a), s, x)
<1> DEFINE g == Grown(a, s)
<1>1. Roomier(a, g)
  BY GrownAlone
<1>2. HasRoom(a, s) => g = a
  BY RoomStays
<1>3. b = Stored(g, s, x)
  BY DEF Add
<1> HIDE DEF g
<1>4. Alone(a, g) /\ Good(g)
  BY <1>1 DEF Roomier, Alone, Only, Goes
<1>5. g.st = a.st /\ Len(g.slots) = Len(a.slots)
  BY <1>4 DEF Alone, Only, Goes, Steady
<1>6. IsItem(DOMAIN g.st.text, Len(g.slots), s, x)
  BY <1>5
<1>7a. IsStored(g, s, x, b)
  BY <1>3, <1>4, <1>6, StoredOnly
<1>7. /\ Only(g, b) /\ b.st = g.st
      /\ IF HasRoom(g, s)
            THEN b.asserts = g.asserts /\ aasm_prototype(b) = WithItem(aasm_prototype(g), s, x)
            ELSE b.asserts = FALSE /\ aasm_prototype(b) = aasm_prototype(g)
  BY <1>7a DEF IsStored
<1>8. Only(a, b)
  BY <1>4, <1>7, OnlyOn DEF Alone
<1>9. aasm_prototype(b) = aasm_prototype(g) \/ aasm_prototype(b) = WithItem(aasm_prototype(g), s, x)
  BY <1>7
<1>10. HasRoom(a, s) => /\ b.asserts = a.asserts
                        /\ aasm_prototype(b) = WithItem(aasm_prototype(a), s, x)
  BY <1>2, <1>7
<1> QED BY <1>1, <1>5, <1>7, <1>8, <1>9, <1>10

\* Interning a string.
LEMMA InternOnly ==
  ASSUME NEW a, Good(a), NEW s \in Words, NEW b, b = aasm_string_to_ref(a, s)
  PROVE  /\ Only(a, b) /\ b.asserts = a.asserts /\ aasm_prototype(b) = aasm_prototype(a)
         /\ RefOf(b, s) \in DOMAIN b.st.text /\ Text(b, RefOf(b, s)) = s /\ HasText(b.st, s)
<1> DEFINE t == AsmTable(a.st, s)
<1>1. /\ Goes(a, b) /\ HasText(b.st, s) /\ aasm_prototype(b) = aasm_prototype(a)
      /\ RefOf(b, s) \in DOMAIN b.st.text /\ b.asserts = a.asserts
  BY InternOK DEF Words
<1>2. b = [a EXCEPT !.st = t]
  BY DEF aasm_string_to_ref
<1>3. Shape(a)
  BY DEF Good, Tidy
<1> HIDE DEF t
<1>4. b.buff = a.buff /\ b.slots = a.slots
  BY <1>2, <1>3 DEF Shape
<1>5. \A x : At(b, x) = At(a, x)
  BY <1>4 DEF At
<1>6. TableOK(b.st)
  BY <1>1 DEF Goes, Good, Tidy
<1>7. Text(b, RefOf(b, s)) = s
  BY <1>1, <1>6, RefIs DEF Text, RefOf, astring_table_to_string, Words
<1> QED BY <1>1, <1>5, <1>7 DEF Only

\* What is shown depends on the strings only.
LEMMA ShownSt ==
  ASSUME NEW a, NEW b, b.st = a.st, NEW p
  PROVE  Shown(b, p) = Shown(a, p)
<1>1. \A r : Text(b, r) = Text(a, r)
  BY DEF Text
<1>2. ConstsOf(b, p.consts) = ConstsOf(a, p.consts)
  BY Zenon DEF ConstsOf, ConstantOf, Text
<1>3. ImportsOf(b, p.imports) = ImportsOf(a, p.imports)
  BY Zenon DEF ImportsOf, Text
<1>4. Shows(b, p) = Shows(a, p)
  BY <1>1, <1>2, <1>3, Zenon DEF Shows
<1> QED BY <1>4, ShownIs

\* What the host sees of a prototype: a record of the members.
IsShown(u) ==
  u = [source |-> u.source, symbol |-> u.symbol, locals |-> u.locals, code |-> u.code,
       consts |-> u.consts, imports |-> u.imports, nesteds |-> u.nesteds]

\* What is shown of a prototype is such a record; the nested ones are numbered from 1.
LEMMA ShownMembers ==
  ASSUME NEW a, NEW p
  PROVE  IsShown(Shown(a, p)) /\ Shown(a, p).locals = p.locals
         /\ Shown(a, p).nesteds = NestedsOf(p.nesteds)
BY ShownIs DEF Shows, IsShown

IsProgram(P, h) == P = [i \in DOMAIN P |-> P[i]] /\ h \in DOMAIN P /\ IsShown(P[h])

NewItem(P, h, s, y, n) == [P EXCEPT ![h][s] = Append(@, y), ![h].locals = n]
Added(P, Q, h, s, y) == \E n \in {P[h].locals, 0} : Q = NewItem(P, h, s, y, n)
MadeRoom(P, Q, h) == Q = P \/ Q = [P EXCEPT ![h].locals = 0]

WithLocals(u, n) == [u EXCEPT !.locals = n]

\* An item and a number of local variables, given to a prototype of the program.
LEMMA AddedIs ==
  ASSUME NEW P, NEW h, IsProgram(P, h), NEW s \in {"code", "consts", "imports"}, NEW n, NEW y,
         NEW u, u = WithLocals(P[h], n)
  PROVE  [P EXCEPT ![h] = WithItem(u, s, y)] = NewItem(P, h, s, y, n)
<1> DEFINE v == P[h]
<1>1. P = [i \in DOMAIN P |-> P[i]] /\ h \in DOMAIN P
      /\ v = [source |-> v.source, symbol |-> v.symbol, locals |-> v.locals, code |-> v.code,
       consts |-> v.consts, imports |-> v.imports, nesteds |-> v.nesteds]
  BY DEF IsProgram, IsShown
<1> DEFINE w == [v EXCEPT ![s] = Append(@, y), !.locals = n]
<1>2. NewItem(P, h, s, y, n) = [P EXCEPT ![h] = w]
  BY <1>1 DEF NewItem
<1>3. WithItem(u, s, y) = w
  <2> HIDE DEF v
  <2>0. v = [source |-> v.source, symbol |-> v.symbol, locals |-> v.locals, code |-> v.code,
       consts |-> v.consts, imports |-> v.imports, nesteds |-> v.nesteds]
    BY <1>1 DEF v
  <2>0a. u = [v EXCEPT !.locals = n]
    BY DEF v, WithLocals
  <2>1. u = [source |-> v.source, symbol |-> v.symbol, locals |-> n, code |-> v.code,
       consts |-> v.consts, imports |-> v.imports, nesteds |-> v.nesteds]
    BY <2>0, <2>0a
  <2>2. CASE s = "code"
    <3> DEFINE e == Append(v.code, y)
               r == [source |-> v.source, symbol |-> v.symbol, locals |-> n, code |-> e,
       consts |-> v.consts, imports |-> v.imports, nesteds |-> v.nesteds]
    <3>1. w = [v EXCEPT !.code = e, !.locals = n]
      BY <2>2
    <3>2. u.code = v.code
      BY <2>1
    <3>3. WithItem(u, s, y) = [u EXCEPT !.code = e]
      BY <2>2, <3>2 DEF WithItem
    <3> HIDE DEF e, w
    <3>4. w = r
      BY <2>0, <3>1
    <3>5. WithItem(u, s, y) = r
      BY ONLY <2>1, <3>3
    <3> QED BY <3>4, <3>5
  <2>3. CASE s = "consts"
    <3> DEFINE e == Append(v.consts, y)
               r == [source |-> v.source, symbol |-> v.symbol, locals |-> n, code |-> v.code,
       consts |-> e, imports |-> v.imports, nesteds |-> v.nesteds]
    <3>1. w = [v EXCEPT !.consts = e, !.locals = n]
      BY <2>3
    <3>2. u.consts = v.consts
      BY <2>1
    <3>3. WithItem(u, s, y) = [u EXCEPT !.consts = e]
      BY <2>3, <3>2 DEF WithItem
    <3> HIDE DEF e, w
    <3>4. w = r
      BY <2>0, <3>1
    <3>5. WithItem(u, s, y) = r
      BY ONLY <2>1, <3>3
    <3> QED BY <3>4, <3>5
  <2>4. CASE s = "imports"
    <3> DEFINE e == Append(v.imports, y)
               r == [source |-> v.source, symbol |-> v.symbol, locals |-> n, code |-> v.code,
       consts |-> v.consts, imports |-> e, nesteds |-> v.nesteds]
    <3>1. w = [v EXCEPT !.imports = e, !.locals = n]
      BY <2>4
    <3>2. u.imports = v.imports
      BY <2>1
    <3>3. WithItem(u, s, y) = [u EXCEPT !.imports = e]
      BY <2>4, <3>2 DEF WithItem
    <3> HIDE DEF e, w
    <3>4. w = r
      BY <2>0, <3>1
    <3>5. WithItem(u, s, y) = r
      BY ONLY <2>1, <3>3
    <3> QED BY <3>4, <3>5
  <2> QED BY <2>2, <2>3, <2>4
<1> QED BY <1>2, <1>3

\* The program has the open prototype at the open place.
LEMMA ProgramIs ==
  ASSUME NEW a, Good(a)
  PROVE  IsProgram(ProgramOf(a), Slot(a) + 1) /\ Here(a, ProgramOf(a), Slot(a) + 1)
<1>1. Here(a, ProgramOf(a), Slot(a) + 1)
  BY HereIs
<1> QED BY <1>1, ShownMembers DEF IsProgram, Here, ProgramOf

\* Of making room the host sees at most that the local variables are forgotten.
LEMMA RoomierShows ==
  ASSUME NEW a, NEW g, Good(a), Roomier(a, g)
  PROVE  \/ aasm_prototype(g) = aasm_prototype(a)
         \/ Shown(a, aasm_prototype(g)) = [Shown(a, aasm_prototype(a)) EXCEPT !.locals = 0]
<1>1. aasm_prototype(a) \in Protos(DOMAIN a.st.text, Len(a.slots))
  BY OpenOK
<1> QED BY <1>1, ShownEnlarged DEF Roomier

\* When the open prototype is as it was or has no local variables.
LEMMA OnlyRoom ==
  ASSUME NEW a, NEW b, Good(a), Only(a, b),
         \/ Shown(b, aasm_prototype(b)) = Shown(a, aasm_prototype(a))
         \/ Shown(b, aasm_prototype(b)) = [Shown(a, aasm_prototype(a)) EXCEPT !.locals = 0]
  PROVE  MadeRoom(ProgramOf(a), ProgramOf(b), Slot(a) + 1) /\ OpenIn(b) = OpenIn(a)
<1> DEFINE P == ProgramOf(a)
           Q == ProgramOf(b)
           h == Slot(a) + 1
           u == Shown(a, aasm_prototype(a))
<1>1. Sees(a, b, P, Q, h)
  BY OnlySees
<1>2. IsProgram(P, h) /\ P[h] = u
  BY ProgramIs DEF Here
<1>3. Q = [P EXCEPT ![h] = Shown(b, aasm_prototype(b))] /\ OpenIn(b) = OpenIn(a)
  BY <1>1 DEF Sees
<1>4. P = [i \in DOMAIN P |-> P[i]] /\ h \in DOMAIN P
  BY <1>2 DEF IsProgram
<1> HIDE DEF P, Q, h, u
<1>5. [P EXCEPT ![h] = u] = P
  BY <1>2, <1>4
<1>6. [P EXCEPT ![h] = [u EXCEPT !.locals = 0]] = [P EXCEPT ![h].locals = 0]
  BY <1>2, <1>4
<1>7. Q = [P EXCEPT ![h] = u] \/ Q = [P EXCEPT ![h] = [u EXCEPT !.locals = 0]]
  BY <1>3 DEF u
<1> QED BY <1>3, <1>5, <1>6, <1>7 DEF MadeRoom, P, Q, h

\* What the host sees of Add.
LEMMA AddSees ==
  ASSUME NEW a, Good(a), NEW s \in Sections \ {"nesteds"}, NEW x,
         IsItem(DOMAIN a.st.text, Len(a.slots), s, x), NEW b, b = Add(a, s, x)
  PROVE  /\ OpenIn(b) = OpenIn(a)
         /\ \/ Added(ProgramOf(a), ProgramOf(b), Slot(a) + 1, s, ItemOf(a, s, x))
            \/ MadeRoom(ProgramOf(a), ProgramOf(b), Slot(a) + 1)
<1> DEFINE P == ProgramOf(a)
           Q == ProgramOf(b)
           h == Slot(a) + 1
           p == aasm_prototype(a)
           y == ItemOf(a, s, x)
           R == DOMAIN a.st.text
           n == Len(a.slots)
<1>1. Only(a, b) /\ b.st = a.st
  BY AddOnly
<1>2. PICK g : /\ Roomier(a, g)
               /\ \/ aasm_prototype(b) = aasm_prototype(g)
                  \/ aasm_prototype(b) = WithItem(aasm_prototype(g), s, x)
  BY AddOnly
<1>3. /\ Good(g) /\ Len(g.slots) = n /\ g.st = a.st
  BY <1>2 DEF Roomier, Alone, Only, Goes, Steady
<1> DEFINE q == aasm_prototype(g)
           o == aasm_prototype(b)
           u == Shown(a, p)
           v == Shown(a, q)
           w == Shown(a, o)
<1>4. q \in Protos(R, n)
  BY <1>3, OpenOK
<1>5. Shown(b, o) = w
  BY <1>1, ShownSt
<1>6. v = u \/ v = [u EXCEPT !.locals = 0]
  BY <1>2, RoomierShows
<1>7. CASE o = q
  <2>1. w = u \/ w = [u EXCEPT !.locals = 0]
    BY <1>6, <1>7
  <2>2. MadeRoom(P, Q, h) /\ OpenIn(b) = OpenIn(a)
    <3> HIDE DEF P, Q, h
    <3>1. Shown(b, o) = u \/ Shown(b, o) = [u EXCEPT !.locals = 0]
      BY <1>5, <2>1
    <3> QED BY <1>1, <3>1, OnlyRoom DEF P, Q, h
  <2> QED BY <2>2
<1>8. CASE o = WithItem(q, s, x)
  <2>1. w = WithItem(v, s, y)
    <3>1. \A z : z = WithItem(q, s, x) => Shown(a, z) = WithItem(v, s, y)
      BY <1>4, ShownAppend
    <3> QED BY <1>8, <3>1
  <2>2. Sees(a, b, P, Q, h)
    BY <1>1, OnlySees
  <2>3. Q = [P EXCEPT ![h] = WithItem(v, s, y)] /\ OpenIn(b) = OpenIn(a)
    BY <1>5, <2>1, <2>2 DEF Sees
  <2>4. IsProgram(P, h) /\ P[h] = u
    BY ProgramIs DEF Here
  <2>5. IsShown(u)
    BY ShownMembers
  <2> HIDE DEF P, Q, h, u, v, w, y, o, q, p
  <2>6. u = [u EXCEPT !.locals = u.locals]
    BY <2>5 DEF IsShown
  <2>7. PICK l \in {u.locals, 0} : v = [u EXCEPT !.locals = l]
    BY <1>6, <2>6
  <2>8. s \in {"code", "consts", "imports"}
    BY DEF Sections
  <2>9. v = WithLocals(P[h], l)
    BY <2>4, <2>7 DEF WithLocals
  <2>10. [P EXCEPT ![h] = WithItem(v, s, y)] = NewItem(P, h, s, y, l)
    BY <2>4, <2>8, <2>9, AddedIs
  <2>11. l \in {P[h].locals, 0}
    BY <2>4, <2>7
  <2>12. Added(P, Q, h, s, y)
    BY <2>3, <2>10, <2>11 DEF Added
  <2> QED BY <2>3, <2>12 DEF P, Q, h, y
<1> QED BY <1>2, <1>7, <1>8

\* In the terms of Program.
LEMMA AddToMap ==
  ASSUME Good(self), NEW s, NEW y, OpenIn(self') = OpenIn(self),
         Added(ProgramOf(self), ProgramOf(self'), Slot(self) + 1, s, y)
  PROVE  Promise!AddTo(s, y)
<1> DEFINE P == ProgramOf(self)
           Q == ProgramOf(self')
           h == Slot(self) + 1
<1>1. Here(self, P, h)
  BY HereIs
<1>2. P # <<>> /\ h = OpenIn(self)[Len(OpenIn(self))]
  BY <1>1 DEF Here
<1>3. \E n \in {P[h].locals, 0} : Q = [P EXCEPT ![h][s] = Append(@, y), ![h].locals = n]
  BY DEF Added, NewItem
<1> HIDE DEF h
<1> QED BY <1>2, <1>3 DEF Promise!AddTo, Promise!Loaded, Promise!Kept, Promise!Here

\* Making room is a step of Program, or none that the host sees.
LEMMA MakeRoomMap ==
  ASSUME Good(self), OpenIn(self') = OpenIn(self),
         MadeRoom(ProgramOf(self), ProgramOf(self'), Slot(self) + 1)
  PROVE  Promise!MakeRoom \/ UNCHANGED Promise!pvars
<1> DEFINE P == ProgramOf(self)
           Q == ProgramOf(self')
           h == Slot(self) + 1
<1>1. Here(self, P, h)
  BY HereIs
<1>2. P # <<>> /\ h = OpenIn(self)[Len(OpenIn(self))]
  BY <1>1 DEF Here
<1>3. Q = P \/ Q = [P EXCEPT ![h].locals = 0]
  BY DEF MadeRoom
<1> HIDE DEF h
<1> QED BY <1>2, <1>3 DEF Promise!MakeRoom, Promise!SetLocals, Promise!Loaded, Promise!Here, Promise!pvars

\* The host sees no difference.
Alike(a, b) ==
  /\ Good(a) /\ Good(b) /\ ProgramOf(b) = ProgramOf(a) /\ OpenIn(b) = OpenIn(a)
  /\ Slot(b) = Slot(a) /\ Len(b.slots) = Len(a.slots) /\ b.context = a.context

\* When the open prototype is as it was the host sees no difference.
LEMMA OnlySame ==
  ASSUME NEW a, NEW b, Only(a, b), aasm_prototype(b) = aasm_prototype(a)
  PROVE  Alike(a, b)
<1> DEFINE P == ProgramOf(a)
           Q == ProgramOf(b)
           h == Slot(a) + 1
           p == aasm_prototype(a)
<1>1. Sees(a, b, P, Q, h) /\ Good(a) /\ Good(b)
  BY OnlySees DEF Only, Goes
<1>2. IsProgram(P, h) /\ P[h] = Shown(a, p)
  BY <1>1, ProgramIs DEF Here
<1>3. Shown(b, p) = Shown(a, p)
  <2>1. p \in Protos(DOMAIN a.st.text, Len(a.slots))
    BY <1>1, OpenOK
  <2> QED BY <2>1, ShownOn DEF Only, Goes
<1>4. P = [i \in DOMAIN P |-> P[i]] /\ h \in DOMAIN P
  BY <1>2 DEF IsProgram
<1>5. Q = [P EXCEPT ![h] = P[h]] /\ OpenIn(b) = OpenIn(a)
  BY <1>1, <1>2, <1>3 DEF Sees
<1> HIDE DEF P, Q, h
<1>6. Q = P
  BY <1>4, <1>5
<1>7. b.context = a.context /\ Len(b.slots) = Len(a.slots)
  BY DEF Only, Goes, Steady
<1> QED BY <1>1, <1>5, <1>6, <1>7 DEF Alike, P, Q, Slot

\* aasm_string_to_ref.
LEMMA InternAlike ==
  ASSUME NEW a, Good(a), NEW s \in Words, NEW b, b = aasm_string_to_ref(a, s)
  PROVE  Alike(a, b)
BY InternOnly, OnlySame

\* The reference of a string has its text.
LEMMA RefHasText ==
  ASSUME NEW a, Good(a), NEW s \in Words, HasText(a.st, s)
  PROVE  RefOf(a, s) \in DOMAIN a.st.text /\ Text(a, RefOf(a, s)) = s
BY RefIs DEF Good, Tidy, Text, RefOf, astring_table_to_string, Words

\* What the host sees of an item: what it asked for.
SeesItem(a, b, s, y) ==
  /\ OpenIn(b) = OpenIn(a)
  /\ \/ Added(ProgramOf(a), ProgramOf(b), Slot(a) + 1, s, y)
     \/ MadeRoom(ProgramOf(a), ProgramOf(b), Slot(a) + 1)

\* An item is added to what the host saw before a step that it did not see.
LEMMA AlikeSees ==
  ASSUME NEW a, NEW b, NEW c, NEW s, NEW y, Alike(a, b), SeesItem(b, c, s, y)
  PROVE  SeesItem(a, c, s, y)
BY DEF Alike, SeesItem

\* A reference to a string is a number.
LEMMA StringRefs ==
  ASSUME NEW a, Good(a)
  PROVE  DOMAIN a.st.text \subseteq Nat
BY DEF Good, Tidy, TableOK, Texts

\* aasm_emit: the host sees the instruction.
LEMMA EmitSees ==
  ASSUME NEW a, Good(a), NEW i \in AnyCode
  PROVE  SeesItem(a, aasm_emit(a, i), "code", i)
<1>1. IsItem(DOMAIN a.st.text, Len(a.slots), "code", i)
  BY DEF IsItem
<1>2. "code" \in Sections \ {"nesteds"}
  BY DEF Sections
<1>3. ItemOf(a, "code", i) = i
  BY DEF ItemOf
<1> QED BY <1>1, <1>2, <1>3, AddSees DEF SeesItem, aasm_emit

\* aasm_add_constant: the host sees the constant.
LEMMA ConstantSees ==
  ASSUME NEW a, Good(a), NEW c \in Plain \cup [string : DOMAIN a.st.text]
  PROVE  SeesItem(a, aasm_add_constant(a, c), "consts", ConstantOf(a, c))
<1>1. IsItem(DOMAIN a.st.text, Len(a.slots), "consts", c)
  BY DEF IsItem
<1>2. "consts" \in Sections \ {"nesteds"}
  BY DEF Sections
<1>3. ItemOf(a, "consts", c) = ConstantOf(a, c)
  BY DEF ItemOf
<1> QED BY <1>1, <1>2, <1>3, AddSees DEF SeesItem, aasm_add_constant

\* The text of a string that is a constant.
LEMMA StringConstant ==
  ASSUME NEW a, Good(a), NEW s \in Words, HasText(a.st, s)
  PROVE  /\ [string |-> RefOf(a, s)] \in [string : DOMAIN a.st.text]
         /\ ConstantOf(a, [string |-> RefOf(a, s)]) = [string |-> s]
<1> DEFINE r == RefOf(a, s)
           c == [string |-> r]
           R == DOMAIN a.st.text
<1>1. r \in R /\ Text(a, r) = s
  BY RefHasText
<1>2. R \subseteq Nat \cup Words
  BY StringRefs
<1>3. c \in [string : R] /\ c.string = r
  BY <1>1
<1>4. c \notin Plain
  BY <1>2, <1>3, ConstantHas
<1> QED BY <1>1, <1>3, <1>4 DEF ConstantOf

\* A string constant is seen as its text, whatever reference it got.
LEMMA StringSees ==
  ASSUME NEW a, Good(a), NEW s \in Words
  PROVE  SeesItem(a, AddString(a, s), "consts", [string |-> s])
<1> DEFINE b == aasm_string_to_ref(a, s)
           c == [string |-> RefOf(b, s)]
<1>1. Alike(a, b) /\ Good(b)
  BY InternAlike DEF Alike
<1>2. HasText(b.st, s)
  BY InternOnly
<1>3. AddString(a, s) = aasm_add_constant(b, c)
  BY DEF AddString, AddRef
<1> HIDE DEF b
<1>4. c \in Plain \cup [string : DOMAIN b.st.text] /\ ConstantOf(b, c) = [string |-> s]
  BY <1>1, <1>2, StringConstant
<1> HIDE DEF c
<1>5. SeesItem(b, aasm_add_constant(b, c), "consts", [string |-> s])
  BY <1>1, <1>4, ConstantSees
<1> QED BY <1>1, <1>3, <1>5, AlikeSees

\* aasm_add_import: the host sees the two texts.
LEMMA ImportSees ==
  ASSUME NEW a, Good(a), NEW m \in Words, NEW n \in Words
  PROVE  SeesItem(a, aasm_add_import(a, m, n), "imports", [module |-> m, name |-> n])
<1> DEFINE b == aasm_string_to_ref(a, m)
           c == aasm_string_to_ref(b, n)
           x == [module |-> RefOf(c, m), name |-> RefOf(c, n)]
<1>1. Alike(a, b) /\ Good(b) /\ HasText(b.st, m)
  BY InternAlike, InternOnly DEF Alike
<1> HIDE DEF b
<1>2. Alike(b, c) /\ Good(c) /\ HasText(c.st, n) /\ Goes(b, c)
  BY <1>1, InternAlike, InternOnly DEF Alike, Only
<1>3. HasText(c.st, m)
  BY <1>1, <1>2, HasOn DEF Words
<1>4. aasm_add_import(a, m, n) = Add(c, "imports", x)
  BY DEF aasm_add_import, AddRefs, b
<1> HIDE DEF c
<1>5. /\ RefOf(c, m) \in DOMAIN c.st.text /\ Text(c, RefOf(c, m)) = m
      /\ RefOf(c, n) \in DOMAIN c.st.text /\ Text(c, RefOf(c, n)) = n
  BY <1>2, <1>3, RefHasText
<1>6. IsItem(DOMAIN c.st.text, Len(c.slots), "imports", x)
  BY <1>5 DEF IsItem
<1>7. "imports" \in Sections \ {"nesteds"}
  BY DEF Sections
<1>8. ItemOf(c, "imports", x) = [module |-> m, name |-> n]
  BY <1>5 DEF ItemOf, ImportOf
<1> HIDE DEF x
<1>9. SeesItem(c, Add(c, "imports", x), "imports", [module |-> m, name |-> n])
  BY <1>2, <1>6, <1>7, <1>8, AddSees DEF SeesItem
<1>10. SeesItem(b, aasm_add_import(a, m, n), "imports", [module |-> m, name |-> n])
  BY <1>2, <1>4, <1>9, AlikeSees
<1> QED BY <1>1, <1>10, AlikeSees

\* One member of the open prototype gets another value.
SeesSet(a, b, f, y) ==
  /\ OpenIn(b) = OpenIn(a)
  /\ ProgramOf(b) = [ProgramOf(a) EXCEPT ![Slot(a) + 1][f] = y]

\* What is shown of the open prototype is all of the program that differs.
LEMMA SetSees ==
  ASSUME NEW a, NEW b, Only(a, b), NEW f, NEW y,
         Shown(b, aasm_prototype(b)) = [Shown(a, aasm_prototype(a)) EXCEPT ![f] = y]
  PROVE  SeesSet(a, b, f, y)
<1> DEFINE P == ProgramOf(a)
           Q == ProgramOf(b)
           h == Slot(a) + 1
           u == Shown(a, aasm_prototype(a))
<1>1. Sees(a, b, P, Q, h) /\ Good(a)
  BY OnlySees DEF Only
<1>2. IsProgram(P, h) /\ P[h] = u
  BY <1>1, ProgramIs DEF Here
<1>3. P = [i \in DOMAIN P |-> P[i]] /\ h \in DOMAIN P
  BY <1>2 DEF IsProgram
<1>4. Q = [P EXCEPT ![h] = [u EXCEPT ![f] = y]] /\ OpenIn(b) = OpenIn(a)
  BY <1>1 DEF Sees
<1> HIDE DEF P, Q, h, u
<1>5. Q = [P EXCEPT ![h][f] = y]
  BY <1>2, <1>3, <1>4
<1> QED BY <1>4, <1>5 DEF SeesSet, P, Q, h

\* The names of a prototype.
WithMember(q, f, r) == [q EXCEPT ![f] = r]
IsNamed(a, R, n, q, f, r, p) ==
  /\ Shown(a, p) = [Shown(a, q) EXCEPT ![f] = Text(a, r)]
  /\ SameRoom(q, p) /\ p.locals = q.locals
  /\ (r \in R => p \in Protos(R, n))

\* A new name is shown as its text, and no other member is.
LEMMA ShownName ==
  ASSUME NEW a, NEW R, NEW n, NEW q \in Protos(R, n), NEW f \in {"source", "symbol"}, NEW r,
         NEW p, p = WithMember(q, f, r)
  PROVE  IsNamed(a, R, n, q, f, r, p)
<1>1. /\ Members(R, n, q.source, q.symbol, q.locals, q.code, q.consts, q.imports, q.nesteds, q.max)
      /\ q = [source |-> q.source, symbol |-> q.symbol, locals |-> q.locals, code |-> q.code,
              consts |-> q.consts, imports |-> q.imports, nesteds |-> q.nesteds, max |-> q.max]
  BY MembersOf
<1> DEFINE k == ConstsOf(a, q.consts)
           m == ImportsOf(a, q.imports)
           d == NestedsOf(q.nesteds)
           x == Text(a, q.source)
           y == Text(a, q.symbol)
           t == Text(a, r)
<1>2. PICK w : w = Shown(a, q)
  OBVIOUS
<1>3. w = [source |-> x, symbol |-> y, locals |-> q.locals, code |-> q.code, consts |-> k,
           imports |-> m, nesteds |-> d]
  BY <1>2, ShownIs DEF Shows
<1>4. CASE f = "source"
  <2>1. p = [source |-> r, symbol |-> q.symbol, locals |-> q.locals, code |-> q.code,
              consts |-> q.consts, imports |-> q.imports, nesteds |-> q.nesteds, max |-> q.max]
    <3>1. p = [q EXCEPT !.source = r]
      BY <1>4 DEF WithMember
    <3> QED BY <1>1, <3>1
  <2>2. Shown(a, p) = [source |-> t, symbol |-> y, locals |-> q.locals, code |-> q.code, consts |-> k,
           imports |-> m, nesteds |-> d]
    BY <2>1, ShownIs DEF Shows
  <2>3. r \in R => p \in Protos(R, n)
    <3> HAVE r \in R
    <3>1. Members(R, n, r, q.symbol, q.locals, q.code, q.consts, q.imports, q.nesteds, q.max)
      BY <1>1 DEF Members
    <3>2. [source |-> r, symbol |-> q.symbol, locals |-> q.locals, code |-> q.code, consts |-> q.consts, imports |-> q.imports, nesteds |-> q.nesteds, max |-> q.max]
          \in Protos(R, n)
      BY <3>1, ProtoOf, Zenon
    <3> QED BY <2>1, <3>2, Zenon
  <2>4. SameRoom(q, p) /\ p.locals = q.locals
    BY <2>1 DEF SameRoom, SameItems
  <2> HIDE DEF x, y, k, m, d, t
  <2>5. [w EXCEPT !.source = t] = [source |-> t, symbol |-> y, locals |-> q.locals, code |-> q.code, consts |-> k,
           imports |-> m, nesteds |-> d]
    BY <1>3
  <2> QED BY <1>2, <1>4, <2>2, <2>3, <2>4, <2>5 DEF t, IsNamed
<1>5. CASE f = "symbol"
  <2>1. p = [source |-> q.source, symbol |-> r, locals |-> q.locals, code |-> q.code,
              consts |-> q.consts, imports |-> q.imports, nesteds |-> q.nesteds, max |-> q.max]
    <3>1. p = [q EXCEPT !.symbol = r]
      BY <1>5 DEF WithMember
    <3> QED BY <1>1, <3>1
  <2>2. Shown(a, p) = [source |-> x, symbol |-> t, locals |-> q.locals, code |-> q.code, consts |-> k,
           imports |-> m, nesteds |-> d]
    BY <2>1, ShownIs DEF Shows
  <2>3. r \in R => p \in Protos(R, n)
    <3> HAVE r \in R
    <3>1. Members(R, n, q.source, r, q.locals, q.code, q.consts, q.imports, q.nesteds, q.max)
      BY <1>1 DEF Members
    <3>2. [source |-> q.source, symbol |-> r, locals |-> q.locals, code |-> q.code, consts |-> q.consts, imports |-> q.imports, nesteds |-> q.nesteds, max |-> q.max]
          \in Protos(R, n)
      BY <3>1, ProtoOf, Zenon
    <3> QED BY <2>1, <3>2, Zenon
  <2>4. SameRoom(q, p) /\ p.locals = q.locals
    BY <2>1 DEF SameRoom, SameItems
  <2> HIDE DEF x, y, k, m, d, t
  <2>5. [w EXCEPT !.symbol = t] = [source |-> x, symbol |-> t, locals |-> q.locals, code |-> q.code, consts |-> k,
           imports |-> m, nesteds |-> d]
    BY <1>3
  <2> QED BY <1>2, <1>5, <2>2, <2>3, <2>4, <2>5 DEF t, IsNamed
<1> QED BY <1>4, <1>5

\* The name of the open prototype is set to a string of the table.
LEMMA WithNameAlone ==
  ASSUME NEW a, Good(a), NEW f \in {"source", "symbol"}, NEW s \in Words, HasText(a.st, s),
         NEW b, b = WithName(a, f, s)
  PROVE  /\ Alone(a, b) /\ SameRoom(aasm_prototype(a), aasm_prototype(b))
         /\ aasm_prototype(b).locals = aasm_prototype(a).locals
         /\ Shown(b, aasm_prototype(b)) = [Shown(a, aasm_prototype(a)) EXCEPT ![f] = s]
<1> DEFINE r == RefOf(a, s)
           q == aasm_prototype(a)
           p == WithMember(q, f, r)
           R == DOMAIN a.st.text
           n == Len(a.slots)
<1>1. r \in R /\ Text(a, r) = s
  BY RefHasText
<1>2. q \in Protos(R, n) /\ InRoom(q)
  BY OpenOK
<1>3. b = WithPrototype(a, p)
  BY DEF WithName, WithMember
<1> HIDE DEF r, q
<1>4. p = WithMember(q, f, r)
  OBVIOUS
<1> HIDE DEF p
<1>5a. IsNamed(a, R, n, q, f, r, p)
  BY <1>2, <1>4, ShownName
<1>5. /\ Shown(a, p) = [Shown(a, q) EXCEPT ![f] = Text(a, r)]
      /\ SameRoom(q, p) /\ p.locals = q.locals
      /\ (r \in R => p \in Protos(R, n))
  BY <1>5a DEF IsNamed
<1>6. p.max = q.max /\ p.nesteds = q.nesteds /\ InRoom(p)
  BY <1>2, <1>5 DEF SameRoom, SameItems, InRoom
<1>7. Alone(a, b) /\ aasm_prototype(b) = p
  BY <1>1, <1>3, <1>5, <1>6, SetAlone DEF q
<1>8. Shown(b, p) = Shown(a, p)
  BY <1>7, ShownSt DEF Alone
<1> QED BY <1>1, <1>5, <1>7, <1>8 DEF q

\* aasm_module_name and the source: the host sees the text.
LEMMA SetNameSees ==
  ASSUME NEW a, Good(a), NEW f \in {"source", "symbol"}, NEW s \in Words,
         NEW b, b = SetName(a, f, s)
  PROVE  SeesSet(a, b, f, s)
<1> DEFINE c == aasm_string_to_ref(a, s)
<1>1. Alike(a, c) /\ Good(c) /\ HasText(c.st, s)
  BY InternAlike, InternOnly DEF Alike
<1>2. b = WithName(c, f, s)
  BY DEF SetName
<1> HIDE DEF c
<1>3. /\ Alone(c, b)
      /\ Shown(b, aasm_prototype(b)) = [Shown(c, aasm_prototype(c)) EXCEPT ![f] = s]
  BY <1>1, <1>2, WithNameAlone
<1>4. SeesSet(c, b, f, s)
  BY <1>3, SetSees DEF Alone
<1> QED BY <1>1, <1>4 DEF Alike, SeesSet
=============================================================================
