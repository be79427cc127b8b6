----------------------------- MODULE HeapProofs ------------------------------
(***************************************************************************)
(* The collector, for every heap.  First the sizes: a reservation counts   *)
(* bytes that are not rounded, an allocation rounds each object up, which  *)
(* suffices because the heap grows in whole words and at most one object   *)
(* of a request has an odd size.                                           *)
(*                                                                         *)
(* Then the values.  Outside agc_collect all of them lead into the one     *)
(* half there is (Settled).  Inside it a value leads into the new half     *)
(* once it was followed and into the old one before that: RootHalf and     *)
(* CellHalf say which, from the positions the loops have reached.  IInv is *)
(* the loop invariant, and Settled is what it comes to outside the loops.  *)
(* Elements are scanned through the block in the OLD half and the block is *)
(* moved last, so a container whose block two containers shared would be   *)
(* read after it was moved: OwnBlocks excludes that.                       *)
(*                                                                         *)
(* Then the bytes.  heap_sz is the sum of the sizes of the objects; while  *)
(* collecting, what was copied and what is left are together what there    *)
(* was, so the new half has room (Accounted).                              *)
(*                                                                         *)
(* Last, the garbage.  An object is in the new half because something that *)
(* was scanned leads to it (OnlyReached), so after a collection all there  *)
(* is can be reached and the heap grows only when that does not fit.       *)
(***************************************************************************)
EXTENDS HeapProperties, ListsProofs

-----------------------------------------------------------------------------
\* Sizes.
\* Quotient and remainder make up the number.
LEMMA DivMod ==
  ASSUME NEW a \in Nat, NEW b \in Nat \ {0}
  PROVE  /\ a \div b \in Nat
         /\ a % b \in 0 .. b - 1
         /\ a = b * (a \div b) + (a % b)
OBVIOUS

\* A larger factor makes a larger product.
LEMMA MulLeq ==
  ASSUME NEW b \in Nat, NEW p \in Int, NEW q \in Int, p <= q
  PROVE  b * p <= b * q
OBVIOUS

\* A word is at least one byte.
LEMMA WordPositive == Word \in Nat \ {0}
BY SizesAssumption

\* The header of an object is made of whole words.
LEMMA HeaderIsWords == HeaderSz \in Nat /\ HeaderSz % Word = 0
BY SizesAssumption

\* So is the object of a container.
LEMMA ArrayIsWords == ArraySz \in Nat /\ ArraySz % Word = 0
BY SizesAssumption

\* A number without remainder is Word times its quotient.
LEMMA Multiple ==
  ASSUME NEW a \in Nat, a % Word = 0
  PROVE  \E q \in Nat : a = Word * q
<1>1. a = Word * (a \div Word) + 0 /\ a \div Word \in Nat
  BY WordPositive, DivMod
<1> QED BY <1>1, WordPositive

\* A multiple of Word has no remainder.
LEMMA MultipleIsWords == ASSUME NEW q \in Nat PROVE (Word * q) % Word = 0
<1> DEFINE a == Word * q
           d == a \div Word
           r == a % Word
<1>1. a \in Nat
  BY WordPositive
<1>2. d \in Nat /\ r \in 0 .. Word - 1 /\ a = Word * d + r
  BY <1>1, WordPositive, DivMod
<1> HIDE DEF d, r
<1>3. ~(d + 1 <= q)
  <2> SUFFICES ASSUME d + 1 <= q PROVE FALSE
    OBVIOUS
  <2>1. Word * (d + 1) <= Word * q
    BY <1>2, WordPositive, MulLeq
  <2>2. Word * (d + 1) = Word * d + Word
    BY <1>2, WordPositive
  <2>3. Word * d \in Nat
    BY <1>2, WordPositive
  <2> QED BY <1>1, <1>2, <2>1, <2>2, <2>3, WordPositive
<1>4. ~(q + 1 <= d)
  <2> SUFFICES ASSUME q + 1 <= d PROVE FALSE
    OBVIOUS
  <2>1. Word * (q + 1) <= Word * d
    BY <1>2, WordPositive, MulLeq
  <2>2. Word * (q + 1) = Word * q + Word
    BY WordPositive
  <2> QED BY <1>1, <1>2, <2>1, <2>2, WordPositive
<1>5. d = q
  BY <1>2, <1>3, <1>4
<1> QED BY <1>1, <1>2, <1>5 DEF r

\* AALIGN_FORWARD never makes a size smaller.
LEMMA AlignGrows ==
  ASSUME NEW v \in Nat
  PROVE  Align(v) \in Nat /\ v <= Align(v)
<1> DEFINE a == v + (Word - 1)
           d == a \div Word
           r == a % Word
<1>1. a \in Nat
  BY WordPositive
<1>2. d \in Nat /\ r \in 0 .. Word - 1 /\ a = Word * d + r
  BY <1>1, WordPositive, DivMod
<1> HIDE DEF d, r
<1>3. Word * d \in Nat
  BY <1>2, WordPositive
<1>4. v <= Word * d
  BY <1>2, <1>3, WordPositive
<1>5. Align(v) = d * Word
  BY DEF Align, d
<1>6. d * Word = Word * d
  BY <1>2, WordPositive
<1> QED BY <1>3, <1>4, <1>5, <1>6

\* AALIGN_FORWARD gives the least number of whole words: it fits wherever the
\* size fits, if the place is a number of words.
LEMMA AlignLeast ==
  ASSUME NEW v \in Nat, NEW q \in Nat, v <= Word * q
  PROVE  Align(v) <= Word * q
<1> DEFINE a == v + (Word - 1)
           d == a \div Word
           r == a % Word
<1>1. a \in Nat
  BY WordPositive
<1>2. d \in Nat /\ r \in 0 .. Word - 1 /\ a = Word * d + r
  BY <1>1, WordPositive, DivMod
<1>3. Align(v) = d * Word
  BY DEF Align
<1> HIDE DEF d, r
<1>4. ~(q + 1 <= d)
  <2> SUFFICES ASSUME q + 1 <= d PROVE FALSE
    OBVIOUS
  <2>1. Word * (q + 1) <= Word * d
    BY <1>2, WordPositive, MulLeq
  <2>2. Word * (q + 1) = Word * q + Word
    BY WordPositive
  <2>3. Word * q \in Nat /\ Word * d \in Nat
    BY <1>2, WordPositive
  <2> QED BY <1>2, <2>1, <2>2, <2>3, WordPositive
<1>5. Word * d <= Word * q
  BY <1>2, <1>4, WordPositive, MulLeq
<1>6. d * Word = Word * d
  BY <1>2, WordPositive
<1> QED BY <1>3, <1>5, <1>6
-----------------------------------------------------------------------------
\* The room left in a heap is a number of words.
LEMMA RoomIsWords ==
  ASSUME NEW sz \in Nat, sz % Word = 0, NEW cap \in Nat, cap % Word = 0,
         sz <= cap
  PROVE  \E q \in Nat : cap - sz = Word * q
<1>1. PICK s \in Nat : sz = Word * s
  BY Multiple
<1>2. PICK c \in Nat : cap = Word * c
  BY Multiple
<1>3. ~(c + 1 <= s)
  <2> SUFFICES ASSUME c + 1 <= s PROVE FALSE
    OBVIOUS
  <2>1. Word * (c + 1) <= Word * s
    BY WordPositive, MulLeq
  <2>2. Word * (c + 1) = Word * c + Word
    BY WordPositive
  <2> QED BY <1>1, <1>2, <2>1, <2>2, WordPositive
<1>4. c - s \in Nat
  BY <1>3
<1>5. Word * c - Word * s = Word * (c - s)
  BY WordPositive
<1> QED BY <1>1, <1>2, <1>4, <1>5

\* After agc_check or agc_reserve for one object of any size, its allocation
\* keeps the assertion of agc_alloc: strings, tuples and the blocks that
\* set_capacity allocates.
THEOREM OneObjectFits ==
  ASSUME NEW sz \in Nat, sz % Word = 0, NEW cap \in Nat, cap % Word = 0,
         NEW more \in Nat, sz + Need(more, 1) <= cap
  PROVE  sz + ObjectSz(more) <= cap
<1>1. HeaderSz \in Nat
  BY HeaderIsWords
<1>2. Need(more, 1) = more + HeaderSz
  BY <1>1 DEF Need
<1>3. sz <= cap /\ more + HeaderSz <= cap - sz
  BY <1>1, <1>2
<1>4. PICK q \in Nat : cap - sz = Word * q
  BY <1>3, RoomIsWords
<1>5. Align(more + HeaderSz) <= Word * q
  BY <1>1, <1>3, <1>4, AlignLeast
<1>6. Align(more + HeaderSz) \in Nat
  BY <1>1, AlignGrows
<1> QED BY <1>4, <1>5, <1>6 DEF ObjectSz

\* A structure made of words is not rounded.
LEMMA StructureSz == ObjectSz(ArraySz) = ArraySz + HeaderSz
<1>1. PICK a \in Nat : ArraySz = Word * a
  BY ArrayIsWords, Multiple
<1>2. PICK h \in Nat : HeaderSz = Word * h
  BY HeaderIsWords, Multiple
<1>3. Word * a + Word * h = Word * (a + h)
  BY WordPositive
<1>4. ArraySz + HeaderSz = Word * (a + h)
  BY <1>1, <1>2, <1>3
<1>5. ArraySz + HeaderSz \in Nat
  BY ArrayIsWords, HeaderIsWords
<1>6. Align(ArraySz + HeaderSz) <= ArraySz + HeaderSz
  BY <1>4, <1>5, AlignLeast
<1>7. Align(ArraySz + HeaderSz) \in Nat /\ ArraySz + HeaderSz <= Align(ArraySz + HeaderSz)
  BY <1>5, AlignGrows
<1> QED BY <1>5, <1>6, <1>7 DEF ObjectSz

\* The sum of two numbers of words is one.
LEMMA SumIsWords ==
  ASSUME NEW a \in Nat, a % Word = 0, NEW b \in Nat, b % Word = 0
  PROVE  \E q \in Nat : a + b = Word * q
<1>1. PICK p \in Nat : a = Word * p
  BY Multiple
<1>2. PICK q \in Nat : b = Word * q
  BY Multiple
<1>3. Word * p + Word * q = Word * (p + q)
  BY WordPositive
<1> QED BY <1>1, <1>2, <1>3

\* After a reservation for two objects both allocations of a constructor fit:
\* the structure of an array or buffer, and its block of any size
\* (agc_array_new, agc_buffer_new).
THEOREM ContainerFits ==
  ASSUME NEW sz \in Nat, sz % Word = 0, NEW cap \in Nat, cap % Word = 0,
         NEW bytes \in Nat, sz + Need(ArraySz + bytes, 2) <= cap
  PROVE  sz + ObjectSz(ArraySz) + ObjectSz(bytes) <= cap
<1>1. HeaderSz \in Nat /\ ArraySz \in Nat
  BY HeaderIsWords, ArrayIsWords
<1>2. Need(ArraySz + bytes, 2) = (ArraySz + HeaderSz) + (bytes + HeaderSz)
  BY <1>1 DEF Need
<1>3. PICK c \in Nat : cap - sz = Word * c
  BY <1>1, <1>2, RoomIsWords
<1>4. PICK o \in Nat : ArraySz + HeaderSz = Word * o
  BY SumIsWords, HeaderIsWords, ArrayIsWords
<1>5. bytes + HeaderSz <= Word * c - Word * o
  BY <1>1, <1>2, <1>3, <1>4
<1>6. ~(c + 1 <= o)
  <2> SUFFICES ASSUME c + 1 <= o PROVE FALSE
    OBVIOUS
  <2>1. Word * (c + 1) <= Word * o
    BY WordPositive, MulLeq
  <2>2. Word * (c + 1) = Word * c + Word
    BY WordPositive
  <2>3. Word * c \in Nat /\ Word * o \in Nat
    BY WordPositive
  <2> QED BY <1>1, <1>5, <2>1, <2>2, <2>3, WordPositive
<1>7. c - o \in Nat /\ Word * c - Word * o = Word * (c - o)
  BY <1>6, WordPositive
<1>8. Align(bytes + HeaderSz) <= Word * (c - o)
  BY <1>1, <1>5, <1>7, AlignLeast
<1>9. Align(bytes + HeaderSz) \in Nat
  BY <1>1, AlignGrows
<1> QED BY <1>1, <1>3, <1>4, <1>7, <1>8, <1>9, StructureSz DEF ObjectSz

-----------------------------------------------------------------------------
\* The inductive invariant: types first.
Values == [at : Nat, id : Int]
Words == {n \in Nat : n % Word = 0}
Ids == Nat \ {0}
Flat == [kind : {"string", "tuple", "fixed"}, id : Ids, sz : Words, vals : Seq(Values)]
Boxed == [kind : {"array", "buffer", "table"}, id : Ids, sz : Words, n : Nat,
          cap : Nat, buff : Values]
Objects == Flat \cup Boxed

Asked ==
  {NoReq}
  \cup [op : {"string"}, more : Nat, n : Nat]
  \cup [op : {"message"}, from : {"outside", "heap", "released"}, more : Nat, n : Nat]
  \cup [op : {"tuple"}, size : Nat, more : Nat, n : Nat]
  \cup [op : {"container"}, kind : {"array", "buffer", "table"}, cap : Nat,
        more : Nat, n : Nat]
  \cup [op : {"capacity"}, i : Nat, cap : Nat, size : Nat, src : Seq(Nat),
        more : Nat, n : Nat]

\* Types, and what belongs to which phase.
Typed ==
  /\ cur \in Seq(Objects) /\ to \in Seq(Objects)
  /\ stack \in Seq(Values) /\ msbox \in Seq(Values)
  /\ made \in Nat
  /\ phase \in Phases
  /\ req \in Asked
  /\ pos \in Nat \ {0} /\ scan \in Nat \ {0} /\ child \in Nat \ {0}
  /\ phase = "run" => req = NoReq
  /\ ~Collecting => to = <<>>

\* v is no reference, or leads to the object of h it was made for, which is
\* not the block of a container.
Plain(v, h) ==
  v = Nil \/ (v.at \in DOMAIN h /\ h[v.at].id = v.id /\ h[v.at].kind # "fixed")

\* Objects are numbered in the order they were made.
Numbered ==
  \A k \in DOMAIN cur :
    /\ cur[k].id <= made
    /\ \A l \in DOMAIN cur : cur[k].id = cur[l].id => k = l

\* The block of the container at k of the old half, or of the only one.
Block(k) == cur[cur[k].buff.at]

\* Each container has a block of its own, with room for its capacity.
OwnBlocks ==
  \A k \in DOMAIN cur : IsContainer(cur[k]) =>
    /\ cur[k].n <= cur[k].cap
    /\ cur[k].buff.at \in DOMAIN cur
    /\ Block(k).kind = "fixed" /\ Block(k).id = cur[k].buff.id
    /\ Width(cur[k].kind) * cur[k].cap <= Len(Block(k).vals)
    /\ \A l \in DOMAIN cur :
         IsContainer(cur[l]) /\ cur[l].buff.at = cur[k].buff.at => l = k

TuplesPlain ==
  \A k \in DOMAIN cur : cur[k].kind = "tuple" =>
    \A c \in DOMAIN cur[k].vals : Plain(cur[k].vals[c], cur)

\* Inside a collection: the value c of the object s of the new half is copied.
Scanned(s, c) == s < scan \/ (s = scan /\ c < child)

\* Where the root r, and the element c of the container at k lead to.
RootHalf(r) == Half(phase = "scan" \/ (phase = "roots" /\ r < pos))
CellHalf(k, c) == Half(Collecting /\ fwd[k] # 0 /\ Scanned(fwd[k], c))

RootsPlain == \A r \in DOMAIN Roots : Plain(Roots[r], RootHalf(r))

CellsPlain ==
  \A k \in DOMAIN cur : IsContainer(cur[k]) =>
    \A c \in 1 .. Elements(cur[k]) : Plain(Block(k).vals[c], CellHalf(k, c))

\* What is asked for fits the container, which may move meanwhile.
Suits(o) ==
  /\ IsContainer(o)
  /\ req.size <= req.cap
  /\ o.kind = "table" => 2 * req.size = 2 * o.n + Len(req.src)
RequestSuits ==
  req.op = "capacity" =>
    /\ req.i \in DOMAIN stack
    /\ \A x \in DOMAIN req.src : req.src[x] \in DOMAIN stack
    /\ stack[req.i] # Nil
    /\ Suits(RootHalf(req.i)[stack[req.i].at])

\* p is the copy of o.
Copy(o, p) ==
  /\ p.kind = o.kind /\ p.id = o.id
  /\ IF IsContainer(o)
     THEN p.n = o.n /\ p.cap = o.cap /\ p.buff.id = o.buff.id
     ELSE Len(p.vals) = Len(o.vals)

Forwards ==
  /\ fwd \in [DOMAIN cur -> 0 .. Len(to)]
  /\ \A k \in DOMAIN cur : fwd[k] # 0 => Copy(cur[k], to[fwd[k]])
  /\ \A s \in DOMAIN to : \E k \in DOMAIN cur : fwd[k] = s

CopiedTuples ==
  \A s \in DOMAIN to : to[s].kind = "tuple" =>
    \A c \in DOMAIN to[s].vals : Plain(to[s].vals[c], Half(Scanned(s, c)))

BlockMoved(k) == fwd[k] # 0 /\ Scanned(fwd[k], ValuesOf(cur[k]))

CopiedContainers ==
  \A k \in DOMAIN cur : IsContainer(cur[k]) =>
    /\ fwd[cur[k].buff.at] # 0 <=> BlockMoved(k)
    /\ fwd[k] # 0 => to[fwd[k]].buff.at =
                      IF BlockMoved(k) THEN fwd[cur[k].buff.at] ELSE cur[k].buff.at

CopiedBlocks ==
  \A k \in DOMAIN cur : cur[k].kind = "fixed" /\ fwd[k] # 0 =>
    to[fwd[k]].vals = cur[k].vals

Progress ==
  /\ phase = "roots" => scan = 1 /\ child = 1
  /\ phase = "scan" => pos > Len(Roots)

Copying == Forwards /\ CopiedTuples /\ CopiedContainers /\ CopiedBlocks /\ Progress

IInv ==
  /\ Typed
  /\ Numbered
  /\ OwnBlocks
  /\ TuplesPlain
  /\ RootsPlain
  /\ CellsPlain
  /\ RequestSuits
  /\ Collecting => Copying

-----------------------------------------------------------------------------
\* Outside a collection there is one half.
RootsQuiet ==
  /\ \A i \in DOMAIN stack : Plain(stack[i], cur)
  /\ \A i \in DOMAIN msbox : Plain(msbox[i], cur)
CellsQuiet ==
  \A k \in DOMAIN cur : IsContainer(cur[k]) =>
    \A c \in 1 .. Elements(cur[k]) : Plain(Block(k).vals[c], cur)
RequestQuiet ==
  req.op = "capacity" =>
    /\ req.i \in DOMAIN stack
    /\ \A x \in DOMAIN req.src : req.src[x] \in DOMAIN stack
    /\ stack[req.i] # Nil
    /\ Suits(cur[stack[req.i].at])
Settled ==
  /\ Typed /\ Numbered /\ OwnBlocks /\ TuplesPlain
  /\ RootsQuiet /\ CellsQuiet /\ RequestQuiet

-----------------------------------------------------------------------------
\* The fields of an object, by its kind.
LEMMA ObjectFields ==
  ASSUME NEW o \in Objects
  PROVE  /\ o.kind \in {"string", "tuple", "fixed", "array", "buffer", "table"}
         /\ o.id \in Nat \ {0} /\ o.sz \in Nat /\ o.sz % Word = 0
         /\ IsContainer(o) => o.n \in Nat /\ o.cap \in Nat /\ o.buff \in Values
         /\ ~IsContainer(o) => o.vals \in Seq(Values)
BY DEF Objects, Flat, Boxed, IsContainer, Words, Ids

\* The elements of a container fit the cells of its block.
LEMMA Measures ==
  ASSUME NEW o \in Objects, IsContainer(o)
  PROVE  /\ Width(o.kind) \in 0 .. 2
         /\ Elements(o) \in Nat
         /\ Width(o.kind) * o.cap \in Nat
         /\ o.n <= o.cap => Elements(o) <= Width(o.kind) * o.cap
         /\ ValuesOf(o) = Elements(o) + 1
<1>1. o.n \in Nat /\ o.cap \in Nat
  BY ObjectFields
<1>2. CASE o.kind = "array"
  <2>1. Width(o.kind) = 1
    BY <1>2 DEF Width
  <2> QED BY <1>1, <1>2, <2>1 DEF Elements, ValuesOf, IsContainer
<1>3. CASE o.kind = "table"
  <2>1. Width(o.kind) = 2
    BY <1>3 DEF Width
  <2> QED BY <1>1, <1>3, <2>1 DEF Elements, ValuesOf, IsContainer
<1>4. CASE o.kind = "buffer"
  <2>1. Width(o.kind) = 0
    BY <1>4 DEF Width
  <2> QED BY <1>1, <1>4, <2>1 DEF Elements, ValuesOf, IsContainer
<1> QED BY <1>2, <1>3, <1>4 DEF IsContainer

\* ObjectSz is a number of bytes.
LEMMA ObjectSzNat == ASSUME NEW n \in Nat PROVE ObjectSz(n) \in Words /\ ObjectSz(n) \in Nat
<1> DEFINE a == n + HeaderSz + (Word - 1)
           d == a \div Word
<1>1. a \in Nat /\ n + HeaderSz \in Nat
  BY WordPositive, HeaderIsWords
<1>2. d \in Nat
  BY <1>1, WordPositive, DivMod
<1>3. ObjectSz(n) = d * Word
  BY DEF ObjectSz, Align
<1> HIDE DEF d
<1>4. d * Word = Word * d /\ Word * d \in Nat
  BY <1>2, WordPositive
<1>5. (Word * d) % Word = 0
  BY <1>2, MultipleIsWords
<1> QED BY <1>3, <1>4, <1>5 DEF Words

\* BlockSz is a number of bytes.
LEMMA BlockSzNat ==
  ASSUME NEW kind \in {"array", "buffer", "table"}, NEW cap \in Nat
  PROVE  BlockSz(kind, cap) \in Nat
<1>1. CASE kind = "buffer"
  BY <1>1 DEF BlockSz
<1>2. CASE kind = "array"
  BY <1>2, SizesAssumption DEF BlockSz, Width
<1>3. CASE kind = "table"
  BY <1>3, SizesAssumption DEF BlockSz, Width
<1> QED BY <1>1, <1>2, <1>3

\* A reference stays good while objects keep their identity.
LEMMA PlainStays ==
  ASSUME NEW h, NEW g, NEW v, Plain(v, h), DOMAIN h \subseteq DOMAIN g,
         \A k \in DOMAIN h : g[k].id = h[k].id /\ g[k].kind = h[k].kind
  PROVE  Plain(v, g)
BY DEF Plain

\* A good reference other than nil leads to an object.
LEMMA PlainIsObject ==
  ASSUME NEW h, NEW v, Plain(v, h), v.at # 0
  PROVE  v.at \in DOMAIN h /\ h[v.at].id = v.id /\ h[v.at].kind # "fixed"
BY DEF Plain, Nil

\* Outside a collection the halves of the invariant are the current one.
LEMMA InvSettled == ~Collecting => (IInv <=> Settled)
<1> SUFFICES ASSUME ~Collecting, Typed PROVE RootsPlain /\ CellsPlain /\ RequestSuits <=> RootsQuiet /\ CellsQuiet /\ RequestQuiet
  BY DEF IInv, Settled
<1>1. CellsPlain <=> CellsQuiet
  BY DEF CellsPlain, CellsQuiet, CellHalf, Half
<1>2. \A r : RootHalf(r) = cur
  BY DEF RootHalf, Half, Collecting
<1>3. RequestSuits <=> RequestQuiet
  BY <1>2 DEF RequestSuits, RequestQuiet
<1>4. RootsPlain <=> RootsQuiet
  <2>1. stack \in Seq(Values) /\ msbox \in Seq(Values)
    BY DEF Typed
  <2>2. RootsPlain <=> \A r \in DOMAIN Roots : Plain(Roots[r], cur)
    BY <1>2 DEF RootsPlain
  <2>3. ASSUME RootsQuiet, NEW r \in DOMAIN Roots PROVE Plain(Roots[r], cur)
    BY <2>1, <2>3 DEF Roots, RootsQuiet
  <2>4. ASSUME \A r \in DOMAIN Roots : Plain(Roots[r], cur) PROVE RootsQuiet
    <3>1. ASSUME NEW i \in DOMAIN stack PROVE Plain(stack[i], cur)
      <4>1. i \in DOMAIN Roots /\ Roots[i] = stack[i]
        BY <2>1, <3>1 DEF Roots
      <4> QED BY <2>4, <4>1
    <3>2. ASSUME NEW i \in DOMAIN msbox PROVE Plain(msbox[i], cur)
      <4>1. Len(stack) + i \in DOMAIN Roots /\ Roots[Len(stack) + i] = msbox[i]
        BY <2>1, <3>2 DEF Roots
      <4> QED BY <2>4, <4>1
    <3> QED BY <3>1, <3>2 DEF RootsQuiet
  <2> QED BY <2>2, <2>3, <2>4
<1> QED BY <1>1, <1>3, <1>4

\* The same of the state after a step.
LEMMA InvSettledNext == ~Collecting' => (IInv' <=> Settled')
BY InvSettled, PTL

-----------------------------------------------------------------------------
\* A step of the program keeps the types when it keeps those of what it writes.
LEMMA TypedStays ==
  ASSUME Typed, UNCHANGED <<made, phase, req, gc>>, cur' \in Seq(Objects),
         stack' \in Seq(Values), msbox' \in Seq(Values)
  PROVE  Typed'
BY DEF Typed, gc, Collecting

\* A step that leaves the objects alone.
LEMMA ObjectsStay ==
  ASSUME Settled, UNCHANGED <<cur, made>>, Typed', RootsQuiet', RequestQuiet'
  PROVE  Settled'
BY DEF Settled, Numbered, OwnBlocks, TuplesPlain, CellsQuiet, Plain, Block

\* A step of the program that moves values about.
LEMMA ValuesMove ==
  ASSUME Settled, Running, UNCHANGED cur, Quiet,
         stack' \in Seq(Values), msbox' \in Seq(Values),
         \A i \in DOMAIN stack' : Plain(stack'[i], cur),
         \A i \in DOMAIN msbox' : Plain(msbox'[i], cur)
  PROVE  Settled'
<1>1. Typed'
  BY TypedStays DEF Settled, Typed, Quiet
<1>2. RootsQuiet'
  BY DEF RootsQuiet, Plain
<1>3. RequestQuiet'
  <2>1. req' = NoReq
    BY DEF Settled, Typed, Running, Quiet
  <2> QED BY <2>1 DEF RequestQuiet, NoReq
<1> QED BY <1>1, <1>2, <1>3, ObjectsStay DEF Quiet

\* A value leaves the stack.
LEMMA PopSettled == Settled /\ Pop => Settled'
<1> SUFFICES ASSUME Settled, Pop PROVE Settled'
  OBVIOUS
<1>1. stack \in Seq(Values) /\ Len(stack) \in Nat /\ Len(stack) # 0
  BY DEF Settled, Typed, Pop
<1>2. stack' \in Seq(Values) /\ \A i \in DOMAIN stack' : i \in DOMAIN stack /\ stack'[i] = stack[i]
  BY <1>1 DEF Pop
<1> QED BY <1>2, ValuesMove DEF Pop, Settled, Typed, RootsQuiet

\* A value pushed on the stack.
LEMMA PushSettled ==
  ASSUME Settled, Running, UNCHANGED <<cur, msbox>>, Quiet,
         NEW v \in Values, Plain(v, cur), stack' = Append(stack, v)
  PROVE  Settled'
<1>1. stack \in Seq(Values) /\ msbox \in Seq(Values)
  BY DEF Settled, Typed
<1>2. stack' \in Seq(Values) /\ \A i \in DOMAIN stack' : stack'[i] = v \/ (i \in DOMAIN stack /\ stack'[i] = stack[i])
  BY <1>1
<1> QED BY <1>1, <1>2, ValuesMove DEF Settled, RootsQuiet

\* Nil is always a good value.
LEMMA NilPlain == Nil \in Values /\ \A h : Plain(Nil, h)
BY DEF Nil, Values, Plain

\* What a program may read.
LEMMA CellsArePlain ==
  ASSUME Settled, NEW i \in DOMAIN stack, NEW c \in Cells(i)
  PROVE  /\ c[1] \in DOMAIN cur /\ c[2] \in DOMAIN cur[c[1]].vals
         /\ cur[c[1]].vals \in Seq(Values)
         /\ Plain(cur[c[1]].vals[c[2]], cur)
<1> DEFINE a == stack[i].at
<1>1. cur \in Seq(Objects) /\ stack \in Seq(Values) /\ Plain(stack[i], cur)
  BY DEF Settled, Typed, RootsQuiet
<1>2. a # 0
  BY DEF Cells, IsA
<1>3. a \in DOMAIN cur /\ cur[a] \in Objects
  BY <1>1, <1>2, PlainIsObject
<1>4. CASE IsA(i, "tuple")
  <2>1. c[1] = a /\ c[2] \in DOMAIN cur[a].vals /\ cur[a].kind = "tuple"
    BY <1>4 DEF Cells, IsA, At
  <2>2. ~IsContainer(cur[a])
    BY <2>1 DEF IsContainer
  <2> QED BY <1>3, <2>1, <2>2, ObjectFields DEF Settled, TuplesPlain
<1>5. ASSUME IsContainer(cur[a]), c[1] = cur[a].buff.at, c[2] \in 1 .. Elements(cur[a])
      PROVE  /\ c[1] \in DOMAIN cur /\ c[2] \in DOMAIN cur[c[1]].vals
             /\ cur[c[1]].vals \in Seq(Values)
             /\ Plain(cur[c[1]].vals[c[2]], cur)
  <2>1. /\ c[1] \in DOMAIN cur /\ cur[c[1]].kind = "fixed" /\ cur[a].n <= cur[a].cap
        /\ Width(cur[a].kind) * cur[a].cap <= Len(cur[c[1]].vals)
    BY <1>3, <1>5 DEF Settled, OwnBlocks, Block
  <2>2. cur[c[1]].vals \in Seq(Values)
    <3>1. cur[c[1]] \in Objects /\ ~IsContainer(cur[c[1]])
      BY <1>1, <2>1 DEF IsContainer
    <3> QED BY <3>1, ObjectFields
  <2>3. c[2] \in DOMAIN cur[c[1]].vals
    BY <1>3, <1>5, <2>1, <2>2, Measures
  <2>4. Plain(cur[c[1]].vals[c[2]], cur)
    BY <1>3, <1>5 DEF Settled, CellsQuiet, Block
  <2> QED BY <2>1, <2>2, <2>3, <2>4
<1>6. CASE IsA(i, "array")
  <2>1. cur[a].kind = "array" /\ IsContainer(cur[a])
    BY <1>6 DEF IsA, At, IsContainer
  <2>2. cur[a].n \in Nat /\ Elements(cur[a]) = cur[a].n
    BY <1>3, <2>1, ObjectFields DEF Elements, Width
  <2>3. c[1] = cur[a].buff.at /\ c[2] \in 1 .. cur[a].n
    BY <1>6, <2>1 DEF Cells, IsA, At
  <2> QED BY <1>5, <2>1, <2>2, <2>3
<1>7. CASE IsA(i, "table")
  <2>1. cur[a].kind = "table" /\ IsContainer(cur[a])
    BY <1>7 DEF IsA, At, IsContainer
  <2>2. cur[a].n \in Nat /\ Elements(cur[a]) = 2 * cur[a].n
    BY <1>3, <2>1, ObjectFields DEF Elements, Width
  <2>3. PICK k \in 1 .. cur[a].n : c = <<cur[a].buff.at, 2 * k>>
    BY <1>7, <2>1 DEF Cells, IsA, At
  <2>4. c[1] = cur[a].buff.at /\ c[2] = 2 * k
    BY <2>3
  <2> QED BY <1>5, <2>1, <2>2, <2>4
<1>8. IsA(i, "tuple") \/ IsA(i, "array") \/ IsA(i, "table")
  BY DEF Cells
<1> QED BY <1>4, <1>6, <1>7, <1>8

\* aarray_get, atuple_get, atable_get: the value read leads to an object.
LEMMA GetSettled == ASSUME Settled, NEW i \in DOMAIN stack, Get(i) PROVE Settled'
<1>1. CASE stack' = Append(stack, Nil)
  BY <1>1, NilPlain, PushSettled DEF Get
<1>2. CASE \E c \in Cells(i) : stack' = Append(stack, cur[c[1]].vals[c[2]])
  <2>1. PICK c \in Cells(i) : stack' = Append(stack, cur[c[1]].vals[c[2]])
    BY <1>2
  <2>2. cur[c[1]].vals[c[2]] \in Values /\ Plain(cur[c[1]].vals[c[2]], cur)
    BY CellsArePlain
  <2> QED BY <2>1, <2>2, PushSettled DEF Get
<1> QED BY <1>1, <1>2 DEF Get

\* any_push_index.
LEMMA PushIndexSettled == ASSUME Settled, NEW i \in DOMAIN stack, PushIndex(i) PROVE Settled'
<1>1. stack[i] \in Values /\ Plain(stack[i], cur)
  BY DEF Settled, Typed, RootsQuiet
<1> QED BY <1>1, PushSettled DEF PushIndex

\* A message is put on the stack.
LEMMA ReceiveSettled == ASSUME Settled, NEW k \in DOMAIN msbox, Receive(k) PROVE Settled'
<1>1. stack \in Seq(Values) /\ msbox \in Seq(Values) /\ stack # <<>>
  BY DEF Settled, Typed, Receive
<1>2. stack' \in Seq(Values) /\ \A i \in DOMAIN stack' : i \in DOMAIN stack /\ stack'[i] \in {stack[i], msbox[k]}
  BY <1>1 DEF Receive
<1> QED BY <1>1, <1>2, ValuesMove DEF Receive, Settled, RootsQuiet

\* A message leaves the mailbox, the others move up.
LEMMA RemoveMessageSettled ==
  ASSUME Settled, NEW k \in DOMAIN msbox, RemoveMessage(k) PROVE Settled'
<1>1. stack \in Seq(Values) /\ msbox \in Seq(Values)
  BY DEF Settled, Typed
<1>2. k \in 1 .. Len(msbox) /\ Len(msbox) \in Nat
  BY <1>1
<1> DEFINE a == SubSeq(msbox, 1, k - 1)
           b == SubSeq(msbox, k + 1, Len(msbox))
<1>3. a \in Seq(Values) /\ Len(a) = k - 1 /\ \A i \in 1 .. k - 1 : a[i] = msbox[i]
  BY <1>1, <1>2
<1>4. b \in Seq(Values) /\ Len(b) = Len(msbox) - k /\ \A i \in 1 .. Len(msbox) - k : b[i] = msbox[k + i]
  BY <1>1, <1>2
<1> HIDE DEF a, b
<1>5. a \o b \in Seq(Values) /\ \A i \in DOMAIN (a \o b) : \E j \in DOMAIN msbox : (a \o b)[i] = msbox[j]
  <2>1. a \o b \in Seq(Values) /\ Len(a \o b) = Len(msbox) - 1
    BY <1>1, <1>2, <1>3, <1>4
  <2>2. ASSUME NEW i \in DOMAIN (a \o b) PROVE \E j \in DOMAIN msbox : (a \o b)[i] = msbox[j]
    <3>1. i \in 1 .. Len(msbox) - 1
      BY <2>1
    <3>2. CASE i <= k - 1
      <4>1. (a \o b)[i] = a[i] /\ i \in 1 .. k - 1 /\ i \in DOMAIN msbox
        BY <1>1, <1>2, <1>3, <1>4, <3>1, <3>2
      <4> QED BY <1>3, <4>1
    <3>3. CASE i > k - 1
      <4>1. (a \o b)[i] = b[i - (k - 1)] /\ i - (k - 1) \in 1 .. Len(msbox) - k
        BY <1>2, <1>3, <1>4, <3>1, <3>3
      <4> DEFINE j == i - (k - 1)
      <4>2. j \in 1 .. Len(msbox) - k /\ (a \o b)[i] = b[j]
        BY <4>1
      <4> HIDE DEF j
      <4>3. b[j] = msbox[k + j]
        BY <1>4, <4>2
      <4>4. k + j \in DOMAIN msbox
        BY <1>1, <1>2, <4>2
      <4> QED BY <4>2, <4>3, <4>4
    <3> QED BY <1>2, <3>1, <3>2, <3>3
  <2> QED BY <2>1, <2>2
<1>6. msbox' = a \o b
  BY DEF RemoveMessage, a, b
<1> QED BY <1>1, <1>5, <1>6, ValuesMove DEF RemoveMessage, Settled, RootsQuiet

-----------------------------------------------------------------------------
\* Requests.
LEMMA AskSettled ==
  ASSUME Settled, NEW r \in Asked, r.op # "capacity", req' = r, phase' = "reserve",
         UNCHANGED <<cur, msbox, made, gc>>, stack' \in Seq(Values),
         \A i \in DOMAIN stack' : Plain(stack'[i], cur), phase = "run"
  PROVE  Settled'
<1>1. Typed'
  BY DEF Settled, Typed, gc, Phases, Collecting
<1>2. RootsQuiet'
  BY DEF Settled, RootsQuiet, Plain
<1>3. RequestQuiet'
  BY DEF RequestQuiet
<1> QED BY <1>1, <1>2, <1>3, ObjectsStay

\* Outside a collection every value of the stack is good.
LEMMA StackTyped ==
  ASSUME Settled
  PROVE  stack \in Seq(Values) /\ \A i \in DOMAIN stack : Plain(stack[i], cur)
BY DEF Settled, Typed, RootsQuiet

\* any_push_string.
LEMMA AskStringSettled == ASSUME Settled, NEW n \in Lengths, AskString(n) PROVE Settled'
<1>1. n \in Nat
  BY HeapAssumption
<1> DEFINE r == [op |-> "string", more |-> n, n |-> 1]
<1>2. r \in Asked /\ r.op # "capacity"
  BY <1>1 DEF Asked
<1> QED BY <1>2, AskSettled, StackTyped DEF AskString, Ask, Running, mutator

\* A message of another process.
LEMMA AskMessageSettled == ASSUME Settled, NEW n \in Lengths, AskMessage(n) PROVE Settled'
<1>1. n \in Nat
  BY HeapAssumption
<1> DEFINE r == [op |-> "message", from |-> "outside", more |-> n, n |-> 1]
<1>2. r \in Asked /\ r.op # "capacity"
  BY <1>1 DEF Asked
<1> QED BY <1>2, AskSettled, StackTyped DEF AskMessage, Ask, Running, mutator

\* A message of the process to itself.
LEMMA AskMessageToSelfSettled ==
  ASSUME Settled, NEW n \in Lengths, AskMessageToSelf(n) PROVE Settled'
<1>1. n \in Nat
  BY HeapAssumption
<1> DEFINE r == [op |-> "message", from |-> "heap", more |-> n, n |-> 1]
<1>2. r \in Asked /\ r.op # "capacity"
  BY <1>1 DEF Asked
<1>3. stack \in Seq(Values) /\ Len(stack) \in Nat /\ Len(stack) # 0
  BY StackTyped DEF AskMessageToSelf
<1>4. stack' \in Seq(Values) /\ \A i \in DOMAIN stack' : i \in DOMAIN stack /\ stack'[i] = stack[i]
  BY <1>3 DEF AskMessageToSelf
<1> QED BY <1>2, <1>4, AskSettled, StackTyped DEF AskMessageToSelf, Running

\* any_push_tuple.
LEMMA AskTupleSettled == ASSUME Settled, NEW n \in Counts, AskTuple(n) PROVE Settled'
<1>1. n \in Nat /\ TupleSz + n * ValueSz \in Nat
  BY HeapAssumption, SizesAssumption
<1> DEFINE r == [op |-> "tuple", size |-> n, more |-> TupleSz + n * ValueSz, n |-> 1]
<1>2. r \in Asked /\ r.op # "capacity"
  BY <1>1 DEF Asked
<1> QED BY <1>2, AskSettled, StackTyped DEF AskTuple, Ask, Running, mutator

\* any_push_array, any_push_buffer, any_push_table.
LEMMA AskContainerSettled ==
  ASSUME Settled, NEW kind, NEW cap \in Nat, AskContainer(kind, cap) PROVE Settled'
<1>1. kind \in {"array", "buffer", "table"}
  BY HeapAssumption DEF AskContainer
<1>2. ArraySz + BlockSz(kind, cap) \in Nat
  BY <1>1, BlockSzNat, ArrayIsWords
<1> DEFINE r == [op |-> "container", kind |-> kind, cap |-> cap,
                 more |-> ArraySz + BlockSz(kind, cap), n |-> 2]
<1>3. r \in Asked /\ r.op # "capacity"
  BY <1>1, <1>2 DEF Asked
<1> QED BY <1>3, AskSettled, StackTyped DEF AskContainer, Ask, Running, mutator

\* A value that leads to a container.
LEMMA ContainerFields ==
  ASSUME Settled, NEW i \in DOMAIN stack, stack[i].at # 0
  PROVE  /\ stack[i].at \in DOMAIN cur /\ At(i) \in Objects /\ stack[i] # Nil
         /\ IsContainer(At(i)) => At(i).n \in Nat /\ At(i).cap \in Nat /\ At(i).n <= At(i).cap
<1>1. stack[i].at \in DOMAIN cur /\ At(i) \in Objects /\ stack[i] # Nil
  BY PlainIsObject, StackTyped DEF Settled, Typed, At, Nil
<1> QED BY <1>1, ObjectFields DEF Settled, OwnBlocks, At

\* set_capacity: the container asked for is the one it was asked for.
LEMMA AskCapacitySettled ==
  ASSUME Settled, phase = "run", NEW i \in DOMAIN stack, stack[i].at # 0, IsContainer(At(i)),
         NEW cap \in Nat, NEW sz \in Nat, sz <= cap, NEW src \in Seq(Nat),
         \A x \in DOMAIN src : src[x] \in DOMAIN stack,
         At(i).kind = "table" => 2 * sz = 2 * At(i).n + Len(src),
         AskCapacity(i, cap, sz, src)
  PROVE  Settled'
<1> DEFINE r == [op |-> "capacity", i |-> i, cap |-> cap, size |-> sz, src |-> src,
                 more |-> BlockSz(At(i).kind, cap), n |-> 1]
<1>1. BlockSz(At(i).kind, cap) \in Nat
  BY BlockSzNat DEF IsContainer
<1>2. i \in Nat
  BY StackTyped
<1>3. r \in Asked
  BY <1>1, <1>2 DEF Asked
<1>4. req' = r /\ phase' = "reserve" /\ UNCHANGED <<cur, stack, msbox, made, gc>>
  BY DEF AskCapacity, Ask, mutator
<1>5. Typed'
  BY <1>3, <1>4 DEF Settled, Typed, gc, Phases, Collecting
<1>6. RootsQuiet'
  BY <1>4 DEF Settled, RootsQuiet, Plain
<1>7. RequestQuiet'
  <2>1. stack'[i] # Nil /\ cur'[stack'[i].at] = At(i)
    BY <1>4, ContainerFields DEF At
  <2>2. req'.i = i /\ req'.size = sz /\ req'.cap = cap /\ req'.src = src
    BY <1>4
  <2> QED BY <1>4, <2>1, <2>2 DEF RequestQuiet, Suits
<1> QED BY <1>4, <1>5, <1>6, <1>7, ObjectsStay

\* A request that puts nothing on the stack has no values to copy.
LEMMA NoSource == <<>> \in Seq(Nat) /\ DOMAIN <<>> = {} /\ Len(<<>>) = 0
OBVIOUS

\* What the program resizes is an array or a buffer.
LEMMA ContainersAre ==
  ASSUME NEW i \in Containers
  PROVE  i \in DOMAIN stack /\ stack[i].at # 0 /\ IsContainer(At(i)) /\ At(i).kind # "table"
BY DEF Containers, IsA, IsContainer

\* Doubling reaches what is needed, by whole multiples.
LEMMA DoubledFits ==
  ASSUME NEW base \in Nat \ {0}, NEW need \in Nat
  PROVE  /\ Doubled(base, need) \in Nat \ {0}
         /\ need <= Doubled(base, need)
         /\ \E j \in Nat : Doubled(base, need) = base * j
<1> DEFINE D == Nat \ {0}
           Rule(f, c) == f[c] = IF c >= need THEN c ELSE f[2 * c]
           UpTo(n) == {f \in [D -> D] : \A c \in D : need - c <= n => Rule(f, c)}
           T == {n \in Nat : UpTo(n) = {}}
<1>1. UpTo(0) # {}
  <2> DEFINE f == [c \in D |-> c]
  <2>1. f \in [D -> D] /\ \A c \in D : need - c <= 0 => Rule(f, c)
    OBVIOUS
  <2> HIDE DEF f, Rule
  <2> QED BY <2>1
<1>2. ASSUME NEW n \in Nat, UpTo(n) # {} PROVE UpTo(n + 1) # {}
  <2>1. PICK f \in [D -> D] : \A c \in D : need - c <= n => Rule(f, c)
    BY <1>2
  <2> DEFINE g == [c \in D |-> IF c >= need THEN c ELSE f[2 * c]]
  <2>2. g \in [D -> D]
    BY <2>1
  <2>3. ASSUME NEW c \in D, need - c <= n + 1 PROVE Rule(g, c)
    <3>1. CASE c >= need
      BY <3>1
    <3>2. CASE ~(c >= need)
      <4>1. 2 * c \in D /\ need - 2 * c <= n
        BY <2>3
      <4>2. Rule(f, 2 * c)
        BY <2>1, <4>1
      <4>3. g[c] = f[2 * c] /\ g[2 * c] = IF 2 * c >= need THEN 2 * c ELSE f[2 * (2 * c)]
        BY <3>2, <4>1
      <4> QED BY <3>2, <4>2, <4>3
    <3> QED BY <3>1, <3>2
  <2> HIDE DEF g, Rule
  <2> QED BY <2>2, <2>3
<1>3. T = {}
  <2> SUFFICES ASSUME T # {} PROVE FALSE
    OBVIOUS
  <2> HIDE DEF UpTo
  <2>1. PICK m \in T : \A y \in T : m <= y
    BY Least, T \subseteq Nat
  <2>2. m \in Nat /\ m # 0 /\ UpTo(m) = {}
    BY <1>1, <2>1
  <2>3. m - 1 \in Nat /\ m - 1 \notin T /\ (m - 1) + 1 = m
    BY <2>1, <2>2
  <2>4. UpTo(m - 1) # {}
    BY <2>3
  <2> QED BY <1>2, <2>2, <2>3, <2>4
<1>4. PICK f \in [D -> D] : \A c \in D : Rule(f, c)
  <2>1. UpTo(need) # {}
    <3> HIDE DEF UpTo
    <3> QED BY <1>3
  <2>2. PICK f \in [D -> D] : \A c \in D : need - c <= need => Rule(f, c)
    BY <2>1
  <2>3. \A c \in D : need - c <= need
    OBVIOUS
  <2> QED BY <2>2, <2>3
<1>5. f = [c \in D |-> IF c >= need THEN c ELSE f[2 * c]]
  BY <1>4
<1> DEFINE G == CHOOSE g : g = [c \in D |-> IF c >= need THEN c ELSE g[2 * c]]
<1>6. G = [c \in D |-> IF c >= need THEN c ELSE G[2 * c]]
  <2> HIDE DEF D
  <2> QED BY <1>5, Zenon
<1>7. Doubled(base, need) = G[base]
  BY DEF Doubled
<1> HIDE DEF G
<1> DEFINE Ends(c) == G[c] \in D /\ need <= G[c] /\ \E j \in Nat : G[c] = c * j
           U == {n \in Nat : \E c \in D : need - c <= n /\ ~Ends(c)}
<1>8. ASSUME NEW c \in D, c >= need PROVE Ends(c)
  <2>1. G[c] = c /\ c = c * 1
    BY <1>6, <1>8
  <2> QED BY <1>8, <2>1
<1>9. ASSUME NEW c \in D, ~(c >= need), Ends(2 * c) PROVE Ends(c)
  <2>1. G[c] = G[2 * c]
    BY <1>6, <1>9
  <2>2. PICK j \in Nat : G[2 * c] = (2 * c) * j
    BY <1>9
  <2>3. (2 * c) * j = c * (2 * j) /\ 2 * j \in Nat
    OBVIOUS
  <2> QED BY <1>9, <2>1, <2>2, <2>3
<1>10. U = {}
  <2> SUFFICES ASSUME U # {} PROVE FALSE
    OBVIOUS
  <2> HIDE DEF Ends
  <2>1. PICK m \in U : \A y \in U : m <= y
    BY Least, U \subseteq Nat
  <2>2. PICK c \in D : need - c <= m /\ ~Ends(c)
    BY <2>1
  <2>3. ~(c >= need) /\ m \in Nat
    BY <1>8, <2>1, <2>2
  <2>4. m - 1 \in Nat /\ m - 1 \notin U /\ 2 * c \in D /\ need - 2 * c <= m - 1
    BY <2>1, <2>2, <2>3
  <2>5. Ends(2 * c)
    BY <2>4
  <2> QED BY <1>9, <2>2, <2>3, <2>5
<1>11. Ends(base)
  <2> HIDE DEF Ends
  <2>1. need - base <= need
    OBVIOUS
  <2>2. need \notin U
    BY <1>10
  <2> QED BY <2>1, <2>2
<1> QED BY <1>7, <1>11

\* So does the growth of a container.
LEMMA GrownCapFits ==
  ASSUME NEW cap \in Nat, NEW need \in Nat
  PROVE  GrownCap(cap, need) \in Nat /\ need <= GrownCap(cap, need)
<1> DEFINE base == IF cap = 0 THEN InitGrow ELSE cap
<1>1. base \in Nat \ {0}
  BY HeapAssumption
<1> QED BY <1>1, DoubledFits DEF GrownCap

\* aarray_reserve, abuffer_reserve.
LEMMA AskReserveSettled ==
  ASSUME Settled, NEW i \in DOMAIN stack, NEW cap \in Counts, AskReserve(i, cap) PROVE Settled'
<1>1. i \in Containers /\ At(i).cap < cap /\ AskCapacity(i, cap, At(i).n, <<>>) /\ phase = "run"
  BY DEF AskReserve, Running
<1>2. cap \in Nat /\ At(i).n \in Nat /\ At(i).n <= cap
  BY <1>1, ContainersAre, ContainerFields, HeapAssumption
<1> QED BY <1>1, <1>2, ContainersAre, NoSource, AskCapacitySettled

\* aarray_shrink_to_fit, abuffer_shrink_to_fit.
LEMMA AskShrinkSettled ==
  ASSUME Settled, NEW i \in DOMAIN stack, AskShrink(i) PROVE Settled'
<1>1. i \in Containers /\ AskCapacity(i, At(i).n, At(i).n, <<>>) /\ phase = "run"
  BY DEF AskShrink, Running
<1>2. At(i).n \in Nat /\ At(i).n <= At(i).n
  BY <1>1, ContainersAre, ContainerFields
<1> QED BY <1>1, <1>2, ContainersAre, NoSource, AskCapacitySettled

\* aarray_resize, abuffer_resize when there is not enough capacity.
LEMMA AskResizeSettled ==
  ASSUME Settled, NEW i \in DOMAIN stack, NEW sz \in Counts, AskResize(i, sz) PROVE Settled'
<1> DEFINE cap == GrownCap(At(i).cap, sz)
<1>1. AskCapacity(i, cap, sz, <<>>)
  BY DEF AskResize
<1>2. i \in Containers /\ phase = "run"
  BY DEF AskResize, Running
<1>3. sz \in Nat /\ At(i).cap \in Nat
  BY <1>2, ContainersAre, ContainerFields, HeapAssumption
<1>4. cap \in Nat /\ sz <= cap
  BY <1>3, GrownCapFits
<1> HIDE DEF cap
<1> QED BY <1>1, <1>2, <1>3, <1>4, ContainersAre, NoSource, AskCapacitySettled

\* array_push when the array is full.
LEMMA AskPushSettled ==
  ASSUME Settled, NEW i \in DOMAIN stack, NEW j \in DOMAIN stack, AskPush(i, j) PROVE Settled'
<1> DEFINE cap == GrownCap(At(i).cap, At(i).n + 1)
<1>1. AskCapacity(i, cap, At(i).n + 1, <<j>>)
  BY DEF AskPush
<1>2. stack[i].at # 0 /\ At(i).kind = "array" /\ IsContainer(At(i)) /\ phase = "run"
  BY DEF AskPush, IsA, IsContainer, Running
<1>3. At(i).n + 1 \in Nat /\ At(i).cap \in Nat
  BY <1>2, ContainerFields
<1>4. cap \in Nat /\ At(i).n + 1 <= cap
  BY <1>3, GrownCapFits
<1>5. <<j>> \in Seq(Nat) /\ \A x \in DOMAIN <<j>> : <<j>>[x] \in DOMAIN stack
  BY StackTyped
<1> HIDE DEF cap
<1> QED BY <1>1, <1>2, <1>3, <1>4, <1>5, AskCapacitySettled

\* atable_set of a new key when the table is full.
LEMMA AskPutSettled ==
  ASSUME Settled, NEW i \in DOMAIN stack, NEW k \in DOMAIN stack, NEW j \in DOMAIN stack,
         AskPut(i, k, j)
  PROVE  Settled'
<1> DEFINE cap == GrownCap(At(i).cap, At(i).n + 1)
<1>1. AskCapacity(i, cap, At(i).n + 1, <<k, j>>)
  BY DEF AskPut
<1>2. stack[i].at # 0 /\ At(i).kind = "table" /\ IsContainer(At(i)) /\ phase = "run"
  BY DEF AskPut, IsA, IsContainer, Running
<1>3. At(i).n \in Nat /\ At(i).n + 1 \in Nat /\ At(i).cap \in Nat
  BY <1>2, ContainerFields
<1>4. cap \in Nat /\ At(i).n + 1 <= cap
  BY <1>3, GrownCapFits
<1>5. <<k, j>> \in Seq(Nat) /\ Len(<<k, j>>) = 2 /\ \A x \in DOMAIN <<k, j>> : <<k, j>>[x] \in DOMAIN stack
  BY StackTyped
<1>6. 2 * (At(i).n + 1) = 2 * At(i).n + Len(<<k, j>>)
  BY <1>3, <1>5
<1> HIDE DEF cap
<1> QED BY <1>1, <1>2, <1>3, <1>4, <1>5, <1>6, AskCapacitySettled

\* Every request keeps the invariant.
LEMMA RequestsSettled == Settled /\ Requests => Settled'
<1> SUFFICES ASSUME Settled, Requests PROVE Settled'
  OBVIOUS
<1>1. Lengths \subseteq Nat /\ Counts \subseteq Nat /\ Pairs \subseteq Nat
  BY HeapAssumption
<1>2. CASE \E n \in Lengths : AskString(n) \/ AskMessage(n) \/ AskMessageToSelf(n) \/ AskContainer("buffer", n)
  BY <1>1, <1>2, AskStringSettled, AskMessageSettled, AskMessageToSelfSettled, AskContainerSettled
<1>3. CASE \E n \in Counts : AskTuple(n) \/ AskContainer("array", n)
  BY <1>1, <1>3, AskTupleSettled, AskContainerSettled
<1>4. CASE \E n \in Pairs : AskContainer("table", n)
  BY <1>1, <1>4, AskContainerSettled
<1>5. CASE \E i \in DOMAIN stack : AskShrink(i) \/ \E n \in Counts : AskReserve(i, n) \/ AskResize(i, n)
  BY <1>5, AskShrinkSettled, AskReserveSettled, AskResizeSettled
<1>6. CASE \E i, j \in DOMAIN stack : AskPush(i, j) \/ \E k \in DOMAIN stack : AskPut(i, k, j)
  BY <1>6, AskPushSettled, AskPutSettled
<1> QED BY <1>2, <1>3, <1>4, <1>5, <1>6 DEF Requests

-----------------------------------------------------------------------------
\* aactor_heap_reserve.
LEMMA CheckSettled == Settled /\ Check => Settled'
<1> SUFFICES ASSUME Settled, Check PROVE Settled'
  OBVIOUS
<1>1. Typed'
  BY DEF Settled, Typed, Check, gc, mutator, Phases, Collecting
<1>2. RootsQuiet' /\ RequestQuiet'
  BY DEF Settled, RootsQuiet, RequestQuiet, Check, mutator, Plain, Suits, IsContainer
<1> QED BY <1>1, <1>2, ObjectsStay DEF Check, mutator

\* agc_reserve: the heap grows or is large enough.
LEMMA ReserveSettled == Settled /\ Reserve => Settled'
<1> SUFFICES ASSUME Settled, Reserve PROVE Settled'
  OBVIOUS
<1>1. req' = req \/ (req.op = "message" /\ req' = [req EXCEPT !.from = "released"])
  BY DEF Reserve, Released
<1>2. req' \in Asked /\ (req'.op = "capacity" => req' = req)
  <2>1. CASE req' = req
    BY <2>1 DEF Settled, Typed
  <2>2. CASE req.op = "message" /\ req' = [req EXCEPT !.from = "released"]
    <3>1. req \in [op : {"message"}, from : {"outside", "heap", "released"}, more : Nat, n : Nat]
      BY <2>2 DEF Settled, Typed, Asked, NoReq
    <3>2. req' \in [op : {"message"}, from : {"outside", "heap", "released"}, more : Nat, n : Nat]
      BY <2>2, <3>1
    <3> QED BY <3>2 DEF Asked
  <2> QED BY <1>1, <2>1, <2>2
<1>3. Typed'
  BY <1>2 DEF Settled, Typed, Reserve, gc, mutator, Phases, Collecting
<1>4. RootsQuiet'
  BY DEF Settled, RootsQuiet, Reserve, mutator, Plain
<1>5. RequestQuiet'
  BY <1>2 DEF Settled, RequestQuiet, Reserve, mutator, Suits, IsContainer
<1> QED BY <1>3, <1>4, <1>5, ObjectsStay DEF Reserve, mutator

\* agc_reserve fails: the request is given up and nothing is lost.
LEMMA ReserveFailsSettled == Settled /\ ReserveFails => Settled'
<1> SUFFICES ASSUME Settled, ReserveFails PROVE Settled'
  OBVIOUS
<1>1. Typed'
  BY DEF Settled, Typed, ReserveFails, gc, mutator, Phases, Collecting, Asked
<1>2. RootsQuiet'
  BY DEF Settled, RootsQuiet, ReserveFails, mutator, Plain
<1>3. RequestQuiet'
  BY DEF RequestQuiet, ReserveFails, NoReq
<1> QED BY <1>1, <1>2, <1>3, ObjectsStay DEF ReserveFails, mutator

-----------------------------------------------------------------------------
\* Writing a cell, and the size of a container.
WithCell(h, b, m, x) == [h EXCEPT ![b].vals[m] = x]
WithSize(h, a, x) == [h EXCEPT ![a].n = x]

\* A sequence with one element written.
LEMMA ElementWritten ==
  ASSUME NEW s \in Seq(Values), NEW m, NEW x \in Values
  PROVE  LET w == [s EXCEPT ![m] = x]
         IN  /\ w \in Seq(Values) /\ Len(w) = Len(s) /\ DOMAIN w = DOMAIN s
             /\ \A c \in DOMAIN s : w[c] = IF c = m THEN x ELSE s[c]
<1> DEFINE w == [s EXCEPT ![m] = x]
<1>1. s \in [1 .. Len(s) -> Values] /\ Len(s) \in Nat
  OBVIOUS
<1>2. w \in [1 .. Len(s) -> Values] /\ \A c \in DOMAIN s : w[c] = IF c = m THEN x ELSE s[c]
  BY <1>1
<1> HIDE DEF w
<1>3. w \in Seq(Values) /\ Len(w) = Len(s) /\ DOMAIN w = DOMAIN s
  BY <1>1, <1>2
<1> QED BY <1>2, <1>3 DEF w

\* The objects with one cell of one of them written.
LEMMA CellWritten ==
  ASSUME NEW h \in Seq(Objects), NEW b \in DOMAIN h, ~IsContainer(h[b]), NEW m, NEW x \in Values
  PROVE  LET g == WithCell(h, b, m, x) IN
         /\ g \in Seq(Objects) /\ DOMAIN g = DOMAIN h
         /\ \A k \in DOMAIN h : k # b => g[k] = h[k]
         /\ g[b].kind = h[b].kind /\ g[b].id = h[b].id /\ g[b].sz = h[b].sz
         /\ Len(g[b].vals) = Len(h[b].vals) /\ DOMAIN g[b].vals = DOMAIN h[b].vals
         /\ \A c \in DOMAIN h[b].vals : g[b].vals[c] = IF c = m THEN x ELSE h[b].vals[c]
<1> DEFINE g == WithCell(h, b, m, x)
           o == h[b]
           w == [o.vals EXCEPT ![m] = x]
           p == [o EXCEPT !.vals = w]
<1>1. o \in Flat
  BY DEF Objects, Boxed, IsContainer
<1>2. o.vals \in Seq(Values)
  BY <1>1 DEF Flat
<1>3. w \in Seq(Values) /\ Len(w) = Len(o.vals) /\ DOMAIN w = DOMAIN o.vals
      /\ \A c \in DOMAIN o.vals : w[c] = IF c = m THEN x ELSE o.vals[c]
  BY <1>2, ElementWritten
<1> HIDE DEF w
<1>4. p \in Flat /\ p.kind = o.kind /\ p.id = o.id /\ p.sz = o.sz /\ p.vals = w
  BY <1>1, <1>3 DEF Flat
<1>5. g = [h EXCEPT ![b] = p]
  BY DEF w, WithCell
<1> HIDE DEF g, p, o
<1>6. p \in Objects
  BY <1>4 DEF Objects
<1>7. g \in Seq(Objects) /\ DOMAIN g = DOMAIN h /\ g[b] = p /\ \A k \in DOMAIN h : k # b => g[k] = h[k]
  BY <1>5, <1>6
<1> QED BY <1>3, <1>4, <1>7 DEF o, g

\* The objects with the size of a container written.
LEMMA SizeWritten ==
  ASSUME NEW h \in Seq(Objects), NEW a \in DOMAIN h, IsContainer(h[a]), NEW x \in Nat
  PROVE  LET g == WithSize(h, a, x) IN
         /\ g \in Seq(Objects) /\ DOMAIN g = DOMAIN h
         /\ \A k \in DOMAIN h : k # a => g[k] = h[k]
         /\ g[a].kind = h[a].kind /\ g[a].id = h[a].id /\ g[a].sz = h[a].sz
         /\ g[a].cap = h[a].cap /\ g[a].buff = h[a].buff /\ g[a].n = x
<1> DEFINE g == WithSize(h, a, x)
           o == h[a]
           p == [o EXCEPT !.n = x]
<1>1. o \in Boxed
  BY DEF Objects, Flat, IsContainer
<1>2. p \in Boxed /\ p.kind = o.kind /\ p.id = o.id /\ p.sz = o.sz /\ p.cap = o.cap /\ p.buff = o.buff /\ p.n = x
  BY <1>1 DEF Boxed
<1>3. g = [h EXCEPT ![a] = p]
  BY DEF WithSize
<1> HIDE DEF g, p, o
<1>4. p \in Objects
  BY <1>2 DEF Objects
<1>5. g \in Seq(Objects) /\ DOMAIN g = DOMAIN h /\ g[a] = p /\ \A k \in DOMAIN h : k # a => g[k] = h[k]
  BY <1>3, <1>4
<1> QED BY <1>2, <1>5 DEF o, g

\* A step of the program that changes objects in place.
LEMMA Rewritten ==
  ASSUME Settled, Running, Quiet, UNCHANGED msbox,
         cur' \in Seq(Objects), DOMAIN cur' = DOMAIN cur,
         \A k \in DOMAIN cur : cur'[k].id = cur[k].id /\ cur'[k].kind = cur[k].kind,
         \A k \in DOMAIN cur : IsContainer(cur[k]) =>
           /\ cur'[k].buff = cur[k].buff /\ cur'[k].cap = cur[k].cap
           /\ cur'[k].n <= cur[k].cap
           /\ \A c \in 1 .. Elements(cur'[k]) : Plain(cur'[cur[k].buff.at].vals[c], cur),
         \A k \in DOMAIN cur : cur[k].kind = "fixed" => Len(cur'[k].vals) = Len(cur[k].vals),
         \A k \in DOMAIN cur : cur[k].kind = "tuple" =>
           \A c \in DOMAIN cur'[k].vals : Plain(cur'[k].vals[c], cur),
         stack' \in Seq(Values),
         \A i \in DOMAIN stack' : Plain(stack'[i], cur)
  PROVE  Settled'
<1>1. \A v : Plain(v, cur) => Plain(v, cur')
  BY PlainStays
<1>2. Typed'
  BY TypedStays DEF Settled, Typed, Quiet
<1>3. Numbered'
  BY DEF Settled, Numbered, Quiet
<1>4. \A k \in DOMAIN cur : IsContainer(cur'[k]) <=> IsContainer(cur[k])
  BY DEF IsContainer
<1>5. OwnBlocks'
  BY <1>4 DEF Settled, OwnBlocks, Block
<1>6. TuplesPlain'
  BY <1>1 DEF TuplesPlain
<1>7. RootsQuiet'
  BY <1>1 DEF Settled, RootsQuiet
<1>8. CellsQuiet'
  BY <1>1, <1>4 DEF CellsQuiet, Block
<1>9. RequestQuiet'
  BY DEF Settled, Typed, Running, Quiet, RequestQuiet, NoReq
<1> QED BY <1>2, <1>3, <1>5, <1>6, <1>7, <1>8, <1>9 DEF Settled

\* A step of the program that writes a plain value into a cell.
LEMMA CellSettled ==
  ASSUME Settled, Running, Quiet, UNCHANGED msbox,
         NEW b \in DOMAIN cur, ~IsContainer(cur[b]), NEW m, NEW x \in Values, Plain(x, cur),
         cur' = WithCell(cur, b, m, x),
         stack' \in Seq(Values), \A i \in DOMAIN stack' : Plain(stack'[i], cur)
  PROVE  Settled'
<1>1. cur \in Seq(Objects)
  BY DEF Settled, Typed
<1>2. /\ cur' \in Seq(Objects) /\ DOMAIN cur' = DOMAIN cur
      /\ \A k \in DOMAIN cur : k # b => cur'[k] = cur[k]
      /\ cur'[b].kind = cur[b].kind /\ cur'[b].id = cur[b].id
      /\ Len(cur'[b].vals) = Len(cur[b].vals) /\ DOMAIN cur'[b].vals = DOMAIN cur[b].vals
      /\ \A c \in DOMAIN cur[b].vals : cur'[b].vals[c] = IF c = m THEN x ELSE cur[b].vals[c]
  BY <1>1, CellWritten
<1>3. \A k \in DOMAIN cur : cur'[k].id = cur[k].id /\ cur'[k].kind = cur[k].kind
  BY <1>2
<1>4. ASSUME NEW k \in DOMAIN cur, IsContainer(cur[k])
      PROVE  /\ cur'[k] = cur[k] /\ cur[k].n <= cur[k].cap
             /\ \A c \in 1 .. Elements(cur[k]) : Plain(cur'[cur[k].buff.at].vals[c], cur)
  <2>1. k # b /\ cur'[k] = cur[k]
    BY <1>2, <1>4
  <2>2. cur[k].n <= cur[k].cap /\ cur[k].buff.at \in DOMAIN cur
        /\ Width(cur[k].kind) * cur[k].cap <= Len(Block(k).vals) /\ Block(k).kind = "fixed"
    BY <1>4 DEF Settled, OwnBlocks
  <2>3. ASSUME NEW c \in 1 .. Elements(cur[k]) PROVE Plain(cur'[cur[k].buff.at].vals[c], cur)
    <3>1. Plain(Block(k).vals[c], cur)
      BY <1>4 DEF Settled, CellsQuiet
    <3>2. Block(k).vals \in Seq(Values)
      <4>1. Block(k) \in Objects /\ ~IsContainer(Block(k))
        BY <1>1, <2>2 DEF Block, IsContainer
      <4> QED BY <4>1, ObjectFields
    <3>3. c \in DOMAIN Block(k).vals
      BY <1>1, <1>4, <2>2, <3>2, Measures
    <3>4. CASE cur[k].buff.at = b
      <4>1. cur'[b].vals[c] \in {x, Block(k).vals[c]}
        BY <1>2, <3>3, <3>4 DEF Block
      <4> QED BY <3>1, <3>4, <4>1
    <3>5. CASE cur[k].buff.at # b
      BY <1>2, <2>2, <3>1, <3>5 DEF Block
    <3> QED BY <3>4, <3>5
  <2> QED BY <2>1, <2>2, <2>3
<1>5. \A k \in DOMAIN cur : cur[k].kind = "fixed" => Len(cur'[k].vals) = Len(cur[k].vals)
  BY <1>2
<1>6. ASSUME NEW k \in DOMAIN cur, cur[k].kind = "tuple", NEW c \in DOMAIN cur'[k].vals
      PROVE  Plain(cur'[k].vals[c], cur)
  <2>1. c \in DOMAIN cur[k].vals /\ cur'[k].vals[c] \in {x, cur[k].vals[c]}
    BY <1>2, <1>6
  <2> QED BY <1>6, <2>1 DEF Settled, TuplesPlain
<1> QED BY <1>2, <1>3, <1>4, <1>5, <1>6, Rewritten

\* The stack with a good value on top.
LEMMA StackPushed ==
  ASSUME Settled, NEW v \in Values, Plain(v, cur), stack' = Append(stack, v)
  PROVE  stack' \in Seq(Values) /\ \A i \in DOMAIN stack' : Plain(stack'[i], cur)
<1>1. stack \in Seq(Values)
  BY StackTyped
<1>2. stack' \in Seq(Values) /\ \A i \in DOMAIN stack' : stack'[i] = v \/ (i \in DOMAIN stack /\ stack'[i] = stack[i])
  BY <1>1
<1> QED BY <1>2, StackTyped

\* aarray_set, atuple_set, atable_set.
LEMMA SetSettled ==
  ASSUME Settled, NEW i \in DOMAIN stack, NEW j \in DOMAIN stack, Set(i, j) PROVE Settled'
<1>1. PICK c \in Cells(i) : cur' = WithCell(cur, c[1], c[2], stack[j])
  BY DEF Set, WithCell
<1>2. stack[j] \in Values /\ Plain(stack[j], cur) /\ Nil \in Values /\ Plain(Nil, cur)
  BY StackTyped, NilPlain
<1>3. c[1] \in DOMAIN cur /\ ~IsContainer(cur[c[1]])
  <2>1. stack[i].at \in DOMAIN cur
    BY ContainerFields DEF Cells, IsA
  <2> QED BY <2>1, CellsArePlain DEF Cells, IsA, At, IsContainer, Settled, OwnBlocks, Block
<1>4. stack' \in Seq(Values) /\ \A k \in DOMAIN stack' : Plain(stack'[k], cur)
  BY <1>2, StackPushed DEF Set
<1> QED BY <1>1, <1>2, <1>3, <1>4, CellSettled DEF Set

\* The block of a container on the stack.
LEMMA BlockFields ==
  ASSUME Settled, NEW i \in DOMAIN stack, stack[i].at # 0, IsContainer(At(i))
  PROVE  /\ At(i).buff.at \in DOMAIN cur /\ cur[At(i).buff.at].kind = "fixed"
         /\ ~IsContainer(cur[At(i).buff.at])
         /\ cur[At(i).buff.at].vals \in Seq(Values)
         /\ Width(At(i).kind) * At(i).cap <= Len(cur[At(i).buff.at].vals)
         /\ At(i).buff.at # stack[i].at
<1>1. stack[i].at \in DOMAIN cur /\ cur \in Seq(Objects)
  BY ContainerFields DEF Settled, Typed
<1>2. /\ At(i).buff.at \in DOMAIN cur /\ cur[At(i).buff.at].kind = "fixed"
      /\ Width(At(i).kind) * At(i).cap <= Len(cur[At(i).buff.at].vals)
  BY <1>1 DEF Settled, OwnBlocks, At, Block
<1>3. ~IsContainer(cur[At(i).buff.at])
  BY <1>2 DEF IsContainer
<1>4. cur[At(i).buff.at] \in Objects
  BY <1>1, <1>2
<1> QED BY <1>2, <1>3, <1>4, ObjectFields DEF At

\* array_push into the capacity that is left.
LEMMA PushInPlaceSettled ==
  ASSUME Settled, NEW i \in DOMAIN stack, NEW j \in DOMAIN stack, PushInPlace(i, j) PROVE Settled'
<1>1. stack[j] \in Values /\ Plain(stack[j], cur) /\ Nil \in Values /\ Plain(Nil, cur)
  BY StackTyped, NilPlain
<1>2. stack[i].at # 0 /\ IsContainer(At(i))
  BY DEF PushInPlace, IsA, IsContainer
<1>3. At(i).buff.at \in DOMAIN cur /\ ~IsContainer(cur[At(i).buff.at])
  BY <1>2, BlockFields
<1>4. stack' \in Seq(Values) /\ \A k \in DOMAIN stack' : Plain(stack'[k], cur)
  BY <1>1, StackPushed DEF PushInPlace
<1>5. cur' = WithCell(cur, At(i).buff.at, At(i).n + 1, stack[j])
  BY DEF PushInPlace, WithCell
<1> QED BY <1>1, <1>3, <1>4, <1>5, CellSettled DEF PushInPlace

\* atable_set of a new key into the capacity that is left.
LEMMA PutInPlaceSettled ==
  ASSUME Settled, NEW i \in DOMAIN stack, NEW k \in DOMAIN stack, NEW j \in DOMAIN stack,
         PutInPlace(i, k, j)
  PROVE  Settled'
<1> DEFINE a == stack[i].at
           b == At(i).buff.at
           n == At(i).n
           g == WithSize(cur, a, n + 1)
           h == WithCell(g, b, 2 * n + 1, stack[k])
<1>1. stack[k] \in Values /\ Plain(stack[k], cur) /\ stack[j] \in Values /\ Plain(stack[j], cur)
      /\ Nil \in Values /\ Plain(Nil, cur)
  BY StackTyped, NilPlain
<1>2. a # 0 /\ IsContainer(At(i)) /\ At(i).kind = "table" /\ n < At(i).cap
  BY DEF PutInPlace, IsA, IsContainer
<1>3. a \in DOMAIN cur /\ n \in Nat /\ At(i).cap \in Nat /\ cur \in Seq(Objects) /\ cur[a] = At(i)
  BY <1>2, ContainerFields DEF Settled, Typed, At
<1>4. /\ b \in DOMAIN cur /\ cur[b].kind = "fixed" /\ ~IsContainer(cur[b])
      /\ cur[b].vals \in Seq(Values) /\ a # b
      /\ Width(At(i).kind) * At(i).cap <= Len(cur[b].vals)
  BY <1>2, BlockFields
<1>5. cur' = WithCell(h, b, 2 * n + 2, stack[j])
  BY DEF PutInPlace, At, WithCell, WithSize
<1>6. /\ g \in Seq(Objects) /\ DOMAIN g = DOMAIN cur
      /\ \A l \in DOMAIN cur : l # a => g[l] = cur[l]
      /\ g[a].kind = cur[a].kind /\ g[a].id = cur[a].id
      /\ g[a].cap = cur[a].cap /\ g[a].buff = cur[a].buff /\ g[a].n = n + 1
  BY <1>2, <1>3, SizeWritten
<1> HIDE DEF g
<1>7. /\ h \in Seq(Objects) /\ DOMAIN h = DOMAIN g
      /\ \A l \in DOMAIN g : l # b => h[l] = g[l]
      /\ h[b].kind = g[b].kind /\ h[b].id = g[b].id
      /\ Len(h[b].vals) = Len(g[b].vals) /\ DOMAIN h[b].vals = DOMAIN g[b].vals
      /\ \A c \in DOMAIN g[b].vals : h[b].vals[c] = IF c = 2 * n + 1 THEN stack[k] ELSE g[b].vals[c]
  <2>1. ~IsContainer(g[b]) /\ b \in DOMAIN g
    BY <1>3, <1>4, <1>6
  <2> QED BY <1>1, <1>6, <2>1, CellWritten
<1> HIDE DEF h
<1>8. ~IsContainer(h[b]) /\ b \in DOMAIN h
  BY <1>4, <1>6, <1>7 DEF IsContainer
<1>9. /\ cur' \in Seq(Objects) /\ DOMAIN cur' = DOMAIN h
      /\ \A l \in DOMAIN h : l # b => cur'[l] = h[l]
      /\ cur'[b].kind = h[b].kind /\ cur'[b].id = h[b].id
      /\ Len(cur'[b].vals) = Len(h[b].vals) /\ DOMAIN cur'[b].vals = DOMAIN h[b].vals
      /\ \A c \in DOMAIN h[b].vals : cur'[b].vals[c] = IF c = 2 * n + 2 THEN stack[j] ELSE h[b].vals[c]
  BY <1>1, <1>5, <1>7, <1>8, CellWritten
<1> HIDE DEF a, b, n
<1>10. /\ DOMAIN cur' = DOMAIN cur
       /\ \A l \in DOMAIN cur : l # a /\ l # b => cur'[l] = cur[l]
       /\ cur'[a].kind = cur[a].kind /\ cur'[a].id = cur[a].id
       /\ cur'[a].cap = cur[a].cap /\ cur'[a].buff = cur[a].buff /\ cur'[a].n = n + 1
       /\ cur'[b].kind = cur[b].kind /\ cur'[b].id = cur[b].id
       /\ Len(cur'[b].vals) = Len(cur[b].vals)
       /\ \A c \in DOMAIN cur[b].vals : cur'[b].vals[c] \in {stack[j], stack[k], cur[b].vals[c]}
       /\ cur'[b].vals[2 * n + 1] \in {stack[j], stack[k], cur[b].vals[2 * n + 1]}
  <2>1. g[b] = cur[b] /\ h[a] = g[a] /\ cur'[a] = h[a]
    BY <1>3, <1>4, <1>6, <1>7, <1>9
  <2>2. 2 * n + 1 \in DOMAIN cur[b].vals
    BY <1>2, <1>3, <1>4 DEF Width
  <2>3. \A c \in DOMAIN cur[b].vals : cur'[b].vals[c] \in {stack[j], stack[k], cur[b].vals[c]}
    BY <1>7, <1>9, <2>1
  <2> QED BY <1>6, <1>7, <1>9, <2>1, <2>2, <2>3
<1>11. \A l \in DOMAIN cur : cur'[l].id = cur[l].id /\ cur'[l].kind = cur[l].kind
  BY <1>10
<1>12. ASSUME NEW l \in DOMAIN cur, IsContainer(cur[l])
       PROVE  /\ cur'[l].buff = cur[l].buff /\ cur'[l].cap = cur[l].cap
              /\ cur'[l].n <= cur[l].cap
              /\ \A c \in 1 .. Elements(cur'[l]) : Plain(cur'[cur[l].buff.at].vals[c], cur)
  <2>1. l # b
    BY <1>4, <1>12
  <2>2. CASE l # a
    <3>1. cur'[l] = cur[l] /\ cur[l].buff.at \in DOMAIN cur /\ cur[l].n <= cur[l].cap
      BY <1>10, <1>12, <2>1, <2>2 DEF Settled, OwnBlocks
    <3>2. cur[l].buff.at # b
      BY <1>2, <1>3, <1>12, <2>2 DEF Settled, OwnBlocks, b
    <3>3. cur[l].buff.at # a
      BY <1>2, <1>3, <1>12 DEF Settled, OwnBlocks, Block, IsContainer
    <3>4. cur'[cur[l].buff.at] = cur[cur[l].buff.at]
      BY <1>10, <3>1, <3>2, <3>3
    <3> QED BY <1>12, <3>1, <3>4 DEF Settled, CellsQuiet, Block
  <2>3. CASE l = a
    <3>1. cur[l].buff.at = b /\ cur'[l].n = n + 1 /\ cur'[l].kind = "table" /\ n + 1 <= cur[l].cap
      BY <1>2, <1>3, <1>10, <2>3 DEF b
    <3>2. Elements(cur'[l]) = 2 * n + 2 /\ Elements(cur[l]) = 2 * n
      BY <1>2, <1>3, <3>1, <2>3 DEF Elements, Width, n
    <3>3. ASSUME NEW c \in 1 .. 2 * n + 2 PROVE Plain(cur'[b].vals[c], cur)
      <4>1. c \in DOMAIN cur[b].vals
        BY <1>2, <1>3, <1>4 DEF Width
      <4>2. CASE c <= 2 * n
        <5>1. Plain(cur[b].vals[c], cur)
          BY <1>3, <1>12, <2>3, <3>1, <3>2, <4>2 DEF Settled, CellsQuiet, Block
        <5> QED BY <1>1, <1>10, <4>1, <5>1
      <4>3. CASE c = 2 * n + 1
        BY <1>1, <1>3, <1>6, <1>7, <1>9, <1>4, <4>1, <4>3
      <4>4. CASE c = 2 * n + 2
        BY <1>1, <1>6, <1>7, <1>9, <1>4, <4>1, <4>4
      <4> QED BY <1>3, <4>2, <4>3, <4>4
    <3> QED BY <1>10, <2>3, <3>1, <3>2, <3>3
  <2> QED BY <2>2, <2>3
<1>13. \A l \in DOMAIN cur : cur[l].kind = "fixed" => Len(cur'[l].vals) = Len(cur[l].vals)
  BY <1>2, <1>3, <1>10
<1>14. \A l \in DOMAIN cur : cur[l].kind = "tuple" =>
         \A c \in DOMAIN cur'[l].vals : Plain(cur'[l].vals[c], cur)
  BY <1>2, <1>3, <1>4, <1>10 DEF Settled, TuplesPlain
<1>15. stack' \in Seq(Values) /\ \A l \in DOMAIN stack' : Plain(stack'[l], cur)
  BY <1>1, StackPushed DEF PutInPlace
<1> QED BY <1>9, <1>10, <1>11, <1>12, <1>13, <1>14, <1>15, Rewritten DEF PutInPlace

\* Resizing within the capacity: the cells that become elements are nil.
LEMMA ResizeSettled ==
  ASSUME Settled, NEW i \in DOMAIN stack, NEW sz \in Counts, Resize(i, sz) PROVE Settled'
<1> DEFINE a == stack[i].at
           b == At(i).buff.at
           o == At(i)
           g == WithSize(cur, a, sz)
           w == [k \in DOMAIN g[b].vals |-> IF k > o.n /\ k <= sz THEN Nil ELSE g[b].vals[k]]
<1>1. a # 0 /\ IsContainer(o) /\ o.kind # "table" /\ sz <= o.cap /\ sz \in Nat
  BY ContainersAre, ContainerFields, HeapAssumption DEF Resize
<1>2. a \in DOMAIN cur /\ o.n \in Nat /\ o.cap \in Nat /\ cur \in Seq(Objects) /\ cur[a] = o
  BY <1>1, ContainerFields DEF Settled, Typed, At
<1>3. /\ b \in DOMAIN cur /\ cur[b].kind = "fixed" /\ ~IsContainer(cur[b])
      /\ cur[b].vals \in Seq(Values) /\ a # b
      /\ Width(o.kind) * o.cap <= Len(cur[b].vals)
  BY <1>1, BlockFields
<1>4. /\ g \in Seq(Objects) /\ DOMAIN g = DOMAIN cur
      /\ \A l \in DOMAIN cur : l # a => g[l] = cur[l]
      /\ g[a].kind = cur[a].kind /\ g[a].id = cur[a].id
      /\ g[a].cap = cur[a].cap /\ g[a].buff = cur[a].buff /\ g[a].n = sz
  BY <1>1, <1>2, SizeWritten
<1>5. cur' = IF o.kind = "buffer" THEN g ELSE [g EXCEPT ![b] = [g[b] EXCEPT !.vals = w]]
  BY DEF Resize, WithSize
<1> HIDE DEF g
<1>6. g[b] = cur[b] /\ g[b] \in Flat
  <2>1. g[b] = cur[b] /\ cur[b] \in Objects
    BY <1>2, <1>3, <1>4
  <2> QED BY <1>3, <2>1 DEF Objects, Boxed, IsContainer
<1>7. w \in Seq(Values) /\ Len(w) = Len(cur[b].vals)
      /\ \A c \in DOMAIN cur[b].vals : w[c] = IF c > o.n /\ c <= sz THEN Nil ELSE cur[b].vals[c]
  BY <1>3, <1>6, NilPlain
<1> HIDE DEF w
<1>8. [g[b] EXCEPT !.vals = w] \in Flat
      /\ [g[b] EXCEPT !.vals = w].kind = cur[b].kind
      /\ [g[b] EXCEPT !.vals = w].id = cur[b].id
      /\ [g[b] EXCEPT !.vals = w].vals = w
  BY <1>6, <1>7 DEF Flat
<1> DEFINE p == [g[b] EXCEPT !.vals = w]
<1> HIDE DEF p, a, b, o
<1>9. /\ cur' \in Seq(Objects) /\ DOMAIN cur' = DOMAIN cur
      /\ \A l \in DOMAIN cur : l # a /\ l # b => cur'[l] = cur[l]
      /\ cur'[a] = g[a]
      /\ cur'[b].kind = cur[b].kind /\ cur'[b].id = cur[b].id
      /\ IF o.kind = "buffer" THEN cur'[b] = cur[b] ELSE cur'[b].vals = w
  <2>1. CASE o.kind = "buffer"
    BY <1>2, <1>3, <1>4, <1>5, <1>6, <2>1
  <2>2. CASE o.kind # "buffer"
    <3>1. cur' = [g EXCEPT ![b] = p] /\ p \in Objects
      BY <1>5, <1>8, <2>2 DEF p, Objects
    <3>2. cur'[b] = p /\ cur'[b].kind = cur[b].kind /\ cur'[b].id = cur[b].id /\ cur'[b].vals = w
      BY <1>3, <1>4, <1>8, <3>1 DEF p
    <3> QED BY <1>2, <1>3, <1>4, <2>2, <3>1, <3>2
  <2> QED BY <2>1, <2>2
<1>10. \A l \in DOMAIN cur : cur'[l].id = cur[l].id /\ cur'[l].kind = cur[l].kind
  BY <1>4, <1>9
<1>11. ASSUME NEW l \in DOMAIN cur, IsContainer(cur[l])
       PROVE  /\ cur'[l].buff = cur[l].buff /\ cur'[l].cap = cur[l].cap
              /\ cur'[l].n <= cur[l].cap
              /\ \A c \in 1 .. Elements(cur'[l]) : Plain(cur'[cur[l].buff.at].vals[c], cur)
  <2>1. l # b
    BY <1>3, <1>11
  <2>2. CASE l # a
    <3>1. cur'[l] = cur[l] /\ cur[l].buff.at \in DOMAIN cur /\ cur[l].n <= cur[l].cap
      BY <1>9, <1>11, <2>1, <2>2 DEF Settled, OwnBlocks
    <3>2. cur[l].buff.at # b
      BY <1>1, <1>2, <1>11, <2>2 DEF Settled, OwnBlocks, b, o
    <3>3. cur[l].buff.at # a
      BY <1>1, <1>2, <1>11 DEF Settled, OwnBlocks, Block, IsContainer
    <3>4. cur'[cur[l].buff.at] = cur[cur[l].buff.at]
      BY <1>9, <3>1, <3>2, <3>3
    <3> QED BY <1>11, <3>1, <3>4 DEF Settled, CellsQuiet, Block
  <2>3. CASE l = a
    <3>1. cur[l].buff.at = b /\ cur'[l].n = sz /\ cur'[l].kind = o.kind /\ cur'[l].buff = cur[l].buff
          /\ cur'[l].cap = cur[l].cap /\ sz <= cur[l].cap
      BY <1>1, <1>2, <1>4, <1>9, <2>3 DEF b, o
    <3>2. CASE o.kind = "buffer"
      <4>1. Elements(cur'[l]) = 0
        BY <1>1, <3>1, <3>2 DEF Elements, Width
      <4> QED BY <3>1, <4>1
    <3>3. CASE o.kind = "array"
      <4>1. Elements(cur'[l]) = sz /\ Elements(cur[l]) = o.n /\ o.cap <= Len(cur[b].vals)
        BY <1>1, <1>2, <1>3, <2>3, <3>1, <3>3 DEF Elements, Width
      <4>2. ASSUME NEW c \in 1 .. sz PROVE Plain(cur'[b].vals[c], cur)
        <5>1. c \in DOMAIN cur[b].vals /\ cur'[b].vals[c] = IF c > o.n /\ c <= sz THEN Nil ELSE cur[b].vals[c]
          BY <1>1, <1>2, <1>3, <1>7, <1>9, <3>3, <4>1
        <5>2. CASE c > o.n
          BY <5>1, <5>2, NilPlain
        <5>3. CASE c <= o.n
          BY <1>2, <1>11, <2>3, <3>1, <4>1, <5>1, <5>3 DEF Settled, CellsQuiet, Block
        <5> QED BY <1>2, <5>2, <5>3
      <4> QED BY <3>1, <4>1, <4>2
    <3> QED BY <1>1, <3>2, <3>3 DEF IsContainer
  <2> QED BY <2>2, <2>3
<1>12. \A l \in DOMAIN cur : cur[l].kind = "fixed" => Len(cur'[l].vals) = Len(cur[l].vals)
  BY <1>1, <1>2, <1>7, <1>9 DEF IsContainer
<1>13. \A l \in DOMAIN cur : cur[l].kind = "tuple" =>
         \A c \in DOMAIN cur'[l].vals : Plain(cur'[l].vals[c], cur)
  BY <1>1, <1>2, <1>3, <1>9 DEF Settled, TuplesPlain, IsContainer
<1> QED BY <1>9, <1>10, <1>11, <1>12, <1>13, StackTyped, Rewritten DEF Resize

\* Every step of the program that allocates nothing keeps the invariant.
LEMMA MutationSettled == Settled /\ Mutation => Settled'
<1> SUFFICES ASSUME Settled, Mutation PROVE Settled'
  OBVIOUS
<1>1. CASE Pop
  BY <1>1, PopSettled
<1>2. CASE \E k \in DOMAIN msbox : Receive(k) \/ RemoveMessage(k)
  BY <1>2, ReceiveSettled, RemoveMessageSettled
<1>3. CASE \E i \in DOMAIN stack : PushIndex(i) \/ Get(i) \/ \E n \in Counts : Resize(i, n)
  BY <1>3, PushIndexSettled, GetSettled, ResizeSettled
<1>4. CASE \E i, j \in DOMAIN stack :
             Set(i, j) \/ PushInPlace(i, j) \/ \E k \in DOMAIN stack : PutInPlace(i, k, j)
  BY <1>4, SetSettled, PushInPlaceSettled, PutInPlaceSettled
<1> QED BY <1>1, <1>2, <1>3, <1>4 DEF Mutation

-----------------------------------------------------------------------------
\* Allocations.
LEMMA NewObjects ==
  ASSUME NEW id \in Ids, NEW n \in Nat
  PROVE  /\ String(id, n) \in Flat /\ String(id, n).kind = "string"
         /\ String(id, n).id = id
         /\ TupleSz + n * ValueSz \in Nat
         /\ Tuple(id, n) \in Flat /\ Tuple(id, n).kind = "tuple" /\ Tuple(id, n).id = id
         /\ \A c \in DOMAIN Tuple(id, n).vals : Tuple(id, n).vals[c] = Nil
<1>1. TupleSz + n * ValueSz \in Nat
  BY SizesAssumption
<1>2. ObjectSz(n) \in Words /\ ObjectSz(TupleSz + n * ValueSz) \in Words
  BY <1>1, ObjectSzNat
<1>3. [k \in 1 .. n |-> Nil] \in Seq(Values) /\ <<>> \in Seq(Values)
  BY NilPlain
<1> QED BY <1>1, <1>2, <1>3 DEF String, Tuple, Flat

\* A sequence with an element appended.
LEMMA Appended ==
  ASSUME NEW S, NEW s \in Seq(S), NEW x \in S
  PROVE  /\ Append(s, x) \in Seq(S) /\ Len(s) \in Nat /\ Len(Append(s, x)) = Len(s) + 1
         /\ DOMAIN s = 1 .. Len(s) /\ DOMAIN Append(s, x) = 1 .. Len(s) + 1
         /\ \A k \in DOMAIN s : k \in DOMAIN Append(s, x) /\ Append(s, x)[k] = s[k]
         /\ Len(s) + 1 \in DOMAIN Append(s, x) /\ Len(s) + 1 \notin DOMAIN s
         /\ Append(s, x)[Len(s) + 1] = x
         /\ \A k \in DOMAIN Append(s, x) : k \in DOMAIN s \/ k = Len(s) + 1
OBVIOUS

\* A sequence with two elements appended.
LEMMA AppendedTwo ==
  ASSUME NEW S, NEW s \in Seq(S), NEW x \in S, NEW y \in S, NEW t, t = s \o <<x, y>>
  PROVE  /\ t \in Seq(S) /\ Len(s) \in Nat /\ DOMAIN t = 1 .. Len(s) + 2
         /\ \A k \in DOMAIN s : k \in DOMAIN t /\ t[k] = s[k]
         /\ Len(s) + 1 \in DOMAIN t /\ Len(s) + 1 \notin DOMAIN s /\ t[Len(s) + 1] = x
         /\ Len(s) + 1 + 1 \in DOMAIN t /\ Len(s) + 1 + 1 \notin DOMAIN s /\ t[Len(s) + 1 + 1] = y
         /\ \A k \in DOMAIN t : k \in DOMAIN s \/ k = Len(s) + 1 \/ k = Len(s) + 1 + 1
<1> DEFINE u == <<x, y>>
<1>1. u \in Seq(S) /\ Len(u) = 2 /\ u[1] = x /\ u[2] = y
  OBVIOUS
<1>2. t = s \o u
  OBVIOUS
<1> HIDE DEF u
<1>3. t \in Seq(S) /\ Len(t) = Len(s) + 2 /\ Len(s) \in Nat /\ DOMAIN s = 1 .. Len(s) /\ DOMAIN t = 1 .. Len(s) + 2
  BY <1>1, <1>2
<1>4. \A k \in 1 .. Len(s) : t[k] = s[k]
  BY <1>1, <1>2, <1>3
<1>5. t[Len(s) + 1] = u[1] /\ t[Len(s) + 1 + 1] = u[2]
  BY <1>1, <1>2, <1>3
<1> QED BY <1>1, <1>3, <1>4, <1>5

\* What an unwritten cell holds is a value, of no object.
LEMMA JunkValue == Junk \in Values
BY DEF Junk, Values

\* A sequence of n copies of x.
LEMMA Filled ==
  ASSUME NEW S, NEW n \in Nat, NEW x \in S
  PROVE  [k \in 1 .. n |-> x] \in Seq(S) /\ Len([k \in 1 .. n |-> x]) = n
OBVIOUS

\* What all allocations leave behind.
LEMMA AllocatedTyped ==
  ASSUME Settled, phase = "alloc", Allocated, made' \in Nat, cur' \in Seq(Objects), stack' \in Seq(Values),
         msbox' \in Seq(Values)
  PROVE  Typed' /\ RequestQuiet'
<1>1. req' = NoReq /\ phase' = "run" /\ NoReq \in Asked
  BY DEF Allocated, Asked
<1>2. Typed'
  BY <1>1 DEF Settled, Typed, Allocated, gc, Phases, Collecting
<1>3. RequestQuiet'
  BY <1>1 DEF RequestQuiet, NoReq
<1> QED BY <1>2, <1>3

\* A string or a tuple of nils.
LEMMA FlatAllocated ==
  ASSUME Settled, phase = "alloc", Allocated, NEW o \in Flat, o.kind # "fixed", o.id = made + 1,
         o.kind = "tuple" => \A c \in DOMAIN o.vals : o.vals[c] = Nil,
         cur' = Append(cur, o), made' = made + 1,
         \/ stack' = Append(stack, Ref(next, made + 1)) /\ msbox' = msbox
         \/ msbox' = Append(msbox, Ref(next, made + 1)) /\ stack' = stack
  PROVE  Settled'
<1> DEFINE r == Ref(next, made + 1)
<1>1. cur \in Seq(Objects) /\ stack \in Seq(Values) /\ msbox \in Seq(Values) /\ made \in Nat
  BY DEF Settled, Typed
<1>2. o \in Objects /\ ~IsContainer(o)
  BY DEF Objects, Flat, IsContainer
<1>3. /\ cur' \in Seq(Objects) /\ next \in Nat /\ next \in DOMAIN cur' /\ next \notin DOMAIN cur
      /\ cur'[next] = o
      /\ \A k \in DOMAIN cur : k \in DOMAIN cur' /\ cur'[k] = cur[k]
      /\ \A k \in DOMAIN cur' : k \in DOMAIN cur \/ k = next
  BY <1>1, <1>2, Appended DEF next
<1> HIDE DEF next
<1>4. r \in Values /\ Plain(r, cur') /\ made' \in Nat
  BY <1>1, <1>3 DEF Ref, Values, Plain
<1> HIDE DEF r
<1>5. \A v : Plain(v, cur) => Plain(v, cur')
  BY <1>3, PlainStays
<1>6. /\ stack' \in Seq(Values) /\ \A i \in DOMAIN stack' : stack'[i] = r \/ (i \in DOMAIN stack /\ stack'[i] = stack[i])
      /\ msbox' \in Seq(Values) /\ \A i \in DOMAIN msbox' : msbox'[i] = r \/ (i \in DOMAIN msbox /\ msbox'[i] = msbox[i])
  <2>1. CASE stack' = Append(stack, r) /\ msbox' = msbox
    BY <1>1, <1>4, <2>1
  <2>2. CASE msbox' = Append(msbox, r) /\ stack' = stack
    BY <1>1, <1>4, <2>2
  <2> QED BY <2>1, <2>2 DEF r
<1>7. RootsQuiet'
  BY <1>4, <1>5, <1>6 DEF Settled, RootsQuiet
<1>8. Numbered'
  <2>1. \A k \in DOMAIN cur : cur[k].id \in Nat
    BY <1>1, ObjectFields
  <2> QED BY <1>1, <1>3, <2>1 DEF Settled, Numbered
<1>9. OwnBlocks'
  BY <1>2, <1>3 DEF Settled, OwnBlocks, Block
<1>10. TuplesPlain'
  BY <1>3, <1>5, NilPlain DEF Settled, TuplesPlain
<1>11. CellsQuiet'
  BY <1>2, <1>3, <1>5 DEF Settled, CellsQuiet, OwnBlocks, Block
<1>12. Typed' /\ RequestQuiet'
  BY <1>3, <1>4, <1>6, AllocatedTyped
<1> QED BY <1>7, <1>8, <1>9, <1>10, <1>11, <1>12 DEF Settled

\* A string is made, for the stack or the mailbox.
LEMMA AllocStringSettled == Settled /\ AllocString => Settled'
<1> SUFFICES ASSUME Settled, AllocString PROVE Settled'
  OBVIOUS
<1>1. req.more \in Nat /\ made + 1 \in Ids
  BY DEF Settled, Typed, AllocString, Asked, NoReq, Ids
<1> DEFINE o == String(made + 1, req.more)
<1>2. o \in Flat /\ o.kind = "string" /\ o.id = made + 1
  BY <1>1, NewObjects
<1>3. cur' = Append(cur, o) /\ made' = made + 1 /\ Allocated /\ phase = "alloc"
      /\ \/ stack' = Append(stack, Ref(next, made + 1)) /\ msbox' = msbox
         \/ msbox' = Append(msbox, Ref(next, made + 1)) /\ stack' = stack
  BY DEF AllocString
<1> HIDE DEF o
<1> QED BY <1>2, <1>3, FlatAllocated

\* A tuple is made, its elements nil.
LEMMA AllocTupleSettled == Settled /\ AllocTuple => Settled'
<1> SUFFICES ASSUME Settled, AllocTuple PROVE Settled'
  OBVIOUS
<1>1. req.size \in Nat /\ made + 1 \in Ids
  BY DEF Settled, Typed, AllocTuple, Asked, NoReq, Ids
<1> DEFINE o == Tuple(made + 1, req.size)
<1>2. o \in Flat /\ o.kind = "tuple" /\ o.id = made + 1 /\ \A c \in DOMAIN o.vals : o.vals[c] = Nil
  BY <1>1, NewObjects
<1>3. cur' = Append(cur, o) /\ made' = made + 1 /\ Allocated /\ phase = "alloc"
      /\ stack' = Append(stack, Ref(next, made + 1)) /\ msbox' = msbox
  BY DEF AllocTuple
<1> HIDE DEF o
<1> QED BY <1>2, <1>3, FlatAllocated

\* A container and its block are made at once.
LEMMA AllocContainerSettled == Settled /\ AllocContainer => Settled'
<1> SUFFICES ASSUME Settled, AllocContainer PROVE Settled'
  OBVIOUS
<1> DEFINE kind == req.kind
           cap == req.cap
           bytes == BlockSz(kind, cap)
           o == Container(kind, made + 1, cap, Ref(next + 1, made + 2))
           f == Fixed(made + 2, bytes, Blank(kind, cap))
           r == Ref(next, made + 1)
<1>1. kind \in {"array", "buffer", "table"} /\ cap \in Nat
  BY DEF Settled, Typed, AllocContainer, Asked, NoReq
<1>2. cur \in Seq(Objects) /\ stack \in Seq(Values) /\ msbox \in Seq(Values) /\ made \in Nat
  BY DEF Settled, Typed
<1>3. next \in Nat /\ next = Len(cur) + 1
  BY <1>2 DEF next
<1>4. /\ o \in Objects /\ IsContainer(o) /\ o.kind = kind /\ o.id = made + 1
      /\ o.n = 0 /\ o.cap = cap
      /\ o.buff.at = next + 1 /\ o.buff.id = made + 2
  <2>1. ObjectSz(ArraySz) \in Words
    BY ArrayIsWords, ObjectSzNat
  <2>2. Ref(next + 1, made + 2) \in Values
    BY <1>2, <1>3 DEF Ref, Values
  <2>3. o \in Boxed
    BY <1>1, <1>2, <2>1, <2>2 DEF Container, Boxed, Ids
  <2> QED BY <1>1, <2>3 DEF Container, Objects, IsContainer, Ref
<1>5. /\ f \in Objects /\ ~IsContainer(f) /\ f.kind = "fixed" /\ f.id = made + 2
      /\ Len(f.vals) = Width(kind) * cap
  <2>1. ObjectSz(bytes) \in Words
    BY <1>1, BlockSzNat, ObjectSzNat
  <2>2. Width(kind) * cap \in Nat
    BY <1>1 DEF Width
  <2>3. Blank(kind, cap) \in Seq(Values) /\ Len(Blank(kind, cap)) = Width(kind) * cap
    BY <2>2, Filled, JunkValue DEF Blank
  <2>4. f \in Flat
    BY <1>2, <2>1, <2>3 DEF Fixed, Flat, Ids
  <2> QED BY <2>3, <2>4 DEF Fixed, Objects, IsContainer
<1>6. cur' = cur \o <<o, f>> /\ made' = made + 2 /\ Allocated /\ phase = "alloc" /\ stack' = Append(stack, r) /\ msbox' = msbox
  BY DEF AllocContainer
<1> HIDE DEF o, f, bytes, kind, cap
<1>7. /\ cur' \in Seq(Objects)
      /\ next \in DOMAIN cur' /\ next \notin DOMAIN cur /\ cur'[next] = o
      /\ next + 1 \in DOMAIN cur' /\ next + 1 \notin DOMAIN cur /\ cur'[next + 1] = f
      /\ \A k \in DOMAIN cur : k \in DOMAIN cur' /\ cur'[k] = cur[k]
      /\ \A k \in DOMAIN cur' : k \in DOMAIN cur \/ k = next \/ k = next + 1
  <2>1. cur \in Seq(Objects) /\ o \in Objects /\ f \in Objects /\ cur' = cur \o <<o, f>>
    BY <1>2, <1>4, <1>5, <1>6
  <2>2. /\ cur' \in Seq(Objects)
        /\ \A k \in DOMAIN cur : k \in DOMAIN cur' /\ cur'[k] = cur[k]
        /\ Len(cur) + 1 \in DOMAIN cur' /\ Len(cur) + 1 \notin DOMAIN cur
        /\ cur'[Len(cur) + 1] = o
        /\ Len(cur) + 1 + 1 \in DOMAIN cur' /\ Len(cur) + 1 + 1 \notin DOMAIN cur
        /\ cur'[Len(cur) + 1 + 1] = f
        /\ \A k \in DOMAIN cur' : k \in DOMAIN cur \/ k = Len(cur) + 1 \/ k = Len(cur) + 1 + 1
    BY ONLY <2>1, AppendedTwo
  <2> QED BY <1>3, <2>2
<1>8. r \in Values /\ Plain(r, cur') /\ made' \in Nat
  BY <1>2, <1>3, <1>4, <1>6, <1>7 DEF Ref, Values, Plain, IsContainer
<1> HIDE DEF r
<1>9. \A v : Plain(v, cur) => Plain(v, cur')
  BY <1>7, PlainStays
<1>10. stack' \in Seq(Values) /\ \A i \in DOMAIN stack' : stack'[i] = r \/ (i \in DOMAIN stack /\ stack'[i] = stack[i])
  BY <1>2, <1>6, <1>8
<1>11. RootsQuiet'
  BY <1>6, <1>8, <1>9, <1>10 DEF Settled, RootsQuiet
<1>12. Numbered'
  <2>1. \A k \in DOMAIN cur : cur[k].id \in Nat
    BY <1>2, ObjectFields
  <2>2. \A k \in DOMAIN cur : cur[k].id <= made /\ cur'[k] = cur[k]
    BY <1>7 DEF Settled, Numbered
  <2>3. cur'[next].id = made + 1 /\ cur'[next + 1].id = made + 2
    BY <1>4, <1>5, <1>7
  <2>4. ASSUME NEW k \in DOMAIN cur' PROVE cur'[k].id <= made + 2
    <3>1. CASE k \in DOMAIN cur
      <4>1. cur[k].id \in Nat /\ cur[k].id <= made /\ cur'[k] = cur[k] /\ made \in Nat
        BY <1>2, <2>1, <2>2, <3>1
      <4> QED BY ONLY <4>1
    <3>2. CASE k \in {next, next + 1}
      <4>1. cur'[k].id \in {made + 1, made + 2} /\ made \in Nat
        BY <1>2, <2>3, <3>2
      <4> QED BY ONLY <4>1
    <3> QED BY <1>7, <3>1, <3>2 DEF next
  <2>5. ASSUME NEW k \in DOMAIN cur', NEW l \in DOMAIN cur', cur'[k].id = cur'[l].id PROVE k = l
    <3>1. CASE k \in DOMAIN cur /\ l \in DOMAIN cur
      BY <2>2, <2>5, <3>1 DEF Settled, Numbered
    <3>2. \A x, y \in DOMAIN cur' : x \in DOMAIN cur /\ y \notin DOMAIN cur => cur'[x].id # cur'[y].id
      <4>1. ASSUME NEW x \in DOMAIN cur', NEW y \in DOMAIN cur', x \in DOMAIN cur, y \notin DOMAIN cur
            PROVE  cur'[x].id # cur'[y].id
        <5>1. cur'[x].id \in Nat /\ cur'[x].id <= made
          BY <2>1, <2>2, <4>1
        <5>2. cur'[y].id \in {made + 1, made + 2}
          BY <1>7, <2>3, <4>1
        <5> QED BY <1>2, <5>1, <5>2
      <4> QED BY <4>1
    <3>3. CASE k \notin DOMAIN cur /\ l \notin DOMAIN cur
      <4>1. k \in {next, next + 1} /\ l \in {next, next + 1}
        BY <1>7, <3>3
      <4> QED BY <1>2, <2>3, <2>5, <4>1
    <3> QED BY <2>5, <3>1, <3>2, <3>3
  <2> QED BY <1>6, <2>4, <2>5 DEF Numbered
<1>13. OwnBlocks'
  <2>1. \A k \in DOMAIN cur : IsContainer(cur[k]) => cur[k].buff.at \in DOMAIN cur
    BY DEF Settled, OwnBlocks
  <2>2. Width(kind) * cap <= Len(f.vals) /\ 0 <= cap
    BY <1>1, <1>5 DEF Width
  <2>3. ASSUME NEW k \in DOMAIN cur', IsContainer(cur'[k]), k \in DOMAIN cur
        PROVE  /\ cur'[k].n <= cur'[k].cap
               /\ cur'[k].buff.at \in DOMAIN cur'
               /\ Block(k)'.kind = "fixed" /\ Block(k)'.id = cur'[k].buff.id
               /\ Width(cur'[k].kind) * cur'[k].cap <= Len(Block(k)'.vals)
               /\ \A l \in DOMAIN cur' :
                    IsContainer(cur'[l]) /\ cur'[l].buff.at = cur'[k].buff.at => l = k
    BY <1>4, <1>5, <1>7, <2>1, <2>3 DEF Settled, OwnBlocks, Block
  <2>4. ASSUME NEW k \in DOMAIN cur', IsContainer(cur'[k]), k = next
        PROVE  /\ cur'[k].n <= cur'[k].cap
               /\ cur'[k].buff.at \in DOMAIN cur'
               /\ Block(k)'.kind = "fixed" /\ Block(k)'.id = cur'[k].buff.id
               /\ Width(cur'[k].kind) * cur'[k].cap <= Len(Block(k)'.vals)
               /\ \A l \in DOMAIN cur' :
                    IsContainer(cur'[l]) /\ cur'[l].buff.at = cur'[k].buff.at => l = k
    BY <1>4, <1>5, <1>7, <2>1, <2>2, <2>4 DEF Block
  <2> QED BY <1>5, <1>7, <2>3, <2>4 DEF OwnBlocks
<1>14. TuplesPlain'
  BY <1>4, <1>5, <1>7, <1>9 DEF Settled, TuplesPlain, IsContainer
<1>15. CellsQuiet'
  <2>1. Elements(o) = 0
    BY <1>1, <1>4 DEF Elements, Width
  <2> QED BY <1>4, <1>5, <1>7, <1>9, <2>1 DEF Settled, CellsQuiet, OwnBlocks, Block
<1>16. Typed' /\ RequestQuiet'
  BY <1>2, <1>6, <1>7, <1>8, <1>10, AllocatedTyped
<1> QED BY <1>11, <1>12, <1>13, <1>14, <1>15, <1>16 DEF Settled

\* A larger count takes more cells.
LEMMA Products ==
  ASSUME NEW w \in Nat, NEW x \in Nat, NEW y \in Nat, x <= y
  PROVE  w * x \in Nat /\ w * y \in Nat /\ w * x <= w * y
OBVIOUS

\* set_capacity: the elements are moved to a block of their own, larger or smaller.
LEMMA AllocCapacitySettled == Settled /\ AllocCapacity => Settled'
<1> SUFFICES ASSUME Settled, AllocCapacity PROVE Settled'
  OBVIOUS
<1> DEFINE a == stack[req.i].at
           o == At(req.i)
           wd == Width(o.kind)
           nils == IF o.kind = "array" THEN req.size ELSE 0
           filled == Refilled(cur[o.buff.at].vals, Copied(o), nils, wd * req.cap)
           new == [k \in DOMAIN filled |->
                    IF k - wd * o.n \in DOMAIN req.src THEN stack[req.src[k - wd * o.n]]
                    ELSE filled[k]]
           f == Fixed(made + 1, req.more, new)
           p == [o EXCEPT !.cap = req.cap, !.n = req.size, !.buff = Ref(next, made + 1)]
           g == [cur EXCEPT ![a] = p]
<1>1. /\ req.op = "capacity" /\ phase = "alloc" /\ Allocated /\ made' = made + 1 /\ msbox' = msbox
      /\ cur' = Append(g, f)
      /\ stack' = IF req.src = <<>> THEN stack ELSE Append(stack, Nil)
  <2>1. /\ req.op = "capacity" /\ phase = "alloc" /\ Allocated /\ made' = made + 1 /\ msbox' = msbox
        /\ stack' = IF req.src = <<>> THEN stack ELSE Append(stack, Nil)
    BY DEF AllocCapacity
  <2>2. cur' = Append([cur EXCEPT ![a] = [cur[a] EXCEPT !.cap = req.cap, !.n = req.size,
                                            !.buff = Ref(next, made + 1)]], f)
    BY DEF AllocCapacity
  <2>3. cur[a] = o
    BY DEF At
  <2> QED BY <2>1, <2>2, <2>3
<1> HIDE DEF g, p, f
<1>2. cur \in Seq(Objects) /\ stack \in Seq(Values) /\ msbox \in Seq(Values) /\ made \in Nat
  BY DEF Settled, Typed
<1>3. req.cap \in Nat /\ req.size \in Nat /\ req.more \in Nat /\ req.src \in Seq(Nat)
  BY <1>1 DEF Settled, Typed, Asked, NoReq
<1>4. /\ req.i \in DOMAIN stack /\ stack[req.i] # Nil
      /\ \A x \in DOMAIN req.src : req.src[x] \in DOMAIN stack
      /\ IsContainer(o) /\ req.size <= req.cap
      /\ o.kind = "table" => 2 * req.size = 2 * o.n + Len(req.src)
  BY <1>1 DEF Settled, RequestQuiet, Suits, At
<1>5. a # 0
  BY <1>4, StackTyped DEF Plain, Settled, Typed
<1>6. a \in DOMAIN cur /\ o \in Objects /\ o.n \in Nat /\ o.cap \in Nat /\ o.n <= o.cap /\ cur[a] = o
  BY <1>4, <1>5, ContainerFields DEF At
<1>7. /\ o.buff.at \in DOMAIN cur /\ cur[o.buff.at].vals \in Seq(Values)
      /\ wd * o.cap <= Len(cur[o.buff.at].vals) /\ o.buff.at # a
  BY <1>4, <1>5, BlockFields
<1>8. wd \in 0 .. 2 /\ wd * o.n \in Nat /\ wd * o.n <= Len(cur[o.buff.at].vals) /\ wd * req.cap \in Nat
      /\ wd * req.size \in Nat /\ wd * req.size <= wd * req.cap
      /\ Copied(o) = wd * o.n /\ Elements(o) = wd * o.n
  <2>1. wd \in {0, 1, 2}
    BY DEF Width
  <2>2. Copied(o) = wd * o.n /\ Elements(o) = wd * o.n
    BY DEF Copied, Elements
  <2> HIDE DEF wd
  <2> DEFINE len == Len(cur[o.buff.at].vals)
  <2>3. len \in Nat /\ wd * o.cap <= len
    BY <1>7
  <2> HIDE DEF len, o
  <2>4. wd * o.n \in Nat /\ wd * o.n <= len /\ wd * req.cap \in Nat
        /\ wd * req.size \in Nat /\ wd * req.size <= wd * req.cap
    <3>0. wd \in Nat
      BY <2>1
    <3>1. wd * o.n \in Nat /\ wd * o.cap \in Nat /\ wd * o.n <= wd * o.cap
      BY <1>6, <3>0, Products
    <3>2. wd * req.size \in Nat /\ wd * req.cap \in Nat /\ wd * req.size <= wd * req.cap
      BY <1>3, <1>4, <3>0, Products
    <3>3. wd * o.n <= len
      BY <2>3, <3>1
    <3> QED BY <3>1, <3>2, <3>3
  <2> QED BY <2>1, <2>2, <2>4 DEF len
<1>nils. nils \in Nat
  BY <1>3
<1> HIDE DEF nils
<1>9. /\ filled \in Seq(Values) /\ Len(filled) = wd * req.cap
      /\ \A c \in 1 .. wd * req.cap : filled[c] =
           IF c <= wd * o.n THEN cur[o.buff.at].vals[c] ELSE IF c <= nils THEN Nil ELSE Junk
  <2>1. wd * o.n \in Nat /\ wd * req.cap \in Nat /\ wd * o.n <= Len(cur[o.buff.at].vals)
        /\ cur[o.buff.at].vals \in Seq(Values) /\ nils \in Int
    BY <1>7, <1>8, <1>nils
  <2>2. filled = Refilled(cur[o.buff.at].vals, wd * o.n, nils, wd * req.cap)
    BY <1>8
  <2> DEFINE j == wd * o.n
             m == wd * req.cap
             old == cur[o.buff.at].vals
  <2>3. j \in Nat /\ m \in Nat /\ nils \in Int /\ j <= Len(old) /\ old \in Seq(Values) /\ filled = Refilled(old, j, nils, m)
    BY <2>1, <2>2
  <2> HIDE DEF filled, wd, o, j, m, old
  <2>4. /\ filled \in Seq(Values) /\ Len(filled) = m
        /\ \A c \in 1 .. m : filled[c] = IF c <= j THEN old[c] ELSE IF c <= nils THEN Nil ELSE Junk
    BY ONLY <2>3, NilPlain, JunkValue DEF Refilled
  <2> QED BY <2>4 DEF j, m, old
<1> HIDE DEF filled
<1>10. /\ new \in Seq(Values) /\ Len(new) = wd * req.cap
       /\ \A c \in 1 .. wd * req.cap : new[c] =
            IF c - wd * o.n \in DOMAIN req.src THEN stack[req.src[c - wd * o.n]] ELSE filled[c]
  <2>1. DOMAIN filled = 1 .. wd * req.cap /\ wd * req.cap \in Nat
    BY <1>8, <1>9
  <2>2. \A x \in DOMAIN req.src : stack[req.src[x]] \in Values
    BY <1>2, <1>4
  <2>3. \A c \in DOMAIN filled : filled[c] \in Values
    BY <1>9
  <2> HIDE DEF filled, wd, o
  <2>4. new \in [1 .. wd * req.cap -> Values]
    BY <2>1, <2>2, <2>3
  <2>5. new \in Seq(Values) /\ Len(new) = wd * req.cap
    BY <2>1, <2>4
  <2> QED BY <2>1, <2>5
<1> HIDE DEF new
<1>11. ASSUME NEW c \in 1 .. wd * req.size PROVE Plain(new[c], cur)
  <2>1. c \in 1 .. wd * req.cap
    BY <1>8
  <2>2. CASE c - wd * o.n \in DOMAIN req.src
    BY <1>4, <1>10, <2>1, <2>2, StackTyped
  <2>3. CASE c - wd * o.n \notin DOMAIN req.src
    <3>1. new[c] = filled[c]
      BY <1>10, <2>1, <2>3
    <3>2. CASE c <= wd * o.n
      <4>1. Plain(cur[o.buff.at].vals[c], cur)
        BY <1>4, <1>6, <1>8, <3>2 DEF Settled, CellsQuiet, Block
      <4> QED BY <1>9, <2>1, <3>1, <3>2, <4>1
    <3>3. CASE c > wd * o.n /\ o.kind = "table"
      <4>1. wd = 2
        BY <3>3 DEF Width
      <4>2. c - 2 * o.n \in 1 .. Len(req.src)
        BY <1>3, <1>4, <1>6, <3>3, <4>1
      <4> QED BY <1>3, <2>3, <4>1, <4>2
    <3>4. CASE c > wd * o.n /\ o.kind = "array"
      <4>1. c <= nils
        BY <1>3, <3>4 DEF Width, nils
      <4> QED BY <1>8, <1>9, <2>1, <3>1, <3>4, <4>1, NilPlain
    <3>5. o.kind # "buffer"
      BY <1>3 DEF Width
    <3> QED BY <1>4, <1>8, <3>2, <3>3, <3>4, <3>5 DEF IsContainer
  <2> QED BY <2>2, <2>3
<1>12. /\ f \in Objects /\ ~IsContainer(f) /\ f.kind = "fixed" /\ f.id = made + 1 /\ f.vals = new
  <2>1. ObjectSz(req.more) \in Words
    BY <1>3, ObjectSzNat
  <2> QED BY <1>2, <1>10, <2>1 DEF Fixed, Flat, Ids, Objects, IsContainer, f
<1>13. next \in Nat /\ next = Len(cur) + 1
  BY <1>2 DEF next
<1>14. /\ p \in Objects /\ p.kind = o.kind /\ p.id = o.id /\ p.cap = req.cap /\ p.n = req.size
       /\ p.buff.at = next /\ p.buff.id = made + 1 /\ IsContainer(p)
  <2>1. o \in Boxed
    BY <1>4, <1>6 DEF Objects, Flat, IsContainer
  <2>2. Ref(next, made + 1) \in Values
    BY <1>2, <1>13 DEF Ref, Values
  <2>3. p \in Boxed /\ p.kind = o.kind /\ p.id = o.id /\ p.cap = req.cap /\ p.n = req.size
        /\ p.buff = Ref(next, made + 1)
    BY <1>3, <2>1, <2>2 DEF Boxed, p
  <2> QED BY <1>4, <2>3 DEF Objects, IsContainer, Ref
<1>15. /\ g \in Seq(Objects) /\ Len(g) = Len(cur) /\ DOMAIN g = DOMAIN cur /\ g[a] = p
       /\ \A k \in DOMAIN cur : k # a => g[k] = cur[k]
  BY <1>2, <1>6, <1>14 DEF g
<1>16. /\ cur' \in Seq(Objects)
       /\ next \in DOMAIN cur' /\ next \notin DOMAIN cur /\ cur'[next] = f
       /\ \A k \in DOMAIN cur : k \in DOMAIN cur' /\ cur'[k] = g[k]
       /\ \A k \in DOMAIN cur' : k \in DOMAIN cur \/ k = next
  BY <1>1, <1>2, <1>12, <1>13, <1>15, Appended
<1> HIDE DEF a, o, wd
<1>17. cur'[a] = p /\ \A k \in DOMAIN cur : k # a => cur'[k] = cur[k]
  BY <1>6, <1>15, <1>16
<1>18. \A k \in DOMAIN cur : cur'[k].id = cur[k].id /\ cur'[k].kind = cur[k].kind
  BY <1>6, <1>14, <1>17
<1>19. \A v : Plain(v, cur) => Plain(v, cur')
  BY <1>16, <1>18, PlainStays
<1>20. stack' \in Seq(Values) /\ \A i \in DOMAIN stack' : stack'[i] = Nil \/ (i \in DOMAIN stack /\ stack'[i] = stack[i])
  BY <1>1, <1>2, NilPlain
<1>21. RootsQuiet'
  BY <1>1, <1>19, <1>20, NilPlain DEF Settled, RootsQuiet
<1>22. Numbered'
  <2>1. \A k \in DOMAIN cur : cur[k].id \in Nat /\ cur[k].id <= made /\ cur'[k].id = cur[k].id
    BY <1>2, <1>18, ObjectFields DEF Settled, Numbered
  <2>2. cur'[next].id = made + 1
    BY <1>12, <1>16
  <2>3. \A k \in DOMAIN cur' : cur'[k].id <= made + 1
    BY <1>2, <1>16, <2>1, <2>2
  <2>4. \A x \in DOMAIN cur : cur'[x].id # cur'[next].id
    BY <1>2, <2>1, <2>2
  <2>5. \A k, l \in DOMAIN cur' : cur'[k].id = cur'[l].id => k = l
    BY <1>16, <1>18, <2>4 DEF Settled, Numbered
  <2> QED BY <1>1, <2>3, <2>5 DEF Numbered
<1>23. ASSUME NEW k \in DOMAIN cur', IsContainer(cur'[k])
       PROVE  k \in DOMAIN cur /\ IsContainer(cur[k]) /\ (k # a => cur'[k] = cur[k])
              /\ (k # a => cur[k].buff.at \in DOMAIN cur /\ cur[k].buff.at # a
                          /\ cur'[cur[k].buff.at] = cur[cur[k].buff.at])
  <2>1. k \in DOMAIN cur
    BY <1>12, <1>16, <1>23
  <2>2. IsContainer(cur[k])
    BY <1>18, <1>23, <2>1 DEF IsContainer
  <2>3. ASSUME k # a
        PROVE cur[k].buff.at \in DOMAIN cur /\ cur[k].buff.at # a
    BY <1>4, <1>6, <2>1, <2>2 DEF Settled, OwnBlocks, Block, IsContainer
  <2> QED BY <1>17, <2>1, <2>2, <2>3
<1>24. OwnBlocks'
  <2>1. ASSUME NEW k \in DOMAIN cur', IsContainer(cur'[k]), k # a
        PROVE  /\ cur'[k].n <= cur'[k].cap
               /\ cur'[k].buff.at \in DOMAIN cur
               /\ Block(k)'.kind = "fixed" /\ Block(k)'.id = cur'[k].buff.id
               /\ Width(cur'[k].kind) * cur'[k].cap <= Len(Block(k)'.vals)
               /\ \A l \in DOMAIN cur' :
                    IsContainer(cur'[l]) /\ l # a /\ cur'[l].buff.at = cur'[k].buff.at => l = k
    BY <1>23, <2>1 DEF Settled, OwnBlocks, Block
  <2>2. /\ cur'[a].n <= cur'[a].cap /\ cur'[a].buff.at = next
        /\ cur'[next].kind = "fixed" /\ cur'[next].id = cur'[a].buff.id
        /\ Width(cur'[a].kind) * cur'[a].cap <= Len(cur'[next].vals)
    <3>1. cur'[next] = f /\ cur'[a] = p
      BY <1>16, <1>17
    <3>2. Width(p.kind) * p.cap = wd * req.cap /\ wd * req.cap \in Nat
      BY <1>8, <1>14 DEF wd
    <3> QED BY <1>4, <1>10, <1>12, <1>14, <3>1, <3>2
  <2>3. ASSUME NEW k \in DOMAIN cur', IsContainer(cur'[k])
        PROVE  /\ cur'[k].n <= cur'[k].cap
               /\ cur'[k].buff.at \in DOMAIN cur'
               /\ Block(k)'.kind = "fixed" /\ Block(k)'.id = cur'[k].buff.id
               /\ Width(cur'[k].kind) * cur'[k].cap <= Len(Block(k)'.vals)
               /\ \A l \in DOMAIN cur' :
                    IsContainer(cur'[l]) /\ cur'[l].buff.at = cur'[k].buff.at => l = k
    <3>1. CASE k # a
      BY <1>16, <2>1, <2>2, <2>3, <3>1
    <3>2. CASE k = a
      <4>1. Block(k)' = cur'[cur'[k].buff.at]
        BY DEF Block
      <4>2. Block(k)' = cur'[next]
        BY <2>2, <3>2, <4>1
      <4>3. \A l \in DOMAIN cur' : IsContainer(cur'[l]) /\ l # a => cur'[l].buff.at \in DOMAIN cur
        BY <2>1
      <4> QED BY <1>16, <2>2, <3>2, <4>2, <4>3
    <3> QED BY <3>1, <3>2
  <2> QED BY <2>3 DEF OwnBlocks
<1>25. TuplesPlain'
  <2>1. ASSUME NEW k \in DOMAIN cur', cur'[k].kind = "tuple" PROVE k \in DOMAIN cur /\ cur'[k] = cur[k]
    BY <1>4, <1>6, <1>12, <1>14, <1>16, <1>17, <2>1 DEF IsContainer
  <2> QED BY <1>19, <2>1 DEF Settled, TuplesPlain
<1>26. CellsQuiet'
  <2>1. ASSUME NEW k \in DOMAIN cur', IsContainer(cur'[k]), NEW c \in 1 .. Elements(cur'[k])
        PROVE  Plain(Block(k)'.vals[c], cur')
    <3>1. CASE k # a
      BY <1>19, <1>23, <2>1, <3>1 DEF Settled, CellsQuiet, Block
    <3>2. CASE k = a
      <4>1. Block(k)' = f /\ cur'[k] = p
        <5>1. Block(k)' = cur'[cur'[k].buff.at]
          BY DEF Block
        <5> QED BY <1>14, <1>16, <1>17, <3>2, <5>1
      <4>2. Elements(cur'[k]) = wd * req.size
        BY <1>14, <3>2, <4>1 DEF Elements, wd
      <4> QED BY <1>11, <1>12, <1>19, <2>1, <3>2, <4>1, <4>2
    <3> QED BY <3>1, <3>2
  <2> QED BY <2>1 DEF CellsQuiet
<1>27. Typed' /\ RequestQuiet'
  BY <1>1, <1>2, <1>16, <1>20, AllocatedTyped
<1> QED BY <1>21, <1>22, <1>24, <1>25, <1>26, <1>27 DEF Settled

\* Every step of an allocation keeps the invariant.
LEMMA AllocationSettled == Settled /\ Allocation => Settled'
BY CheckSettled, ReserveSettled, ReserveFailsSettled, AllocStringSettled, AllocTupleSettled,
   AllocContainerSettled, AllocCapacitySettled DEF Allocation

\* Outside a collection one half holds everything before and after the step.
LEMMA QuietStep ==
  ASSUME IInv, Requests \/ Allocation \/ Mutation
  PROVE  IInv'
<1>1. ~Collecting /\ ~Collecting'
  <2>1. CASE Requests
    BY <2>1 DEF Requests, AskString, AskMessage, AskMessageToSelf, AskContainer, AskTuple, AskShrink,
                AskReserve, AskResize, AskPush, AskPut, AskCapacity, Ask, Running, Collecting
  <2>2. CASE Allocation
    BY <2>2 DEF Allocation, Check, Reserve, ReserveFails, AllocString, AllocTuple, AllocContainer,
                AllocCapacity, Allocated, Collecting
  <2>3. CASE Mutation
    BY <2>3 DEF Mutation, Pop, Receive, RemoveMessage, PushIndex, Get, Resize, Set, PushInPlace,
                PutInPlace, Running, Quiet, Collecting
  <2> QED BY <2>1, <2>2, <2>3
<1>2. Settled
  BY <1>1, InvSettled
<1>3. Settled'
  BY <1>2, RequestsSettled, AllocationSettled, MutationSettled
<1> QED BY <1>1, <1>3, InvSettledNext

-----------------------------------------------------------------------------
\* The collection begins.
LEMMA CollectKeeps == IInv /\ Collect => IInv'
<1> SUFFICES ASSUME IInv, Collect PROVE IInv'
  OBVIOUS
<1>1. ~Collecting /\ phase' = "roots" /\ Collecting'
  BY DEF Collect, Running, Collecting
<1>2. Settled
  BY <1>1, InvSettled
<1>3. /\ UNCHANGED <<cur, stack, msbox, made, req>>
      /\ to' = <<>> /\ fwd' = [k \in DOMAIN cur |-> 0] /\ pos' = 1 /\ scan' = 1 /\ child' = 1
  BY DEF Collect, mutator
<1>4. cur \in Seq(Objects) /\ stack \in Seq(Values) /\ msbox \in Seq(Values)
  BY <1>2 DEF Settled, Typed
<1>5. Typed'
  BY <1>1, <1>2, <1>3 DEF Settled, Typed, Phases, Collecting
<1>6. Numbered' /\ OwnBlocks' /\ TuplesPlain'
  BY <1>2, <1>3 DEF Settled, Numbered, OwnBlocks, TuplesPlain, Block, Plain
<1>7. \A r \in Nat \ {0} : RootHalf(r)' = cur
  BY <1>1, <1>3 DEF RootHalf, Half
<1>8. RootsPlain'
  <2>1. ASSUME NEW r \in DOMAIN Roots PROVE Plain(Roots[r], cur) /\ r \in Nat \ {0}
    BY <1>2, <1>4, <2>1 DEF Settled, RootsQuiet, Roots
  <2>2. Roots' = Roots
    BY <1>3 DEF Roots
  <2> QED BY <1>7, <2>1, <2>2 DEF RootsPlain
<1>9. \A k \in DOMAIN cur : \A c : CellHalf(k, c)' = cur
  BY <1>3 DEF CellHalf, Half
<1>10. CellsPlain'
  BY <1>2, <1>3, <1>9 DEF Settled, CellsQuiet, CellsPlain, Block
<1>11. RequestSuits'
  <2>1. \A i \in DOMAIN stack : i \in Nat \ {0}
    BY <1>4
  <2> QED BY <1>2, <1>3, <1>7, <2>1 DEF Settled, RequestQuiet, RequestSuits, Suits
<1>12. Forwards'
  <2>1. Len(<<>>) = 0 /\ DOMAIN <<>> = {}
    OBVIOUS
  <2>2. \A k \in DOMAIN cur : fwd'[k] = 0
    BY <1>3
  <2>3. fwd' \in [DOMAIN cur -> 0 .. 0]
    BY <1>3
  <2> QED BY <1>3, <2>1, <2>2, <2>3 DEF Forwards
<1>13. CopiedTuples'
  BY <1>3 DEF CopiedTuples
<1>14. CopiedContainers'
  BY <1>2, <1>3 DEF CopiedContainers, BlockMoved, Settled, OwnBlocks
<1>15. CopiedBlocks' /\ Progress'
  BY <1>1, <1>3 DEF CopiedBlocks, Progress
<1> QED BY <1>5, <1>6, <1>8, <1>10, <1>11, <1>12, <1>13, <1>14, <1>15 DEF IInv, Copying

-----------------------------------------------------------------------------
\* Copying.
LEMMA CopySelf == ASSUME NEW o PROVE Copy(o, o)
BY DEF Copy

\* The original is a copy of its copy.
LEMMA CopyBack == ASSUME NEW o, NEW p, Copy(o, p) PROVE Copy(p, o)
BY DEF Copy, IsContainer

\* A copy of a copy is a copy.
LEMMA CopyChain == ASSUME NEW o, NEW p, NEW q, Copy(o, p), Copy(p, q) PROVE Copy(o, q)
BY DEF Copy, IsContainer

\* Two objects are not forwarded to one place.
LEMMA ForwardsApart ==
  ASSUME Numbered, Forwards, NEW k \in DOMAIN cur, NEW l \in DOMAIN cur, fwd[k] = fwd[l], fwd[k] # 0
  PROVE  k = l
BY DEF Numbered, Forwards, Copy

\* An object is forwarded to one of the new half.
LEMMA ForwardsInto ==
  ASSUME Forwards, to \in Seq(Objects), NEW k \in DOMAIN cur, fwd[k] # 0
  PROVE  fwd[k] \in DOMAIN to
BY DEF Forwards

\* What copy(v) does when t is the new half with the cell of v updated.
MovedOn(v, t) ==
  /\ to' \in Seq(Objects) /\ fwd' \in [DOMAIN cur -> 0 .. Len(to')]
  /\ \A s \in DOMAIN to : s \in DOMAIN to' /\ to'[s] = t[s]
  /\ \A k \in DOMAIN cur : k # v.at => fwd'[k] = fwd[k]
  /\ \A k \in DOMAIN cur : fwd[k] # 0 => fwd'[k] = fwd[k] /\ fwd[k] \in DOMAIN to
  /\ v.at # 0 => fwd'[v.at] \in DOMAIN to' /\ fwd'[v.at] # 0
  /\ \A k \in DOMAIN cur : fwd[k] = 0 /\ fwd'[k] # 0 =>
       k = v.at /\ fwd'[k] = Len(to) + 1 /\ fwd'[k] \in DOMAIN to' /\ to'[Len(to) + 1] = cur[k]
  /\ \A s \in DOMAIN to' : s \notin DOMAIN to =>
       /\ s = Len(to) + 1 /\ v.at \in DOMAIN cur
       /\ fwd[v.at] = 0 /\ fwd'[v.at] = s /\ to'[s] = cur[v.at]
  /\ Forwarded(v) \in Values /\ Forwarded(v).id = v.id
  /\ Forwarded(v).at = IF v.at = 0 THEN 0 ELSE fwd'[v.at]

\* copy() does what MovedOn says.
LEMMA CopyMoves ==
  ASSUME Forwards, cur \in Seq(Objects), to \in Seq(Objects),
         NEW v \in Values, v.at # 0 => v.at \in DOMAIN cur,
         NEW t \in Seq(Objects), Len(t) = Len(to),
         copy(v), to' = Moved(v, t)
  PROVE  MovedOn(v, t)
<1> DEFINE s == Len(to) + 1
<1>1. /\ fwd \in [DOMAIN cur -> 0 .. Len(to)] /\ Len(to) \in Nat /\ s \in Nat
      /\ DOMAIN to = 1 .. Len(to) /\ DOMAIN t = 1 .. Len(to) /\ 0 \notin DOMAIN cur
      /\ s \notin DOMAIN to
  BY DEF Forwards
<1>2. v.at \in Nat /\ v.id \in Int
  BY DEF Values
<1>3. CASE Moves(v)
  <2>1. v.at # 0 /\ v.at \in DOMAIN cur /\ fwd[v.at] = 0 /\ cur[v.at] \in Objects
    BY <1>3 DEF Moves
  <2>2. fwd' = [fwd EXCEPT ![v.at] = s] /\ to' = Append(t, cur[v.at])
    BY <1>3 DEF copy, Moved
  <2>3. /\ to' \in Seq(Objects) /\ Len(to') = s /\ DOMAIN to' = 1 .. s /\ to'[s] = cur[v.at]
        /\ \A x \in 1 .. Len(to) : to'[x] = t[x]
    BY <1>1, <2>1, <2>2
  <2>4. fwd' \in [DOMAIN cur -> 0 .. s] /\ fwd'[v.at] = s
        /\ \A k \in DOMAIN cur : k # v.at => fwd'[k] = fwd[k]
    BY <1>1, <2>1, <2>2
  <2>5. Forwarded(v) = [v EXCEPT !.at = s]
    BY <2>1 DEF Forwarded
  <2>6. Forwarded(v) \in Values /\ Forwarded(v).id = v.id /\ Forwarded(v).at = s
    BY <1>1, <2>5 DEF Values
  <2>7. \A x \in DOMAIN to' : x \notin DOMAIN to => x = s
    BY <1>1, <2>3
  <2>8. s # 0 /\ s \in DOMAIN to'
    BY <1>1, <2>3
  <2>9. \A k \in DOMAIN cur : fwd[k] # 0 => fwd'[k] = fwd[k] /\ fwd[k] \in DOMAIN to
    BY <1>1, <2>1, <2>4
  <2> HIDE DEF s
  <2>10. \A x \in DOMAIN to : x \in DOMAIN to' /\ to'[x] = t[x]
    BY <1>1, <2>3 DEF s
  <2>11. \A k \in DOMAIN cur : fwd[k] = 0 /\ fwd'[k] # 0 =>
           k = v.at /\ fwd'[k] = s /\ fwd'[k] \in DOMAIN to' /\ to'[s] = cur[k]
    BY <2>3, <2>4, <2>8
  <2>12. v.at # 0 => fwd'[v.at] \in DOMAIN to' /\ fwd'[v.at] # 0
    BY <2>4, <2>8
  <2>13. \A x \in DOMAIN to' : x \notin DOMAIN to =>
           /\ x = s /\ v.at \in DOMAIN cur
           /\ fwd[v.at] = 0 /\ fwd'[v.at] = x /\ to'[x] = cur[v.at]
    BY <2>1, <2>3, <2>4, <2>7
  <2>14. Forwarded(v).at = IF v.at = 0 THEN 0 ELSE fwd'[v.at]
    BY <2>1, <2>4, <2>6
  <2>15. to' \in Seq(Objects) /\ fwd' \in [DOMAIN cur -> 0 .. Len(to')]
    BY <2>3, <2>4
  <2> QED BY <2>4, <2>6, <2>9, <2>10, <2>11, <2>12, <2>13, <2>14, <2>15 DEF MovedOn, s
<1>4. CASE ~Moves(v)
  <2>1. fwd' = fwd /\ to' = t
    BY <1>4 DEF copy, Moved
  <2>2. v.at # 0 => fwd[v.at] # 0
    BY <1>4 DEF Moves
  <2>3. Forwarded(v) = IF v.at = 0 THEN v ELSE [v EXCEPT !.at = fwd[v.at]]
    BY <2>2 DEF Forwarded
  <2>4. \A k \in DOMAIN cur : fwd[k] # 0 => fwd[k] \in DOMAIN to
    BY <1>1
  <2>5. Forwarded(v) \in Values /\ Forwarded(v).id = v.id
        /\ Forwarded(v).at = IF v.at = 0 THEN 0 ELSE fwd[v.at]
    <3>1. CASE v.at = 0
      BY <2>3, <3>1
    <3>2. CASE v.at # 0
      <4>1. fwd[v.at] \in Nat
        BY <1>1, <3>2
      <4> QED BY <2>3, <3>2, <4>1 DEF Values
    <3> QED BY <3>1, <3>2
  <2>6. DOMAIN t = DOMAIN to /\ Len(to') = Len(to)
    BY <1>1, <2>1
  <2> QED BY <1>1, <2>1, <2>2, <2>4, <2>5, <2>6 DEF MovedOn
<1> QED BY <1>3, <1>4

\* The old half while a block of it is updated.
Rewrites ==
  /\ cur' \in Seq(Objects) /\ DOMAIN cur' = DOMAIN cur
  /\ \A k \in DOMAIN cur :
       Copy(cur[k], cur'[k]) /\ (cur[k].kind # "fixed" => cur'[k] = cur[k])

\* A step that leaves the old half alone rewrites nothing in it.
LEMMA NothingRewritten == cur \in Seq(Objects) /\ UNCHANGED cur => Rewrites
BY CopySelf DEF Rewrites

\* Every copying step.
CopyingStep(v, t) ==
  /\ IInv /\ Collecting
  /\ MovedOn(v, t) /\ Rewrites /\ UNCHANGED made
  /\ \A s \in DOMAIN to : Copy(to[s], t[s])

\* What is known of the old half stays true in a copying step.
LEMMA OldHalfKeeps ==
  ASSUME NEW v, NEW t, CopyingStep(v, t)
  PROVE  /\ Numbered' /\ OwnBlocks' /\ TuplesPlain'
         /\ \A x : Plain(x, cur) => Plain(x, cur')
         /\ \A k \in DOMAIN cur : IsContainer(cur'[k]) <=> IsContainer(cur[k])
         /\ \A k \in DOMAIN cur : IsContainer(cur[k]) => cur'[k] = cur[k]
<1>1. /\ cur' \in Seq(Objects) /\ DOMAIN cur' = DOMAIN cur
      /\ \A k \in DOMAIN cur : Copy(cur[k], cur'[k]) /\ (cur[k].kind # "fixed" => cur'[k] = cur[k])
  BY DEF CopyingStep, Rewrites
<1>2. \A k \in DOMAIN cur : cur'[k].id = cur[k].id /\ cur'[k].kind = cur[k].kind
  BY <1>1 DEF Copy
<1>3. \A x : Plain(x, cur) => Plain(x, cur')
  BY <1>1, <1>2, PlainStays
<1>4. Numbered'
  BY <1>1, <1>2 DEF CopyingStep, IInv, Numbered
<1>5. \A k \in DOMAIN cur : IsContainer(cur'[k]) <=> IsContainer(cur[k])
  BY <1>2 DEF IsContainer
<1>6. \A k \in DOMAIN cur : IsContainer(cur[k]) => cur'[k] = cur[k]
  BY <1>1 DEF IsContainer
<1>7. \A k \in DOMAIN cur : cur[k].kind = "fixed" => Len(cur'[k].vals) = Len(cur[k].vals)
  BY <1>1 DEF Copy, IsContainer
<1>8. OwnBlocks'
  BY <1>1, <1>2, <1>5, <1>6, <1>7 DEF CopyingStep, IInv, OwnBlocks, Block
<1>9. TuplesPlain'
  BY <1>1, <1>2, <1>3 DEF CopyingStep, IInv, TuplesPlain
<1> QED BY <1>3, <1>4, <1>5, <1>6, <1>8, <1>9

\* What was forwarded stays forwarded, and v is forwarded now.
LEMMA NewHalfKeeps ==
  ASSUME NEW v, NEW t, CopyingStep(v, t)
  PROVE  /\ Forwards'
         /\ \A x : Plain(x, to) => Plain(x, to')
         /\ Plain(v, cur) => Plain(Forwarded(v), to')
         /\ \A s \in DOMAIN to : Copy(to[s], to'[s])
<1>1. /\ to' \in Seq(Objects) /\ fwd' \in [DOMAIN cur -> 0 .. Len(to')]
      /\ \A s \in DOMAIN to : s \in DOMAIN to' /\ to'[s] = t[s]
      /\ \A k \in DOMAIN cur : fwd[k] # 0 => fwd'[k] = fwd[k] /\ fwd[k] \in DOMAIN to
      /\ \A k \in DOMAIN cur : fwd[k] = 0 /\ fwd'[k] # 0 =>
           k = v.at /\ fwd'[k] = Len(to) + 1 /\ fwd'[k] \in DOMAIN to' /\ to'[Len(to) + 1] = cur[k]
      /\ \A s \in DOMAIN to' : s \notin DOMAIN to => v.at \in DOMAIN cur /\ fwd'[v.at] = s
  BY DEF CopyingStep, MovedOn
<1>2. DOMAIN cur' = DOMAIN cur /\ \A k \in DOMAIN cur : Copy(cur'[k], cur[k])
  BY CopyBack DEF CopyingStep, Rewrites
<1>3. \A s \in DOMAIN to : Copy(to[s], to'[s])
  BY <1>1 DEF CopyingStep
<1>4. Forwards
  BY DEF CopyingStep, IInv, Copying
<1>5. ASSUME NEW k \in DOMAIN cur, fwd'[k] # 0 PROVE Copy(cur[k], to'[fwd'[k]]) /\ fwd'[k] \in DOMAIN to'
  <2>1. CASE fwd[k] # 0
    <3>1. Copy(cur[k], to[fwd[k]]) /\ fwd'[k] = fwd[k] /\ fwd[k] \in DOMAIN to
      BY <1>1, <1>4, <2>1 DEF Forwards
    <3> QED BY <1>1, <1>3, <3>1, CopyChain
  <2>2. CASE fwd[k] = 0
    BY <1>1, <1>5, <2>2, CopySelf
  <2> QED BY <2>1, <2>2
<1>6. ASSUME NEW s \in DOMAIN to' PROVE \E k \in DOMAIN cur : fwd'[k] = s
  <2>1. CASE s \in DOMAIN to
    <3>1. PICK k \in DOMAIN cur : fwd[k] = s
      BY <1>4, <2>1 DEF Forwards
    <3>2. s # 0
      BY <2>1 DEF CopyingStep, IInv, Typed
    <3> QED BY <1>1, <3>1, <3>2
  <2>2. CASE s \notin DOMAIN to
    BY <1>1, <2>2
  <2> QED BY <2>1, <2>2
<1>7. Forwards'
  <2>1. \A k \in DOMAIN cur : fwd'[k] # 0 => Copy(cur'[k], to'[fwd'[k]])
    BY <1>2, <1>5, CopyChain
  <2> QED BY <1>1, <1>2, <1>6, <2>1 DEF Forwards
<1>8. \A x : Plain(x, to) => Plain(x, to')
  <2>1. \A s \in DOMAIN to : to'[s].id = to[s].id /\ to'[s].kind = to[s].kind
    BY <1>3 DEF Copy
  <2>2. DOMAIN to \subseteq DOMAIN to'
    BY <1>1
  <2> QED BY <2>1, <2>2, PlainStays
<1>9. ASSUME Plain(v, cur) PROVE Plain(Forwarded(v), to')
  <2>1. CASE v.at = 0
    <3>1. v = Nil
      <4>1. 0 \notin DOMAIN cur
        BY DEF CopyingStep, IInv, Typed
      <4> QED BY <1>9, <2>1, <4>1 DEF Plain
    <3> QED BY <2>1, <3>1, NilPlain DEF Forwarded
  <2>2. CASE v.at # 0
    <3>1. v.at \in DOMAIN cur /\ cur[v.at].id = v.id /\ cur[v.at].kind # "fixed"
      BY <1>9, <2>2, PlainIsObject
    <3>2. Forwarded(v).at = fwd'[v.at] /\ fwd'[v.at] # 0 /\ Forwarded(v).id = v.id
      BY <2>2 DEF CopyingStep, MovedOn
    <3>3. Copy(cur[v.at], to'[fwd'[v.at]]) /\ fwd'[v.at] \in DOMAIN to'
      BY <1>5, <3>1, <3>2
    <3> QED BY <3>1, <3>2, <3>3 DEF Plain, Copy
  <2> QED BY <2>1, <2>2
<1> QED BY <1>3, <1>7, <1>8, <1>9

\* A value that keeps its fields and may have moved still suits the request.
LEMMA SuitsCopy ==
  ASSUME NEW o, NEW p, Suits(o), Copy(o, p)
  PROVE  Suits(p)
BY DEF Suits, Copy, IsContainer

\* Roots.
LEMMA Concatenated ==
  ASSUME NEW s \in Seq(Values), NEW t \in Seq(Values)
  PROVE  /\ s \o t \in Seq(Values) /\ Len(s \o t) = Len(s) + Len(t) /\ Len(s) \in Nat /\ Len(t) \in Nat
         /\ DOMAIN (s \o t) = 1 .. Len(s) + Len(t)
         /\ \A r \in 1 .. Len(s) + Len(t) : (s \o t)[r] = IF r <= Len(s) THEN s[r] ELSE t[r - Len(s)]
OBVIOUS

\* The roots are the stack, then the mailbox.
LEMMA RootsAre ==
  ASSUME stack \in Seq(Values), msbox \in Seq(Values)
  PROVE  /\ Roots \in Seq(Values) /\ Len(Roots) = Len(stack) + Len(msbox) /\ Len(Roots) \in Nat
         /\ DOMAIN Roots = 1 .. Len(Roots) /\ DOMAIN stack \subseteq DOMAIN Roots
         /\ \A i \in DOMAIN stack : Roots[i] = stack[i]
         /\ \A i \in DOMAIN msbox : Roots[Len(stack) + i] = msbox[i]
         /\ \A r \in DOMAIN Roots : Roots[r] = IF r <= Len(stack) THEN stack[r] ELSE msbox[r - Len(stack)]
BY DEF Roots

\* One root is written.
LEMMA RootsWritten ==
  ASSUME stack \in Seq(Values), msbox \in Seq(Values), pos \in DOMAIN Roots, NEW w \in Values,
         IF pos <= Len(stack)
         THEN stack' = [stack EXCEPT ![pos] = w] /\ msbox' = msbox
         ELSE msbox' = [msbox EXCEPT ![pos - Len(stack)] = w] /\ stack' = stack
  PROVE  /\ stack' \in Seq(Values) /\ msbox' \in Seq(Values) /\ DOMAIN stack' = DOMAIN stack
         /\ DOMAIN Roots' = DOMAIN Roots /\ Len(Roots') = Len(Roots)
         /\ \A r \in DOMAIN Roots : Roots'[r] = IF r = pos THEN w ELSE Roots[r]
         /\ \A i \in DOMAIN stack : stack'[i] = IF i = pos THEN w ELSE stack[i]
<1>1. /\ pos \in 1 .. Len(stack) + Len(msbox) /\ Len(stack) \in Nat /\ Len(msbox) \in Nat
      /\ DOMAIN Roots = 1 .. Len(stack) + Len(msbox)
      /\ Len(Roots) = Len(stack) + Len(msbox)
      /\ \A r \in DOMAIN Roots : Roots[r] = IF r <= Len(stack) THEN stack[r] ELSE msbox[r - Len(stack)]
  BY RootsAre
<1>2. /\ stack' \in Seq(Values) /\ msbox' \in Seq(Values)
      /\ Len(stack') = Len(stack) /\ Len(msbox') = Len(msbox) /\ DOMAIN stack' = DOMAIN stack
      /\ \A i \in 1 .. Len(stack) : stack'[i] = IF i = pos THEN w ELSE stack[i]
      /\ \A i \in 1 .. Len(msbox) : msbox'[i] = IF i + Len(stack) = pos THEN w ELSE msbox[i]
  <2>1. CASE pos <= Len(stack)
    BY <1>1, <2>1
  <2>2. CASE ~(pos <= Len(stack))
    <3>1. msbox' = [msbox EXCEPT ![pos - Len(stack)] = w] /\ stack' = stack
      BY <2>2
    <3>2. pos - Len(stack) \in 1 .. Len(msbox)
      BY <1>1, <2>2
    <3>3. msbox' \in Seq(Values) /\ Len(msbox') = Len(msbox)
          /\ \A i \in 1 .. Len(msbox) : msbox'[i] = IF i = pos - Len(stack) THEN w ELSE msbox[i]
      BY <3>1, <3>2
    <3> QED BY <1>1, <2>2, <3>1, <3>3
  <2> QED BY <2>1, <2>2
<1>3. /\ DOMAIN Roots' = 1 .. Len(stack) + Len(msbox)
      /\ Len(Roots') = Len(stack) + Len(msbox)
      /\ \A r \in 1 .. Len(stack) + Len(msbox) :
           Roots'[r] = IF r <= Len(stack) THEN stack'[r] ELSE msbox'[r - Len(stack)]
  <2>1. Roots' = stack' \o msbox'
    BY DEF Roots
  <2> DEFINE s == stack'
             t == msbox'
             u == Roots'
  <2>2. s \in Seq(Values) /\ t \in Seq(Values) /\ u = s \o t /\ Len(s) = Len(stack) /\ Len(t) = Len(msbox)
    BY <1>2, <2>1
  <2> HIDE DEF s, t, u
  <2>3. DOMAIN u = 1 .. Len(s) + Len(t) /\ Len(u) = Len(s) + Len(t)
        /\ \A r \in 1 .. Len(s) + Len(t) : u[r] = IF r <= Len(s) THEN s[r] ELSE t[r - Len(s)]
    BY <2>2, Concatenated
  <2> QED BY <2>2, <2>3 DEF s, t, u
<1>4. ASSUME NEW r \in DOMAIN Roots PROVE Roots'[r] = IF r = pos THEN w ELSE Roots[r]
  <2>1. CASE r <= Len(stack)
    <3>1. r \in 1 .. Len(stack) /\ Roots'[r] = stack'[r] /\ Roots[r] = stack[r]
      BY <1>1, <1>3, <2>1
    <3> QED BY <1>2, <3>1
  <2>2. CASE r > Len(stack)
    <3> DEFINE i == r - Len(stack)
    <3>1. i \in 1 .. Len(msbox) /\ i + Len(stack) = r /\ ~(r <= Len(stack)) /\ r \in 1 .. Len(stack) + Len(msbox)
      <4> DEFINE n == Len(stack)
                 m == Len(msbox)
      <4>1. r \in 1 .. n + m /\ n \in Nat /\ m \in Nat /\ r > n
        BY <1>1, <2>2
      <4> HIDE DEF n, m
      <4>2. r - n \in 1 .. m /\ (r - n) + n = r /\ ~(r <= n)
        BY <4>1
      <4> QED BY <4>1, <4>2 DEF n, m
    <3>2. Roots'[r] = msbox'[i] /\ Roots[r] = msbox[i]
      BY <1>1, <1>3, <3>1
    <3> HIDE DEF i
    <3> QED BY <1>2, <3>1, <3>2
  <2> QED BY <1>1, <2>1, <2>2
<1>5. \A i \in DOMAIN stack : stack'[i] = IF i = pos THEN w ELSE stack[i]
  BY <1>2
<1> QED BY <1>1, <1>2, <1>3, <1>4, <1>5

\* Where the request's container is.
LEMMA RequestPlace ==
  ASSUME IInv, req.op = "capacity"
  PROVE  /\ req.i \in DOMAIN stack /\ req.i \in DOMAIN Roots /\ Roots[req.i] = stack[req.i]
         /\ stack[req.i] # Nil
         /\ stack[req.i].at \in DOMAIN RootHalf(req.i)
         /\ Suits(RootHalf(req.i)[stack[req.i].at])
         /\ \A x \in DOMAIN req.src : req.src[x] \in DOMAIN stack
<1>1. req.i \in DOMAIN stack /\ stack[req.i] # Nil /\ Suits(RootHalf(req.i)[stack[req.i].at])
      /\ \A x \in DOMAIN req.src : req.src[x] \in DOMAIN stack
  BY DEF IInv, RequestSuits
<1>2. req.i \in DOMAIN Roots /\ Roots[req.i] = stack[req.i]
  BY <1>1, RootsAre DEF IInv, Typed
<1>3. Plain(stack[req.i], RootHalf(req.i))
  BY <1>2 DEF IInv, RootsPlain
<1> QED BY <1>1, <1>2, <1>3 DEF Plain

\* Scanned after the step.
ScannedNext(s, c) == s < scan' \/ (s = scan' /\ c < child')

\* The tuples of the new half: a value is as before, or it was followed.
LEMMA TuplesKeep ==
  ASSUME NEW v, NEW t, CopyingStep(v, t),
         \A s \in DOMAIN to : to[s].kind = "tuple" =>
           \A c \in DOMAIN to[s].vals :
             \/ t[s].vals[c] = to[s].vals[c] /\ (ScannedNext(s, c) <=> Scanned(s, c))
             \/ Plain(t[s].vals[c], to') /\ ScannedNext(s, c),
         \A s \in DOMAIN to' : s \notin DOMAIN to => \A c \in Nat \ {0} : ~ScannedNext(s, c)
  PROVE  CopiedTuples'
<1>1. /\ \A s \in DOMAIN to : to'[s] = t[s] /\ Copy(to[s], to'[s])
      /\ \A s \in DOMAIN to' : s \notin DOMAIN to => v.at \in DOMAIN cur /\ to'[s] = cur[v.at]
      /\ to' \in Seq(Objects) /\ to \in Seq(Objects)
  BY NewHalfKeeps DEF CopyingStep, MovedOn, IInv, Typed
<1>2. /\ \A x : Plain(x, to) => Plain(x, to')
      /\ \A x : Plain(x, cur) => Plain(x, cur')
  BY OldHalfKeeps, NewHalfKeeps
<1>3. CopiedTuples /\ TuplesPlain
  BY DEF CopyingStep, IInv, Copying
<1> SUFFICES ASSUME NEW s \in DOMAIN to', to'[s].kind = "tuple", NEW c \in DOMAIN to'[s].vals
             PROVE  Plain(to'[s].vals[c], IF ScannedNext(s, c) THEN to' ELSE cur')
  BY DEF CopiedTuples, Half, Scanned, ScannedNext
<1>4. to'[s].vals \in Seq(Values) /\ c \in Nat \ {0}
  <2>1. to'[s] \in Objects /\ ~IsContainer(to'[s])
    BY <1>1 DEF IsContainer
  <2>2. to'[s].vals \in Seq(Values)
    BY <2>1, ObjectFields
  <2> QED BY <2>2
<1>5. CASE s \in DOMAIN to
  <2>1. to'[s] = t[s] /\ to[s].kind = "tuple" /\ Len(to'[s].vals) = Len(to[s].vals) /\ ~IsContainer(to[s])
    BY <1>1, <1>5 DEF Copy, IsContainer
  <2>2. to[s].vals \in Seq(Values)
    BY <1>1, <1>5, <2>1, ObjectFields
  <2>3. c \in DOMAIN to[s].vals
    BY <1>4, <2>1, <2>2
  <2>4. Plain(to[s].vals[c], Half(Scanned(s, c)))
    BY <1>3, <1>5, <2>1, <2>3 DEF CopiedTuples
  <2>5. CASE t[s].vals[c] = to[s].vals[c] /\ (ScannedNext(s, c) <=> Scanned(s, c))
    BY <1>2, <2>1, <2>4, <2>5 DEF Half
  <2>6. CASE Plain(t[s].vals[c], to') /\ ScannedNext(s, c)
    BY <2>1, <2>6
  <2> QED BY <1>5, <2>1, <2>3, <2>5, <2>6
<1>6. CASE s \notin DOMAIN to
  <2>1. v.at \in DOMAIN cur /\ to'[s] = cur[v.at] /\ ~ScannedNext(s, c)
    BY <1>1, <1>4, <1>6
  <2>2. Plain(cur[v.at].vals[c], cur)
    BY <1>3, <2>1 DEF TuplesPlain
  <2> QED BY <1>2, <2>1, <2>2
<1> QED BY <1>5, <1>6

\* The containers when the step scans none of them.
LEMMA ContainersKeep ==
  ASSUME NEW v, NEW t, CopyingStep(v, t), Plain(v, cur), UNCHANGED cur, Collecting',
         \A s \in DOMAIN to : to[s].kind # "tuple" => t[s] = to[s],
         \A s \in DOMAIN to' : IsContainer(to'[s]) =>
           \A c \in Nat \ {0} : ScannedNext(s, c) <=> s \in DOMAIN to /\ Scanned(s, c)
  PROVE  CellsPlain' /\ CopiedContainers' /\ CopiedBlocks'
<1>1. /\ cur \in Seq(Objects) /\ to \in Seq(Objects) /\ OwnBlocks /\ CellsPlain
      /\ Forwards /\ CopiedContainers /\ CopiedBlocks /\ Collecting
  BY DEF CopyingStep, IInv, Typed, Copying
<1>2. /\ \A s \in DOMAIN to : to'[s] = t[s] /\ to'[s].kind = to[s].kind
      /\ \A k \in DOMAIN cur : k # v.at => fwd'[k] = fwd[k]
      /\ \A k \in DOMAIN cur : fwd[k] # 0 => fwd'[k] = fwd[k] /\ fwd[k] \in DOMAIN to /\ fwd[k] \in DOMAIN to'
      /\ \A k \in DOMAIN cur : fwd[k] = 0 /\ fwd'[k] # 0 =>
           fwd'[k] \notin DOMAIN to /\ fwd'[k] \in DOMAIN to' /\ to'[fwd'[k]] = cur[k]
  BY <1>1, NewHalfKeeps DEF CopyingStep, MovedOn, Copy
<1>3. /\ \A x : Plain(x, to) => Plain(x, to')
  BY NewHalfKeeps
<1>4. ASSUME NEW k \in DOMAIN cur, IsContainer(cur[k])
      PROVE  /\ cur[k].buff.at \in DOMAIN cur /\ fwd'[cur[k].buff.at] = fwd[cur[k].buff.at]
             /\ Elements(cur[k]) \in Nat /\ ValuesOf(cur[k]) \in Nat \ {0}
             /\ \A c \in Nat \ {0} :
                  fwd'[k] # 0 /\ ScannedNext(fwd'[k], c) <=> fwd[k] # 0 /\ Scanned(fwd[k], c)
  <2>1. cur[k].buff.at \in DOMAIN cur /\ cur[cur[k].buff.at].kind = "fixed"
    BY <1>1, <1>4 DEF OwnBlocks, Block
  <2>2. cur[k].buff.at # v.at
    BY <1>1, <2>1 DEF Plain, Nil
  <2>3. Elements(cur[k]) \in Nat /\ ValuesOf(cur[k]) \in Nat \ {0}
    BY <1>1, <1>4, Measures
  <2>4. ASSUME NEW c \in Nat \ {0}
        PROVE  fwd'[k] # 0 /\ ScannedNext(fwd'[k], c) <=> fwd[k] # 0 /\ Scanned(fwd[k], c)
    <3>1. CASE fwd[k] # 0
      <4>1. fwd'[k] = fwd[k] /\ fwd[k] \in DOMAIN to /\ fwd[k] \in DOMAIN to'
        BY <1>2, <3>1
      <4>2. IsContainer(to'[fwd[k]])
        BY <1>1, <1>2, <1>4, <3>1, <4>1 DEF Forwards, Copy, IsContainer
      <4>3. ScannedNext(fwd[k], c) <=> Scanned(fwd[k], c)
        BY <4>1, <4>2
      <4> QED BY <3>1, <4>1, <4>3
    <3>2. CASE fwd[k] = 0 /\ fwd'[k] # 0
      <4>1. fwd'[k] \notin DOMAIN to /\ fwd'[k] \in DOMAIN to' /\ to'[fwd'[k]] = cur[k]
        BY <1>2, <3>2
      <4>2. ~ScannedNext(fwd'[k], c)
        BY <1>4, <4>1
      <4> QED BY <3>2, <4>2
    <3> QED BY <3>1, <3>2
  <2> QED BY <1>2, <2>1, <2>2, <2>3, <2>4
<1>5. CellsPlain'
  <2> SUFFICES ASSUME NEW k \in DOMAIN cur, IsContainer(cur[k]), NEW c \in 1 .. Elements(cur[k])
               PROVE  Plain(Block(k).vals[c], CellHalf(k, c)')
    BY DEF CellsPlain, Block
  <2>1. c \in Nat \ {0}
    BY <1>4
  <2>2. Plain(Block(k).vals[c], CellHalf(k, c))
    BY <1>1 DEF CellsPlain
  <2>3. CASE fwd[k] # 0 /\ Scanned(fwd[k], c)
    <3>1. CellHalf(k, c) = to /\ CellHalf(k, c)' = to'
      BY <1>1, <1>4, <2>1, <2>3 DEF CellHalf, Half, Scanned, ScannedNext
    <3> QED BY <1>3, <2>2, <3>1
  <2>4. CASE ~(fwd[k] # 0 /\ Scanned(fwd[k], c))
    <3>1. CellHalf(k, c) = cur /\ CellHalf(k, c)' = cur
      BY <1>4, <2>1, <2>4 DEF CellHalf, Half, Scanned, ScannedNext
    <3> QED BY <2>2, <3>1
  <2> QED BY <2>3, <2>4
<1>6. CopiedContainers'
  <2> SUFFICES ASSUME NEW k \in DOMAIN cur, IsContainer(cur[k])
               PROVE  /\ fwd'[cur[k].buff.at] # 0 <=> BlockMoved(k)'
                      /\ fwd'[k] # 0 => to'[fwd'[k]].buff.at =
                            IF BlockMoved(k)' THEN fwd'[cur[k].buff.at] ELSE cur[k].buff.at
    BY DEF CopiedContainers
  <2>1. BlockMoved(k)' <=> BlockMoved(k)
    BY <1>4 DEF BlockMoved, Scanned, ScannedNext
  <2>2. fwd'[cur[k].buff.at] = fwd[cur[k].buff.at]
    BY <1>4
  <2>3. /\ fwd[cur[k].buff.at] # 0 <=> BlockMoved(k)
        /\ fwd[k] # 0 => to[fwd[k]].buff.at =
              IF BlockMoved(k) THEN fwd[cur[k].buff.at] ELSE cur[k].buff.at
    BY <1>1 DEF CopiedContainers
  <2>4. CASE fwd[k] # 0
    <3>1. fwd'[k] = fwd[k] /\ fwd[k] \in DOMAIN to
      BY <1>2, <2>4
    <3>2. IsContainer(to[fwd[k]])
      BY <1>1, <2>4 DEF Forwards, Copy, IsContainer
    <3>3. to'[fwd[k]] = to[fwd[k]]
      BY <1>2, <3>1, <3>2 DEF IsContainer
    <3> QED BY <2>1, <2>2, <2>3, <2>4, <3>1, <3>3
  <2>5. CASE fwd[k] = 0
    <3>1. ~BlockMoved(k)
      BY <2>5 DEF BlockMoved
    <3> QED BY <1>2, <2>1, <2>2, <2>3, <2>5, <3>1
  <2> QED BY <2>4, <2>5
<1>7. CopiedBlocks'
  <2> SUFFICES ASSUME NEW k \in DOMAIN cur, cur[k].kind = "fixed", fwd'[k] # 0
               PROVE  to'[fwd'[k]].vals = cur[k].vals
    BY DEF CopiedBlocks
  <2>1. CASE fwd[k] # 0
    <3>1. fwd'[k] = fwd[k] /\ fwd[k] \in DOMAIN to /\ to[fwd[k]].kind = "fixed"
      BY <1>1, <1>2, <2>1 DEF Forwards, Copy
    <3>2. to'[fwd[k]] = to[fwd[k]]
      BY <1>2, <3>1
    <3> QED BY <1>1, <2>1, <3>1, <3>2 DEF CopiedBlocks
  <2>2. CASE fwd[k] = 0
    BY <1>2, <2>2
  <2> QED BY <2>1, <2>2
<1> QED BY <1>5, <1>6, <1>7

\* agc_collect follows one root.
LEMMA CopyRootKeeps == IInv /\ CopyRoot => IInv'
<1> SUFFICES ASSUME IInv, CopyRoot PROVE IInv'
  OBVIOUS
<1> DEFINE v == Roots[pos]
           w == Forwarded(v)
<1>1. /\ phase = "roots" /\ pos <= Len(Roots) /\ copy(v) /\ to' = Moved(v, to) /\ pos' = pos + 1
      /\ UNCHANGED <<cur, phase, req, scan, child, made>>
      /\ Collecting /\ Collecting'
  BY DEF CopyRoot, Collecting
<1>2. /\ cur \in Seq(Objects) /\ to \in Seq(Objects) /\ stack \in Seq(Values) /\ msbox \in Seq(Values)
      /\ pos \in Nat \ {0} /\ scan = 1 /\ child = 1 /\ Copying
  BY <1>1 DEF IInv, Typed, Copying, Progress
<1>3. pos \in DOMAIN Roots /\ v \in Values /\ \A r \in DOMAIN Roots : r \in Nat
  BY <1>1, <1>2, RootsAre
<1>4. Plain(v, cur)
  <2>1. Plain(v, RootHalf(pos))
    BY <1>3 DEF IInv, RootsPlain
  <2>2. RootHalf(pos) = cur
    BY <1>1, <1>2 DEF RootHalf, Half
  <2> QED BY <2>1, <2>2
<1>5. v.at # 0 => v.at \in DOMAIN cur /\ cur[v.at].kind # "fixed"
  BY <1>4, PlainIsObject
<1>6. MovedOn(v, to)
  BY <1>1, <1>2, <1>3, <1>5, CopyMoves DEF Copying
<1>7. CopyingStep(v, to)
  BY <1>1, <1>2, <1>6, NothingRewritten, CopySelf DEF CopyingStep
<1>8. IF pos <= Len(stack)
      THEN stack' = [stack EXCEPT ![pos] = w] /\ msbox' = msbox
      ELSE msbox' = [msbox EXCEPT ![pos - Len(stack)] = w] /\ stack' = stack
  <2>1. CASE pos <= Len(stack)
    <3>1. stack[pos] = v
      BY <1>2, <1>3, <2>1, RootsAre
    <3> QED BY <2>1, <3>1 DEF CopyRoot
  <2>2. CASE ~(pos <= Len(stack))
    <3>1. msbox[pos - Len(stack)] = v
      BY <1>2, <1>3, <2>2, RootsAre
    <3> QED BY <2>2, <3>1 DEF CopyRoot
  <2> QED BY <2>1, <2>2
<1>9. w \in Values /\ Plain(w, to')
  BY <1>4, <1>6, <1>7, NewHalfKeeps DEF MovedOn
<1> HIDE DEF w, v
<1>10. /\ stack' \in Seq(Values) /\ msbox' \in Seq(Values) /\ DOMAIN stack' = DOMAIN stack
       /\ DOMAIN Roots' = DOMAIN Roots
       /\ \A r \in DOMAIN Roots : Roots'[r] = IF r = pos THEN w ELSE Roots[r]
       /\ \A i \in DOMAIN stack : stack'[i] = IF i = pos THEN w ELSE stack[i]
  BY <1>2, <1>3, <1>8, <1>9, RootsWritten
<1>11. Typed'
  <2>1. to' \in Seq(Objects)
    BY <1>6 DEF MovedOn
  <2> QED BY <1>1, <1>2, <1>10, <2>1 DEF IInv, Typed, Collecting
<1>12. Numbered' /\ OwnBlocks' /\ TuplesPlain' /\ Forwards'
  BY <1>7, OldHalfKeeps, NewHalfKeeps
<1>13. RootsPlain'
  <2>1. ASSUME NEW r \in DOMAIN Roots PROVE Plain(Roots'[r], RootHalf(r)')
    <3>1. CASE r = pos
      <4>1. RootHalf(r)' = to'
        BY <1>1, <1>2, <3>1 DEF RootHalf, Half
      <4> QED BY <1>9, <1>10, <3>1, <4>1
    <3>2. CASE r # pos
      <4>1. r < pos' <=> r < pos
        BY <1>1, <1>2, <1>3, <3>2
      <4>2. RootHalf(r)' = Half(phase = "scan" \/ (phase = "roots" /\ r < pos))'
        BY <1>1, <4>1 DEF RootHalf, Half
      <4>3. Plain(Roots[r], RootHalf(r))
        BY DEF IInv, RootsPlain
      <4>4. \A x : Plain(x, to) => Plain(x, to')
        BY <1>7, NewHalfKeeps
      <4>5. CASE r < pos
        BY <1>1, <1>10, <3>2, <4>1, <4>3, <4>4, <4>5 DEF RootHalf, Half
      <4>6. CASE ~(r < pos)
        BY <1>1, <1>10, <3>2, <4>1, <4>3, <4>6 DEF RootHalf, Half
      <4> QED BY <4>5, <4>6
    <3> QED BY <3>1, <3>2
  <2> QED BY <1>10, <2>1 DEF RootsPlain
<1>14. RequestSuits'
  <2> SUFFICES ASSUME req.op = "capacity" PROVE RequestSuits'
    BY <1>1 DEF RequestSuits
  <2> DEFINE i == req.i
  <2>1. /\ i \in DOMAIN stack /\ i \in DOMAIN Roots /\ Roots[i] = stack[i] /\ stack[i] # Nil
        /\ stack[i].at \in DOMAIN RootHalf(i) /\ Suits(RootHalf(i)[stack[i].at])
        /\ \A x \in DOMAIN req.src : req.src[x] \in DOMAIN stack
    BY RequestPlace
  <2>2. stack'[i] # Nil /\ Suits(RootHalf(i)'[stack'[i].at])
    <3>1. CASE i = pos
      <4>1. stack[i] = v /\ stack'[i] = w /\ RootHalf(i) = cur /\ RootHalf(i)' = to'
        BY <1>1, <1>2, <1>10, <2>1, <3>1 DEF RootHalf, Half, v
      <4>2. v.at \in DOMAIN cur /\ v.at # 0
        BY <1>2, <2>1, <4>1
      <4>3. w.at = fwd'[v.at] /\ fwd'[v.at] # 0
        BY <1>6, <4>2 DEF MovedOn, w
      <4>4. Copy(cur[v.at], to'[w.at])
        BY <1>1, <1>12, <4>2, <4>3 DEF Forwards
      <4>5. Suits(cur[v.at])
        BY <2>1, <4>1
      <4> HIDE DEF i
      <4>6. Suits(to'[w.at])
        BY <4>4, <4>5, SuitsCopy
      <4>7. w # Nil
        BY <4>3 DEF Nil
      <4> QED BY <4>1, <4>6, <4>7
    <3>2. CASE i # pos
      <4>1. stack'[i] = stack[i]
        BY <1>10, <2>1, <3>2
      <4>2. Copy(RootHalf(i)[stack[i].at], RootHalf(i)'[stack[i].at])
        <5>1. i < pos' <=> i < pos
          BY <1>1, <1>2, <1>3, <2>1, <3>2
        <5>2. CASE i < pos
          <6>1. RootHalf(i) = to /\ RootHalf(i)' = to'
            BY <1>1, <5>1, <5>2 DEF RootHalf, Half
          <6> QED BY <1>7, <2>1, <6>1, NewHalfKeeps
        <5>3. CASE ~(i < pos)
          <6>1. RootHalf(i) = cur /\ RootHalf(i)' = cur
            BY <1>1, <5>1, <5>3 DEF RootHalf, Half
          <6> QED BY <6>1, CopySelf
        <5> QED BY <5>2, <5>3
      <4> DEFINE o == RootHalf(i)[stack[i].at]
                 p == RootHalf(i)'[stack[i].at]
      <4>3. Suits(o) /\ Copy(o, p)
        BY <2>1, <4>2
      <4> HIDE DEF o, p
      <4>4. Suits(p)
        BY <4>3, SuitsCopy
      <4> QED BY <2>1, <4>1, <4>4 DEF p
    <3> QED BY <3>1, <3>2
  <2> QED BY <1>1, <1>10, <2>1, <2>2 DEF RequestSuits, Suits
<1>15. ASSUME NEW s \in DOMAIN to', NEW c \in Nat \ {0} PROVE ~Scanned(s, c) /\ ~ScannedNext(s, c)
  <2>1. s \in Nat \ {0}
    BY <1>11 DEF Typed
  <2> QED BY <1>1, <1>2, <2>1 DEF Scanned, ScannedNext
<1>16. CopiedTuples'
  <2>1. \A s \in DOMAIN to : s \in DOMAIN to'
    BY <1>6 DEF MovedOn
  <2>2. ASSUME NEW s \in DOMAIN to, to[s].kind = "tuple", NEW c \in DOMAIN to[s].vals PROVE c \in Nat \ {0}
    <3>1. to[s] \in Objects /\ ~IsContainer(to[s])
      BY <1>2, <2>2 DEF IsContainer
    <3>2. to[s].vals \in Seq(Values)
      BY <3>1, ObjectFields
    <3> QED BY <3>2
  <2> QED BY <1>7, <1>15, <2>1, <2>2, TuplesKeep
<1>17. CellsPlain' /\ CopiedContainers' /\ CopiedBlocks'
  BY <1>1, <1>4, <1>7, <1>15, ContainersKeep
<1>18. Progress'
  BY <1>1, <1>2 DEF Progress
<1> QED BY <1>11, <1>12, <1>13, <1>14, <1>16, <1>17, <1>18 DEF IInv, Copying

-----------------------------------------------------------------------------
\* Scanning.
LEMMA ScanFacts ==
  ASSUME IInv, Scanning
  PROVE  /\ Collecting /\ Copying /\ phase = "scan"
         /\ cur \in Seq(Objects) /\ to \in Seq(Objects)
         /\ scan \in DOMAIN to /\ scan \in Nat \ {0} /\ child \in Nat \ {0} /\ ~Scanned(scan, child)
         /\ \E k \in DOMAIN cur : fwd[k] = scan /\ Copy(cur[k], to[scan])
<1>1. /\ Collecting /\ Copying /\ phase = "scan"
      /\ cur \in Seq(Objects) /\ to \in Seq(Objects)
      /\ scan \in Nat \ {0} /\ child \in Nat \ {0} /\ scan <= Len(to)
  BY DEF Scanning, Collecting, IInv, Typed
<1>2. scan \in DOMAIN to /\ ~Scanned(scan, child)
  BY <1>1 DEF Scanned
<1>3. PICK k \in DOMAIN cur : fwd[k] = scan
  BY <1>1, <1>2 DEF Copying, Forwards
<1> QED BY <1>1, <1>2, <1>3 DEF Copying, Forwards

\* A forwarded value is a value.
LEMMA ForwardedValue ==
  ASSUME Forwards, to \in Seq(Objects), NEW v \in Values, v.at # 0 => v.at \in DOMAIN cur
  PROVE  Forwarded(v) \in Values
<1>1. Len(to) + 1 \in Nat /\ (v.at # 0 => fwd[v.at] \in Nat)
  BY DEF Forwards
<1> QED BY <1>1 DEF Forwarded, Values

\* The one cell that is scanned by the step is the one under child.
LEMMA ScanAdvances ==
  ASSUME IInv, Scanning, NEW v, NEW t, MovedOn(v, t), child' = child + 1, scan' = scan
  PROVE  /\ \A s \in DOMAIN to : \A c \in Nat \ {0} :
              ScannedNext(s, c) <=> Scanned(s, c) \/ (s = scan /\ c = child)
         /\ \A s \in DOMAIN to' : s \notin DOMAIN to => \A c \in Nat \ {0} : ~ScannedNext(s, c)
         /\ \A k \in DOMAIN cur : \A c \in Nat \ {0} :
              fwd'[k] # 0 /\ ScannedNext(fwd'[k], c) <=>
              fwd[k] # 0 /\ (Scanned(fwd[k], c) \/ (fwd[k] = scan /\ c = child))
<1>1. /\ scan \in DOMAIN to /\ scan \in Nat \ {0} /\ child \in Nat \ {0}
      /\ to \in Seq(Objects)
  BY ScanFacts
<1>2. ASSUME NEW s \in DOMAIN to, NEW c \in Nat \ {0}
      PROVE  ScannedNext(s, c) <=> Scanned(s, c) \/ (s = scan /\ c = child)
  <2>1. s \in Nat
    BY <1>1
  <2> QED BY <1>1, <2>1 DEF ScannedNext, Scanned
<1>3. ASSUME NEW s \in DOMAIN to', s \notin DOMAIN to, NEW c \in Nat \ {0} PROVE ~ScannedNext(s, c)
  <2>1. s = Len(to) + 1
    BY <1>3 DEF MovedOn
  <2>2. s \in Nat /\ scan < s
    BY <1>1, <2>1
  <2> QED BY <1>1, <2>2 DEF ScannedNext
<1>4. ASSUME NEW k \in DOMAIN cur, NEW c \in Nat \ {0}
      PROVE  fwd'[k] # 0 /\ ScannedNext(fwd'[k], c) <=>
             fwd[k] # 0 /\ (Scanned(fwd[k], c) \/ (fwd[k] = scan /\ c = child))
  <2>1. CASE fwd[k] # 0
    <3>1. fwd'[k] = fwd[k] /\ fwd[k] \in DOMAIN to
      BY <2>1 DEF MovedOn
    <3> QED BY <1>2, <2>1, <3>1
  <2>2. CASE fwd[k] = 0 /\ fwd'[k] # 0
    <3>1. fwd'[k] \in DOMAIN to' /\ fwd'[k] = Len(to) + 1
      BY <2>2 DEF MovedOn
    <3>2. Len(to) + 1 \notin DOMAIN to
      BY <1>1
    <3> QED BY <1>3, <2>2, <3>1, <3>2
  <2> QED BY <2>1, <2>2
<1> QED BY <1>2, <1>3, <1>4

\* The roots are in the new half already.
LEMMA RootsStay ==
  ASSUME NEW v, NEW t, CopyingStep(v, t), phase = "scan", UNCHANGED <<stack, msbox, phase, req>>
  PROVE  RootsPlain' /\ RequestSuits'
<1>1. \A r : RootHalf(r) = to /\ RootHalf(r)' = to'
  BY DEF RootHalf, Half
<1>2. /\ \A x : Plain(x, to) => Plain(x, to')
      /\ \A s \in DOMAIN to : Copy(to[s], to'[s])
  BY NewHalfKeeps
<1>3. Roots' = Roots
  BY DEF Roots
<1>4. RootsPlain'
  BY <1>1, <1>2, <1>3 DEF RootsPlain, CopyingStep, IInv
<1>5. ASSUME req.op = "capacity" PROVE RequestSuits'
  <2>1. /\ req.i \in DOMAIN stack /\ stack[req.i] # Nil
        /\ stack[req.i].at \in DOMAIN to
        /\ Suits(to[stack[req.i].at])
        /\ \A x \in DOMAIN req.src : req.src[x] \in DOMAIN stack
    BY <1>1, <1>5, RequestPlace DEF CopyingStep
  <2>2. Suits(to'[stack[req.i].at])
    BY <1>2, <2>1, SuitsCopy
  <2> QED BY <1>1, <2>1, <2>2 DEF RequestSuits, Suits
<1> QED BY <1>4, <1>5 DEF RequestSuits

\* Everything that is alike in the steps of the loop.
LEMMA ScanStepKeeps ==
  ASSUME NEW v, NEW t, CopyingStep(v, t), Scanning, child' = child + 1,
         UNCHANGED <<stack, msbox, phase, req, pos, scan>>
  PROVE  /\ Typed' /\ Numbered' /\ OwnBlocks' /\ TuplesPlain' /\ RootsPlain' /\ RequestSuits'
         /\ Forwards' /\ Progress' /\ Collecting'
<1>1. IInv /\ Collecting /\ phase = "scan" /\ Copying /\ child \in Nat \ {0}
  BY ScanFacts DEF CopyingStep
<1>2. to' \in Seq(Objects) /\ cur' \in Seq(Objects) /\ made' = made
  BY DEF CopyingStep, MovedOn, Rewrites
<1>3. Typed'
  BY <1>1, <1>2 DEF IInv, Typed, Collecting
<1>4. Progress'
  <2>1. Roots' = Roots
    BY DEF Roots
  <2> QED BY <1>1, <2>1 DEF Copying, Progress
<1>5. Collecting'
  BY <1>1 DEF Collecting
<1> QED BY <1>1, <1>3, <1>4, <1>5, OldHalfKeeps, NewHalfKeeps, RootsStay

\* scan() of a tuple: one element is followed.
LEMMA ScanTupleKeeps == IInv /\ ScanTuple => IInv'
<1> SUFFICES ASSUME IInv, ScanTuple PROVE IInv'
  OBVIOUS
<1> DEFINE v == to[scan].vals[child]
           w == Forwarded(v)
           t == WithCell(to, scan, child, w)
<1>1. /\ Scanning /\ to[scan].kind = "tuple" /\ child <= ValuesOf(to[scan])
      /\ copy(v) /\ child' = child + 1
      /\ UNCHANGED <<cur, stack, msbox, made, phase, req, pos, scan>>
  BY DEF ScanTuple, mutator
<1>2. to' = Moved(v, t)
  BY DEF ScanTuple, WithCell
<1>3. /\ Collecting /\ Copying /\ phase = "scan"
      /\ cur \in Seq(Objects) /\ to \in Seq(Objects)
      /\ scan \in DOMAIN to /\ scan \in Nat \ {0} /\ child \in Nat \ {0} /\ ~Scanned(scan, child)
  BY <1>1, ScanFacts
<1>4. to[scan] \in Objects /\ ~IsContainer(to[scan]) /\ to[scan].vals \in Seq(Values)
  BY <1>1, <1>3, ObjectFields DEF IsContainer
<1>5. child \in DOMAIN to[scan].vals /\ v \in Values
  BY <1>1, <1>3, <1>4 DEF ValuesOf
<1>6. Plain(v, cur)
  BY <1>1, <1>3, <1>5 DEF Copying, CopiedTuples, Half
<1>7. v.at # 0 => v.at \in DOMAIN cur
  BY <1>6, PlainIsObject
<1>8. w \in Values
  BY <1>3, <1>5, <1>7, ForwardedValue DEF Copying
<1> HIDE DEF v, w
<1>9. /\ t \in Seq(Objects) /\ DOMAIN t = DOMAIN to
      /\ \A s \in DOMAIN to : s # scan => t[s] = to[s]
      /\ t[scan].kind = to[scan].kind /\ t[scan].id = to[scan].id
      /\ Len(t[scan].vals) = Len(to[scan].vals)
      /\ \A c \in DOMAIN to[scan].vals : t[scan].vals[c] = IF c = child THEN w ELSE to[scan].vals[c]
  BY <1>3, <1>4, <1>8, CellWritten
<1> HIDE DEF t
<1>10. Len(t) = Len(to) /\ \A s \in DOMAIN to : Copy(to[s], t[s])
  <2>1. Len(t) = Len(to)
    BY <1>3, <1>9
  <2> QED BY <1>4, <1>9, <2>1, CopySelf DEF Copy, IsContainer
<1>11. MovedOn(v, t)
  BY <1>1, <1>2, <1>3, <1>5, <1>7, <1>9, <1>10, CopyMoves DEF Copying
<1>12. CopyingStep(v, t)
  BY <1>1, <1>3, <1>10, <1>11, NothingRewritten DEF CopyingStep
<1>13. /\ \A s \in DOMAIN to : \A c \in Nat \ {0} :
            ScannedNext(s, c) <=> Scanned(s, c) \/ (s = scan /\ c = child)
       /\ \A s \in DOMAIN to' : s \notin DOMAIN to => \A c \in Nat \ {0} : ~ScannedNext(s, c)
  BY <1>1, <1>11, ScanAdvances
<1>14. Plain(w, to')
  BY <1>6, <1>12, NewHalfKeeps DEF w
<1>15. CopiedTuples'
  <2>1. ASSUME NEW s \in DOMAIN to, to[s].kind = "tuple", NEW c \in DOMAIN to[s].vals
        PROVE  \/ t[s].vals[c] = to[s].vals[c] /\ (ScannedNext(s, c) <=> Scanned(s, c))
               \/ Plain(t[s].vals[c], to') /\ ScannedNext(s, c)
    <3>1. c \in Nat \ {0}
      <4>1. to[s] \in Objects /\ ~IsContainer(to[s])
        BY <1>3, <2>1 DEF IsContainer
      <4>2. to[s].vals \in Seq(Values)
        BY <4>1, ObjectFields
      <4> QED BY <4>2
    <3>2. CASE s = scan /\ c = child
      BY <1>5, <1>9, <1>13, <1>14, <3>1, <3>2
    <3>3. CASE ~(s = scan /\ c = child)
      <4>1. t[s].vals[c] = to[s].vals[c]
        BY <1>9, <2>1, <3>3
      <4> QED BY <1>13, <3>1, <3>3, <4>1
    <3> QED BY <3>2, <3>3
  <2> QED BY <1>12, <1>13, <2>1, TuplesKeep
<1>16. Collecting' /\ Typed' /\ Numbered' /\ OwnBlocks' /\ TuplesPlain' /\ RootsPlain' /\ RequestSuits'
       /\ Forwards' /\ Progress'
  BY <1>1, <1>12, ScanStepKeeps
<1>17. CellsPlain' /\ CopiedContainers' /\ CopiedBlocks'
  <2>1. \A s \in DOMAIN to : to[s].kind # "tuple" => t[s] = to[s]
    BY <1>1, <1>9
  <2>2. ASSUME NEW s \in DOMAIN to', IsContainer(to'[s]), NEW c \in Nat \ {0}
        PROVE  ScannedNext(s, c) <=> s \in DOMAIN to /\ Scanned(s, c)
    <3>1. CASE s \in DOMAIN to
      <4>1. s # scan
        <5>1. Copy(to[scan], to'[scan])
          BY <1>3, <1>12, NewHalfKeeps
        <5> QED BY <1>1, <2>2, <5>1 DEF Copy, IsContainer
      <4> QED BY <1>13, <3>1, <4>1
    <3>2. CASE s \notin DOMAIN to
      BY <1>13, <3>2
    <3> QED BY <3>1, <3>2
  <2> QED BY <1>1, <1>6, <1>12, <1>16, <2>1, <2>2, ContainersKeep
<1> QED BY <1>15, <1>16, <1>17 DEF IInv, Copying

\* The container that is scanned: its block was not moved yet.
LEMMA ScannedContainer ==
  ASSUME IInv, Scanning, IsContainer(to[scan]), child <= ValuesOf(to[scan])
  PROVE  \E k \in DOMAIN cur :
           /\ fwd[k] = scan /\ IsContainer(cur[k]) /\ cur[k] \in Objects
           /\ cur[k].buff.at = to[scan].buff.at /\ cur[k].buff.id = to[scan].buff.id
           /\ Elements(cur[k]) = Elements(to[scan]) /\ Elements(cur[k]) \in Nat
           /\ ValuesOf(cur[k]) = Elements(cur[k]) + 1 /\ ValuesOf(to[scan]) = Elements(cur[k]) + 1
           /\ cur[k].buff.at \in DOMAIN cur /\ fwd[cur[k].buff.at] = 0
           /\ Block(k).kind = "fixed" /\ Block(k).id = cur[k].buff.id
           /\ Block(k).vals \in Seq(Values) /\ Elements(cur[k]) <= Len(Block(k).vals)
<1>1. PICK k \in DOMAIN cur : fwd[k] = scan /\ Copy(cur[k], to[scan])
  BY ScanFacts
<1>2. /\ Copying /\ cur \in Seq(Objects) /\ to \in Seq(Objects) /\ scan \in DOMAIN to
      /\ scan \in Nat \ {0} /\ child \in Nat \ {0}
  BY ScanFacts
<1>3. /\ IsContainer(cur[k]) /\ cur[k] \in Objects /\ to[scan] \in Objects
      /\ cur[k].buff.id = to[scan].buff.id /\ cur[k].kind = to[scan].kind /\ cur[k].n = to[scan].n
  BY <1>1, <1>2 DEF Copy, IsContainer
<1>4. Elements(cur[k]) = Elements(to[scan])
  BY <1>3 DEF Elements
<1>5. Elements(cur[k]) \in Nat /\ ValuesOf(cur[k]) = Elements(cur[k]) + 1
      /\ ValuesOf(to[scan]) = Elements(cur[k]) + 1
  BY <1>3, <1>4, Measures
<1>6. ~BlockMoved(k)
  BY <1>1, <1>2, <1>5 DEF BlockMoved, Scanned
<1>7. fwd[cur[k].buff.at] = 0 /\ to[scan].buff.at = cur[k].buff.at
  <2>1. (fwd[cur[k].buff.at] # 0 <=> BlockMoved(k))
        /\ to[fwd[k]].buff.at = IF BlockMoved(k) THEN fwd[cur[k].buff.at] ELSE cur[k].buff.at
    BY <1>1, <1>2, <1>3 DEF Copying, CopiedContainers
  <2> QED BY <1>1, <1>6, <2>1
<1>8. /\ cur[k].buff.at \in DOMAIN cur /\ Block(k).kind = "fixed" /\ Block(k).id = cur[k].buff.id
      /\ Width(cur[k].kind) * cur[k].cap <= Len(Block(k).vals) /\ cur[k].n <= cur[k].cap
  BY <1>3 DEF IInv, OwnBlocks
<1>9. Block(k).vals \in Seq(Values)
  <2>1. Block(k) \in Objects /\ ~IsContainer(Block(k))
    BY <1>2, <1>8 DEF Block, IsContainer
  <2> QED BY <2>1, ObjectFields
<1>10. Elements(cur[k]) <= Len(Block(k).vals)
  <2>1. Len(Block(k).vals) \in Nat
    BY <1>9
  <2>2. Elements(cur[k]) <= Width(cur[k].kind) * cur[k].cap /\ Width(cur[k].kind) * cur[k].cap \in Nat
    BY <1>3, <1>8, Measures
  <2> QED BY <1>5, <1>8, <2>1, <2>2
<1> QED BY <1>1, <1>3, <1>4, <1>5, <1>7, <1>8, <1>9, <1>10

\* A tuple of the new half is not the container that is scanned.
LEMMA ContainerScanned ==
  ASSUME NEW v, NEW t, CopyingStep(v, t), Scanning, IsContainer(to[scan]),
         child' = child + 1, scan' = scan,
         \A s \in DOMAIN to : to[s].kind = "tuple" => t[s] = to[s]
  PROVE  CopiedTuples'
<1>1. /\ \A s \in DOMAIN to : \A c \in Nat \ {0} :
            ScannedNext(s, c) <=> Scanned(s, c) \/ (s = scan /\ c = child)
      /\ \A s \in DOMAIN to' : s \notin DOMAIN to => \A c \in Nat \ {0} : ~ScannedNext(s, c)
  BY ScanAdvances DEF CopyingStep
<1>2. ASSUME NEW s \in DOMAIN to, to[s].kind = "tuple", NEW c \in DOMAIN to[s].vals
      PROVE  t[s].vals[c] = to[s].vals[c] /\ (ScannedNext(s, c) <=> Scanned(s, c))
  <2>1. s # scan
    BY <1>2 DEF IsContainer
  <2>2. c \in Nat \ {0}
    <3>1. to[s] \in Objects /\ ~IsContainer(to[s])
      BY <1>2 DEF IsContainer, CopyingStep, IInv, Typed
    <3>2. to[s].vals \in Seq(Values)
      BY <3>1, ObjectFields
    <3> QED BY <3>2
  <2> QED BY <1>1, <1>2, <2>1, <2>2
<1> QED BY <1>1, <1>2, TuplesKeep

\* scan() of a container: one element of its block is followed.
LEMMA ScanElementKeeps == IInv /\ ScanElement => IInv'
<1> SUFFICES ASSUME IInv, ScanElement PROVE IInv'
  OBVIOUS
<1> DEFINE b == to[scan].buff.at
           v == cur[b].vals[child]
           w == Forwarded(v)
<1>1. /\ Scanning /\ IsContainer(to[scan]) /\ child <= Elements(to[scan])
      /\ copy(v) /\ to' = Moved(v, to) /\ child' = child + 1
      /\ UNCHANGED <<stack, msbox, made, phase, req, pos, scan>>
  BY DEF ScanElement, mutator
<1>2. cur' = WithCell(cur, b, child, w)
  BY DEF ScanElement, WithCell
<1>3. /\ Collecting /\ Copying /\ phase = "scan"
      /\ cur \in Seq(Objects) /\ to \in Seq(Objects)
      /\ scan \in DOMAIN to /\ scan \in Nat \ {0} /\ child \in Nat \ {0} /\ ~Scanned(scan, child)
  BY <1>1, ScanFacts
<1>4. child <= ValuesOf(to[scan])
  <2>1. Elements(to[scan]) \in Nat /\ ValuesOf(to[scan]) = Elements(to[scan]) + 1
    BY <1>1, <1>3, Measures
  <2> QED BY <1>1, <1>3, <2>1
<1>5. PICK k0 \in DOMAIN cur :
           /\ fwd[k0] = scan /\ IsContainer(cur[k0]) /\ cur[k0] \in Objects
           /\ cur[k0].buff.at = b
           /\ Elements(cur[k0]) = Elements(to[scan]) /\ Elements(cur[k0]) \in Nat
           /\ ValuesOf(cur[k0]) = Elements(cur[k0]) + 1
           /\ b \in DOMAIN cur /\ fwd[b] = 0
           /\ cur[b].kind = "fixed" /\ cur[b].id = cur[k0].buff.id
           /\ cur[b].vals \in Seq(Values) /\ Elements(cur[k0]) <= Len(cur[b].vals)
  BY <1>1, <1>4, ScannedContainer DEF Block
<1>6. child \in 1 .. Elements(cur[k0]) /\ child \in DOMAIN cur[b].vals /\ v \in Values
  BY <1>1, <1>3, <1>5
<1>7. Plain(v, cur)
  <2>1. Plain(Block(k0).vals[child], CellHalf(k0, child))
    BY <1>5, <1>6 DEF IInv, CellsPlain
  <2>2. CellHalf(k0, child) = cur
    BY <1>3, <1>5 DEF CellHalf, Half
  <2> QED BY <1>5, <2>1, <2>2 DEF Block
<1>8. v.at # 0 => v.at \in DOMAIN cur
  BY <1>7, PlainIsObject
<1>9. w \in Values
  BY <1>3, <1>6, <1>8, ForwardedValue DEF Copying
<1>10. v.at # b
  <2>1. 0 \notin DOMAIN cur
    BY <1>3
  <2> QED BY <1>5, <1>7, <2>1 DEF Plain, Nil
<1> HIDE DEF v, w, b
<1>11. /\ cur' \in Seq(Objects) /\ DOMAIN cur' = DOMAIN cur
       /\ \A k \in DOMAIN cur : k # b => cur'[k] = cur[k]
       /\ cur'[b].kind = cur[b].kind /\ cur'[b].id = cur[b].id
       /\ Len(cur'[b].vals) = Len(cur[b].vals)
       /\ \A c \in DOMAIN cur[b].vals : cur'[b].vals[c] = IF c = child THEN w ELSE cur[b].vals[c]
  BY <1>2, <1>3, <1>5, <1>9, CellWritten DEF IsContainer
<1>12. Rewrites
  <2>1. Copy(cur[b], cur'[b])
    BY <1>5, <1>11 DEF Copy, IsContainer
  <2> QED BY <1>5, <1>11, <2>1, CopySelf DEF Rewrites
<1>13. MovedOn(v, to)
  BY <1>1, <1>3, <1>6, <1>8, CopyMoves DEF Copying
<1>14. CopyingStep(v, to)
  BY <1>1, <1>3, <1>12, <1>13, CopySelf DEF CopyingStep
<1>15. Collecting' /\ Typed' /\ Numbered' /\ OwnBlocks' /\ TuplesPlain' /\ RootsPlain' /\ RequestSuits'
       /\ Forwards' /\ Progress'
  BY <1>1, <1>14, ScanStepKeeps
<1>16. CopiedTuples'
  BY <1>1, <1>14, ContainerScanned
<1>17. \A k \in DOMAIN cur : \A c \in Nat \ {0} :
         fwd'[k] # 0 /\ ScannedNext(fwd'[k], c) <=>
         fwd[k] # 0 /\ (Scanned(fwd[k], c) \/ (fwd[k] = scan /\ c = child))
  BY <1>1, <1>13, ScanAdvances
<1>18. Plain(w, to') /\ \A x : Plain(x, to) => Plain(x, to')
  BY <1>7, <1>14, NewHalfKeeps DEF w
<1>19. \A x : Plain(x, cur) => Plain(x, cur')
  BY <1>14, OldHalfKeeps
<1>20. ASSUME NEW k \in DOMAIN cur', IsContainer(cur'[k])
       PROVE  /\ k \in DOMAIN cur /\ IsContainer(cur[k]) /\ cur'[k] = cur[k] /\ cur[k] \in Objects
              /\ cur[k].buff.at \in DOMAIN cur /\ cur[cur[k].buff.at].kind = "fixed"
              /\ fwd[k] = scan => k = k0
              /\ cur[k].buff.at = b => k = k0
              /\ fwd'[cur[k].buff.at] = fwd[cur[k].buff.at]
  <2>1. k \in DOMAIN cur /\ IsContainer(cur[k]) /\ cur'[k] = cur[k] /\ cur[k] \in Objects
    BY <1>3, <1>11, <1>14, <1>20, OldHalfKeeps
  <2>2. cur[k].buff.at \in DOMAIN cur /\ cur[cur[k].buff.at].kind = "fixed"
    BY <2>1 DEF IInv, OwnBlocks, Block
  <2>3. fwd[k] = scan => k = k0
    BY <1>3, <1>5, <2>1, ForwardsApart DEF IInv, Copying
  <2>4. cur[k].buff.at = b => k = k0
    BY <1>5, <2>1 DEF IInv, OwnBlocks
  <2>5. cur[k].buff.at # v.at
    <3>1. 0 \notin DOMAIN cur
      BY <1>3
    <3> QED BY <1>7, <2>2, <3>1 DEF Plain, Nil
  <2> QED BY <1>13, <2>1, <2>2, <2>3, <2>4, <2>5 DEF MovedOn
<1>21. CellsPlain'
  <2> SUFFICES ASSUME NEW k \in DOMAIN cur', IsContainer(cur'[k]), NEW c \in 1 .. Elements(cur'[k])
               PROVE  Plain(Block(k)'.vals[c], CellHalf(k, c)')
    BY DEF CellsPlain
  <2> DEFINE a == cur[k].buff.at
  <2>1. /\ k \in DOMAIN cur /\ IsContainer(cur[k]) /\ cur'[k] = cur[k] /\ cur[k] \in Objects
        /\ a \in DOMAIN cur /\ (a = b => k = k0)
    BY <1>20
  <2>2. c \in 1 .. Elements(cur[k]) /\ c \in Nat \ {0}
    BY <2>1, Measures
  <2>3. Plain(cur[a].vals[c], CellHalf(k, c))
    BY <2>1, <2>2 DEF IInv, CellsPlain, Block
  <2>4. Block(k)' = cur'[a]
    BY <2>1 DEF Block
  <2> HIDE DEF a
  <2>5. CellHalf(k, c)' = IF fwd'[k] # 0 /\ ScannedNext(fwd'[k], c) THEN to' ELSE cur'
    BY <1>15 DEF CellHalf, Half, Scanned, ScannedNext
  <2>6. CellHalf(k, c) = IF fwd[k] # 0 /\ Scanned(fwd[k], c) THEN to ELSE cur
    BY <1>3 DEF CellHalf, Half
  <2>7. CASE k = k0 /\ c = child
    <3>1. CellHalf(k, c)' = to'
      BY <1>3, <1>5, <1>17, <2>1, <2>2, <2>5, <2>7
    <3>2. cur'[a].vals[c] = w
      BY <1>5, <1>6, <1>11, <2>7 DEF a
    <3> QED BY <1>18, <2>4, <3>1, <3>2
  <2>8. CASE ~(k = k0 /\ c = child)
    <3>1. cur'[a].vals[c] = cur[a].vals[c]
      <4>1. CASE a = b
        <5>1. c \in DOMAIN cur[b].vals
          BY <1>5, <2>1, <2>2, <4>1
        <5> QED BY <1>11, <2>1, <2>8, <4>1, <5>1
      <4>2. CASE a # b
        BY <1>11, <2>1, <4>2
      <4> QED BY <4>1, <4>2
    <3>2. fwd'[k] # 0 /\ ScannedNext(fwd'[k], c) <=> fwd[k] # 0 /\ Scanned(fwd[k], c)
      BY <1>17, <1>20, <2>1, <2>2, <2>8
    <3> QED BY <1>18, <1>19, <2>3, <2>4, <2>5, <2>6, <3>1, <3>2
  <2> QED BY <2>7, <2>8
<1>22. CopiedContainers'
  <2> SUFFICES ASSUME NEW k \in DOMAIN cur', IsContainer(cur'[k])
               PROVE  /\ fwd'[cur'[k].buff.at] # 0 <=> BlockMoved(k)'
                      /\ fwd'[k] # 0 => to'[fwd'[k]].buff.at =
                            IF BlockMoved(k)' THEN fwd'[cur'[k].buff.at] ELSE cur'[k].buff.at
    BY DEF CopiedContainers
  <2>1. /\ k \in DOMAIN cur /\ IsContainer(cur[k]) /\ cur'[k] = cur[k] /\ cur[k] \in Objects
        /\ fwd'[cur[k].buff.at] = fwd[cur[k].buff.at]
        /\ fwd[k] = scan => k = k0
    BY <1>20
  <2>2. ValuesOf(cur[k]) \in Nat \ {0}
    BY <2>1, Measures
  <2>3. BlockMoved(k)' <=> BlockMoved(k)
    <3>1. BlockMoved(k)' <=> fwd'[k] # 0 /\ ScannedNext(fwd'[k], ValuesOf(cur[k]))
      BY <2>1 DEF BlockMoved, ScannedNext, Scanned, ValuesOf, IsContainer, Elements
    <3>2. ~(fwd[k] = scan /\ ValuesOf(cur[k]) = child)
      BY <1>5, <1>6, <2>1
    <3> QED BY <1>17, <2>1, <2>2, <3>1, <3>2 DEF BlockMoved
  <2>4. /\ fwd[cur[k].buff.at] # 0 <=> BlockMoved(k)
        /\ fwd[k] # 0 => to[fwd[k]].buff.at =
              IF BlockMoved(k) THEN fwd[cur[k].buff.at] ELSE cur[k].buff.at
    BY <1>3, <2>1 DEF Copying, CopiedContainers
  <2>5. CASE fwd[k] # 0
    <3>1. fwd'[k] = fwd[k] /\ to'[fwd[k]] = to[fwd[k]]
      BY <1>13, <2>1, <2>5 DEF MovedOn
    <3> QED BY <2>1, <2>3, <2>4, <2>5, <3>1
  <2>6. CASE fwd[k] = 0
    <3>1. ~BlockMoved(k)
      BY <2>6 DEF BlockMoved
    <3>2. fwd'[k] # 0 => to'[fwd'[k]] = cur[k]
      BY <1>13, <2>1, <2>6 DEF MovedOn
    <3> QED BY <2>1, <2>3, <2>4, <3>1, <3>2
  <2> QED BY <2>5, <2>6
<1>23. CopiedBlocks'
  <2> SUFFICES ASSUME NEW k \in DOMAIN cur, cur'[k].kind = "fixed", fwd'[k] # 0
               PROVE  to'[fwd'[k]].vals = cur'[k].vals
    BY <1>11 DEF CopiedBlocks
  <2>1. fwd'[b] = 0
    BY <1>5, <1>10, <1>13 DEF MovedOn
  <2>2. cur'[k] = cur[k]
    BY <1>11, <2>1
  <2>3. CASE fwd[k] # 0
    <3>1. fwd'[k] = fwd[k] /\ to'[fwd[k]] = to[fwd[k]]
      BY <1>13, <2>3 DEF MovedOn
    <3> QED BY <1>3, <2>2, <2>3, <3>1 DEF Copying, CopiedBlocks
  <2>4. CASE fwd[k] = 0
    BY <1>13, <2>2, <2>4 DEF MovedOn
  <2> QED BY <2>3, <2>4
<1> QED BY <1>15, <1>16, <1>21, <1>22, <1>23 DEF IInv, Copying

WithBuff(h, a, x) == [h EXCEPT ![a].buff = x]

\* The objects with the block of a container replaced.
LEMMA BuffWritten ==
  ASSUME NEW h \in Seq(Objects), NEW a \in DOMAIN h, IsContainer(h[a]), NEW x \in Values
  PROVE  LET g == WithBuff(h, a, x) IN
         /\ g \in Seq(Objects) /\ DOMAIN g = DOMAIN h /\ Len(g) = Len(h)
         /\ \A k \in DOMAIN h : k # a => g[k] = h[k]
         /\ g[a].kind = h[a].kind /\ g[a].id = h[a].id /\ g[a].sz = h[a].sz
         /\ g[a].cap = h[a].cap /\ g[a].n = h[a].n /\ g[a].buff = x
<1> DEFINE g == WithBuff(h, a, x)
           o == h[a]
           p == [o EXCEPT !.buff = x]
<1>1. o \in Boxed
  BY DEF Objects, Flat, IsContainer
<1>2. p \in Boxed /\ p.kind = o.kind /\ p.id = o.id /\ p.sz = o.sz /\ p.cap = o.cap /\ p.n = o.n /\ p.buff = x
  BY <1>1 DEF Boxed
<1>3. g = [h EXCEPT ![a] = p]
  BY DEF WithBuff
<1> HIDE DEF g, p, o
<1>4. p \in Objects
  BY <1>2 DEF Objects
<1>5. g \in Seq(Objects) /\ DOMAIN g = DOMAIN h /\ Len(g) = Len(h) /\ g[a] = p
      /\ \A k \in DOMAIN h : k # a => g[k] = h[k]
  BY <1>3, <1>4
<1> QED BY <1>2, <1>5 DEF o, g

\* scan() of a container: after its elements the block itself is moved.
LEMMA ScanBlockKeeps == IInv /\ ScanBlock => IInv'
<1> SUFFICES ASSUME IInv, ScanBlock PROVE IInv'
  OBVIOUS
<1> DEFINE v == to[scan].buff
           b == v.at
           w == Forwarded(v)
           t == WithBuff(to, scan, w)
<1>1. /\ Scanning /\ IsContainer(to[scan]) /\ child = ValuesOf(to[scan])
      /\ copy(v) /\ child' = child + 1
      /\ UNCHANGED <<cur, stack, msbox, made, phase, req, pos, scan>>
  BY DEF ScanBlock, mutator
<1>2. to' = Moved(v, t)
  BY DEF ScanBlock, WithBuff
<1>3. /\ Collecting /\ Copying /\ phase = "scan"
      /\ cur \in Seq(Objects) /\ to \in Seq(Objects)
      /\ scan \in DOMAIN to /\ scan \in Nat \ {0} /\ child \in Nat \ {0} /\ ~Scanned(scan, child)
  BY <1>1, ScanFacts
<1>4. child <= ValuesOf(to[scan])
  BY <1>1, <1>3
<1>5. PICK k0 \in DOMAIN cur :
           /\ fwd[k0] = scan /\ IsContainer(cur[k0]) /\ cur[k0] \in Objects
           /\ cur[k0].buff.at = b
           /\ ValuesOf(cur[k0]) = child /\ Elements(cur[k0]) \in Nat
           /\ b \in DOMAIN cur /\ fwd[b] = 0
           /\ cur[b].kind = "fixed"
  BY <1>1, <1>4, ScannedContainer DEF Block
<1>6. v \in Values
  <2>1. to[scan] \in Objects
    BY <1>3
  <2> QED BY <1>1, <2>1, ObjectFields
<1>7. w \in Values
  BY <1>3, <1>5, <1>6, ForwardedValue DEF Copying
<1>8. b # 0
  BY <1>3, <1>5
<1>9. w.id = v.id /\ b = v.at
  BY DEF Forwarded
<1> HIDE DEF v, w, b
<1>10. /\ t \in Seq(Objects) /\ DOMAIN t = DOMAIN to /\ Len(t) = Len(to)
       /\ \A s \in DOMAIN to : s # scan => t[s] = to[s]
       /\ t[scan].kind = to[scan].kind /\ t[scan].id = to[scan].id
       /\ t[scan].cap = to[scan].cap /\ t[scan].n = to[scan].n /\ t[scan].buff = w
  BY <1>1, <1>3, <1>7, BuffWritten
<1> HIDE DEF t
<1>11. \A s \in DOMAIN to : Copy(to[s], t[s])
  <2>1. Copy(to[scan], t[scan])
    BY <1>1, <1>9, <1>10 DEF Copy, v
  <2> QED BY <1>10, <2>1, CopySelf
<1>12. MovedOn(v, t)
  BY <1>1, <1>2, <1>3, <1>5, <1>6, <1>9, <1>10, CopyMoves DEF Copying
<1>13. CopyingStep(v, t)
  BY <1>1, <1>3, <1>11, <1>12, NothingRewritten DEF CopyingStep
<1>14. Collecting' /\ Typed' /\ Numbered' /\ OwnBlocks' /\ TuplesPlain' /\ RootsPlain' /\ RequestSuits'
       /\ Forwards' /\ Progress'
  BY <1>1, <1>13, ScanStepKeeps
<1>15. CopiedTuples'
  <2>1. \A s \in DOMAIN to : to[s].kind = "tuple" => t[s] = to[s]
    BY <1>1, <1>10 DEF IsContainer
  <2> QED BY <1>1, <1>13, <2>1, ContainerScanned
<1>16. \A k \in DOMAIN cur : \A c \in Nat \ {0} :
         fwd'[k] # 0 /\ ScannedNext(fwd'[k], c) <=>
         fwd[k] # 0 /\ (Scanned(fwd[k], c) \/ (fwd[k] = scan /\ c = child))
  BY <1>1, <1>12, ScanAdvances
<1>17. \A x : Plain(x, to) => Plain(x, to')
  BY <1>13, NewHalfKeeps
<1>18. ASSUME NEW k \in DOMAIN cur, IsContainer(cur[k])
       PROVE  /\ cur[k] \in Objects /\ Elements(cur[k]) \in Nat /\ ValuesOf(cur[k]) = Elements(cur[k]) + 1
              /\ fwd[k] = scan => k = k0
              /\ cur[k].buff.at = b => k = k0
              /\ cur[k].buff.at \in DOMAIN cur
              /\ k # b
  <2>1. cur[k] \in Objects /\ Elements(cur[k]) \in Nat /\ ValuesOf(cur[k]) = Elements(cur[k]) + 1
    BY <1>3, <1>18, Measures
  <2>2. fwd[k] = scan => k = k0
    BY <1>3, <1>5, ForwardsApart DEF IInv, Copying
  <2>3. (cur[k].buff.at = b => k = k0) /\ cur[k].buff.at \in DOMAIN cur
    BY <1>5, <1>18 DEF IInv, OwnBlocks
  <2> QED BY <1>5, <1>18, <2>1, <2>2, <2>3 DEF IsContainer
<1>19. CellsPlain'
  <2> SUFFICES ASSUME NEW k \in DOMAIN cur, IsContainer(cur[k]), NEW c \in 1 .. Elements(cur[k])
               PROVE  Plain(Block(k).vals[c], CellHalf(k, c)')
    BY <1>1 DEF CellsPlain, Block
  <2>1. Plain(Block(k).vals[c], CellHalf(k, c))
    BY DEF IInv, CellsPlain
  <2>2. c \in Nat \ {0} /\ ~(fwd[k] = scan /\ c = child)
    BY <1>5, <1>18
  <2>3. CellHalf(k, c)' = IF fwd'[k] # 0 /\ ScannedNext(fwd'[k], c) THEN to' ELSE cur
    BY <1>1, <1>14 DEF CellHalf, Half, Scanned, ScannedNext
  <2>4. CellHalf(k, c) = IF fwd[k] # 0 /\ Scanned(fwd[k], c) THEN to ELSE cur
    BY <1>3 DEF CellHalf, Half
  <2> QED BY <1>16, <1>17, <2>1, <2>2, <2>3, <2>4
<1>20. CopiedContainers'
  <2> SUFFICES ASSUME NEW k \in DOMAIN cur, IsContainer(cur[k])
               PROVE  /\ fwd'[cur[k].buff.at] # 0 <=> BlockMoved(k)'
                      /\ fwd'[k] # 0 => to'[fwd'[k]].buff.at =
                            IF BlockMoved(k)' THEN fwd'[cur[k].buff.at] ELSE cur[k].buff.at
    BY <1>1 DEF CopiedContainers
  <2>1. ValuesOf(cur[k]) \in Nat \ {0} /\ k # b /\ fwd'[k] = fwd[k]
    <3>1. k # b /\ Elements(cur[k]) \in Nat /\ ValuesOf(cur[k]) = Elements(cur[k]) + 1
      BY <1>18
    <3> QED BY <1>9, <1>12, <3>1 DEF MovedOn
  <2>2. BlockMoved(k)' <=> fwd'[k] # 0 /\ ScannedNext(fwd'[k], ValuesOf(cur[k]))
    BY <1>1 DEF BlockMoved, ScannedNext, Scanned
  <2>3. /\ fwd[cur[k].buff.at] # 0 <=> BlockMoved(k)
        /\ fwd[k] # 0 => to[fwd[k]].buff.at =
              IF BlockMoved(k) THEN fwd[cur[k].buff.at] ELSE cur[k].buff.at
    BY <1>3 DEF Copying, CopiedContainers
  <2>4. CASE k = k0
    <3>1. BlockMoved(k)'
      BY <1>3, <1>5, <1>16, <2>1, <2>2, <2>4
    <3>2. fwd'[b] # 0 /\ w.at = fwd'[b]
      BY <1>8, <1>9, <1>12 DEF MovedOn, w
    <3>3. to'[scan] = t[scan] /\ fwd'[k] = scan
      BY <1>3, <1>5, <1>12, <2>1, <2>4 DEF MovedOn
    <3>4. to'[scan].buff.at = fwd'[b]
      BY <1>10, <3>2, <3>3
    <3> QED BY <1>5, <2>4, <3>1, <3>2, <3>3, <3>4
  <2>5. CASE k # k0
    <3>1. BlockMoved(k)' <=> BlockMoved(k)
      BY <1>16, <1>18, <2>1, <2>2, <2>5 DEF BlockMoved
    <3>2. fwd'[cur[k].buff.at] = fwd[cur[k].buff.at]
      BY <1>9, <1>12, <1>18, <2>5 DEF MovedOn
    <3>3. fwd[k] # 0 => to'[fwd[k]] = to[fwd[k]]
      BY <1>10, <1>12, <1>18, <2>5 DEF MovedOn
    <3> QED BY <2>1, <2>3, <3>1, <3>2, <3>3
  <2> QED BY <2>4, <2>5
<1>21. CopiedBlocks'
  <2> SUFFICES ASSUME NEW k \in DOMAIN cur, cur[k].kind = "fixed", fwd'[k] # 0
               PROVE  to'[fwd'[k]].vals = cur[k].vals
    BY <1>1 DEF CopiedBlocks
  <2>1. CASE fwd[k] # 0
    <3>1. fwd'[k] = fwd[k] /\ to'[fwd[k]] = t[fwd[k]] /\ fwd[k] \in DOMAIN to
      BY <1>12, <2>1 DEF MovedOn
    <3>2. fwd[k] # scan
      <4>1. to[fwd[k]].kind = "fixed"
        BY <1>3, <2>1 DEF Copying, Forwards, Copy
      <4> QED BY <1>1, <4>1 DEF IsContainer
    <3>3. t[fwd[k]] = to[fwd[k]]
      BY <1>10, <3>1, <3>2
    <3> QED BY <1>3, <2>1, <3>1, <3>3 DEF Copying, CopiedBlocks
  <2>2. CASE fwd[k] = 0
    BY <1>12, <2>2 DEF MovedOn
  <2> QED BY <2>1, <2>2
<1> QED BY <1>14, <1>15, <1>19, <1>20, <1>21 DEF IInv, Copying

-----------------------------------------------------------------------------
\* The roots are done.
LEMMA RootsDoneKeeps == IInv /\ RootsDone => IInv'
<1> SUFFICES ASSUME IInv, RootsDone PROVE IInv'
  OBVIOUS
<1>1. /\ phase = "roots" /\ pos > Len(Roots) /\ phase' = "scan" /\ Collecting /\ Collecting' /\ Copying
      /\ UNCHANGED <<cur, stack, msbox, made, req, to, fwd, pos, scan, child>>
  BY DEF RootsDone, Collecting, mutator, gc, IInv
<1>2. stack \in Seq(Values) /\ msbox \in Seq(Values) /\ pos \in Nat
  BY DEF IInv, Typed
<1>3. Typed'
  BY <1>1 DEF IInv, Typed, Collecting, Phases
<1>4. Numbered' /\ OwnBlocks' /\ TuplesPlain'
  BY <1>1 DEF IInv, Numbered, OwnBlocks, TuplesPlain, Block, Plain
<1>5. \A r \in DOMAIN Roots : RootHalf(r) = to /\ RootHalf(r)' = to
  <2>1. \A r \in DOMAIN Roots : r < pos
    BY <1>1, <1>2, RootsAre
  <2> QED BY <1>1, <2>1 DEF RootHalf, Half
<1>6. Roots' = Roots
  BY <1>1 DEF Roots
<1>7. RootsPlain'
  BY <1>5, <1>6 DEF IInv, RootsPlain
<1>8. RequestSuits'
  <2> SUFFICES ASSUME req.op = "capacity" PROVE RequestSuits'
    BY <1>1 DEF RequestSuits
  <2>1. req.i \in DOMAIN Roots /\ req.i \in DOMAIN stack /\ stack[req.i] # Nil
        /\ Suits(RootHalf(req.i)[stack[req.i].at])
        /\ \A x \in DOMAIN req.src : req.src[x] \in DOMAIN stack
    BY RequestPlace
  <2> QED BY <1>1, <1>5, <2>1 DEF RequestSuits, Suits
<1>9. CellsPlain'
  <2>1. \A k, c : CellHalf(k, c)' = CellHalf(k, c)
    BY <1>1 DEF CellHalf, Half, Scanned
  <2> QED BY <1>1, <2>1 DEF IInv, CellsPlain, Block
<1>10. Forwards' /\ CopiedTuples' /\ CopiedContainers' /\ CopiedBlocks'
  <2>1. Forwards'
    BY <1>1 DEF Copying, Forwards
  <2>2. CopiedTuples'
    BY <1>1 DEF Copying, CopiedTuples, Half, Scanned, Plain
  <2>3. CopiedContainers'
    BY <1>1 DEF Copying, CopiedContainers, BlockMoved, Scanned
  <2>4. CopiedBlocks'
    BY <1>1 DEF Copying, CopiedBlocks
  <2> QED BY <2>1, <2>2, <2>3, <2>4
<1>11. Progress'
  BY <1>1, <1>6 DEF Progress
<1> QED BY <1>3, <1>4, <1>7, <1>8, <1>9, <1>10, <1>11 DEF IInv, Copying

\* The next object: nothing of the last one is left.
LEMMA ScanNextKeeps == IInv /\ ScanNext => IInv'
<1> SUFFICES ASSUME IInv, ScanNext PROVE IInv'
  OBVIOUS
<1>1. /\ Scanning /\ child > ValuesOf(to[scan]) /\ scan' = scan + 1 /\ child' = 1
      /\ UNCHANGED <<cur, stack, msbox, made, phase, req, to, fwd, pos>>
  BY DEF ScanNext, mutator
<1>2. /\ Collecting /\ Copying /\ phase = "scan"
      /\ cur \in Seq(Objects) /\ to \in Seq(Objects)
      /\ scan \in DOMAIN to /\ scan \in Nat \ {0} /\ child \in Nat \ {0}
  BY <1>1, ScanFacts
<1>3. Typed'
  BY <1>1, <1>2 DEF IInv, Typed, Collecting
<1>4. Numbered' /\ OwnBlocks' /\ TuplesPlain'
  BY <1>1 DEF IInv, Numbered, OwnBlocks, TuplesPlain, Block, Plain
<1>5. RootsPlain' /\ RequestSuits' /\ Collecting'
  <2>1. \A r : RootHalf(r)' = RootHalf(r)
    BY <1>1 DEF RootHalf, Half
  <2>2. Roots' = Roots
    BY <1>1 DEF Roots
  <2> QED BY <1>1, <1>2, <2>1, <2>2 DEF IInv, RootsPlain, RequestSuits, Suits, Collecting
<1>6. ASSUME NEW s \in DOMAIN to, NEW c \in Nat \ {0}, s = scan => c <= ValuesOf(to[scan])
      PROVE  ScannedNext(s, c) <=> Scanned(s, c)
  <2>1. s \in Nat
    BY <1>2
  <2>2. CASE s # scan
    BY <1>1, <1>2, <2>1, <2>2 DEF Scanned, ScannedNext
  <2>3. CASE s = scan
    <3>1. ValuesOf(to[scan]) \in Nat
      <4>1. to[scan] \in Objects
        BY <1>2
      <4>2. CASE IsContainer(to[scan])
        BY <4>1, <4>2, Measures
      <4>3. CASE to[scan].kind = "tuple"
        <5>1. to[scan].vals \in Seq(Values)
          BY <4>1, <4>3, ObjectFields DEF IsContainer
        <5>2. ValuesOf(to[scan]) = Len(to[scan].vals)
          BY <4>3 DEF ValuesOf, IsContainer
        <5> QED BY <5>1, <5>2
      <4>4. CASE ~IsContainer(to[scan]) /\ to[scan].kind # "tuple"
        <5>1. ValuesOf(to[scan]) = 0
          BY <4>4 DEF ValuesOf
        <5> QED BY <5>1
      <4> QED BY <4>2, <4>3, <4>4
    <3> QED BY <1>1, <1>2, <1>6, <2>1, <2>3, <3>1 DEF Scanned, ScannedNext
  <2> QED BY <2>2, <2>3
<1>7. ASSUME NEW k \in DOMAIN cur, IsContainer(cur[k])
      PROVE  /\ Elements(cur[k]) \in Nat /\ ValuesOf(cur[k]) = Elements(cur[k]) + 1
             /\ \A c \in 1 .. ValuesOf(cur[k]) :
                  fwd[k] # 0 => (ScannedNext(fwd[k], c) <=> Scanned(fwd[k], c))
  <2>1. Elements(cur[k]) \in Nat /\ ValuesOf(cur[k]) = Elements(cur[k]) + 1
    BY <1>2, <1>7, Measures
  <2>2. ASSUME fwd[k] # 0 PROVE fwd[k] \in DOMAIN to /\ ValuesOf(to[fwd[k]]) = ValuesOf(cur[k])
    <3>1. fwd[k] \in DOMAIN to /\ Copy(cur[k], to[fwd[k]])
      BY <1>2, <2>2, ForwardsInto DEF Copying, Forwards
    <3>2. IsContainer(to[fwd[k]]) /\ Elements(to[fwd[k]]) = Elements(cur[k])
      BY <1>7, <3>1 DEF Copy, IsContainer, Elements
    <3>3. to[fwd[k]] \in Objects
      BY <1>2, <3>1
    <3> QED BY <2>1, <3>1, <3>2, <3>3, Measures
  <2> QED BY <1>6, <2>1, <2>2
<1>8. CellsPlain'
  <2> SUFFICES ASSUME NEW k \in DOMAIN cur, IsContainer(cur[k]), NEW c \in 1 .. Elements(cur[k])
               PROVE  Plain(Block(k).vals[c], CellHalf(k, c)')
    BY <1>1 DEF CellsPlain, Block
  <2>1. Plain(Block(k).vals[c], CellHalf(k, c))
    BY DEF IInv, CellsPlain
  <2>2. CellHalf(k, c)' = IF fwd[k] # 0 /\ ScannedNext(fwd[k], c) THEN to ELSE cur
    BY <1>1, <1>5 DEF CellHalf, Half, Scanned, ScannedNext
  <2>3. CellHalf(k, c) = IF fwd[k] # 0 /\ Scanned(fwd[k], c) THEN to ELSE cur
    BY <1>2 DEF CellHalf, Half
  <2>4. c \in 1 .. ValuesOf(cur[k])
    BY <1>7
  <2> QED BY <1>7, <2>1, <2>2, <2>3, <2>4
<1>9. CopiedTuples'
  <2> SUFFICES ASSUME NEW s \in DOMAIN to, to[s].kind = "tuple", NEW c \in DOMAIN to[s].vals
               PROVE  Plain(to[s].vals[c], IF ScannedNext(s, c) THEN to ELSE cur)
    BY <1>1 DEF CopiedTuples, Half, Scanned, ScannedNext
  <2>1. Plain(to[s].vals[c], Half(Scanned(s, c)))
    BY <1>2 DEF Copying, CopiedTuples
  <2>2. to[s].vals \in Seq(Values)
    <3>1. to[s] \in Objects /\ ~IsContainer(to[s])
      BY <1>2 DEF IsContainer
    <3> QED BY <3>1, ObjectFields
  <2>3. c \in Nat \ {0} /\ c <= ValuesOf(to[s])
    <3>1. ValuesOf(to[s]) = Len(to[s].vals)
      BY DEF ValuesOf, IsContainer
    <3> QED BY <2>2, <3>1
  <2> QED BY <1>6, <2>1, <2>3 DEF Half
<1>10. CopiedContainers'
  <2>1. ASSUME NEW k \in DOMAIN cur, IsContainer(cur[k]) PROVE BlockMoved(k)' <=> BlockMoved(k)
    <3>1. BlockMoved(k)' <=> fwd[k] # 0 /\ ScannedNext(fwd[k], ValuesOf(cur[k]))
      BY <1>1 DEF BlockMoved, ScannedNext, Scanned
    <3>2. ValuesOf(cur[k]) \in 1 .. ValuesOf(cur[k])
      BY <1>7, <2>1
    <3> QED BY <1>7, <2>1, <3>1, <3>2 DEF BlockMoved
  <2> QED BY <1>1, <1>2, <2>1 DEF Copying, CopiedContainers
<1>11. Forwards' /\ CopiedBlocks'
  BY <1>1, <1>2 DEF Copying, Forwards, CopiedBlocks
<1>12. Progress'
  <2>1. Roots' = Roots
    BY <1>1 DEF Roots
  <2> QED BY <1>1, <1>2, <2>1 DEF Copying, Progress
<1> QED BY <1>3, <1>4, <1>5, <1>8, <1>9, <1>10, <1>11, <1>12 DEF IInv, Copying

-----------------------------------------------------------------------------
\* The halves are swapped: every reference leads to the new half by now.
LEMMA SwapKeeps == IInv /\ Swap => IInv'
<1> SUFFICES ASSUME IInv, Swap PROVE IInv'
  OBVIOUS
<1>1. /\ phase = "scan" /\ scan > Len(to) /\ cur' = to /\ to' = <<>> /\ pos' = 1 /\ scan' = 1 /\ child' = 1
      /\ phase' = IF req = NoReq THEN "run" ELSE "again"
      /\ UNCHANGED <<stack, msbox, made, req>>
  BY DEF Swap, mutator
<1>2. /\ Collecting /\ Copying /\ cur \in Seq(Objects) /\ to \in Seq(Objects) /\ scan \in Nat
      /\ Forwards /\ Numbered /\ OwnBlocks
  BY <1>1 DEF Collecting, IInv, Typed, Copying
<1>3. \A s \in DOMAIN to : \A c : Scanned(s, c)
  BY <1>1, <1>2 DEF Scanned
<1>4. ASSUME NEW k \in DOMAIN cur, fwd[k] # 0
      PROVE  fwd[k] \in DOMAIN to /\ Copy(cur[k], to[fwd[k]]) /\ \A c : Scanned(fwd[k], c)
  BY <1>2, <1>3, <1>4, ForwardsInto DEF Forwards
<1>5. ASSUME NEW s \in DOMAIN to
      PROVE  \E k \in DOMAIN cur : fwd[k] = s /\ s # 0 /\ Copy(cur[k], to[s])
  BY <1>2 DEF Forwards
<1>6. Typed'
  <2>1. <<>> \in Seq(Objects)
    OBVIOUS
  <2> QED BY <1>1, <1>2, <2>1 DEF IInv, Typed, Phases, Collecting
<1>7. Numbered'
  <2>1. ASSUME NEW s \in DOMAIN to PROVE to[s].id <= made
    BY <1>2, <1>5 DEF Numbered, Copy
  <2>2. ASSUME NEW s \in DOMAIN to, NEW l \in DOMAIN to, to[s].id = to[l].id PROVE s = l
    BY <1>2, <1>5, <2>2 DEF Numbered, Copy
  <2> QED BY <1>1, <2>1, <2>2 DEF Numbered
<1>8. ASSUME NEW s \in DOMAIN to, IsContainer(to[s])
      PROVE  \E k \in DOMAIN cur :
               /\ fwd[k] = s /\ Copy(cur[k], to[s]) /\ IsContainer(cur[k])
               /\ to[s].buff.at = fwd[cur[k].buff.at] /\ to[s].buff.at # 0
               /\ cur[k].buff.at \in DOMAIN cur
               /\ to[s].buff.at \in DOMAIN to
               /\ Copy(Block(k), to[to[s].buff.at])
               /\ to[to[s].buff.at].vals = Block(k).vals
               /\ Block(k).kind = "fixed" /\ Block(k).id = cur[k].buff.id
  <2>1. PICK k \in DOMAIN cur : fwd[k] = s /\ s # 0 /\ Copy(cur[k], to[s])
    BY <1>5, <1>8
  <2>2. IsContainer(cur[k])
    BY <1>8, <2>1 DEF Copy, IsContainer
  <2>3. BlockMoved(k)
    BY <1>3, <1>8, <2>1 DEF BlockMoved
  <2>4. fwd[cur[k].buff.at] # 0 /\ to[s].buff.at = fwd[cur[k].buff.at]
    BY <1>2, <2>1, <2>2, <2>3 DEF Copying, CopiedContainers
  <2>5. cur[k].buff.at \in DOMAIN cur /\ Block(k).kind = "fixed" /\ Block(k).id = cur[k].buff.id
    BY <1>2, <2>2 DEF OwnBlocks
  <2>6. to[s].buff.at \in DOMAIN to /\ Copy(Block(k), to[to[s].buff.at])
    BY <1>4, <2>4, <2>5 DEF Block
  <2>7. to[to[s].buff.at].vals = Block(k).vals
    BY <1>2, <2>4, <2>5 DEF Copying, CopiedBlocks, Block
  <2> QED BY <2>1, <2>2, <2>4, <2>5, <2>6, <2>7
<1>9. OwnBlocks'
  <2> SUFFICES ASSUME NEW s \in DOMAIN to, IsContainer(to[s])
               PROVE  /\ to[s].n <= to[s].cap
                      /\ to[s].buff.at \in DOMAIN to
                      /\ to[to[s].buff.at].kind = "fixed"
                      /\ to[to[s].buff.at].id = to[s].buff.id
                      /\ Width(to[s].kind) * to[s].cap <= Len(to[to[s].buff.at].vals)
                      /\ \A l \in DOMAIN to :
                           IsContainer(to[l]) /\ to[l].buff.at = to[s].buff.at => l = s
    BY <1>1 DEF OwnBlocks, Block
  <2>1. PICK k \in DOMAIN cur :
               /\ fwd[k] = s /\ Copy(cur[k], to[s]) /\ IsContainer(cur[k])
               /\ to[s].buff.at = fwd[cur[k].buff.at] /\ to[s].buff.at # 0
               /\ cur[k].buff.at \in DOMAIN cur
               /\ to[s].buff.at \in DOMAIN to
               /\ Copy(Block(k), to[to[s].buff.at])
               /\ to[to[s].buff.at].vals = Block(k).vals
               /\ Block(k).kind = "fixed" /\ Block(k).id = cur[k].buff.id
    BY <1>8
  <2>2. cur[k].n <= cur[k].cap /\ Width(cur[k].kind) * cur[k].cap <= Len(Block(k).vals)
    BY <1>2, <2>1 DEF OwnBlocks
  <2>3. to[s].n = cur[k].n /\ to[s].cap = cur[k].cap /\ to[s].kind = cur[k].kind
        /\ to[s].buff.id = cur[k].buff.id
    BY <2>1 DEF Copy
  <2>4. to[to[s].buff.at].kind = "fixed" /\ to[to[s].buff.at].id = to[s].buff.id
    BY <2>1, <2>3 DEF Copy
  <2>5. ASSUME NEW l \in DOMAIN to, IsContainer(to[l]), to[l].buff.at = to[s].buff.at PROVE l = s
    <3>1. PICK j \in DOMAIN cur :
               /\ fwd[j] = l /\ IsContainer(cur[j])
               /\ to[l].buff.at = fwd[cur[j].buff.at]
               /\ cur[j].buff.at \in DOMAIN cur
      BY <1>8, <2>5
    <3>2. cur[j].buff.at = cur[k].buff.at
      BY <1>2, <2>1, <2>5, <3>1, ForwardsApart
    <3>3. j = k
      BY <1>2, <2>1, <3>1, <3>2 DEF OwnBlocks
    <3> QED BY <2>1, <3>1, <3>3
  <2> QED BY <2>1, <2>2, <2>3, <2>4, <2>5
<1>10. TuplesPlain'
  BY <1>1, <1>2, <1>3 DEF Copying, CopiedTuples, Half, TuplesPlain
<1>11. \A r : RootHalf(r) = to
  BY <1>1 DEF RootHalf, Half
<1>12. RootsQuiet'
  <2>1. stack \in Seq(Values) /\ msbox \in Seq(Values)
    BY DEF IInv, Typed
  <2>2. \A r \in DOMAIN Roots : Plain(Roots[r], to)
    BY <1>11 DEF IInv, RootsPlain
  <2>3. ASSUME NEW i \in DOMAIN stack PROVE Plain(stack[i], to)
    <3>1. i \in DOMAIN Roots /\ Roots[i] = stack[i]
      BY <2>1, RootsAre
    <3> QED BY <2>2, <3>1
  <2>4. ASSUME NEW i \in DOMAIN msbox PROVE Plain(msbox[i], to)
    <3>1. Len(stack) + i \in DOMAIN Roots /\ Roots[Len(stack) + i] = msbox[i]
      BY <2>1 DEF Roots
    <3> QED BY <2>2, <3>1
  <2> QED BY <1>1, <2>3, <2>4 DEF RootsQuiet
<1>13. CellsQuiet'
  <2> SUFFICES ASSUME NEW s \in DOMAIN to, IsContainer(to[s]), NEW c \in 1 .. Elements(to[s])
               PROVE  Plain(to[to[s].buff.at].vals[c], to)
    BY <1>1 DEF CellsQuiet, Block
  <2>1. PICK k \in DOMAIN cur :
               /\ fwd[k] = s /\ Copy(cur[k], to[s]) /\ IsContainer(cur[k])
               /\ to[s].buff.at # 0
               /\ to[to[s].buff.at].vals = Block(k).vals
    BY <1>8
  <2>2. Elements(to[s]) = Elements(cur[k])
    BY <2>1 DEF Elements, Copy
  <2>3. CellHalf(k, c) = to
    BY <1>2, <1>3, <2>1 DEF CellHalf, Half
  <2>4. Plain(Block(k).vals[c], to)
    BY <2>1, <2>2, <2>3 DEF IInv, CellsPlain
  <2> QED BY <2>1, <2>4
<1>14. RequestQuiet'
  BY <1>1, <1>11 DEF IInv, RequestSuits, RequestQuiet, Suits
<1>15. ~Collecting'
  BY <1>1 DEF Collecting
<1> QED BY <1>6, <1>7, <1>9, <1>10, <1>12, <1>13, <1>14, <1>15, InvSettledNext DEF Settled

-----------------------------------------------------------------------------
\* A heap that is empty.
LEMMA InitIInv == Init => IInv
<1> SUFFICES ASSUME Init PROVE IInv
  OBVIOUS
<1>1. ~Collecting /\ cur = <<>> /\ to = <<>> /\ stack = <<>> /\ msbox = <<>> /\ req = NoReq
  BY DEF Init, Collecting
<1>2. Typed
  BY DEF Init, Typed, Phases, Asked, Collecting
<1>3. Numbered /\ OwnBlocks /\ TuplesPlain /\ RootsQuiet /\ CellsQuiet
  BY <1>1 DEF Numbered, OwnBlocks, TuplesPlain, RootsQuiet, CellsQuiet
<1>4. RequestQuiet
  BY <1>1 DEF RequestQuiet, NoReq
<1> QED BY <1>1, <1>2, <1>3, <1>4, InvSettled DEF Settled

\* Nothing happens.
LEMMA StutterIInv == IInv /\ UNCHANGED vars => IInv'
<1> SUFFICES ASSUME IInv, UNCHANGED vars PROVE IInv'
  OBVIOUS
<1>1. UNCHANGED <<cur, stack, msbox, made, phase, req, to, fwd, pos, scan, child>>
  BY DEF vars, mutator, gc
<1>2. Typed' /\ Numbered' /\ OwnBlocks' /\ TuplesPlain'
  BY <1>1 DEF IInv, Typed, Collecting, Numbered, OwnBlocks, Block, TuplesPlain, Plain
<1>3. Roots' = Roots /\ (Collecting' <=> Collecting)
  BY <1>1 DEF Roots, Collecting
<1>4. \A r : RootHalf(r)' = RootHalf(r)
  BY <1>1 DEF RootHalf, Half
<1>5. \A k, c : CellHalf(k, c)' = CellHalf(k, c)
  BY <1>1 DEF CellHalf, Half, Scanned, Collecting
<1>6. RootsPlain' /\ CellsPlain' /\ RequestSuits'
  BY <1>1, <1>3, <1>4, <1>5 DEF IInv, RootsPlain, CellsPlain, Block, RequestSuits, Suits
<1>7. ASSUME Collecting PROVE Copying'
  <2>1. Copying
    BY <1>7 DEF IInv
  <2>2. Forwards' /\ CopiedBlocks'
    BY <1>1, <2>1 DEF Copying, Forwards, CopiedBlocks
  <2>3. CopiedTuples'
    BY <1>1, <2>1 DEF Copying, CopiedTuples, Half, Scanned, Plain
  <2>4. CopiedContainers'
    BY <1>1, <2>1 DEF Copying, CopiedContainers, BlockMoved, Scanned
  <2>5. Progress'
    BY <1>1, <1>3, <2>1 DEF Copying, Progress
  <2> QED BY <2>2, <2>3, <2>4, <2>5 DEF Copying
<1> QED BY <1>2, <1>3, <1>6, <1>7 DEF IInv

\* Every step keeps the invariant.
LEMMA NextIInv == IInv /\ [Next]_vars => IInv'
<1> SUFFICES ASSUME IInv, [Next]_vars PROVE IInv'
  OBVIOUS
<1>1. CASE Requests \/ Allocation \/ Mutation
  BY <1>1, QuietStep
<1>2. CASE Collect
  BY <1>2, CollectKeeps
<1>3. CASE Collection
  BY <1>3, CopyRootKeeps, RootsDoneKeeps, ScanTupleKeeps, ScanElementKeeps, ScanBlockKeeps,
     ScanNextKeeps, SwapKeeps DEF Collection
<1>4. CASE UNCHANGED vars
  BY <1>4, StutterIInv
<1> QED BY <1>1, <1>2, <1>3, <1>4 DEF Next

\* The inductive invariant of gc.c: outside agc_collect every value leads to the
\* object it was made for; inside, what is scanned leads into the new half, what is
\* not yet into the old one, and old objects are forwarded to copies of themselves.
THEOREM IInvHolds == Spec => []IInv
<1>1. Init => IInv
  BY InitIInv
<1>2. IInv /\ [Next]_vars => IInv'
  BY NextIInv
<1> QED BY <1>1, <1>2, PTL DEF Spec

-----------------------------------------------------------------------------
\* A good value is what the property asks for.
LEMMA PlainRefers == ASSUME NEW v, NEW h, Plain(v, h) PROVE Refers(v, h)
BY DEF Plain, Refers

\* Every value a program can reach is among those the invariant speaks of.
LEMMA IInvNotStale == IInv => NoStaleReference
<1> SUFFICES ASSUME IInv, ~Collecting,
                    NEW v \in Held \cup UNION {Visible(cur, o) : o \in Range(cur)}
             PROVE  Refers(v, cur)
  BY DEF NoStaleReference
<1>1. Settled /\ cur \in Seq(Objects)
  BY InvSettled DEF Settled, Typed
<1>2. CASE v \in Held
  BY <1>1, <1>2, PlainRefers DEF Held, Range, Settled, RootsQuiet
<1>3. CASE v \in UNION {Visible(cur, o) : o \in Range(cur)}
  <2>1. PICK k \in DOMAIN cur : v \in Visible(cur, cur[k])
    BY <1>3 DEF Range
  <2> DEFINE o == cur[k]
  <2>2. CASE o.kind = "tuple"
    <3>1. Visible(cur, o) = Range(o.vals)
      BY <2>2 DEF Visible, IsContainer
    <3>2. PICK c \in DOMAIN o.vals : v = o.vals[c]
      BY <2>1, <3>1 DEF Range
    <3> QED BY <1>1, <2>2, <3>2, PlainRefers DEF Settled, TuplesPlain
  <2>3. CASE IsContainer(o)
    <3>1. Visible(cur, o) = {o.buff} \cup {cur[o.buff.at].vals[c] : c \in 1 .. Width(o.kind) * o.n}
      BY <2>3 DEF Visible, IsContainer
    <3>2. CASE v = o.buff
      BY <1>1, <2>3, <3>2 DEF Settled, OwnBlocks, Block, Refers
    <3>3. CASE v # o.buff
      <4>1. PICK c \in 1 .. Width(o.kind) * o.n : v = cur[o.buff.at].vals[c]
        BY <2>1, <3>1, <3>3
      <4> QED BY <1>1, <2>3, <4>1, PlainRefers DEF Settled, CellsQuiet, Elements, Block
    <3> QED BY <3>2, <3>3
  <2>4. CASE o.kind # "tuple" /\ ~IsContainer(o)
    BY <2>1, <2>4 DEF Visible
  <2> QED BY <2>2, <2>3, <2>4
<1> QED BY <1>2, <1>3

\* For every size of the heap and every program: when aactor_alloc, a message or
\* set_capacity has collected, or the heap has moved, nothing on the stack, in the
\* mailbox or in a container leads to an address that another object has now.
THEOREM NothingIsStale == Spec => []NoStaleReference
BY IInvHolds, IInvNotStale, PTL

\* Copies differ as their originals do.
LEMMA IInvApart == IInv => NoObjectTwice
<1> SUFFICES ASSUME IInv PROVE NoObjectTwice
  OBVIOUS
<1>1. \A k, l \in DOMAIN cur : cur[k].id = cur[l].id => k = l
  BY DEF IInv, Numbered
<1>2. \A k, l \in DOMAIN to : to[k].id = to[l].id => k = l
  <2>1. CASE Collecting
    BY <2>1 DEF IInv, Numbered, Copying, Forwards, Copy, Typed
  <2>2. CASE ~Collecting
    BY <2>2 DEF IInv, Typed
  <2> QED BY <2>1, <2>2
<1> QED BY <1>1, <1>2 DEF NoObjectTwice

\* copy() forwards an object once: no collection makes two of one object.
THEOREM ObjectsStayApart == Spec => []NoObjectTwice
BY IInvHolds, IInvApart, PTL

\* The halves the invariant names are the colours of the property.
LEMMA IInvTricolor == IInv => Tricolor
<1> SUFFICES ASSUME IInv, Collecting PROVE Tricolor
  BY DEF Tricolor
<1>1. Copying /\ Forwards /\ cur \in Seq(Objects) /\ to \in Seq(Objects)
  BY DEF IInv, Copying, Typed
<1>2. \A k \in DOMAIN cur : fwd[k] # 0 => to[fwd[k]].id = cur[k].id
  BY <1>1 DEF Forwards, Copy
<1>3. \A k \in DOMAIN Roots : Refers(Roots[k], Half(phase = "scan" \/ k < pos))
  BY PlainRefers DEF IInv, RootsPlain, RootHalf, Half, Collecting
<1>4. ASSUME NEW s \in DOMAIN to
      PROVE  /\ to[s].kind = "tuple" =>
                  \A c \in DOMAIN to[s].vals : Refers(to[s].vals[c], Half(Scanned(s, c)))
             /\ IsContainer(to[s]) =>
                  /\ Refers(to[s].buff, Half(Scanned(s, ValuesOf(to[s]))))
                  /\ \A c \in 1 .. Width(to[s].kind) * to[s].n :
                       Refers(Half(Scanned(s, ValuesOf(to[s])))[to[s].buff.at].vals[c],
                              Half(Scanned(s, c)))
  <2>1. ASSUME to[s].kind = "tuple", NEW c \in DOMAIN to[s].vals
        PROVE  Refers(to[s].vals[c], Half(Scanned(s, c)))
    BY <1>1, <2>1, PlainRefers DEF Copying, CopiedTuples
  <2>2. ASSUME IsContainer(to[s])
        PROVE  /\ Refers(to[s].buff, Half(Scanned(s, ValuesOf(to[s]))))
               /\ \A c \in 1 .. Width(to[s].kind) * to[s].n :
                    Refers(Half(Scanned(s, ValuesOf(to[s])))[to[s].buff.at].vals[c],
                           Half(Scanned(s, c)))
    <3>1. PICK k \in DOMAIN cur : fwd[k] = s /\ s # 0 /\ Copy(cur[k], to[s])
      BY <1>1 DEF Forwards
    <3>2. /\ IsContainer(cur[k]) /\ Elements(to[s]) = Elements(cur[k]) /\ cur[k].buff.id = to[s].buff.id
      BY <2>2, <3>1 DEF Copy, IsContainer, Elements
    <3>3. ValuesOf(to[s]) = ValuesOf(cur[k])
      BY <1>1, <2>2, <3>2, Measures
    <3>4. BlockMoved(k) <=> Scanned(s, ValuesOf(to[s]))
      BY <3>1, <3>3 DEF BlockMoved
    <3>5. /\ fwd[cur[k].buff.at] # 0 <=> BlockMoved(k)
          /\ to[s].buff.at = IF BlockMoved(k) THEN fwd[cur[k].buff.at] ELSE cur[k].buff.at
      BY <1>1, <3>1, <3>2 DEF Copying, CopiedContainers
    <3>6. cur[k].buff.at \in DOMAIN cur /\ Block(k).kind = "fixed" /\ Block(k).id = cur[k].buff.id
      BY <3>2 DEF IInv, OwnBlocks
    <3>7. /\ to[s].buff.at \in DOMAIN Half(Scanned(s, ValuesOf(to[s])))
          /\ Half(Scanned(s, ValuesOf(to[s])))[to[s].buff.at].id = to[s].buff.id
          /\ Half(Scanned(s, ValuesOf(to[s])))[to[s].buff.at].vals = Block(k).vals
      <4>1. CASE BlockMoved(k)
        <5>1. Half(Scanned(s, ValuesOf(to[s]))) = to
          BY <3>4, <4>1 DEF Half
        <5>2. fwd[cur[k].buff.at] \in DOMAIN to /\ Copy(Block(k), to[fwd[cur[k].buff.at]])
              /\ to[fwd[cur[k].buff.at]].vals = Block(k).vals
          BY <1>1, <3>5, <3>6, <4>1, ForwardsInto DEF Forwards, Copying, CopiedBlocks, Block
        <5> QED BY <3>2, <3>5, <3>6, <4>1, <5>1, <5>2 DEF Copy
      <4>2. CASE ~BlockMoved(k)
        <5>1. Half(Scanned(s, ValuesOf(to[s]))) = cur
          BY <3>4, <4>2 DEF Half
        <5> QED BY <3>2, <3>5, <3>6, <4>2, <5>1 DEF Block
      <4> QED BY <4>1, <4>2
    <3>8. ASSUME NEW c \in 1 .. Width(to[s].kind) * to[s].n
          PROVE  Refers(Block(k).vals[c], Half(Scanned(s, c)))
      <4>1. c \in 1 .. Elements(cur[k])
        BY <3>2 DEF Elements
      <4>2. CellHalf(k, c) = Half(Scanned(s, c))
        BY <3>1 DEF CellHalf, Half
      <4> QED BY <3>2, <4>1, <4>2, PlainRefers DEF IInv, CellsPlain
    <3> QED BY <3>7, <3>8 DEF Refers
  <2> QED BY <2>1, <2>2
<1> QED BY <1>2, <1>3, <1>4 DEF Tricolor, Scanned, IsContainer

\* The loop invariant of agc_collect: an object whose cells were scanned leads
\* to copied objects only, and every copy stands for one original.
THEOREM TricolorHolds == Spec => []Tricolor
BY IInvHolds, IInvTricolor, PTL
\* The sum of a sequence of numbers, from its first element on.
LEMMA TotalIs ==
  ASSUME NEW s \in Seq(Nat)
  PROVE  \E f \in [0 .. Len(s) -> Nat] :
           /\ f[0] = 0
           /\ \A n \in 1 .. Len(s) : f[n] = f[n - 1] + s[n]
           /\ Total(s) = f[Len(s)]
<1> DEFINE Rule(f, n) == f[n] = IF n = 0 THEN 0 ELSE f[n - 1] + s[n]
           UpTo(m) == {f \in [0 .. m -> Nat] : \A n \in 0 .. m : Rule(f, n)}
           T == {m \in 0 .. Len(s) : UpTo(m) = {}}
<1>1. Len(s) \in Nat /\ \A n \in 1 .. Len(s) : s[n] \in Nat
  OBVIOUS
<1>2. UpTo(0) # {}
  <2> DEFINE f == [n \in 0 .. 0 |-> 0]
  <2>1. f \in [0 .. 0 -> Nat] /\ \A n \in 0 .. 0 : Rule(f, n)
    OBVIOUS
  <2> HIDE DEF f, Rule
  <2> QED BY <2>1
<1>3. ASSUME NEW m \in 0 .. Len(s), m # 0, UpTo(m - 1) # {} PROVE UpTo(m) # {}
  <2>1. PICK f \in [0 .. m - 1 -> Nat] : \A n \in 0 .. m - 1 : Rule(f, n)
    BY <1>3
  <2> DEFINE g == [n \in 0 .. m |-> IF n = m THEN f[m - 1] + s[m] ELSE f[n]]
  <2>2. m \in Nat /\ m - 1 \in 0 .. m - 1 /\ s[m] \in Nat
    BY <1>1, <1>3
  <2>3. g \in [0 .. m -> Nat]
    BY <2>1, <2>2
  <2>4. ASSUME NEW n \in 0 .. m PROVE Rule(g, n)
    <3>1. CASE n = m
      <4>1. g[m] = f[m - 1] + s[m] /\ g[m - 1] = f[m - 1]
        BY <2>2
      <4> QED BY <1>3, <3>1, <4>1
    <3>2. CASE n # m
      <4>1. n \in 0 .. m - 1 /\ (n # 0 => n - 1 \in 0 .. m - 1)
        BY <2>2, <3>2
      <4>2. Rule(f, n) /\ g[n] = f[n] /\ (n # 0 => g[n - 1] = f[n - 1])
        BY <2>1, <2>2, <3>2, <4>1
      <4> QED BY <4>2
    <3> QED BY <3>1, <3>2
  <2> HIDE DEF g, Rule
  <2> QED BY <2>3, <2>4
<1>4. T = {}
  <2> SUFFICES ASSUME T # {} PROVE FALSE
    OBVIOUS
  <2> HIDE DEF UpTo
  <2>1. PICK m \in T : \A y \in T : m <= y
    BY Least, <1>1, T \subseteq Nat
  <2>2. m \in 0 .. Len(s) /\ m # 0 /\ UpTo(m) = {}
    BY <1>2, <2>1
  <2>3. m - 1 \in 0 .. Len(s) /\ m - 1 \notin T
    BY <1>1, <2>1, <2>2
  <2> QED BY <1>3, <2>2, <2>3
<1>5. PICK f \in [0 .. Len(s) -> Nat] : \A n \in 0 .. Len(s) : Rule(f, n)
  <2>1. UpTo(Len(s)) # {}
    <3> HIDE DEF UpTo
    <3> QED BY <1>1, <1>4
  <2> QED BY <2>1
<1>6. f = [n \in 0 .. Len(s) |-> IF n = 0 THEN 0 ELSE f[n - 1] + s[n]]
  BY <1>5
<1> DEFINE G == CHOOSE g : g = [n \in 0 .. Len(s) |-> IF n = 0 THEN 0 ELSE g[n - 1] + s[n]]
<1>7. G = [n \in 0 .. Len(s) |-> IF n = 0 THEN 0 ELSE G[n - 1] + s[n]]
  BY <1>6, Zenon
<1>8. Total(s) = G[Len(s)]
  BY DEF Total
<1> HIDE DEF G
<1> DEFINE U == {n \in 0 .. Len(s) : G[n] # f[n]}
<1>9. U = {}
  <2> SUFFICES ASSUME U # {} PROVE FALSE
    OBVIOUS
  <2>1. PICK m \in U : \A y \in U : m <= y
    BY Least, <1>1, U \subseteq Nat
  <2>2. m # 0
    BY <1>1, <1>5, <1>7, <2>1
  <2>3. m - 1 \in 0 .. Len(s) /\ m - 1 \notin U
    BY <1>1, <2>1, <2>2
  <2>4. G[m] = G[m - 1] + s[m] /\ f[m] = f[m - 1] + s[m]
    BY <1>1, <1>5, <1>7, <2>1, <2>2
  <2> QED BY <2>1, <2>3, <2>4
<1>10. G[Len(s)] = f[Len(s)]
  BY <1>1, <1>9
<1>11. f[0] = 0 /\ \A n \in 1 .. Len(s) : f[n] = f[n - 1] + s[n]
  BY <1>1, <1>5
<1> QED BY <1>8, <1>10, <1>11

\* A rule for partial sums determines the sum.
LEMMA TotalBy ==
  ASSUME NEW s \in Seq(Nat), NEW f, f[0] = 0,
         \A n \in 1 .. Len(s) : f[n] = f[n - 1] + s[n]
  PROVE  Total(s) = f[Len(s)]
<1>1. PICK g \in [0 .. Len(s) -> Nat] :
        /\ g[0] = 0
        /\ \A n \in 1 .. Len(s) : g[n] = g[n - 1] + s[n]
        /\ Total(s) = g[Len(s)]
  BY TotalIs
<1>2. Len(s) \in Nat
  OBVIOUS
<1> DEFINE T == {n \in 0 .. Len(s) : g[n] # f[n]}
<1>3. T = {}
  <2> SUFFICES ASSUME T # {} PROVE FALSE
    OBVIOUS
  <2>1. PICK m \in T : \A y \in T : m <= y
    BY Least, <1>2, T \subseteq Nat
  <2>2. m \in 1 .. Len(s)
    BY <1>1, <1>2, <2>1
  <2>3. m - 1 \in 0 .. Len(s) /\ m - 1 \notin T
    BY <1>2, <2>1, <2>2
  <2> QED BY <1>1, <2>1, <2>2, <2>3
<1> QED BY <1>1, <1>2, <1>3

\* The sum is a number, and 0 of nothing.
LEMMA TotalNat == ASSUME NEW s \in Seq(Nat) PROVE Total(s) \in Nat
<1>1. Len(s) \in 0 .. Len(s)
  OBVIOUS
<1> QED BY <1>1, TotalIs

\* The sum of nothing.
LEMMA TotalNone == Total(<<>>) = 0
<1> DEFINE e == <<>>
<1>1. e \in Seq(Nat) /\ Len(e) = 0
  OBVIOUS
<1>2. Total(e) = 0
  <2> HIDE DEF e
  <2> QED BY <1>1, TotalIs
<1> QED BY <1>2

\* An element appended is added.
LEMMA TotalAppend ==
  ASSUME NEW s \in Seq(Nat), NEW x \in Nat
  PROVE  Append(s, x) \in Seq(Nat) /\ Total(Append(s, x)) = Total(s) + x
<1> DEFINE t == Append(s, x)
<1>1. PICK f \in [0 .. Len(s) -> Nat] :
        /\ f[0] = 0
        /\ \A n \in 1 .. Len(s) : f[n] = f[n - 1] + s[n]
        /\ Total(s) = f[Len(s)]
  BY TotalIs
<1>2. /\ t \in Seq(Nat) /\ Len(t) = Len(s) + 1 /\ Len(s) \in Nat
      /\ t[Len(s) + 1] = x /\ \A n \in 1 .. Len(s) : t[n] = s[n]
  OBVIOUS
<1> HIDE DEF t
<1> DEFINE g == [n \in 0 .. Len(s) + 1 |-> IF n = Len(s) + 1 THEN f[Len(s)] + x ELSE f[n]]
<1>3. /\ g[0] = f[0] /\ g[Len(s) + 1] = f[Len(s)] + x /\ g[Len(s)] = f[Len(s)]
      /\ \A n \in 1 .. Len(s) : g[n] = f[n] /\ g[n - 1] = f[n - 1]
  BY <1>2
<1> HIDE DEF g
<1>4. \A n \in 1 .. Len(t) : g[n] = g[n - 1] + t[n]
  <2> SUFFICES ASSUME NEW n \in 1 .. Len(t) PROVE g[n] = g[n - 1] + t[n]
    OBVIOUS
  <2>1. CASE n \in 1 .. Len(s)
    BY <1>1, <1>2, <1>3, <2>1
  <2>2. CASE n = Len(s) + 1
    <3>1. n - 1 = Len(s)
      BY <1>2, <2>2
    <3> QED BY <1>2, <1>3, <2>2, <3>1
  <2> QED BY <1>2, <2>1, <2>2
<1>5. Total(t) = g[Len(t)]
  BY <1>1, <1>2, <1>3, <1>4, TotalBy
<1> QED BY <1>1, <1>2, <1>3, <1>5 DEF t

\* One element changed changes the sum by as much.
LEMMA TotalChange ==
  ASSUME NEW s \in Seq(Nat), NEW t \in Seq(Nat), Len(t) = Len(s), NEW i \in 1 .. Len(s),
         \A n \in 1 .. Len(s) : n # i => t[n] = s[n]
  PROVE  Total(t) + s[i] = Total(s) + t[i]
<1>1. PICK f \in [0 .. Len(s) -> Nat] :
        /\ f[0] = 0
        /\ \A n \in 1 .. Len(s) : f[n] = f[n - 1] + s[n]
        /\ Total(s) = f[Len(s)]
  BY TotalIs
<1>2. Len(s) \in Nat /\ \A n \in 1 .. Len(s) : s[n] \in Nat /\ t[n] \in Nat
  OBVIOUS
<1> DEFINE g == [n \in 0 .. Len(s) |-> IF n < i THEN f[n] ELSE (f[n] - s[i]) + t[i]]
<1>3. g[0] = 0 /\ g[Len(s)] = (f[Len(s)] - s[i]) + t[i]
  BY <1>1, <1>2
<1>4. \A n \in 1 .. Len(t) : g[n] = g[n - 1] + t[n]
  <2> SUFFICES ASSUME NEW n \in 1 .. Len(s) PROVE g[n] = g[n - 1] + t[n]
    OBVIOUS
  <2>0. n - 1 \in 0 .. Len(s) /\ n \in 0 .. Len(s)
    BY <1>2
  <2>1. n - 1 \in 0 .. Len(s) /\ n \in 0 .. Len(s) /\ f[n] \in Nat /\ f[n - 1] \in Nat
    BY <2>0
  <2>2. f[n] = f[n - 1] + s[n]
    BY <1>1
  <2>3. g[n] = (IF n < i THEN f[n] ELSE (f[n] - s[i]) + t[i])
        /\ g[n - 1] = IF n - 1 < i THEN f[n - 1] ELSE (f[n - 1] - s[i]) + t[i]
    BY <2>1
  <2> HIDE DEF g
  <2>4. CASE n < i
    BY <1>2, <2>1, <2>2, <2>3, <2>4
  <2>5. CASE n = i
    BY <1>2, <2>1, <2>2, <2>3, <2>5
  <2>6. CASE n > i
    <3>1. ~(n < i) /\ ~(n - 1 < i) /\ t[n] = s[n]
      BY <1>2, <2>6
    <3>2. s[n] \in Nat /\ s[i] \in Nat /\ t[i] \in Nat
      BY <1>2
    <3>3. g[n] = (f[n] - s[i]) + t[i] /\ g[n - 1] = (f[n - 1] - s[i]) + t[i]
      BY <2>3, <3>1
    <3> DEFINE a == f[n - 1]
               b == s[i]
               c == t[i]
               d == s[n]
    <3>4. a \in Nat /\ b \in Nat /\ c \in Nat /\ d \in Nat
      BY <2>1, <3>2
    <3> HIDE DEF a, b, c, d
    <3>6. ((a + d) - b) + c = ((a - b) + c) + d
      BY <3>4
    <3>5. ((f[n - 1] + s[n]) - s[i]) + t[i] = ((f[n - 1] - s[i]) + t[i]) + s[n]
      BY <3>6 DEF a, b, c, d
    <3> QED BY <2>2, <3>1, <3>3, <3>5
  <2> QED BY <1>2, <2>4, <2>5, <2>6
<1> HIDE DEF g
<1>5. Total(t) = g[Len(t)]
  BY <1>3, <1>4, TotalBy
<1>6. f[Len(s)] \in Nat
  BY <1>1, <1>2
<1> QED BY <1>1, <1>2, <1>3, <1>5, <1>6

\* A sum of whole words is made of whole words.
LEMMA TotalWords ==
  ASSUME NEW s \in Seq(Nat), \A n \in 1 .. Len(s) : s[n] % Word = 0
  PROVE  Total(s) % Word = 0
<1>1. PICK f \in [0 .. Len(s) -> Nat] :
        /\ f[0] = 0
        /\ \A n \in 1 .. Len(s) : f[n] = f[n - 1] + s[n]
        /\ Total(s) = f[Len(s)]
  BY TotalIs
<1>2. Len(s) \in Nat /\ \A n \in 1 .. Len(s) : s[n] \in Nat
  OBVIOUS
<1> DEFINE T == {n \in 0 .. Len(s) : f[n] % Word # 0}
<1>3. T = {}
  <2> SUFFICES ASSUME T # {} PROVE FALSE
    OBVIOUS
  <2>1. PICK m \in T : \A y \in T : m <= y
    BY Least, <1>2, T \subseteq Nat
  <2>2. m # 0
    BY <1>1, <2>1, WordPositive
  <2>3. m - 1 \in 0 .. Len(s) /\ m - 1 \notin T /\ m \in 1 .. Len(s)
    BY <1>2, <2>1, <2>2
  <2>4. f[m - 1] % Word = 0 /\ s[m] % Word = 0 /\ f[m - 1] \in Nat /\ s[m] \in Nat
    BY <1>1, <1>2, <2>3
  <2>5. (f[m - 1] + s[m]) % Word = 0
    BY <2>4, SumIsWords, MultipleIsWords
  <2> QED BY <1>1, <2>1, <2>3, <2>5
<1> QED BY <1>1, <1>2, <1>3

-----------------------------------------------------------------------------
\* The bytes of the old half that were not copied, object by object.
Staying(z, f) == [k \in DOMAIN z |-> IF f[k] = 0 THEN z[k] ELSE 0]
Left == Total(Staying(Sizes(cur), fwd))

\* What a request says of its size.
Shaped ==
  /\ phase \in {"reserve", "again", "alloc"} => req # NoReq
  /\ req.op \in {"string", "message", "capacity"} => req.n = 1
  /\ req.op = "tuple" => req.n = 1 /\ req.more = TupleSz + req.size * ValueSz
  /\ req.op = "container" => req.n = 2 /\ req.more = ArraySz + BlockSz(req.kind, req.cap)

\* The bytes in use are those of the objects; while collecting, those of the
\* objects that were copied, and there is room for all the others.
Accounted ==
  /\ heap_cap \in Nat \ {0} /\ heap_cap % Word = 0
  /\ Shaped
  /\ IF Collecting
     THEN /\ heap_sz = TotalSz(to)
          /\ heap_sz + Left = TotalSz(cur)
          /\ TotalSz(cur) <= heap_cap
     ELSE /\ fwd = <<>>
          /\ heap_sz = TotalSz(cur)
          /\ heap_sz <= heap_cap
  /\ phase = "alloc" => Fits

\* The sizes of a heap are a sequence of whole words.
LEMMA SizesAre ==
  ASSUME NEW h \in Seq(Objects)
  PROVE  /\ Sizes(h) \in Seq(Nat) /\ Len(Sizes(h)) = Len(h) /\ DOMAIN Sizes(h) = 1 .. Len(h)
         /\ \A k \in DOMAIN h : Sizes(h)[k] = h[k].sz /\ h[k].sz \in Nat /\ h[k].sz % Word = 0
         /\ TotalSz(h) \in Nat /\ TotalSz(h) % Word = 0
<1>1. Len(h) \in Nat /\ DOMAIN h = 1 .. Len(h)
  OBVIOUS
<1>2. \A k \in DOMAIN h : h[k].sz \in Nat /\ h[k].sz % Word = 0
  <2> SUFFICES ASSUME NEW k \in DOMAIN h PROVE h[k].sz \in Nat /\ h[k].sz % Word = 0
    OBVIOUS
  <2>1. h[k] \in Objects
    BY <1>1
  <2> QED BY <2>1, ObjectFields
<1> DEFINE z == Sizes(h)
<1>3. z \in Seq(Nat) /\ Len(z) = Len(h) /\ DOMAIN z = 1 .. Len(h) /\ \A k \in DOMAIN h : z[k] = h[k].sz
  BY <1>1, <1>2 DEF Sizes
<1> HIDE DEF z
<1>4. Total(z) \in Nat /\ Total(z) % Word = 0
  BY <1>1, <1>2, <1>3, TotalNat, TotalWords
<1> QED BY <1>1, <1>2, <1>3, <1>4 DEF z, TotalSz

\* Objects written without their sizes.
LEMMA SizesSame ==
  ASSUME NEW h, NEW g, DOMAIN g = DOMAIN h, \A k \in DOMAIN h : g[k].sz = h[k].sz
  PROVE  Sizes(g) = Sizes(h) /\ TotalSz(g) = TotalSz(h)
BY DEF Sizes, TotalSz

\* No objects have no bytes.
LEMMA SizesNone == TotalSz(<<>>) = 0
<1>1. Sizes(<<>>) = <<>>
  BY DEF Sizes
<1> QED BY <1>1, TotalNone DEF TotalSz

\* An object appended adds its bytes.
LEMMA SizesAppend ==
  ASSUME NEW h \in Seq(Objects), NEW o \in Objects
  PROVE  Append(h, o) \in Seq(Objects) /\ TotalSz(Append(h, o)) = TotalSz(h) + o.sz
<1> DEFINE g == Append(h, o)
<1>1. g \in Seq(Objects) /\ Len(g) = Len(h) + 1 /\ Len(h) \in Nat
      /\ g[Len(h) + 1] = o /\ \A k \in 1 .. Len(h) : g[k] = h[k]
  BY Appended
<1> HIDE DEF g
<1>2. o.sz \in Nat
  BY ObjectFields
<1> DEFINE z == Sizes(h)
           y == Sizes(g)
           x == Append(z, o.sz)
<1>3. /\ z \in Seq(Nat) /\ Len(z) = Len(h) /\ \A k \in 1 .. Len(h) : z[k] = h[k].sz
      /\ y \in Seq(Nat) /\ Len(y) = Len(h) + 1 /\ \A k \in 1 .. Len(h) + 1 : y[k] = g[k].sz
  BY <1>1, SizesAre
<1> HIDE DEF z, y
<1>4. x \in Seq(Nat) /\ Len(x) = Len(h) + 1 /\ x[Len(h) + 1] = o.sz
      /\ \A k \in 1 .. Len(h) : x[k] = z[k]
  BY <1>1, <1>2, <1>3
<1> HIDE DEF x
<1>5. \A k \in 1 .. Len(h) + 1 : y[k] = x[k]
  <2> SUFFICES ASSUME NEW k \in 1 .. Len(h) + 1 PROVE y[k] = x[k]
    OBVIOUS
  <2>1. CASE k \in 1 .. Len(h)
    BY <1>1, <1>3, <1>4, <2>1
  <2>2. CASE k = Len(h) + 1
    BY <1>1, <1>3, <1>4, <2>2
  <2> QED BY <1>1, <2>1, <2>2
<1>6. y = x
  <2>1. Len(y) = Len(x) /\ \A k \in 1 .. Len(y) : y[k] = x[k]
    BY <1>1, <1>3, <1>4, <1>5
  <2> QED BY <1>3, <1>4, <2>1, SeqEqual
<1> QED BY <1>1, <1>2, <1>3, <1>6, TotalAppend DEF TotalSz, g, x, y, z

\* What is left to copy is a number, and becomes less by what is copied.
LEMMA LeftIs ==
  ASSUME NEW z \in Seq(Nat), NEW f \in [DOMAIN z -> Nat]
  PROVE  Staying(z, f) \in Seq(Nat) /\ Len(Staying(z, f)) = Len(z) /\ Total(Staying(z, f)) \in Nat
         /\ \A k \in DOMAIN z : Staying(z, f)[k] = IF f[k] = 0 THEN z[k] ELSE 0
<1> DEFINE s == Staying(z, f)
<1>1. DOMAIN z = 1 .. Len(z) /\ Len(z) \in Nat /\ \A k \in DOMAIN z : z[k] \in Nat
  OBVIOUS
<1>2. s \in Seq(Nat) /\ Len(s) = Len(z) /\ \A k \in DOMAIN z : s[k] = IF f[k] = 0 THEN z[k] ELSE 0
  BY <1>1 DEF Staying
<1> HIDE DEF s
<1>3. Total(s) \in Nat
  BY <1>2, TotalNat
<1> QED BY <1>2, <1>3 DEF s

\* An object that is copied is not left in the old half.
LEMMA LeftLess ==
  ASSUME NEW z \in Seq(Nat), NEW f \in [DOMAIN z -> Nat], NEW a \in DOMAIN z, f[a] = 0,
         NEW n \in Nat, n # 0
  PROVE  LET e == [f EXCEPT ![a] = n]
         IN  /\ e \in [DOMAIN z -> Nat]
             /\ Total(Staying(z, e)) + z[a] = Total(Staying(z, f))
<1> DEFINE e == [f EXCEPT ![a] = n]
           s == Staying(z, f)
           t == Staying(z, e)
<1>1. e \in [DOMAIN z -> Nat] /\ e[a] = n /\ \A k \in DOMAIN z : k # a => e[k] = f[k]
  OBVIOUS
<1> HIDE DEF e
<1>2. /\ s \in Seq(Nat) /\ Len(s) = Len(z) /\ Total(s) \in Nat
      /\ \A k \in DOMAIN z : s[k] = IF f[k] = 0 THEN z[k] ELSE 0
      /\ t \in Seq(Nat) /\ Len(t) = Len(z) /\ Total(t) \in Nat
      /\ \A k \in DOMAIN z : t[k] = IF e[k] = 0 THEN z[k] ELSE 0
  BY <1>1, LeftIs
<1> HIDE DEF s, t
<1>3. a \in 1 .. Len(s) /\ s[a] = z[a] /\ t[a] = 0 /\ z[a] \in Nat
      /\ \A k \in 1 .. Len(s) : k # a => t[k] = s[k]
  <2>1. DOMAIN z = 1 .. Len(s) /\ \A k \in DOMAIN z : z[k] \in Nat
    BY <1>2
  <2>2. s[a] = z[a] /\ t[a] = 0
    BY <1>1, <1>2
  <2>3. \A k \in DOMAIN z : k # a => t[k] = s[k]
    BY <1>1, <1>2
  <2> QED BY <2>1, <2>2, <2>3
<1>4. Total(t) + s[a] = Total(s) + t[a]
  BY <1>2, <1>3, TotalChange
<1> QED BY <1>1, <1>2, <1>3, <1>4 DEF e, s, t

\* A step that keeps the sizes and the bytes in use, outside a collection.
LEMMA QuietAccounts ==
  ASSUME Accounted, ~Collecting, ~Collecting', UNCHANGED <<heap_sz, heap_cap, fwd>>,
         Sizes(cur') = Sizes(cur), Shaped', phase' = "alloc" => Fits'
  PROVE  Accounted'
BY DEF Accounted, TotalSz

\* What a request is for.
LEMMA Requested ==
  ASSUME Typed, Shaped, phase \in {"reserve", "again", "alloc"}
  PROVE  req.more \in Nat /\ req.n \in Nat /\ Need(req.more, req.n) \in Nat
         /\ req.op \in {"string", "message", "tuple", "container", "capacity"}
<1>1. req \in Asked /\ req # NoReq
  BY DEF Typed, Shaped
<1>2. req.more \in Nat /\ req.n \in Nat
      /\ req.op \in {"string", "message", "tuple", "container", "capacity"}
  BY <1>1 DEF Asked
<1>3. req.n * HeaderSz \in Nat
  BY <1>2, HeaderIsWords
<1> QED BY <1>2, <1>3 DEF Need

\* What is asked for is shaped that way.
LEMMA RequestsShaped == Requests => Shaped' /\ phase' = "reserve"
<1>1. ASSUME NEW n, AskString(n) PROVE Shaped' /\ phase' = "reserve"
  BY <1>1 DEF AskString, Ask, Shaped, NoReq
<1>2. ASSUME NEW n, AskMessage(n) PROVE Shaped' /\ phase' = "reserve"
  BY <1>2 DEF AskMessage, Ask, Shaped, NoReq
<1>3. ASSUME NEW n, AskMessageToSelf(n) PROVE Shaped' /\ phase' = "reserve"
  BY <1>3 DEF AskMessageToSelf, Shaped, NoReq
<1>4. ASSUME NEW n, AskTuple(n) PROVE Shaped' /\ phase' = "reserve"
  BY <1>4 DEF AskTuple, Ask, Shaped, NoReq
<1>5. ASSUME NEW k, NEW n, AskContainer(k, n) PROVE Shaped' /\ phase' = "reserve"
  BY <1>5 DEF AskContainer, Ask, Shaped, NoReq
<1>6. ASSUME NEW i, NEW cap, NEW sz, NEW src, AskCapacity(i, cap, sz, src)
      PROVE  Shaped' /\ phase' = "reserve"
  BY <1>6 DEF AskCapacity, Ask, Shaped, NoReq
<1>7. ASSUME NEW i, NEW n, AskShrink(i) \/ AskReserve(i, n) \/ AskResize(i, n)
      PROVE  Shaped' /\ phase' = "reserve"
  BY <1>6, <1>7 DEF AskShrink, AskReserve, AskResize
<1>8. ASSUME NEW i, NEW j, NEW k, AskPush(i, j) \/ AskPut(i, k, j)
      PROVE  Shaped' /\ phase' = "reserve"
  BY <1>6, <1>8 DEF AskPush, AskPut
<1> QED BY <1>1, <1>2, <1>3, <1>4, <1>5, <1>7, <1>8 DEF Requests

\* A request changes nothing of the heap.
LEMMA RequestsQuiet == Requests => UNCHANGED <<cur, heap_sz, heap_cap, gc>> /\ ~Collecting /\ ~Collecting'
BY DEF Requests, AskString, AskMessage, AskMessageToSelf, AskContainer, AskTuple, AskShrink,
       AskReserve, AskResize, AskPush, AskPut, AskCapacity, Ask, Running, Collecting

\* Asking for memory takes none.
LEMMA RequestsAccount == Accounted /\ Requests => Accounted'
BY QuietAccounts, RequestsShaped, RequestsQuiet DEF gc

\* An object with a cell written, or with its size written, keeps its bytes.
LEMMA CellSizes ==
  ASSUME NEW h \in Seq(Objects), NEW b \in DOMAIN h, ~IsContainer(h[b]), NEW m, NEW x \in Values
  PROVE  Sizes(WithCell(h, b, m, x)) = Sizes(h)
<1> DEFINE g == WithCell(h, b, m, x)
<1>1. DOMAIN g = DOMAIN h /\ (\A k \in DOMAIN h : k # b => g[k] = h[k]) /\ g[b].sz = h[b].sz
  BY CellWritten
<1> HIDE DEF g
<1>2. Sizes(g) = Sizes(h)
  BY <1>1, SizesSame
<1> QED BY <1>2 DEF g

\* Storing a value changes no size: set of a tuple, an array or a table,
LEMMA SetSizes ==
  ASSUME Settled, NEW i \in DOMAIN stack, NEW j \in DOMAIN stack, Set(i, j)
  PROVE  Sizes(cur') = Sizes(cur)
<1>1. PICK c \in Cells(i) : cur' = WithCell(cur, c[1], c[2], stack[j])
  BY DEF Set, WithCell
<1>2. stack[j] \in Values
  BY StackTyped
<1>3. c[1] \in DOMAIN cur /\ ~IsContainer(cur[c[1]])
  <2>1. stack[i].at \in DOMAIN cur
    BY ContainerFields DEF Cells, IsA
  <2> QED BY <2>1, CellsArePlain DEF Cells, IsA, At, IsContainer, Settled, OwnBlocks, Block
<1> QED BY <1>1, <1>2, <1>3, CellSizes DEF Settled, Typed

\* push within the capacity,
LEMMA PushInPlaceSizes ==
  ASSUME Settled, NEW i \in DOMAIN stack, NEW j \in DOMAIN stack, PushInPlace(i, j)
  PROVE  Sizes(cur') = Sizes(cur)
<1>1. stack[j] \in Values
  BY StackTyped
<1>2. stack[i].at # 0 /\ IsContainer(At(i))
  BY DEF PushInPlace, IsA, IsContainer
<1>3. At(i).buff.at \in DOMAIN cur /\ ~IsContainer(cur[At(i).buff.at])
  BY <1>2, BlockFields
<1>4. cur' = WithCell(cur, At(i).buff.at, At(i).n + 1, stack[j])
  BY DEF PushInPlace, WithCell
<1> QED BY <1>1, <1>3, <1>4, CellSizes DEF Settled, Typed

\* a new key within the capacity,
LEMMA PutInPlaceSizes ==
  ASSUME Settled, NEW i \in DOMAIN stack, NEW k \in DOMAIN stack, NEW j \in DOMAIN stack,
         PutInPlace(i, k, j)
  PROVE  Sizes(cur') = Sizes(cur)
<1> DEFINE a == stack[i].at
           b == At(i).buff.at
           n == At(i).n
           g == WithSize(cur, a, n + 1)
           h == WithCell(g, b, 2 * n + 1, stack[k])
<1>1. stack[k] \in Values /\ stack[j] \in Values
  BY StackTyped
<1>2. a # 0 /\ IsContainer(At(i))
  BY DEF PutInPlace, IsA, IsContainer
<1>3. a \in DOMAIN cur /\ n \in Nat /\ cur \in Seq(Objects) /\ IsContainer(cur[a])
  BY <1>2, ContainerFields DEF Settled, Typed, At
<1>4. b \in DOMAIN cur /\ ~IsContainer(cur[b]) /\ a # b
  BY <1>2, BlockFields
<1>5. cur' = WithCell(h, b, 2 * n + 2, stack[j])
  BY DEF PutInPlace, At, WithCell, WithSize
<1>6. /\ g \in Seq(Objects) /\ DOMAIN g = DOMAIN cur
      /\ \A l \in DOMAIN cur : l # a => g[l] = cur[l]
      /\ g[a].sz = cur[a].sz
  BY <1>3, SizeWritten
<1> HIDE DEF g
<1>7. b \in DOMAIN g /\ ~IsContainer(g[b])
  BY <1>4, <1>6
<1>8. h \in Seq(Objects) /\ DOMAIN h = DOMAIN g /\ h[b].kind = g[b].kind /\ Sizes(h) = Sizes(g)
  BY <1>1, <1>6, <1>7, CellWritten, CellSizes
<1> HIDE DEF h
<1>9. Sizes(cur') = Sizes(h)
  BY <1>1, <1>5, <1>7, <1>8, CellSizes DEF IsContainer
<1>10. Sizes(g) = Sizes(cur)
  BY <1>6, SizesSame
<1> QED BY <1>8, <1>9, <1>10

\* and resize within the capacity.
LEMMA ResizeSizes ==
  ASSUME Settled, NEW i \in DOMAIN stack, NEW sz \in Counts, Resize(i, sz)
  PROVE  Sizes(cur') = Sizes(cur)
<1> DEFINE a == stack[i].at
           b == At(i).buff.at
           g == WithSize(cur, a, sz)
           w == [k \in DOMAIN g[b].vals |-> IF k > At(i).n /\ k <= sz THEN Nil ELSE g[b].vals[k]]
           p == [g[b] EXCEPT !.vals = w]
<1>1. a # 0 /\ IsContainer(At(i)) /\ sz \in Nat
  BY ContainersAre, HeapAssumption DEF Resize
<1>2. a \in DOMAIN cur /\ cur \in Seq(Objects) /\ IsContainer(cur[a])
  BY <1>1, ContainerFields DEF Settled, Typed, At
<1>3. b \in DOMAIN cur /\ ~IsContainer(cur[b]) /\ a # b
  BY <1>1, BlockFields
<1>4. /\ g \in Seq(Objects) /\ DOMAIN g = DOMAIN cur
      /\ \A l \in DOMAIN cur : l # a => g[l] = cur[l]
      /\ g[a].sz = cur[a].sz
  BY <1>1, <1>2, SizeWritten
<1>5. cur' = g \/ cur' = [g EXCEPT ![b] = p]
  BY DEF Resize, WithSize
<1> HIDE DEF g
<1>6. g[b] \in Flat /\ b \in DOMAIN g
  <2>1. g[b] = cur[b] /\ cur[b] \in Objects
    BY <1>2, <1>3, <1>4
  <2> QED BY <1>3, <1>4, <2>1 DEF Objects, Boxed, IsContainer
<1>7. p.sz = g[b].sz
  <2> HIDE DEF w
  <2> QED BY <1>6 DEF Flat
<1> HIDE DEF p, a, b
<1>8. DOMAIN cur' = DOMAIN g /\ \A k \in DOMAIN g : cur'[k].sz = g[k].sz
  BY <1>5, <1>6, <1>7
<1>9. \A k \in DOMAIN cur : g[k].sz = cur[k].sz
  BY <1>4
<1>10. Sizes(cur') = Sizes(g) /\ Sizes(g) = Sizes(cur)
  BY <1>4, <1>8, <1>9, SizesSame
<1> QED BY <1>10

\* What the program does without allocating.
LEMMA MutationAccounts == Settled /\ Accounted /\ Mutation => Accounted'
<1> SUFFICES ASSUME Settled, Accounted, Mutation PROVE Accounted'
  OBVIOUS
<1>1. Quiet /\ Running
  BY DEF Mutation, Pop, Receive, RemoveMessage, PushIndex, Get, Resize, Set, PushInPlace, PutInPlace
<1>2. Sizes(cur') = Sizes(cur)
  <2>1. ASSUME NEW i \in DOMAIN stack, NEW j \in DOMAIN stack, Set(i, j) \/ PushInPlace(i, j)
        PROVE  Sizes(cur') = Sizes(cur)
    BY <2>1, SetSizes, PushInPlaceSizes
  <2>2. ASSUME NEW i \in DOMAIN stack, NEW j \in DOMAIN stack, NEW k \in DOMAIN stack, PutInPlace(i, k, j)
        PROVE  Sizes(cur') = Sizes(cur)
    BY <2>2, PutInPlaceSizes
  <2>3. ASSUME NEW i \in DOMAIN stack, NEW n \in Counts, Resize(i, n)
        PROVE  Sizes(cur') = Sizes(cur)
    BY <2>3, ResizeSizes
  <2>4. ASSUME NEW i, NEW k, Pop \/ Receive(k) \/ RemoveMessage(k) \/ PushIndex(i) \/ Get(i)
        PROVE  Sizes(cur') = Sizes(cur)
    BY <2>4 DEF Pop, Receive, RemoveMessage, PushIndex, Get
  <2> QED BY <2>1, <2>2, <2>3, <2>4 DEF Mutation
<1> QED BY <1>1, <1>2, QuietAccounts DEF Quiet, Running, Collecting, gc, Accounted, Shaped

\* The bytes in use are whole words.
LEMMA BytesAre ==
  ASSUME Typed, Accounted, ~Collecting
  PROVE  heap_sz \in Nat /\ heap_sz % Word = 0 /\ heap_cap \in Nat \ {0} /\ heap_cap % Word = 0
BY SizesAre DEF Typed, Accounted

\* aactor_heap_reserve, up to the allocation.
LEMMA CheckAccounts == Accounted /\ Check => Accounted'
<1> SUFFICES ASSUME Accounted, Check PROVE Accounted'
  OBVIOUS
<1>1. UNCHANGED <<cur, heap_sz, heap_cap, req, fwd>> /\ phase \in {"reserve", "again"} /\ phase' = "alloc" /\ Fits
  BY DEF Check, gc
<1>2. Fits' /\ ~Collecting /\ ~Collecting' /\ Sizes(cur') = Sizes(cur)
  BY <1>1 DEF Fits, Collecting
<1>3. Shaped'
  BY <1>1 DEF Accounted, Shaped
<1> QED BY <1>1, <1>2, <1>3, QuietAccounts

\* agc_reserve: the grown half has room for the request.
LEMMA ReserveAccounts == Typed /\ Accounted /\ Reserve => Accounted'
<1> SUFFICES ASSUME Typed, Accounted, Reserve PROVE Accounted'
  OBVIOUS
<1>1. UNCHANGED <<cur, heap_sz, fwd>> /\ phase = "again" /\ phase' = "alloc"
      /\ heap_cap' = GrownHeap /\ req' = Released /\ ~Collecting /\ ~Collecting'
  BY DEF Reserve, gc, Collecting
<1>2. heap_sz \in Nat /\ heap_cap \in Nat \ {0} /\ heap_cap % Word = 0
  BY <1>1, BytesAre
<1>3. req.more \in Nat /\ req.n \in Nat /\ Need(req.more, req.n) \in Nat
  BY <1>1, Requested DEF Accounted
<1> DEFINE need == heap_sz + Need(req.more, req.n)
<1>4. need \in Nat /\ heap_sz <= need
  BY <1>2, <1>3
<1>5. /\ heap_cap' \in Nat \ {0} /\ need <= heap_cap'
      /\ \E j \in Nat : heap_cap' = heap_cap * j
  BY <1>1, <1>2, <1>4, DoubledFits DEF GrownHeap
<1>6. heap_cap' % Word = 0
  <2>1. PICK j \in Nat : heap_cap' = heap_cap * j
    BY <1>5
  <2>2. PICK q \in Nat : heap_cap = Word * q
    BY <1>2, Multiple
  <2>3. q * j \in Nat /\ heap_cap * j = Word * (q * j)
    BY <2>2, WordPositive
  <2> QED BY <2>1, <2>3, MultipleIsWords
<1>7. req'.op = req.op /\ req'.more = req.more /\ req'.n = req.n /\ (req.op # "message" => req' = req)
      /\ req' # NoReq
  <2>1. req \in Asked /\ req # NoReq
    BY <1>1 DEF Typed, Accounted, Shaped
  <2>2. CASE req.op = "message"
    <3>1. req \in [op : {"message"}, from : {"outside", "heap", "released"}, more : Nat, n : Nat]
      BY <2>1, <2>2 DEF Asked
    <3>2. req' \in [op : {"message"}, from : {"outside", "heap", "released"}, more : Nat, n : Nat]
          /\ req'.more = req.more /\ req'.n = req.n
      BY <1>1, <3>1 DEF Released
    <3> QED BY <2>2, <3>2 DEF NoReq
  <2>3. CASE req.op # "message"
    BY <1>1, <2>1, <2>3 DEF Released
  <2> QED BY <2>2, <2>3
<1>8. Fits'
  BY <1>1, <1>5, <1>7 DEF Fits, Need
<1>9. Shaped'
  BY <1>1, <1>7 DEF Accounted, Shaped
<1>10. heap_sz' <= heap_cap'
  BY <1>1, <1>2, <1>4, <1>5
<1> QED BY <1>1, <1>5, <1>6, <1>8, <1>9, <1>10 DEF Accounted, TotalSz

\* A reservation that fails leaves everything as it was.
LEMMA ReserveFailsAccounts == Accounted /\ ReserveFails => Accounted'
<1> SUFFICES ASSUME Accounted, ReserveFails PROVE Accounted'
  OBVIOUS
<1>1. UNCHANGED <<cur, heap_sz, heap_cap, fwd>> /\ phase = "again" /\ phase' = "run" /\ req' = NoReq
  BY DEF ReserveFails, gc
<1>2. ~Collecting /\ ~Collecting' /\ Sizes(cur') = Sizes(cur) /\ Shaped'
  BY <1>1 DEF Collecting, Shaped, NoReq
<1> QED BY <1>1, <1>2, QuietAccounts

\* What all allocations have in common: the objects fit, and are counted.
LEMMA AllocatedAccounts ==
  ASSUME Accounted, phase = "alloc", Allocated, TotalSz(cur') = heap_sz', heap_sz' <= heap_cap
  PROVE  Accounted'
<1>1. UNCHANGED <<heap_cap, fwd>> /\ phase' = "run" /\ req' = NoReq
  BY DEF Allocated, gc
<1>2. ~Collecting /\ ~Collecting' /\ Shaped'
  BY <1>1 DEF Collecting, Shaped, NoReq
<1> QED BY <1>1, <1>2 DEF Accounted

\* One object is allocated: the bytes counted are those of the object.
LEMMA AllocOneAccounts ==
  ASSUME Settled, Accounted, phase = "alloc", Allocated, req.n = 1, NEW o \in Objects,
         NEW g \in Seq(Objects), Sizes(g) = Sizes(cur),
         o.sz = ObjectSz(req.more), cur' = Append(g, o), heap_sz' = heap_sz + ObjectSz(req.more)
  PROVE  Accounted'
<1>1. ~Collecting /\ Fits /\ heap_sz = TotalSz(cur) /\ TotalSz(g) = TotalSz(cur)
  BY DEF Collecting, Accounted, TotalSz
<1>2. heap_sz \in Nat /\ heap_sz % Word = 0 /\ heap_cap \in Nat /\ heap_cap % Word = 0 /\ req.more \in Nat
  BY <1>1, BytesAre, Requested DEF Settled, Accounted
<1>3. heap_sz' <= heap_cap
  BY <1>1, <1>2, OneObjectFits DEF Fits
<1>4. TotalSz(cur') = heap_sz'
  BY <1>1, SizesAppend
<1> QED BY <1>3, <1>4, AllocatedAccounts

\* A string,
LEMMA AllocStringAccounts == Settled /\ Accounted /\ AllocString => Accounted'
<1> SUFFICES ASSUME Settled, Accounted, AllocString PROVE Accounted'
  OBVIOUS
<1> DEFINE o == String(made + 1, req.more)
<1>1. /\ phase = "alloc" /\ Allocated /\ cur' = Append(cur, o) /\ heap_sz' = heap_sz + ObjectSz(req.more)
      /\ req.n = 1
  BY DEF AllocString, Accounted, Shaped
<1>2. req.more \in Nat /\ made + 1 \in Ids
  BY <1>1, Requested DEF Settled, Typed, Accounted, Ids
<1>3. o \in Objects /\ o.sz = ObjectSz(req.more)
  BY <1>2, NewObjects DEF String, Objects
<1> HIDE DEF o
<1> QED BY <1>1, <1>3, AllocOneAccounts DEF Settled, Typed

\* a tuple,
LEMMA AllocTupleAccounts == Settled /\ Accounted /\ AllocTuple => Accounted'
<1> SUFFICES ASSUME Settled, Accounted, AllocTuple PROVE Accounted'
  OBVIOUS
<1> DEFINE o == Tuple(made + 1, req.size)
<1>1. /\ phase = "alloc" /\ Allocated /\ cur' = Append(cur, o) /\ heap_sz' = heap_sz + ObjectSz(req.more)
      /\ req.op = "tuple" /\ req.n = 1 /\ req.more = TupleSz + req.size * ValueSz
  BY DEF AllocTuple, Accounted, Shaped
<1>2. req.size \in Nat /\ made + 1 \in Ids
  BY <1>1 DEF Settled, Typed, Asked, NoReq, Ids
<1>3. o \in Objects /\ o.sz = ObjectSz(req.more)
  BY <1>1, <1>2, NewObjects DEF Tuple, Objects
<1> HIDE DEF o
<1> QED BY <1>1, <1>3, AllocOneAccounts DEF Settled, Typed

\* a container with its block,
LEMMA AllocContainerAccounts == Settled /\ Accounted /\ AllocContainer => Accounted'
<1> SUFFICES ASSUME Settled, Accounted, AllocContainer PROVE Accounted'
  OBVIOUS
<1> DEFINE bytes == BlockSz(req.kind, req.cap)
           o == Container(req.kind, made + 1, req.cap, Ref(next + 1, made + 2))
           f == Fixed(made + 2, bytes, Blank(req.kind, req.cap))
<1>1. /\ phase = "alloc" /\ Allocated /\ cur' = cur \o <<o, f>>
      /\ heap_sz' = heap_sz + ObjectSz(ArraySz) + ObjectSz(bytes)
      /\ req.op = "container" /\ req.n = 2 /\ req.more = ArraySz + bytes
      /\ ~Collecting /\ Fits /\ heap_sz = TotalSz(cur)
  BY DEF AllocContainer, Accounted, Shaped, Collecting
<1>2. req.kind \in {"array", "buffer", "table"} /\ req.cap \in Nat
  BY <1>1 DEF Settled, Typed, Asked, NoReq
<1>3. bytes \in Nat
  BY <1>2, BlockSzNat
<1>4. cur \in Seq(Objects) /\ made \in Nat /\ next \in Nat
  BY DEF Settled, Typed, next
<1>5. ObjectSz(ArraySz) \in Words /\ ObjectSz(bytes) \in Words
      /\ ObjectSz(ArraySz) \in Nat /\ ObjectSz(bytes) \in Nat
  BY <1>3, ArrayIsWords, ObjectSzNat
<1>6. o \in Objects /\ o.sz = ObjectSz(ArraySz)
  <2>1. Ref(next + 1, made + 2) \in Values
    BY <1>4 DEF Ref, Values
  <2> QED BY <1>2, <1>4, <1>5, <2>1 DEF Container, Boxed, Objects, Ids
<1>7. f \in Objects /\ f.sz = ObjectSz(bytes)
  <2>1. Width(req.kind) * req.cap \in Nat
    BY <1>2 DEF Width
  <2>2. Blank(req.kind, req.cap) \in Seq(Values)
    BY <2>1, Filled, JunkValue DEF Blank
  <2> QED BY <1>4, <1>5, <2>2 DEF Fixed, Flat, Objects, Ids
<1> HIDE DEF o, f, bytes
<1>8. cur' = Append(Append(cur, o), f)
  BY <1>1, <1>4, <1>6, <1>7
<1>9. heap_sz \in Nat /\ heap_sz % Word = 0 /\ heap_cap \in Nat /\ heap_cap % Word = 0
  BY <1>1, BytesAre DEF Settled
<1>10. TotalSz(cur') = heap_sz'
  <2>1. Append(cur, o) \in Seq(Objects) /\ TotalSz(Append(cur, o)) = TotalSz(cur) + o.sz
    BY <1>4, <1>6, SizesAppend
  <2>2. TotalSz(cur') = TotalSz(Append(cur, o)) + f.sz
    BY <1>7, <1>8, <2>1, SizesAppend
  <2> QED BY <1>1, <1>5, <1>6, <1>7, <1>9, <2>1, <2>2
<1>11. heap_sz' <= heap_cap
  BY <1>1, <1>3, <1>9, ContainerFits DEF Fits
<1> QED BY <1>1, <1>10, <1>11, AllocatedAccounts

\* and a new block for a container.
LEMMA AllocCapacityAccounts == Settled /\ Accounted /\ AllocCapacity => Accounted'
<1> SUFFICES ASSUME Settled, Accounted, AllocCapacity PROVE Accounted'
  OBVIOUS
<1> DEFINE a == stack[req.i].at
           o == At(req.i)
           wd == Width(o.kind)
           nils == IF o.kind = "array" THEN req.size ELSE 0
           filled == Refilled(cur[o.buff.at].vals, Copied(o), nils, wd * req.cap)
           new == [k \in DOMAIN filled |->
                    IF k - wd * o.n \in DOMAIN req.src THEN stack[req.src[k - wd * o.n]]
                    ELSE filled[k]]
           f == Fixed(made + 1, req.more, new)
           p == [cur[a] EXCEPT !.cap = req.cap, !.n = req.size, !.buff = Ref(next, made + 1)]
           g == [cur EXCEPT ![a] = p]
<1>1. /\ phase = "alloc" /\ Allocated /\ req.op = "capacity"
      /\ cur' = Append(g, f) /\ heap_sz' = heap_sz + ObjectSz(req.more)
  BY DEF AllocCapacity
<1>2. req.n = 1 /\ Settled'
  BY <1>1, AllocCapacitySettled DEF Accounted, Shaped
<1>3. f.sz = ObjectSz(req.more)
  BY DEF Fixed
<1> HIDE DEF f
<1>4. cur \in Seq(Objects) /\ cur' \in Seq(Objects) /\ stack \in Seq(Values) /\ made \in Nat /\ next \in Nat
  BY <1>2 DEF Settled, Typed, next
<1>5. a \in DOMAIN cur /\ IsContainer(cur[a])
  <2>1. req.i \in DOMAIN stack /\ stack[req.i] # Nil /\ IsContainer(At(req.i))
    BY <1>1 DEF Settled, RequestQuiet, Suits, At
  <2>2. a # 0
    BY <2>1, StackTyped DEF Plain, Settled, Typed
  <2> QED BY <2>1, <2>2, ContainerFields DEF At
<1>6. p \in Boxed /\ p.sz = cur[a].sz
  <2>1. cur[a] \in Boxed
    BY <1>4, <1>5 DEF Objects, Flat, IsContainer
  <2>2. Ref(next, made + 1) \in Values
    BY <1>4 DEF Ref, Values
  <2>3. req.cap \in Nat /\ req.size \in Nat
    BY <1>1 DEF Settled, Typed, Asked, NoReq
  <2> QED BY <2>1, <2>2, <2>3 DEF Boxed
<1> HIDE DEF p, a
<1>7. g \in Seq(Objects) /\ DOMAIN g = DOMAIN cur /\ \A k \in DOMAIN cur : g[k].sz = cur[k].sz
  BY <1>4, <1>5, <1>6 DEF Objects
<1> HIDE DEF g
<1>8. Sizes(g) = Sizes(cur)
  BY <1>7, SizesSame
<1>9. f \in Objects
  <2>1. Len(g) + 1 \in DOMAIN cur' /\ cur'[Len(g) + 1] = f
    BY <1>1, <1>7
  <2> QED BY <1>4, <2>1
<1> QED BY <1>1, <1>2, <1>3, <1>7, <1>8, <1>9, AllocOneAccounts

\* A reservation and the allocation after it.
LEMMA AllocationAccounts == Settled /\ Accounted /\ Allocation => Accounted'
BY CheckAccounts, ReserveAccounts, ReserveFailsAccounts, AllocStringAccounts, AllocTupleAccounts,
   AllocContainerAccounts, AllocCapacityAccounts DEF Allocation, Settled

\* Collecting: nothing was copied yet.
LEMMA CollectAccounts == Settled /\ Accounted /\ Collect => Accounted'
<1> SUFFICES ASSUME Settled, Accounted, Collect PROVE Accounted'
  OBVIOUS
<1>1. /\ ~Collecting /\ phase' = "roots" /\ Collecting' /\ heap_sz' = 0 /\ to' = <<>>
      /\ fwd' = [k \in DOMAIN cur |-> 0] /\ UNCHANGED <<cur, heap_cap, req>>
  BY DEF Collect, Running, Collecting
<1>2. cur \in Seq(Objects) /\ heap_sz = TotalSz(cur) /\ heap_sz <= heap_cap
  BY <1>1 DEF Settled, Typed, Accounted
<1> DEFINE z == Sizes(cur)
<1>3. z \in Seq(Nat) /\ DOMAIN z = DOMAIN cur /\ TotalSz(cur) \in Nat /\ Total(z) = TotalSz(cur)
  BY <1>2, SizesAre DEF TotalSz
<1> HIDE DEF z
<1>4. Staying(z, fwd') = z
  <2>1. \A k \in DOMAIN z : fwd'[k] = 0
    BY <1>1, <1>3
  <2>2. Staying(z, fwd') = [k \in DOMAIN z |-> z[k]]
    BY <2>1 DEF Staying
  <2> QED BY <1>3, <2>2
<1>5. Left' = TotalSz(cur)
  BY <1>1, <1>3, <1>4 DEF Left, z
<1>6. TotalSz(to') = 0 /\ TotalSz(cur') = TotalSz(cur)
  BY <1>1, SizesNone
<1>7. Shaped'
  BY <1>1 DEF Accounted, Shaped
<1> QED BY <1>1, <1>2, <1>3, <1>5, <1>6, <1>7 DEF Accounted

\* copy() moves as many bytes as it counts.
LEMMA CopyAccounts ==
  ASSUME IInv, Accounted, Collecting, Collecting', NEW v \in Values, v.at # 0 => v.at \in DOMAIN cur,
         NEW t \in Seq(Objects), Sizes(t) = Sizes(to), copy(v), to' = Moved(v, t),
         Sizes(cur') = Sizes(cur), UNCHANGED <<heap_cap, req>>
  PROVE  Accounted'
<1>1. cur \in Seq(Objects) /\ to \in Seq(Objects) /\ fwd \in [DOMAIN cur -> Nat] /\ Len(to) + 1 \in Nat \ {0}
  <2>1. cur \in Seq(Objects) /\ to \in Seq(Objects) /\ Forwards
    BY DEF IInv, Typed, Copying
  <2>2. Len(to) \in Nat
    BY <2>1
  <2>3. fwd \in [DOMAIN cur -> Nat]
    BY <2>1, <2>2 DEF Forwards
  <2> QED BY <2>1, <2>2, <2>3
<1>2. /\ heap_sz = TotalSz(to) /\ heap_sz + Left = TotalSz(cur) /\ TotalSz(cur) <= heap_cap
      /\ heap_cap \in Nat \ {0} /\ heap_cap % Word = 0 /\ Shaped
  BY DEF Accounted
<1>3. TotalSz(t) = TotalSz(to) /\ TotalSz(cur') = TotalSz(cur)
  BY DEF TotalSz
<1>4. TotalSz(to) \in Nat /\ TotalSz(cur) \in Nat
  BY <1>1, SizesAre
<1>5. Shaped'
  BY <1>2 DEF Shaped, Collecting
<1>6. heap_sz' = TotalSz(to') /\ heap_sz' + Left' = TotalSz(cur)
  <2>1. CASE Moves(v)
    <3> DEFINE a == v.at
               z == Sizes(cur)
    <3>1. a \in DOMAIN cur /\ fwd[a] = 0
      BY <2>1 DEF Moves
    <3>2. cur[a] \in Objects
      BY <1>1, <3>1
    <3>3. z \in Seq(Nat) /\ DOMAIN z = DOMAIN cur /\ z[a] = cur[a].sz /\ cur[a].sz \in Nat
      BY <1>1, <3>1, SizesAre
    <3>4. fwd' = [fwd EXCEPT ![a] = Len(to) + 1] /\ heap_sz' = heap_sz + cur[a].sz
          /\ to' = Append(t, cur[a])
      BY <2>1 DEF copy, Moved
    <3>5. TotalSz(to') = TotalSz(t) + cur[a].sz
      BY <3>2, <3>4, SizesAppend
    <3> HIDE DEF z, a
    <3>6. Total(Staying(z, fwd')) + z[a] = Total(Staying(z, fwd)) /\ fwd' \in [DOMAIN z -> Nat]
      BY <1>1, <3>1, <3>3, <3>4, LeftLess
    <3>7. Left = Total(Staying(z, fwd)) /\ Left' = Total(Staying(z, fwd'))
      BY DEF Left, z
    <3>8. Left \in Nat /\ Left' \in Nat
      BY <1>1, <3>3, <3>6, <3>7, LeftIs
    <3> QED BY <1>2, <1>3, <1>4, <3>3, <3>4, <3>5, <3>6, <3>7, <3>8
  <2>2. CASE ~Moves(v)
    <3>1. fwd' = fwd /\ heap_sz' = heap_sz /\ to' = t
      BY <2>2 DEF copy, Moved
    <3>2. Left' = Left
      BY <3>1 DEF Left
    <3> QED BY <1>2, <1>3, <3>1, <3>2
  <2> QED BY <2>1, <2>2
<1> QED BY <1>2, <1>3, <1>5, <1>6 DEF Accounted, Collecting

\* What each copying step of the collector copies and writes: a root ...
LEMMA CopyRootCopies ==
  ASSUME IInv, CopyRoot
  PROVE  \E v, w \in Values :
           /\ CopyingStep(v, to) /\ Collecting' /\ copy(v) /\ to' = Moved(v, to) /\ w = Forwarded(v)
           /\ v.at # 0 => v.at \in DOMAIN cur
           /\ phase = "roots" /\ pos' = pos + 1 /\ pos \in DOMAIN Roots
           /\ UNCHANGED <<cur, heap_cap, phase, req, scan, child>>
           /\ DOMAIN Roots' = DOMAIN Roots
           /\ \A r \in DOMAIN Roots : Roots'[r] = IF r = pos THEN w ELSE Roots[r]
<1> DEFINE v == Roots[pos]
           w == Forwarded(v)
<1>1. /\ phase = "roots" /\ pos <= Len(Roots) /\ copy(v) /\ to' = Moved(v, to) /\ pos' = pos + 1
      /\ UNCHANGED <<cur, heap_cap, phase, req, scan, child, made>> /\ Collecting /\ Collecting'
  BY DEF CopyRoot, Collecting
<1>2. /\ cur \in Seq(Objects) /\ to \in Seq(Objects) /\ stack \in Seq(Values) /\ msbox \in Seq(Values)
      /\ pos \in Nat \ {0} /\ Copying
  BY <1>1 DEF IInv, Typed
<1>3. pos \in DOMAIN Roots /\ v \in Values
  BY <1>1, <1>2, RootsAre
<1>4. Plain(v, cur)
  <2>1. Plain(v, RootHalf(pos))
    BY <1>3 DEF IInv, RootsPlain
  <2>2. RootHalf(pos) = cur
    BY <1>1, <1>2 DEF RootHalf, Half
  <2> QED BY <2>1, <2>2
<1>5. v.at # 0 => v.at \in DOMAIN cur
  BY <1>4, PlainIsObject
<1>6. MovedOn(v, to)
  BY <1>1, <1>2, <1>3, <1>5, CopyMoves DEF Copying
<1>7. CopyingStep(v, to)
  BY <1>1, <1>2, <1>6, NothingRewritten, CopySelf DEF CopyingStep
<1>8. IF pos <= Len(stack)
      THEN stack' = [stack EXCEPT ![pos] = w] /\ msbox' = msbox
      ELSE msbox' = [msbox EXCEPT ![pos - Len(stack)] = w] /\ stack' = stack
  <2>1. CASE pos <= Len(stack)
    <3>1. stack[pos] = v
      BY <1>2, <1>3, <2>1, RootsAre
    <3> QED BY <2>1, <3>1 DEF CopyRoot
  <2>2. CASE ~(pos <= Len(stack))
    <3>1. msbox[pos - Len(stack)] = v
      BY <1>2, <1>3, <2>2, RootsAre
    <3> QED BY <2>2, <3>1 DEF CopyRoot
  <2> QED BY <2>1, <2>2
<1>9. w \in Values /\ w = Forwarded(v)
  BY <1>6 DEF MovedOn
<1> HIDE DEF w, v
<1>10. /\ DOMAIN Roots' = DOMAIN Roots
       /\ \A r \in DOMAIN Roots : Roots'[r] = IF r = pos THEN w ELSE Roots[r]
  BY <1>2, <1>3, <1>8, <1>9, RootsWritten
<1> QED BY <1>1, <1>3, <1>5, <1>7, <1>9, <1>10

\* ... a value of a tuple in the new half ...
LEMMA ScanTupleCopies ==
  ASSUME IInv, ScanTuple
  PROVE  \E v, w \in Values : \E t \in Seq(Objects) :
           /\ CopyingStep(v, t) /\ Collecting' /\ copy(v) /\ to' = Moved(v, t) /\ w = Forwarded(v)
           /\ v.at # 0 => v.at \in DOMAIN cur
           /\ Scanning /\ to[scan].kind = "tuple" /\ child \in DOMAIN to[scan].vals
           /\ child' = child + 1
           /\ UNCHANGED <<cur, heap_cap, stack, msbox, phase, req, pos, scan>>
           /\ Sizes(t) = Sizes(to) /\ DOMAIN t[scan].vals = DOMAIN to[scan].vals
           /\ \A s \in DOMAIN to : s # scan => t[s] = to[s]
           /\ \A c \in DOMAIN to[scan].vals :
                t[scan].vals[c] = IF c = child THEN w ELSE to[scan].vals[c]
<1> DEFINE v == to[scan].vals[child]
           w == Forwarded(v)
           t == WithCell(to, scan, child, w)
<1>1. /\ Scanning /\ to[scan].kind = "tuple" /\ child <= ValuesOf(to[scan])
      /\ copy(v) /\ child' = child + 1
      /\ UNCHANGED <<cur, heap_cap, stack, msbox, made, phase, req, pos, scan>>
  BY DEF ScanTuple, mutator
<1>2. to' = Moved(v, t)
  BY DEF ScanTuple, WithCell
<1>3. /\ Collecting /\ Copying /\ cur \in Seq(Objects) /\ to \in Seq(Objects)
      /\ scan \in DOMAIN to /\ child \in Nat \ {0} /\ ~Scanned(scan, child)
  BY <1>1, ScanFacts
<1>4. to[scan] \in Objects /\ ~IsContainer(to[scan]) /\ to[scan].vals \in Seq(Values)
  <2>1. to[scan] \in Objects /\ ~IsContainer(to[scan])
    BY <1>1, <1>3 DEF IsContainer
  <2> HIDE DEF v, w, t
  <2> QED BY <2>1, ObjectFields
<1>5. child \in DOMAIN to[scan].vals /\ v \in Values
  BY <1>1, <1>3, <1>4 DEF ValuesOf
<1>6. Plain(v, cur)
  BY <1>1, <1>3, <1>5 DEF Copying, CopiedTuples, Half
<1>7. v.at # 0 => v.at \in DOMAIN cur
  BY <1>6, PlainIsObject
<1>8. w \in Values /\ w = Forwarded(v)
  BY <1>3, <1>5, <1>7, ForwardedValue DEF Copying
<1> HIDE DEF v, w
<1>9. /\ t \in Seq(Objects) /\ DOMAIN t = DOMAIN to
      /\ \A s \in DOMAIN to : s # scan => t[s] = to[s]
      /\ t[scan].kind = to[scan].kind /\ t[scan].id = to[scan].id
      /\ Len(t[scan].vals) = Len(to[scan].vals) /\ DOMAIN t[scan].vals = DOMAIN to[scan].vals
      /\ \A c \in DOMAIN to[scan].vals : t[scan].vals[c] = IF c = child THEN w ELSE to[scan].vals[c]
  BY <1>3, <1>4, <1>8, CellWritten
<1>10. Sizes(t) = Sizes(to)
  BY <1>3, <1>4, <1>8, CellSizes
<1> HIDE DEF t
<1>11. Len(t) = Len(to) /\ \A s \in DOMAIN to : Copy(to[s], t[s])
  <2>1. Len(t) = Len(to)
    BY <1>3, <1>9
  <2> QED BY <1>4, <1>9, <2>1, CopySelf DEF Copy, IsContainer
<1>12. MovedOn(v, t)
  BY <1>1, <1>2, <1>3, <1>5, <1>7, <1>9, <1>11, CopyMoves DEF Copying
<1>13. CopyingStep(v, t)
  BY <1>1, <1>3, <1>11, <1>12, NothingRewritten DEF CopyingStep
<1>14. Collecting'
  BY <1>1, <1>3 DEF Collecting
<1> QED BY <1>1, <1>2, <1>5, <1>7, <1>8, <1>9, <1>10, <1>13, <1>14

\* ... an element of a container, in the block of the old half ...
LEMMA ScanElementCopies ==
  ASSUME IInv, ScanElement
  PROVE  \E v, w \in Values : \E k \in DOMAIN cur :
           /\ CopyingStep(v, to) /\ Collecting' /\ copy(v) /\ to' = Moved(v, to) /\ w = Forwarded(v)
           /\ v.at # 0 => v.at \in DOMAIN cur
           /\ Scanning /\ fwd[k] = scan /\ IsContainer(cur[k]) /\ child \in 1 .. Elements(cur[k])
           /\ child' = child + 1
           /\ UNCHANGED <<heap_cap, stack, msbox, phase, req, pos, scan>>
           /\ Sizes(cur') = Sizes(cur)
           /\ \A l \in DOMAIN cur : l # cur[k].buff.at => cur'[l] = cur[l]
           /\ \A c \in 1 .. Elements(cur[k]) :
                cur'[cur[k].buff.at].vals[c] = IF c = child THEN w ELSE Block(k).vals[c]
<1> DEFINE b == to[scan].buff.at
           v == cur[b].vals[child]
           w == Forwarded(v)
<1>1. /\ Scanning /\ IsContainer(to[scan]) /\ child <= Elements(to[scan])
      /\ copy(v) /\ to' = Moved(v, to) /\ child' = child + 1
      /\ UNCHANGED <<heap_cap, stack, msbox, made, phase, req, pos, scan>>
  BY DEF ScanElement, mutator
<1>2. cur' = WithCell(cur, b, child, w)
  BY DEF ScanElement, WithCell
<1>3. /\ Collecting /\ Copying /\ cur \in Seq(Objects) /\ to \in Seq(Objects)
      /\ scan \in DOMAIN to /\ child \in Nat \ {0} /\ ~Scanned(scan, child)
  BY <1>1, ScanFacts
<1>4. child <= ValuesOf(to[scan])
  <2>1. Elements(to[scan]) \in Nat /\ ValuesOf(to[scan]) = Elements(to[scan]) + 1
    BY <1>1, <1>3, Measures
  <2> QED BY <1>1, <1>3, <2>1
<1>5. PICK k \in DOMAIN cur :
           /\ fwd[k] = scan /\ IsContainer(cur[k]) /\ cur[k].buff.at = b
           /\ Elements(cur[k]) = Elements(to[scan]) /\ Elements(cur[k]) \in Nat
           /\ b \in DOMAIN cur /\ cur[b].kind = "fixed"
           /\ cur[b].vals \in Seq(Values) /\ Elements(cur[k]) <= Len(cur[b].vals)
  BY <1>1, <1>4, ScannedContainer DEF Block
<1>6. child \in 1 .. Elements(cur[k]) /\ child \in DOMAIN cur[b].vals /\ v \in Values
      /\ 1 .. Elements(cur[k]) \subseteq DOMAIN cur[b].vals
  BY <1>1, <1>3, <1>5
<1>7. Plain(v, cur)
  <2>1. Plain(Block(k).vals[child], CellHalf(k, child))
    BY <1>5, <1>6 DEF IInv, CellsPlain
  <2>2. CellHalf(k, child) = cur
    BY <1>3, <1>5 DEF CellHalf, Half
  <2> QED BY <1>5, <2>1, <2>2 DEF Block
<1>8. v.at # 0 => v.at \in DOMAIN cur
  BY <1>7, PlainIsObject
<1>9. w \in Values /\ w = Forwarded(v)
  BY <1>3, <1>6, <1>8, ForwardedValue DEF Copying
<1> HIDE DEF v, w, b
<1>10. Sizes(cur') = Sizes(cur)
  BY <1>2, <1>3, <1>5, <1>9, CellSizes DEF IsContainer
<1>11. /\ cur' \in Seq(Objects) /\ DOMAIN cur' = DOMAIN cur
       /\ \A l \in DOMAIN cur : l # b => cur'[l] = cur[l]
       /\ cur'[b].kind = cur[b].kind /\ cur'[b].id = cur[b].id
       /\ Len(cur'[b].vals) = Len(cur[b].vals)
       /\ \A c \in DOMAIN cur[b].vals : cur'[b].vals[c] = IF c = child THEN w ELSE cur[b].vals[c]
  BY <1>2, <1>3, <1>5, <1>9, CellWritten DEF IsContainer
<1>12. Rewrites
  <2>1. Copy(cur[b], cur'[b])
    BY <1>5, <1>11 DEF Copy, IsContainer
  <2> QED BY <1>5, <1>11, <2>1, CopySelf DEF Rewrites
<1>13. MovedOn(v, to)
  BY <1>1, <1>3, <1>6, <1>8, CopyMoves DEF Copying
<1>14. CopyingStep(v, to)
  BY <1>1, <1>3, <1>12, <1>13, CopySelf DEF CopyingStep
<1>15. Collecting'
  BY <1>1, <1>3 DEF Collecting
<1>16. \A c \in 1 .. Elements(cur[k]) :
         cur'[cur[k].buff.at].vals[c] = IF c = child THEN w ELSE Block(k).vals[c]
  BY <1>5, <1>6, <1>11 DEF Block
<1> QED BY <1>1, <1>5, <1>6, <1>8, <1>9, <1>10, <1>11, <1>14, <1>15, <1>16

\* ... or the block of a container.
LEMMA ScanBlockCopies ==
  ASSUME IInv, ScanBlock
  PROVE  \E v, w \in Values : \E t \in Seq(Objects) : \E k \in DOMAIN cur :
           /\ CopyingStep(v, t) /\ Collecting' /\ copy(v) /\ to' = Moved(v, t) /\ w = Forwarded(v)
           /\ v.at = cur[k].buff.at /\ v.at \in DOMAIN cur
           /\ Scanning /\ fwd[k] = scan /\ IsContainer(cur[k]) /\ child = ValuesOf(cur[k])
           /\ child' = child + 1
           /\ UNCHANGED <<cur, heap_cap, stack, msbox, phase, req, pos, scan>>
           /\ Sizes(t) = Sizes(to) /\ to[scan].kind # "tuple"
           /\ \A s \in DOMAIN to : s # scan => t[s] = to[s]
<1> DEFINE v == to[scan].buff
           b == v.at
           w == Forwarded(v)
           t == WithBuff(to, scan, w)
<1>1. /\ Scanning /\ IsContainer(to[scan]) /\ child = ValuesOf(to[scan])
      /\ copy(v) /\ child' = child + 1
      /\ UNCHANGED <<cur, heap_cap, stack, msbox, made, phase, req, pos, scan>>
  BY DEF ScanBlock, mutator
<1>2. to' = Moved(v, t)
  BY DEF ScanBlock, WithBuff
<1>3. /\ Collecting /\ Copying /\ cur \in Seq(Objects) /\ to \in Seq(Objects)
      /\ scan \in DOMAIN to /\ child \in Nat \ {0}
  BY <1>1, ScanFacts
<1>4. child <= ValuesOf(to[scan])
  BY <1>1, <1>3
<1>5. PICK k \in DOMAIN cur :
           /\ fwd[k] = scan /\ IsContainer(cur[k]) /\ cur[k].buff.at = b
           /\ ValuesOf(cur[k]) = child /\ b \in DOMAIN cur
  BY <1>1, <1>4, ScannedContainer DEF Block
<1>6. v \in Values
  <2>1. to[scan] \in Objects
    BY <1>3
  <2> QED BY <1>1, <2>1, ObjectFields
<1>7. w \in Values /\ w = Forwarded(v)
  BY <1>3, <1>5, <1>6, ForwardedValue DEF Copying
<1>8. w.id = v.id /\ b = v.at
  BY DEF Forwarded
<1> HIDE DEF v, w, b
<1>9. /\ t \in Seq(Objects) /\ DOMAIN t = DOMAIN to /\ Len(t) = Len(to)
      /\ \A s \in DOMAIN to : s # scan => t[s] = to[s]
      /\ t[scan].kind = to[scan].kind /\ t[scan].id = to[scan].id /\ t[scan].sz = to[scan].sz
      /\ t[scan].cap = to[scan].cap /\ t[scan].n = to[scan].n /\ t[scan].buff = w
  BY <1>1, <1>3, <1>7, BuffWritten
<1> HIDE DEF t
<1>10. Sizes(t) = Sizes(to)
  BY <1>9, SizesSame
<1>11. \A s \in DOMAIN to : Copy(to[s], t[s])
  <2>1. Copy(to[scan], t[scan])
    BY <1>1, <1>8, <1>9 DEF Copy, v
  <2> QED BY <1>9, <2>1, CopySelf
<1>12. MovedOn(v, t)
  BY <1>1, <1>2, <1>3, <1>5, <1>6, <1>8, <1>9, CopyMoves DEF Copying
<1>13. CopyingStep(v, t)
  BY <1>1, <1>3, <1>11, <1>12, NothingRewritten DEF CopyingStep
<1>14. Collecting' /\ to[scan].kind # "tuple"
  BY <1>1, <1>3 DEF Collecting, IsContainer
<1> QED BY <1>1, <1>2, <1>5, <1>6, <1>7, <1>8, <1>9, <1>10, <1>13, <1>14

\* So what they move is accounted for.
LEMMA CopyingAccounts ==
  IInv /\ Accounted /\ (CopyRoot \/ ScanTuple \/ ScanElement \/ ScanBlock) => Accounted'
<1> SUFFICES ASSUME IInv, Accounted, CopyRoot \/ ScanTuple \/ ScanElement \/ ScanBlock PROVE Accounted'
  OBVIOUS
<1>1. \E v \in Values : \E t \in Seq(Objects) :
        /\ CopyingStep(v, t) /\ Collecting' /\ copy(v) /\ to' = Moved(v, t)
        /\ v.at # 0 => v.at \in DOMAIN cur
        /\ Sizes(t) = Sizes(to) /\ Sizes(cur') = Sizes(cur) /\ UNCHANGED <<heap_cap, req>>
  <2>1. to \in Seq(Objects)
    BY DEF IInv, Typed
  <2>2. CASE CopyRoot
    BY <2>1, <2>2, CopyRootCopies
  <2>3. CASE ScanTuple
    BY <2>3, ScanTupleCopies
  <2>4. CASE ScanElement
    BY <2>1, <2>4, ScanElementCopies
  <2>5. CASE ScanBlock
    BY <2>5, ScanBlockCopies
  <2> QED BY <2>2, <2>3, <2>4, <2>5
<1>2. PICK v \in Values, t \in Seq(Objects) :
        /\ CopyingStep(v, t) /\ Collecting' /\ copy(v) /\ to' = Moved(v, t)
        /\ v.at # 0 => v.at \in DOMAIN cur
        /\ Sizes(t) = Sizes(to) /\ Sizes(cur') = Sizes(cur) /\ UNCHANGED <<heap_cap, req>>
  BY <1>1
<1>3. Collecting
  BY <1>2 DEF CopyingStep
<1> QED BY <1>2, <1>3, CopyAccounts

\* Steps of the collector that copy nothing.
LEMMA CollectorAccounts == Accounted /\ (RootsDone \/ ScanNext) => Accounted'
<1> SUFFICES ASSUME Accounted, RootsDone \/ ScanNext PROVE Accounted'
  OBVIOUS
<1>1. UNCHANGED <<cur, heap_sz, heap_cap, req, to, fwd>> /\ Collecting /\ Collecting'
  BY DEF RootsDone, ScanNext, Scanning, gc, Collecting
<1>2. Left' = Left /\ Shaped'
  BY <1>1 DEF Left, Accounted, Shaped, Collecting
<1> QED BY <1>1, <1>2 DEF Accounted, Collecting

\* swap: what was copied is what there is now.
LEMMA SwapAccounts == IInv /\ Accounted /\ Swap => Accounted'
<1> SUFFICES ASSUME IInv, Accounted, Swap PROVE Accounted'
  OBVIOUS
<1>1. /\ Collecting /\ ~Collecting' /\ cur' = to /\ fwd' = <<>> /\ UNCHANGED <<heap_sz, heap_cap, req>>
      /\ phase' = IF req = NoReq THEN "run" ELSE "again"
  BY DEF Swap, Collecting
<1>2. /\ heap_sz = TotalSz(to) /\ heap_sz + Left = TotalSz(cur) /\ TotalSz(cur) <= heap_cap
      /\ heap_cap \in Nat \ {0} /\ heap_cap % Word = 0 /\ Shaped
  BY <1>1 DEF Accounted
<1>3. cur \in Seq(Objects) /\ to \in Seq(Objects) /\ fwd \in [DOMAIN cur -> Nat]
  <2>1. cur \in Seq(Objects) /\ to \in Seq(Objects) /\ Forwards
    BY <1>1 DEF IInv, Typed, Copying
  <2>2. Len(to) \in Nat
    BY <2>1
  <2>3. fwd \in [DOMAIN cur -> Nat]
    BY <2>1, <2>2 DEF Forwards
  <2> QED BY <2>1, <2>2, <2>3
<1>4. Left \in Nat
  <2>1. Sizes(cur) \in Seq(Nat) /\ DOMAIN Sizes(cur) = DOMAIN cur
    BY <1>3, SizesAre
  <2> QED BY <1>3, <2>1, LeftIs DEF Left
<1>5. TotalSz(cur) \in Nat /\ TotalSz(to) \in Nat
  BY <1>3, SizesAre
<1>6. heap_sz <= heap_cap
  BY <1>2, <1>4, <1>5
<1>7. Shaped'
  BY <1>1, <1>2 DEF Shaped
<1> QED BY <1>1, <1>2, <1>6, <1>7 DEF Accounted

\* An empty heap has no bytes in use.
LEMMA InitAccounted == Init => Accounted
<1> SUFFICES ASSUME Init PROVE Accounted
  OBVIOUS
<1>1. ~Collecting /\ fwd = <<>> /\ heap_sz = 0 /\ cur = <<>> /\ phase = "run" /\ req = NoReq /\ heap_cap = InitCap
  BY DEF Init, Collecting
<1>2. Shaped
  BY <1>1 DEF Shaped, NoReq
<1> QED BY <1>1, <1>2, SizesNone, HeapAssumption DEF Accounted

\* Accounted is inductive, next to IInv.
LEMMA NextAccounted == IInv /\ Accounted /\ [Next]_vars => Accounted'
<1> SUFFICES ASSUME IInv, Accounted, [Next]_vars PROVE Accounted'
  OBVIOUS
<1>1. CASE Requests
  BY <1>1, RequestsAccount
<1>2. CASE Allocation \/ Mutation \/ Collect
  <2>1. ~Collecting
    BY <1>2 DEF Allocation, Check, Reserve, ReserveFails, AllocString, AllocTuple, AllocContainer,
                AllocCapacity, Mutation, Pop, Receive, RemoveMessage, PushIndex, Get, Resize, Set,
                PushInPlace, PutInPlace, Collect, Running, Collecting
  <2>2. Settled
    BY <2>1, InvSettled
  <2> QED BY <1>2, <2>2, AllocationAccounts, MutationAccounts, CollectAccounts
<1>3. CASE Collection
  BY <1>3, CopyingAccounts, CollectorAccounts, SwapAccounts DEF Collection
<1>4. CASE UNCHANGED vars
  <2>1. UNCHANGED <<cur, heap_sz, heap_cap, req, to, fwd, phase>>
    BY <1>4 DEF vars, gc
  <2>2. Left' = Left /\ (Shaped' <=> Shaped) /\ (Fits' <=> Fits) /\ (Collecting' <=> Collecting)
    BY <2>1 DEF Left, Shaped, Fits, Collecting
  <2> QED BY <2>1, <2>2 DEF Accounted
<1> QED BY <1>1, <1>2, <1>3, <1>4 DEF Next

\* The bytes in use are those of the objects, always: what agc_alloc and copy()
\* count is what there is.
THEOREM AccountedHolds == Spec => []Accounted
<1>1. Init => IInv /\ Accounted
  BY InitIInv, InitAccounted
<1>2. (IInv /\ Accounted) /\ [Next]_vars => (IInv /\ Accounted)'
  BY NextIInv, NextAccounted
<1>3. IInv /\ Accounted => Accounted
  OBVIOUS
<1> QED BY <1>1, <1>2, <1>3, PTL DEF Spec

\* agc_alloc never writes past the half, nor does a collection.
LEMMA AccountedFits == IInv /\ Accounted => HeapWithinCapacity
<1> SUFFICES ASSUME IInv, Accounted PROVE heap_sz <= heap_cap
  BY DEF HeapWithinCapacity
<1>1. CASE ~Collecting
  BY <1>1 DEF Accounted
<1>2. CASE Collecting
  <2>1. cur \in Seq(Objects) /\ to \in Seq(Objects) /\ Forwards
    BY <1>2 DEF IInv, Typed, Copying
  <2>2. Len(to) \in Nat
    BY <2>1
  <2>3. fwd \in [DOMAIN cur -> Nat]
    BY <2>1, <2>2 DEF Forwards
  <2>4. Sizes(cur) \in Seq(Nat) /\ DOMAIN Sizes(cur) = DOMAIN cur /\ TotalSz(cur) \in Nat /\ TotalSz(to) \in Nat
    BY <2>1, SizesAre
  <2>5. Left \in Nat
    BY <2>3, <2>4, LeftIs DEF Left
  <2> QED BY <1>2, <2>4, <2>5 DEF Accounted
<1> QED BY <1>1, <1>2

\* No object is allocated, and none copied, past the end of a half.
THEOREM HeapStaysWithinCapacity == Spec => []HeapWithinCapacity
<1>1. Spec => []IInv /\ []Accounted
  BY IInvHolds, AccountedHolds
<1> QED BY <1>1, AccountedFits, PTL

-----------------------------------------------------------------------------
\* The bounds on the stack and the mailbox, with the place that a request that
\* is going on will need.
Pushes == req.op \in {"string", "tuple", "container"} \/ (req.op = "capacity" /\ req.src # <<>>)
Bounded ==
  /\ Len(stack) <= MaxRoots /\ Len(msbox) <= MaxMail
  /\ Pushes => Len(stack) < MaxRoots
  /\ req.op = "message" => Len(msbox) < MaxMail

\* Sequences that become longer by one, shorter by one, or are written.
LEMMA Lengthens ==
  ASSUME NEW s \in Seq(Values), NEW v \in Values
  PROVE  Len(s) \in Nat /\ Len(Append(s, v)) = Len(s) + 1
OBVIOUS

\* A sequence without its last element is shorter.
LEMMA Shortens ==
  ASSUME NEW s \in Seq(Values), s # <<>>
  PROVE  Len(SubSeq(s, 1, Len(s) - 1)) = Len(s) - 1 /\ Len(s) \in Nat
<1>1. Len(s) \in Nat \ {0}
  OBVIOUS
<1>2. SubSeq(s, 1, Len(s) - 1) = [k \in 1 .. Len(s) - 1 |-> s[k]]
  BY <1>1, SubSeqProperties
<1>3. Len([k \in 1 .. Len(s) - 1 |-> s[k]]) = Len(s) - 1
  <2> DEFINE n == Len(s) - 1
  <2>1. n \in Nat
    BY <1>1
  <2> HIDE DEF n
  <2>2. Len([k \in 1 .. n |-> s[k]]) = n
    BY <2>1
  <2> QED BY <2>2 DEF n
<1> QED BY <1>1, <1>2, <1>3

\* The bounds hold when the actor starts.
LEMMA InitBounded == Init => Bounded
BY HeapAssumption DEF Init, Bounded, Pushes, NoReq

\* Requests push nothing.
LEMMA RequestsBounded == Settled /\ Bounded /\ Requests => Bounded'
<1> SUFFICES ASSUME Settled, Bounded, Requests PROVE Bounded'
  OBVIOUS
<1>0. Len(stack) \in Nat /\ Len(msbox) \in Nat /\ MaxRoots \in Nat /\ MaxMail \in Nat
      /\ stack \in Seq(Values)
  BY HeapAssumption DEF Settled, Typed
<1>1. ASSUME NEW n, AskString(n) PROVE Bounded'
  BY <1>1 DEF AskString, Ask, Bounded, Pushes, Room, mutator
<1>2. ASSUME NEW n, AskMessage(n) PROVE Bounded'
  BY <1>2 DEF AskMessage, Ask, Bounded, Pushes, mutator
<1>3. ASSUME NEW n, AskMessageToSelf(n) PROVE Bounded'
  <2>1. stack # <<>> /\ stack' = SubSeq(stack, 1, Len(stack) - 1) /\ UNCHANGED msbox
        /\ req'.op = "message" /\ Len(msbox) < MaxMail
    BY <1>3 DEF AskMessageToSelf
  <2>2. Len(stack') <= MaxRoots
    BY <1>0, <2>1, Shortens DEF Bounded
  <2> QED BY <2>1, <2>2 DEF Bounded, Pushes
<1>4. ASSUME NEW n, AskTuple(n) PROVE Bounded'
  BY <1>4 DEF AskTuple, Ask, Bounded, Pushes, Room, mutator
<1>5. ASSUME NEW k, NEW n, AskContainer(k, n) PROVE Bounded'
  BY <1>5 DEF AskContainer, Ask, Bounded, Pushes, Room, mutator
<1>6. ASSUME NEW i, NEW cap, NEW sz, NEW src, AskCapacity(i, cap, sz, src),
             src # <<>> => Len(stack) < MaxRoots
      PROVE  Bounded'
  BY <1>6 DEF AskCapacity, Ask, Bounded, Pushes, mutator
<1>7. ASSUME NEW i, NEW n, AskShrink(i) \/ AskReserve(i, n) \/ AskResize(i, n) PROVE Bounded'
  BY <1>6, <1>7 DEF AskShrink, AskReserve, AskResize
<1>8. ASSUME NEW i, NEW j, NEW k, AskPush(i, j) \/ AskPut(i, k, j) PROVE Bounded'
  BY <1>6, <1>8 DEF AskPush, AskPut, Room
<1> QED BY <1>1, <1>2, <1>3, <1>4, <1>5, <1>7, <1>8 DEF Requests

\* An allocation pushes one value, for which Room left a place.
LEMMA AllocationBounded == Settled /\ Bounded /\ Allocation => Bounded'
<1> SUFFICES ASSUME Settled, Bounded, Allocation PROVE Bounded'
  OBVIOUS
<1>0. /\ Len(stack) \in Nat /\ Len(msbox) \in Nat /\ MaxRoots \in Nat /\ MaxMail \in Nat
      /\ stack \in Seq(Values) /\ msbox \in Seq(Values) /\ Nil \in Values
      /\ Ref(next, made + 1) \in Values
  BY HeapAssumption, NilPlain DEF Settled, Typed, Ref, Values, next
<1>1. CASE Check
  BY <1>1 DEF Check, Bounded, Pushes, mutator
<1>2. CASE Reserve
  <2>1. UNCHANGED <<stack, msbox>> /\ req' = Released
    BY <1>2 DEF Reserve, mutator
  <2>2. req' = req \/ (req.op = "message" /\ req'.op = "message")
    <3>1. CASE req.op = "message"
      <4>1. req \in [op : {"message"}, from : {"outside", "heap", "released"}, more : Nat, n : Nat]
        BY <3>1 DEF Settled, Typed, Asked, NoReq
      <4> QED BY <2>1, <3>1, <4>1 DEF Released
    <3>2. CASE req.op # "message"
      BY <2>1, <3>2 DEF Released
    <3> QED BY <3>1, <3>2
  <2> QED BY <2>1, <2>2 DEF Bounded, Pushes
<1>3. CASE ReserveFails
  BY <1>3 DEF ReserveFails, Bounded, Pushes, mutator, NoReq
<1>4. ASSUME req' = NoReq, Len(stack') <= MaxRoots, Len(msbox') <= MaxMail PROVE Bounded'
  BY <1>4 DEF Bounded, Pushes, NoReq
<1>5. CASE AllocString
  <2>1. req' = NoReq /\ IF req.op = "string" THEN stack' = Append(stack, Ref(next, made + 1)) /\ UNCHANGED msbox
                        ELSE msbox' = Append(msbox, Ref(next, made + 1)) /\ UNCHANGED stack
    BY <1>5 DEF AllocString, Allocated
  <2>2. req.op = "string" => Len(stack) < MaxRoots
    BY DEF Bounded, Pushes
  <2>3. req.op # "string" => Len(msbox) < MaxMail
    BY <1>5 DEF AllocString, Bounded
  <2> QED BY <1>0, <1>4, <2>1, <2>2, <2>3, Lengthens DEF Bounded
<1>6. CASE AllocTuple \/ AllocContainer
  <2>1. req' = NoReq /\ stack' = Append(stack, Ref(next, made + 1)) /\ UNCHANGED msbox
        /\ req.op \in {"tuple", "container"}
    BY <1>6 DEF AllocTuple, AllocContainer, Allocated
  <2>2. Len(stack) < MaxRoots
    BY <2>1 DEF Bounded, Pushes
  <2> QED BY <1>0, <1>4, <2>1, <2>2, Lengthens DEF Bounded
<1>7. CASE AllocCapacity
  <2>1. req' = NoReq /\ stack' = (IF req.src = <<>> THEN stack ELSE Append(stack, Nil)) /\ UNCHANGED msbox
        /\ req.op = "capacity"
    BY <1>7 DEF AllocCapacity, Allocated
  <2>2. req.src # <<>> => Len(stack) < MaxRoots
    BY <2>1 DEF Bounded, Pushes
  <2> QED BY <1>0, <1>4, <2>1, <2>2, Lengthens DEF Bounded
<1> QED BY <1>1, <1>2, <1>3, <1>5, <1>6, <1>7 DEF Allocation

\* Operations that allocate nothing push one value at most.
LEMMA MutationBounded == Settled /\ Bounded /\ Mutation => Bounded'
<1> SUFFICES ASSUME Settled, Bounded, Mutation PROVE Bounded'
  OBVIOUS
<1>0. /\ Len(stack) \in Nat /\ Len(msbox) \in Nat /\ MaxRoots \in Nat /\ MaxMail \in Nat
      /\ stack \in Seq(Values) /\ msbox \in Seq(Values) /\ Settled'
  BY HeapAssumption, MutationSettled DEF Settled, Typed
<1>1. req' = req /\ req = NoReq
  <2>1. Quiet /\ Running
    BY DEF Mutation, Pop, Receive, RemoveMessage, PushIndex, Get, Resize, Set, PushInPlace, PutInPlace
  <2> QED BY <2>1 DEF Quiet, Running, Settled, Typed
<1>2. Len(stack') <= MaxRoots
  <2>1. CASE UNCHANGED stack
    BY <2>1 DEF Bounded
  <2>2. ASSUME Len(stack) < MaxRoots, NEW v, stack' = Append(stack, v) PROVE Len(stack') <= MaxRoots
    <3>1. Len(stack') = Len(stack) + 1
      BY <1>0, <2>2
    <3> QED BY <1>0, <2>2, <3>1
  <2>3. CASE Pop
    BY <1>0, <2>3, Shortens DEF Pop, Bounded
  <2>4. ASSUME NEW k, Receive(k) PROVE Len(stack') <= MaxRoots
    <3>1. stack' = [stack EXCEPT ![Len(stack)] = msbox[k]]
      BY <2>4 DEF Receive
    <3>2. Len(stack') = Len(stack)
      BY <1>0, <3>1
    <3> QED BY <3>2 DEF Bounded
  <2>5. ASSUME NEW i, NEW j, NEW k, PushIndex(i) \/ Get(i) \/ Set(i, j) \/ PushInPlace(i, j) \/ PutInPlace(i, k, j)
        PROVE  Len(stack) < MaxRoots /\ \E v : stack' = Append(stack, v)
    BY <2>5 DEF PushIndex, Get, Set, PushInPlace, PutInPlace
  <2>6. ASSUME NEW k, NEW i, NEW n, RemoveMessage(k) \/ Resize(i, n) PROVE UNCHANGED stack
    BY <2>6 DEF RemoveMessage, Resize
  <2> QED BY <2>1, <2>2, <2>3, <2>4, <2>5, <2>6 DEF Mutation
<1>3. Len(msbox') <= MaxMail
  <2>1. CASE UNCHANGED msbox
    BY <2>1 DEF Bounded
  <2>2. ASSUME NEW k \in DOMAIN msbox, RemoveMessage(k) PROVE Len(msbox') <= MaxMail
    <3> DEFINE s == SubSeq(msbox, 1, k - 1)
               t == SubSeq(msbox, k + 1, Len(msbox))
    <3>1. k \in 1 .. Len(msbox)
      BY <1>0
    <3>2. s \in Seq(Values) /\ Len(s) = k - 1
      BY <1>0, <3>1, SubSeqProperties
    <3>3. t \in Seq(Values) /\ Len(t) = Len(msbox) - k
      BY <1>0, <3>1, SubSeqProperties
    <3>4. msbox' = s \o t
      BY <2>2 DEF RemoveMessage
    <3> HIDE DEF s, t
    <3>5. Len(msbox') = Len(s) + Len(t)
      BY <3>2, <3>3, <3>4, Concatenated
    <3> QED BY <1>0, <3>1, <3>2, <3>3, <3>5 DEF Bounded
  <2>3. (\E k \in DOMAIN msbox : RemoveMessage(k)) \/ UNCHANGED msbox
    BY DEF Mutation, Pop, Receive, PushIndex, Get, Resize, Set, PushInPlace, PutInPlace
  <2> QED BY <2>1, <2>2, <2>3
<1> QED BY <1>1, <1>2, <1>3 DEF Bounded, Pushes, NoReq

\* The collector replaces the roots and pushes none.
LEMMA CollectionBounded == IInv /\ Bounded /\ (Collect \/ Collection) => Bounded'
<1> SUFFICES ASSUME IInv, Bounded, Collect \/ Collection PROVE Bounded'
  OBVIOUS
<1>1. UNCHANGED req
  BY DEF Collect, Collection, CopyRoot, RootsDone, ScanTuple, ScanElement, ScanBlock, ScanNext, Swap
<1>2. stack \in Seq(Values) /\ msbox \in Seq(Values)
  BY DEF IInv, Typed
<1>3. Len(stack') = Len(stack) /\ Len(msbox') = Len(msbox)
  <2>1. CASE UNCHANGED mutator
    BY <2>1 DEF mutator
  <2>2. CASE CopyRoot
    BY <1>2, <2>2 DEF CopyRoot
  <2> QED BY <2>1, <2>2 DEF Collect, Collection, RootsDone, ScanTuple, ScanElement, ScanBlock, ScanNext, Swap
<1> QED BY <1>1, <1>3 DEF Bounded, Pushes

\* Bounded is inductive, next to IInv.
LEMMA NextBounded == IInv /\ Bounded /\ [Next]_vars => Bounded'
<1> SUFFICES ASSUME IInv, Bounded, [Next]_vars PROVE Bounded'
  OBVIOUS
<1>1. CASE Requests \/ Allocation \/ Mutation
  <2>1. ~Collecting
    BY <1>1, RequestsQuiet DEF Allocation, Check, Reserve, ReserveFails, AllocString, AllocTuple, AllocContainer,
       AllocCapacity, Mutation, Pop, Receive, RemoveMessage, PushIndex, Get, Resize, Set,
       PushInPlace, PutInPlace, Running, Collecting
  <2>2. Settled
    BY <2>1, InvSettled
  <2> QED BY <1>1, <2>2, RequestsBounded, AllocationBounded, MutationBounded
<1>2. CASE Collect \/ Collection
  BY <1>2, CollectionBounded
<1>3. CASE UNCHANGED vars
  BY <1>3 DEF vars, mutator, Bounded, Pushes
<1> QED BY <1>1, <1>2, <1>3 DEF Next

\* The type invariant, from what was shown of the values, the bytes and the bounds.
LEMMA TypesOK == IInv /\ Accounted /\ Bounded => HeapTypeOK
<1> SUFFICES ASSUME IInv, Accounted, Bounded PROVE HeapTypeOK
  OBVIOUS
<1>1. cur \in Seq(Objects) /\ to \in Seq(Objects) /\ phase \in Phases /\ made \in Nat
  BY DEF IInv, Typed
<1>2. ASSUME NEW k \in DOMAIN cur
      PROVE  /\ cur[k].kind \in {"string", "tuple", "fixed", "array", "buffer", "table"}
             /\ cur[k].id \in 1 .. made /\ cur[k].sz % Word = 0
             /\ IsContainer(cur[k]) => cur[k].n <= cur[k].cap
  <2>1. cur[k] \in Objects
    BY <1>1
  <2>2. cur[k].id \in Nat \ {0} /\ cur[k].id <= made /\ cur[k].sz % Word = 0
    BY <2>1, ObjectFields DEF IInv, Numbered
  <2> QED BY <1>1, <2>1, <2>2, ObjectFields DEF IInv, OwnBlocks
<1>3. ASSUME NEW s \in DOMAIN to
      PROVE  /\ to[s].kind \in {"string", "tuple", "fixed", "array", "buffer", "table"}
             /\ to[s].id \in 1 .. made /\ to[s].sz % Word = 0
             /\ IsContainer(to[s]) => to[s].n <= to[s].cap
  <2>1. to[s] \in Objects
    BY <1>1
  <2>2. Collecting
    BY DEF IInv, Typed
  <2>3. PICK k \in DOMAIN cur : Copy(cur[k], to[s])
    <3>1. s # 0
      BY <1>1
    <3> QED BY <2>2, <3>1 DEF IInv, Copying, Forwards
  <2>4. to[s].id \in 1 .. made /\ (IsContainer(to[s]) => to[s].n <= to[s].cap)
    BY <1>2, <2>3 DEF Copy, IsContainer
  <2> QED BY <2>1, <2>4, ObjectFields
<1>4. heap_sz = TotalSz(IF Collecting THEN to ELSE cur)
  BY DEF Accounted
<1>5. fwd \in [DOMAIN fwd -> 0 .. Len(to)]
  <2>1. CASE Collecting
    BY <2>1 DEF IInv, Copying, Forwards
  <2>2. CASE ~Collecting
    BY <2>2 DEF Accounted
  <2> QED BY <2>1, <2>2
<1> QED BY <1>1, <1>2, <1>3, <1>4, <1>5 DEF HeapTypeOK, Bounded

\* The type invariant of the heap.
THEOREM HeapTypes == Spec => []HeapTypeOK
<1>1. Init => Bounded
  BY InitBounded
<1>2. IInv /\ Bounded /\ [Next]_vars => Bounded'
  BY NextBounded
<1>3. Spec => []IInv /\ []Accounted
  BY IInvHolds, AccountedHolds
<1> QED BY <1>1, <1>2, <1>3, TypesOK, PTL DEF Spec

-----------------------------------------------------------------------------
(***************************************************************************)
(* Garbage is reclaimed, all of it: an object of the new half is there     *)
(* because a root that was copied, or a value of an object before it that  *)
(* was scanned, leads to it.                                               *)
(***************************************************************************)
RootLeads(s) == \E r \in DOMAIN Roots : (phase = "scan" \/ r < pos) /\ Roots[r].at = s
TupleLeads(l, s) ==
  /\ to[l].kind = "tuple"
  /\ \E c \in DOMAIN to[l].vals : Scanned(l, c) /\ to[l].vals[c].at = s
ContainerLeads(k, s) ==
  /\ IsContainer(cur[k])
  /\ \/ \E c \in 1 .. Elements(cur[k]) : Scanned(fwd[k], c) /\ Block(k).vals[c].at = s
     \/ BlockMoved(k) /\ fwd[cur[k].buff.at] = s
Led(s) ==
  \/ RootLeads(s)
  \/ \E l \in 1 .. s - 1 : TupleLeads(l, s)
  \/ \E k \in DOMAIN cur : fwd[k] \in 1 .. s - 1 /\ ContainerLeads(k, s)

\* After a collection: the object at s is held or some object before it holds it.
Reached(s) ==
  \/ \E v \in Held : v.at = s
  \/ \E l \in 1 .. s - 1 : \E v \in Visible(cur, cur[l]) : v.at = s

OnlyReached ==
  IF Collecting THEN \A s \in DOMAIN to : Led(s)
  ELSE phase = "again" => \A s \in DOMAIN cur : Reached(s)

\* What leads to an object goes on leading to it when what was scanned stays.
LEMMA LedStays ==
  ASSUME IInv, Collecting, phase' = "scan" \/ phase' = "roots", NEW s \in DOMAIN to, Led(s),
         \A r \in DOMAIN Roots : phase = "scan" \/ r < pos =>
           /\ r \in DOMAIN Roots' /\ (phase' = "scan" \/ r < pos') /\ Roots'[r].at = Roots[r].at,
         \A l \in DOMAIN to : \A c \in Nat \ {0} : Scanned(l, c) => ScannedNext(l, c),
         \A l \in DOMAIN to : to[l].kind = "tuple" =>
           /\ to'[l].kind = "tuple" /\ DOMAIN to'[l].vals = DOMAIN to[l].vals
           /\ \A c \in DOMAIN to[l].vals : Scanned(l, c) => to'[l].vals[c] = to[l].vals[c],
         \A k \in DOMAIN cur : k \in DOMAIN cur' /\ (fwd[k] # 0 => fwd'[k] = fwd[k]),
         \A k \in DOMAIN cur : IsContainer(cur[k]) =>
           /\ cur'[k] = cur[k]
           /\ \A c \in 1 .. Elements(cur[k]) : fwd[k] # 0 /\ Scanned(fwd[k], c) =>
                cur'[cur[k].buff.at].vals[c] = Block(k).vals[c]
  PROVE  Led(s)'
<1>1. /\ cur \in Seq(Objects) /\ to \in Seq(Objects) /\ s \in Nat /\ Len(to) \in Nat
      /\ Forwards /\ CopiedContainers /\ OwnBlocks
  BY DEF IInv, Typed, Copying
<1>2. CASE RootLeads(s)
  <2>1. RootLeads(s)'
    BY <1>2 DEF RootLeads
  <2> QED BY <2>1 DEF Led
<1>3. ASSUME NEW l \in 1 .. s - 1, TupleLeads(l, s) PROVE TupleLeads(l, s)'
  <2>1. l \in DOMAIN to
    BY <1>1
  <2>2. PICK c \in DOMAIN to[l].vals : Scanned(l, c) /\ to[l].vals[c].at = s
    BY <1>3 DEF TupleLeads
  <2>3. to[l].kind = "tuple" /\ to[l] \in Objects /\ ~IsContainer(to[l])
    BY <1>1, <1>3, <2>1 DEF TupleLeads, IsContainer
  <2>4. to[l].vals \in Seq(Values)
    BY <2>3, ObjectFields
  <2>5. c \in Nat \ {0}
    BY <2>4
  <2>6. Scanned(l, c)'
    BY <2>1, <2>2, <2>5 DEF Scanned, ScannedNext
  <2> QED BY <2>1, <2>2, <2>3, <2>6 DEF TupleLeads
<1>4. ASSUME NEW k \in DOMAIN cur, fwd[k] \in 1 .. s - 1, ContainerLeads(k, s)
      PROVE  k \in DOMAIN cur' /\ fwd'[k] \in 1 .. s - 1 /\ ContainerLeads(k, s)'
  <2>1. fwd[k] # 0 /\ fwd'[k] = fwd[k] /\ fwd[k] \in DOMAIN to /\ k \in DOMAIN cur'
    BY <1>1, <1>4
  <2>2. IsContainer(cur[k]) /\ cur'[k] = cur[k]
    BY <1>4 DEF ContainerLeads
  <2>3. Elements(cur[k]) \in Nat /\ ValuesOf(cur[k]) \in Nat \ {0}
    <3>1. cur[k] \in Objects
      BY <1>1
    <3> QED BY <2>2, <3>1, Measures
  <2>4. \A c \in Nat \ {0} : Scanned(fwd[k], c) => Scanned(fwd[k], c)'
    <3> SUFFICES ASSUME NEW c \in Nat \ {0}, Scanned(fwd[k], c) PROVE Scanned(fwd[k], c)'
      OBVIOUS
    <3>1. ScannedNext(fwd[k], c)
      BY <2>1
    <3> QED BY <2>1, <3>1 DEF Scanned, ScannedNext
  <2>5. CASE \E c \in 1 .. Elements(cur[k]) : Scanned(fwd[k], c) /\ Block(k).vals[c].at = s
    <3>1. PICK c \in 1 .. Elements(cur[k]) : Scanned(fwd[k], c) /\ Block(k).vals[c].at = s
      BY <2>5
    <3>2. Scanned(fwd[k], c)'
      BY <2>3, <2>4, <3>1
    <3>3. Block(k)'.vals[c] = Block(k).vals[c]
      BY <2>1, <2>2, <3>1 DEF Block
    <3>4. Elements(cur[k])' = Elements(cur[k])
      BY <2>2 DEF Elements
    <3> QED BY <2>1, <2>2, <3>1, <3>2, <3>3, <3>4, <1>4 DEF ContainerLeads
  <2>6. CASE BlockMoved(k) /\ fwd[cur[k].buff.at] = s
    <3>1. fwd[cur[k].buff.at] # 0 /\ cur[k].buff.at \in DOMAIN cur
      BY <1>1, <2>2, <2>6 DEF CopiedContainers, OwnBlocks
    <3>2. fwd'[cur[k].buff.at] = s
      BY <2>6, <3>1
    <3>3. ValuesOf(cur[k])' = ValuesOf(cur[k])
      BY <2>2
    <3>4. BlockMoved(k)'
      BY <2>1, <2>3, <2>4, <2>6, <3>3 DEF BlockMoved, Scanned
    <3> QED BY <1>4, <2>1, <2>2, <3>2, <3>4 DEF ContainerLeads
  <2> QED BY <1>4, <2>5, <2>6 DEF ContainerLeads
<1> QED BY <1>2, <1>3, <1>4 DEF Led

\* In a copying step: also to the object that is new.
LEMMA LedCopies ==
  ASSUME NEW v, NEW t, CopyingStep(v, t), Collecting', OnlyReached,
         \A r \in DOMAIN Roots : phase = "scan" \/ r < pos =>
           /\ r \in DOMAIN Roots' /\ (phase' = "scan" \/ r < pos') /\ Roots'[r].at = Roots[r].at,
         \A l \in DOMAIN to : \A c \in Nat \ {0} : Scanned(l, c) => ScannedNext(l, c),
         \A l \in DOMAIN to : to[l].kind = "tuple" =>
           /\ DOMAIN t[l].vals = DOMAIN to[l].vals
           /\ \A c \in DOMAIN to[l].vals : Scanned(l, c) => t[l].vals[c] = to[l].vals[c],
         \A k \in DOMAIN cur : IsContainer(cur[k]) =>
           \A c \in 1 .. Elements(cur[k]) : fwd[k] # 0 /\ Scanned(fwd[k], c) =>
             cur'[cur[k].buff.at].vals[c] = Block(k).vals[c],
         \A s \in DOMAIN to' : s \notin DOMAIN to /\ Forwarded(v).at = s => Led(s)'
  PROVE  OnlyReached'
<1>1. IInv /\ Collecting /\ Forwards
  BY DEF CopyingStep, IInv, Copying
<1>2. phase' = "scan" \/ phase' = "roots"
  BY DEF Collecting
<1>3. /\ \A l \in DOMAIN to : to'[l] = t[l] /\ Copy(to[l], t[l])
      /\ \A k \in DOMAIN cur : fwd[k] # 0 => fwd'[k] = fwd[k]
      /\ \A s \in DOMAIN to' : s \notin DOMAIN to => s = Len(to) + 1 /\ v.at \in DOMAIN cur /\ fwd'[v.at] = s
      /\ Forwarded(v).at = IF v.at = 0 THEN 0 ELSE fwd'[v.at]
      /\ cur \in Seq(Objects)
  BY DEF CopyingStep, MovedOn, IInv, Typed
<1>4. \A l \in DOMAIN to : to[l].kind = "tuple" =>
        /\ to'[l].kind = "tuple" /\ DOMAIN to'[l].vals = DOMAIN to[l].vals
        /\ \A c \in DOMAIN to[l].vals : Scanned(l, c) => to'[l].vals[c] = to[l].vals[c]
  BY <1>3 DEF Copy
<1>5. /\ \A k \in DOMAIN cur : k \in DOMAIN cur' /\ (fwd[k] # 0 => fwd'[k] = fwd[k])
      /\ \A k \in DOMAIN cur : IsContainer(cur[k]) => cur'[k] = cur[k]
  BY <1>3 DEF CopyingStep, Rewrites, IsContainer
<1>6. ASSUME NEW s \in DOMAIN to PROVE Led(s)'
  <2>1. Led(s)
    BY <1>1 DEF OnlyReached
  <2> QED BY <1>1, <1>2, <1>4, <1>5, <2>1, LedStays
<1>7. ASSUME NEW s \in DOMAIN to', s \notin DOMAIN to PROVE Led(s)'
  <2>1. v.at \in DOMAIN cur /\ fwd'[v.at] = s
    BY <1>3, <1>7
  <2>2. v.at # 0
    BY <1>3, <2>1
  <2>3. Forwarded(v).at = s
    BY <1>3, <2>1, <2>2
  <2> QED BY <1>7, <2>3
<1>8. \A s \in DOMAIN to' : Led(s)'
  BY <1>6, <1>7
<1> QED BY <1>8 DEF OnlyReached

\* A root is followed.
LEMMA CopyRootLeads == IInv /\ OnlyReached /\ CopyRoot => OnlyReached'
<1> SUFFICES ASSUME IInv, OnlyReached, CopyRoot PROVE OnlyReached'
  OBVIOUS
<1>1. PICK v \in Values, w \in Values :
        /\ CopyingStep(v, to) /\ Collecting' /\ w = Forwarded(v)
        /\ phase = "roots" /\ pos' = pos + 1 /\ pos \in DOMAIN Roots
        /\ UNCHANGED <<cur, phase, scan, child>>
        /\ DOMAIN Roots' = DOMAIN Roots
        /\ \A r \in DOMAIN Roots : Roots'[r] = IF r = pos THEN w ELSE Roots[r]
  BY CopyRootCopies
<1>2. stack \in Seq(Values) /\ msbox \in Seq(Values) /\ pos \in Nat
  BY DEF IInv, Typed
<1>3. DOMAIN Roots \subseteq Nat
  BY <1>2, RootsAre
<1>4. \A r \in DOMAIN Roots : phase = "scan" \/ r < pos =>
        r \in DOMAIN Roots' /\ (phase' = "scan" \/ r < pos') /\ Roots'[r].at = Roots[r].at
  <2> SUFFICES ASSUME NEW r \in DOMAIN Roots, r < pos
               PROVE  r \in DOMAIN Roots' /\ r < pos' /\ Roots'[r].at = Roots[r].at
    BY <1>1
  <2>1. r \in Nat /\ r # pos /\ r < pos + 1
    BY <1>2, <1>3
  <2> QED BY <1>1, <2>1
<1>5. \A l, c : Scanned(l, c) => ScannedNext(l, c)
  BY <1>1 DEF Scanned, ScannedNext
<1>6. \A k \in DOMAIN cur : \A c : cur'[cur[k].buff.at].vals[c] = Block(k).vals[c]
  BY <1>1 DEF Block
<1>7. ASSUME NEW s \in DOMAIN to', Forwarded(v).at = s PROVE Led(s)'
  <2>1. pos \in DOMAIN Roots' /\ pos < pos' /\ Roots'[pos].at = s
    BY <1>1, <1>2, <1>7
  <2>2. RootLeads(s)'
    BY <2>1 DEF RootLeads
  <2> QED BY <2>2 DEF Led
<1> QED BY <1>1, <1>4, <1>5, <1>6, <1>7, LedCopies

\* The step of the loop scans what it follows and forgets nothing it scanned.
LEMMA ScanSteps ==
  ASSUME NEW v, NEW t, CopyingStep(v, t), Scanning, child' = child + 1,
         UNCHANGED <<scan, stack, msbox, phase>>
  PROVE  /\ \A r \in DOMAIN Roots :
              r \in DOMAIN Roots' /\ phase' = "scan" /\ Roots'[r].at = Roots[r].at
         /\ \A l \in DOMAIN to : \A c \in Nat \ {0} : Scanned(l, c) => ScannedNext(l, c)
         /\ scan' = scan /\ child < child'
         /\ \A s \in DOMAIN to' : s \notin DOMAIN to => scan \in 1 .. s - 1
<1>1. /\ phase = "scan" /\ scan \in DOMAIN to /\ scan \in Nat \ {0} /\ child \in Nat \ {0}
      /\ to \in Seq(Objects) /\ IInv
  BY ScanFacts DEF CopyingStep
<1>2. MovedOn(v, t)
  BY DEF CopyingStep
<1>3. \A l \in DOMAIN to : \A c \in Nat \ {0} :
        ScannedNext(l, c) <=> Scanned(l, c) \/ (l = scan /\ c = child)
  BY <1>1, <1>2, ScanAdvances
<1>4. Roots' = Roots
  BY DEF Roots
<1>5. ASSUME NEW s \in DOMAIN to', s \notin DOMAIN to PROVE scan \in 1 .. s - 1
  <2>1. s = Len(to) + 1
    BY <1>2, <1>5 DEF MovedOn
  <2> QED BY <1>1, <2>1
<1> QED BY <1>1, <1>3, <1>4, <1>5

\* A value of a tuple is followed.
LEMMA ScanTupleLeads == IInv /\ OnlyReached /\ ScanTuple => OnlyReached'
<1> SUFFICES ASSUME IInv, OnlyReached, ScanTuple PROVE OnlyReached'
  OBVIOUS
<1>1. PICK v \in Values, w \in Values, t \in Seq(Objects) :
        /\ CopyingStep(v, t) /\ Collecting' /\ w = Forwarded(v)
        /\ Scanning /\ to[scan].kind = "tuple" /\ child \in DOMAIN to[scan].vals
        /\ child' = child + 1
        /\ UNCHANGED <<cur, stack, msbox, phase, scan>>
        /\ DOMAIN t[scan].vals = DOMAIN to[scan].vals
        /\ \A s \in DOMAIN to : s # scan => t[s] = to[s]
        /\ \A c \in DOMAIN to[scan].vals :
             t[scan].vals[c] = IF c = child THEN w ELSE to[scan].vals[c]
  BY ScanTupleCopies
<1>2. scan \in DOMAIN to /\ ~Scanned(scan, child)
  BY <1>1, ScanFacts
<1>3. /\ \A r \in DOMAIN Roots :
           r \in DOMAIN Roots' /\ phase' = "scan" /\ Roots'[r].at = Roots[r].at
      /\ \A l \in DOMAIN to : \A c \in Nat \ {0} : Scanned(l, c) => ScannedNext(l, c)
      /\ scan' = scan /\ child < child'
      /\ \A s \in DOMAIN to' : s \notin DOMAIN to => scan \in 1 .. s - 1
  BY <1>1, ScanSteps
<1>4. \A l \in DOMAIN to : to[l].kind = "tuple" =>
        /\ DOMAIN t[l].vals = DOMAIN to[l].vals
        /\ \A c \in DOMAIN to[l].vals : Scanned(l, c) => t[l].vals[c] = to[l].vals[c]
  <2> SUFFICES ASSUME NEW l \in DOMAIN to
               PROVE  /\ DOMAIN t[l].vals = DOMAIN to[l].vals
                      /\ \A c \in DOMAIN to[l].vals : Scanned(l, c) => t[l].vals[c] = to[l].vals[c]
    OBVIOUS
  <2>1. CASE l = scan
    BY <1>1, <1>2, <2>1
  <2>2. CASE l # scan
    BY <1>1, <2>2
  <2> QED BY <2>1, <2>2
<1>5. \A k \in DOMAIN cur : \A c : cur'[cur[k].buff.at].vals[c] = Block(k).vals[c]
  BY <1>1 DEF Block
<1>6. ASSUME NEW s \in DOMAIN to', s \notin DOMAIN to, Forwarded(v).at = s PROVE Led(s)'
  <2>1. /\ to'[scan] = t[scan] /\ t[scan].kind = "tuple"
    BY <1>1, <1>2 DEF CopyingStep, MovedOn, Copy
  <2>2. \E c \in DOMAIN to'[scan].vals : c < child' /\ to'[scan].vals[c].at = s
    BY <1>1, <1>3, <1>6, <2>1
  <2>3. PICK c \in DOMAIN to'[scan].vals : c < child' /\ to'[scan].vals[c].at = s
    BY <2>2
  <2>4. TupleLeads(scan, s)'
    BY <1>3, <2>1, <2>3 DEF TupleLeads, Scanned
  <2>5. scan \in 1 .. s - 1
    BY <1>3, <1>6
  <2> QED BY <1>1, <2>4, <2>5 DEF Led
<1>7. \A l \in DOMAIN to : \A c \in Nat \ {0} : Scanned(l, c) => ScannedNext(l, c)
  BY <1>3
<1> QED BY <1>1, <1>3, <1>4, <1>5, <1>6, <1>7, LedCopies

\* An element is followed, in the block of the old half.
LEMMA ScanElementLeads == IInv /\ OnlyReached /\ ScanElement => OnlyReached'
<1> SUFFICES ASSUME IInv, OnlyReached, ScanElement PROVE OnlyReached'
  OBVIOUS
<1>1. PICK v \in Values, w \in Values, k \in DOMAIN cur :
        /\ CopyingStep(v, to) /\ Collecting' /\ w = Forwarded(v)
        /\ Scanning /\ fwd[k] = scan /\ IsContainer(cur[k]) /\ child \in 1 .. Elements(cur[k])
        /\ child' = child + 1
        /\ UNCHANGED <<stack, msbox, phase, scan>>
        /\ \A l \in DOMAIN cur : l # cur[k].buff.at => cur'[l] = cur[l]
        /\ \A c \in 1 .. Elements(cur[k]) :
             cur'[cur[k].buff.at].vals[c] = IF c = child THEN w ELSE Block(k).vals[c]
  BY ScanElementCopies
<1>2. scan \in DOMAIN to /\ scan # 0 /\ ~Scanned(scan, child) /\ OwnBlocks
  BY <1>1, ScanFacts DEF IInv
<1>3. /\ \A r \in DOMAIN Roots :
           r \in DOMAIN Roots' /\ phase' = "scan" /\ Roots'[r].at = Roots[r].at
      /\ \A l \in DOMAIN to : \A c \in Nat \ {0} : Scanned(l, c) => ScannedNext(l, c)
      /\ scan' = scan /\ child < child'
      /\ \A s \in DOMAIN to' : s \notin DOMAIN to => scan \in 1 .. s - 1
  BY <1>1, ScanSteps
<1>4. ASSUME NEW l \in DOMAIN cur, IsContainer(cur[l]), NEW c \in 1 .. Elements(cur[l]),
             fwd[l] # 0, Scanned(fwd[l], c)
      PROVE  cur'[cur[l].buff.at].vals[c] = Block(l).vals[c]
  <2>1. CASE l = k
    BY <1>1, <1>2, <1>4, <2>1
  <2>2. CASE l # k
    <3>1. cur[l].buff.at \in DOMAIN cur /\ cur[l].buff.at # cur[k].buff.at
      BY <1>1, <1>2, <1>4, <2>2 DEF OwnBlocks
    <3> QED BY <1>1, <3>1 DEF Block
  <2> QED BY <2>1, <2>2
<1>5. ASSUME NEW s \in DOMAIN to', s \notin DOMAIN to, Forwarded(v).at = s PROVE Led(s)'
  <2>1. k \in DOMAIN cur' /\ cur'[k] = cur[k] /\ fwd'[k] = scan
    BY <1>1, <1>2 DEF CopyingStep, Rewrites, MovedOn, IsContainer
  <2>2. Elements(cur[k])' = Elements(cur[k])
    BY <2>1
  <2>3. Block(k)'.vals[child].at = s
    BY <1>1, <1>5, <2>1 DEF Block
  <2>4. PICK c \in 1 .. Elements(cur[k]) : c < child' /\ Block(k)'.vals[c].at = s
    BY <1>1, <1>3, <2>3
  <2>5. c \in (1 .. Elements(cur[k]))' /\ Scanned(fwd[k], c)'
    BY <1>3, <2>1, <2>2, <2>4 DEF Scanned
  <2>6. ContainerLeads(k, s)'
    BY <1>1, <2>1, <2>4, <2>5 DEF ContainerLeads
  <2>7. fwd'[k] \in 1 .. s - 1
    BY <1>3, <1>5, <2>1
  <2> QED BY <2>1, <2>6, <2>7 DEF Led
<1>6. \A l \in DOMAIN to : \A c \in Nat \ {0} : Scanned(l, c) => ScannedNext(l, c)
  BY <1>3
<1> QED BY <1>1, <1>3, <1>4, <1>5, <1>6, LedCopies

\* The block of a container is followed.
LEMMA ScanBlockLeads == IInv /\ OnlyReached /\ ScanBlock => OnlyReached'
<1> SUFFICES ASSUME IInv, OnlyReached, ScanBlock PROVE OnlyReached'
  OBVIOUS
<1>1. PICK v \in Values, w \in Values, t \in Seq(Objects), k \in DOMAIN cur :
        /\ CopyingStep(v, t) /\ Collecting' /\ w = Forwarded(v)
        /\ v.at = cur[k].buff.at /\ v.at \in DOMAIN cur
        /\ Scanning /\ fwd[k] = scan /\ IsContainer(cur[k]) /\ child = ValuesOf(cur[k])
        /\ child' = child + 1
        /\ UNCHANGED <<cur, stack, msbox, phase, scan>>
        /\ to[scan].kind # "tuple"
        /\ \A s \in DOMAIN to : s # scan => t[s] = to[s]
  BY ScanBlockCopies
<1>2. scan \in DOMAIN to /\ scan # 0 /\ cur \in Seq(Objects)
  BY <1>1, ScanFacts
<1>3. /\ \A r \in DOMAIN Roots :
           r \in DOMAIN Roots' /\ phase' = "scan" /\ Roots'[r].at = Roots[r].at
      /\ \A l \in DOMAIN to : \A c \in Nat \ {0} : Scanned(l, c) => ScannedNext(l, c)
      /\ scan' = scan /\ child < child'
      /\ \A s \in DOMAIN to' : s \notin DOMAIN to => scan \in 1 .. s - 1
  BY <1>1, ScanSteps
<1>4. \A l \in DOMAIN to : to[l].kind = "tuple" => t[l] = to[l]
  BY <1>1
<1>5. \A l \in DOMAIN cur : \A c : cur'[cur[l].buff.at].vals[c] = Block(l).vals[c]
  BY <1>1 DEF Block
<1>6. ASSUME NEW s \in DOMAIN to', s \notin DOMAIN to, Forwarded(v).at = s PROVE Led(s)'
  <2>1. fwd'[k] = scan /\ v.at # 0
    BY <1>1, <1>2 DEF CopyingStep, MovedOn
  <2>2. fwd'[cur[k].buff.at] = s
    BY <1>1, <1>6, <2>1 DEF CopyingStep, MovedOn
  <2>3. BlockMoved(k)'
    <3>1. scan' = scan /\ ValuesOf(cur[k])' < child'
      BY <1>1, <1>3
    <3> QED BY <1>2, <2>1, <3>1 DEF BlockMoved, Scanned
  <2>4. ContainerLeads(k, s)'
    BY <1>1, <2>2, <2>3 DEF ContainerLeads
  <2>5. fwd'[k] \in 1 .. s - 1
    BY <1>3, <1>6, <2>1
  <2> QED BY <1>1, <2>4, <2>5 DEF Led
<1>7. \A l \in DOMAIN to : \A c \in Nat \ {0} : Scanned(l, c) => ScannedNext(l, c)
  BY <1>3
<1> QED BY <1>1, <1>3, <1>4, <1>5, <1>6, <1>7, LedCopies

\* The loops go on: nothing is forgotten.
LEMMA LoopLeads == IInv /\ OnlyReached /\ (RootsDone \/ ScanNext) => OnlyReached'
<1> SUFFICES ASSUME IInv, OnlyReached, RootsDone \/ ScanNext PROVE OnlyReached'
  OBVIOUS
<1>1. /\ Collecting /\ Collecting' /\ UNCHANGED <<cur, to, fwd, stack, msbox>>
      /\ phase' = "scan" /\ (phase = "scan" \/ pos > Len(Roots))
  BY DEF RootsDone, ScanNext, Scanning, mutator, gc, Collecting
<1>2. Roots' = Roots
  BY <1>1 DEF Roots
<1>3. \A l \in DOMAIN to : \A c \in Nat \ {0} : Scanned(l, c) => ScannedNext(l, c)
  <2>1. scan \in Nat /\ child \in Nat /\ to \in Seq(Objects)
    BY DEF IInv, Typed
  <2>2. CASE RootsDone
    BY <2>2 DEF RootsDone, gc, Scanned, ScannedNext
  <2>3. CASE ScanNext
    <3>1. scan' = scan + 1
      BY <2>3 DEF ScanNext
    <3>2. \A l \in DOMAIN to : \A c : Scanned(l, c) => l <= scan
      BY <2>1 DEF Scanned
    <3> QED BY <2>1, <3>1, <3>2 DEF ScannedNext
  <2> QED BY <2>2, <2>3
<1>4. \A k \in DOMAIN cur : \A c : cur'[cur[k].buff.at].vals[c] = Block(k).vals[c]
  BY <1>1 DEF Block
<1>5. ASSUME NEW s \in DOMAIN to PROVE Led(s)'
  <2>1. Led(s)
    BY <1>1 DEF OnlyReached
  <2> QED BY <1>1, <1>2, <1>3, <1>4, <2>1, LedStays
<1> QED BY <1>1, <1>5 DEF OnlyReached

\* swap: all of the new half was scanned, so its objects are held or held by
\* objects before them.
LEMMA SwapReaches == IInv /\ OnlyReached /\ Swap => OnlyReached'
<1> SUFFICES ASSUME IInv, OnlyReached, Swap PROVE OnlyReached'
  OBVIOUS
<1>1. /\ phase = "scan" /\ scan > Len(to) /\ cur' = to /\ ~Collecting'
      /\ UNCHANGED <<stack, msbox>>
  BY DEF Swap, mutator, Collecting
<1>2. /\ Collecting /\ cur \in Seq(Objects) /\ to \in Seq(Objects) /\ scan \in Nat
      /\ stack \in Seq(Values) /\ msbox \in Seq(Values)
      /\ Forwards /\ CopiedContainers /\ CopiedBlocks /\ OwnBlocks
  BY <1>1 DEF Collecting, IInv, Typed, Copying
<1>3. \A l \in DOMAIN to : \A c : Scanned(l, c)
  BY <1>1, <1>2 DEF Scanned
<1>4. Held' = Held
  BY <1>1 DEF Held
<1> SUFFICES ASSUME NEW s \in DOMAIN to PROVE Reached(s)'
  BY <1>1 DEF OnlyReached
<1>5. Led(s) /\ s \in Nat
  BY <1>2 DEF OnlyReached
<1>6. CASE RootLeads(s)
  <2>1. PICK r \in DOMAIN Roots : Roots[r].at = s
    BY <1>6 DEF RootLeads
  <2>2. Roots[r] \in Held
    <3>1. CASE r <= Len(stack)
      <4>1. r \in DOMAIN stack /\ Roots[r] = stack[r]
        BY <1>2, <3>1, RootsAre
      <4> QED BY <4>1 DEF Held, Range
    <3>2. CASE r > Len(stack)
      <4>1. r - Len(stack) \in DOMAIN msbox /\ Roots[r] = msbox[r - Len(stack)]
        <5>1. /\ r \in 1 .. Len(stack) + Len(msbox) /\ Len(stack) \in Nat /\ Len(msbox) \in Nat
              /\ Roots[r] = IF r <= Len(stack) THEN stack[r] ELSE msbox[r - Len(stack)]
          BY <1>2, RootsAre
        <5>2. DOMAIN msbox = 1 .. Len(msbox)
          BY <1>2
        <5> DEFINE n == Len(stack)
                   m == Len(msbox)
        <5>3. r \in 1 .. n + m /\ n \in Nat /\ m \in Nat /\ r > n
          BY <3>2, <5>1
        <5> HIDE DEF n, m
        <5>4. r - n \in 1 .. m /\ ~(r <= n)
          BY <5>3
        <5> QED BY <5>1, <5>2, <5>4 DEF n, m
      <4> QED BY <4>1 DEF Held, Range
    <3>3. r \in Nat /\ Len(stack) \in Nat
      BY <1>2, RootsAre
    <3> QED BY <3>1, <3>2, <3>3
  <2> QED BY <1>4, <2>1, <2>2 DEF Reached
<1>7. ASSUME NEW l \in 1 .. s - 1, TupleLeads(l, s) PROVE \E v \in Visible(to, to[l]) : v.at = s
  <2>1. PICK c \in DOMAIN to[l].vals : to[l].vals[c].at = s
    BY <1>7 DEF TupleLeads
  <2>2. to[l].vals[c] \in Range(to[l].vals)
    BY DEF Range
  <2>3. Visible(to, to[l]) = Range(to[l].vals)
    BY <1>7 DEF Visible, TupleLeads, IsContainer
  <2> QED BY <2>1, <2>2, <2>3
<1>8. ASSUME NEW k \in DOMAIN cur, fwd[k] \in 1 .. s - 1, ContainerLeads(k, s)
      PROVE  \E v \in Visible(to, to[fwd[k]]) : v.at = s
  <2>1. fwd[k] \in DOMAIN to /\ fwd[k] # 0 /\ IsContainer(cur[k]) /\ Copy(cur[k], to[fwd[k]])
    BY <1>2, <1>5, <1>8 DEF Forwards, ContainerLeads
  <2>2. BlockMoved(k)
    BY <1>3, <2>1 DEF BlockMoved
  <2> DEFINE b == cur[k].buff.at
             o == to[fwd[k]]
  <2>3. b \in DOMAIN cur /\ cur[b].kind = "fixed" /\ fwd[b] # 0 /\ o.buff.at = fwd[b]
    BY <1>2, <2>1, <2>2 DEF OwnBlocks, CopiedContainers, Block
  <2>4. to[fwd[b]].vals = Block(k).vals
    BY <1>2, <2>3 DEF CopiedBlocks, Block
  <2>5. IsContainer(o) /\ o.kind # "tuple" /\ Elements(o) = Elements(cur[k])
    BY <2>1 DEF Copy, IsContainer, Elements
  <2> HIDE DEF b, o
  <2>6. Visible(to, o) = {o.buff} \cup {to[o.buff.at].vals[c] : c \in 1 .. Elements(o)}
    BY <2>5 DEF Visible, Elements
  <2>7. CASE \E c \in 1 .. Elements(cur[k]) : Block(k).vals[c].at = s
    BY <2>3, <2>4, <2>5, <2>6, <2>7 DEF o
  <2>8. CASE fwd[b] = s
    BY <2>3, <2>6, <2>8 DEF o
  <2> QED BY <1>8, <2>7, <2>8 DEF ContainerLeads, b, o
<1> QED BY <1>1, <1>5, <1>6, <1>7, <1>8 DEF Led, Reached

\* A collection starts with nothing in the new half; only swap goes on to again.
LEMMA NextReached == IInv /\ OnlyReached /\ [Next]_vars => OnlyReached'
<1> SUFFICES ASSUME IInv, OnlyReached, [Next]_vars PROVE OnlyReached'
  OBVIOUS
<1>1. CASE Requests
  <2>1. phase' = "reserve"
    BY <1>1, Zenon DEF Requests, AskString, AskMessage, AskMessageToSelf, AskTuple, AskContainer, AskCapacity,
           AskReserve, AskShrink, AskResize, AskPush, AskPut, Ask
  <2> QED BY <2>1 DEF OnlyReached, Collecting
<1>2. CASE Allocation
  <2>1. phase' \in {"run", "alloc"}
    BY <1>2 DEF Allocation, Check, Reserve, ReserveFails, AllocString, AllocTuple, AllocContainer,
                AllocCapacity, Allocated
  <2> QED BY <2>1 DEF OnlyReached, Collecting
<1>3. CASE Mutation
  <2>1. phase' = "run"
    BY <1>3 DEF Mutation, Pop, Receive, RemoveMessage, PushIndex, Get, Resize, Set,
                PushInPlace, PutInPlace, Running, Quiet
  <2> QED BY <2>1 DEF OnlyReached, Collecting
<1>4. CASE Collect
  <2>1. phase' = "roots" /\ to' = <<>>
    BY <1>4 DEF Collect
  <2> QED BY <2>1 DEF OnlyReached, Collecting
<1>5. CASE Collection
  BY <1>5, CopyRootLeads, ScanTupleLeads, ScanElementLeads, ScanBlockLeads, LoopLeads, SwapReaches
     DEF Collection
<1>6. CASE UNCHANGED vars
  <2>1. UNCHANGED <<cur, to, fwd, stack, msbox, phase, pos, scan, child>>
    BY <1>6 DEF vars, gc, mutator
  <2>2. /\ Roots' = Roots /\ Held' = Held /\ (Collecting' <=> Collecting)
        /\ \A k : (BlockMoved(k)' <=> BlockMoved(k)) /\ Block(k)' = Block(k)
        /\ \A l, c : Scanned(l, c)' <=> Scanned(l, c)
    BY <2>1 DEF Roots, Held, Collecting, BlockMoved, Block, Scanned
  <2>3. \A s : (Led(s)' <=> Led(s)) /\ (Reached(s)' <=> Reached(s))
    BY <2>1, <2>2 DEF Led, RootLeads, TupleLeads, ContainerLeads, Reached
  <2> QED BY <2>1, <2>2, <2>3 DEF OnlyReached
<1> QED BY <1>1, <1>2, <1>3, <1>4, <1>5, <1>6 DEF Next

\* When every object is held or held by an object before it, all are reachable.
LEMMA ReachedIsReachable ==
  ASSUME cur \in Seq(Objects), \A s \in DOMAIN cur : Reached(s)
  PROVE  Reachable = DOMAIN cur
<1> SUFFICES ASSUME NEW S \in SUBSET DOMAIN cur, Closed(S), DOMAIN cur \ S # {} PROVE FALSE
  BY DEF Reachable
<1>1. DOMAIN cur = 1 .. Len(cur) /\ Len(cur) \in Nat
  OBVIOUS
<1>2. PICK m \in DOMAIN cur \ S : \A y \in DOMAIN cur \ S : m <= y
  <2>1. DOMAIN cur \ S \subseteq Nat
    BY <1>1
  <2> QED BY <2>1, Least
<1>3. m \in Nat \ {0} /\ Reached(m)
  BY <1>1
<1>4. CASE \E v \in Held : v.at = m
  BY <1>2, <1>3, <1>4 DEF Closed
<1>5. CASE \E l \in 1 .. m - 1 : \E v \in Visible(cur, cur[l]) : v.at = m
  <2>1. PICK l \in 1 .. m - 1 : \E v \in Visible(cur, cur[l]) : v.at = m
    BY <1>5
  <2>2. l \in DOMAIN cur /\ ~(m <= l)
    BY <1>1, <1>3
  <2>3. l \in S
    BY <1>2, <2>2
  <2> QED BY <1>2, <1>3, <2>1, <2>3 DEF Closed
<1> QED BY <1>3, <1>4, <1>5 DEF Reached

\* Only Reserve changes the capacity, after a collection that was not enough.
LEMMA GrowsFull ==
  ASSUME IInv, Accounted, OnlyReached, [Next]_vars, heap_cap' # heap_cap
  PROVE  ReachableSz + Need(req.more, req.n) > heap_cap
<1>1. Reserve
  BY DEF Next, Requests, AskString, AskMessage, AskMessageToSelf, AskTuple, AskContainer, AskCapacity,
         AskReserve, AskShrink, AskResize, AskPush, AskPut, Ask, Allocation, Check, ReserveFails,
         AllocString, AllocTuple, AllocContainer, AllocCapacity, Allocated, Mutation, Pop, Receive,
         RemoveMessage, PushIndex, Get, Resize, Set, PushInPlace, PutInPlace, Quiet, Collect,
         Collection, CopyRoot, RootsDone, ScanTuple, ScanElement, ScanBlock, ScanNext, Swap, vars
<1>2. phase = "again" /\ ~Fits /\ ~Collecting
  BY <1>1 DEF Reserve, Collecting
<1>3. cur \in Seq(Objects) /\ heap_sz = TotalSz(cur) /\ heap_cap \in Nat /\ req \in Asked /\ req # NoReq
  BY <1>2 DEF IInv, Typed, Accounted, Shaped
<1>4. Reachable = DOMAIN cur
  BY <1>2, <1>3, ReachedIsReachable DEF OnlyReached
<1>5. ReachableSz = TotalSz(cur)
  <2>1. [k \in DOMAIN cur |-> IF k \in Reachable THEN cur[k].sz ELSE 0] = Sizes(cur)
    BY <1>4 DEF Sizes
  <2> QED BY <2>1 DEF ReachableSz, TotalSz
<1>6. TotalSz(cur) \in Nat
  BY <1>3, SizesAre
<1>7. Need(req.more, req.n) \in Nat
  <2>1. Typed /\ Shaped
    BY DEF IInv, Accounted
  <2> QED BY <1>2, <2>1, Requested
<1> QED BY <1>2, <1>3, <1>5, <1>6, <1>7 DEF Fits

\* The heap of an actor grows only when what it reaches does not fit: every
\* other object was reclaimed first (aactor_heap_reserve).
THEOREM HeapGrowsOnlyWhenFull == Spec => GrowsOnlyWhenFull
<1>1. Init => OnlyReached
  BY DEF Init, OnlyReached, Collecting
<1>2. IInv /\ OnlyReached /\ [Next]_vars => OnlyReached'
  BY NextReached
<1>3. IInv /\ Accounted /\ OnlyReached /\ [Next]_vars =>
        [heap_cap' # heap_cap => ReachableSz + Need(req.more, req.n) > heap_cap]_vars
  BY GrowsFull
<1> QED BY <1>1, <1>2, <1>3, IInvHolds, AccountedHolds, PTL DEF Spec, GrowsOnlyWhenFull
=============================================================================
