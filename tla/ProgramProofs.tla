---------------------------- MODULE ProgramProofs ----------------------------
(***************************************************************************)
(* That the assembler implements Program, for all strings, hashes, rooms   *)
(* and programs; and what the compiler does with it, for all texts.        *)
(*                                                                         *)
(* A call changes what is shown of the open prototype and nothing else     *)
(* (Only, Alone), and strings that are added keep the texts of the others. *)
(* The loading that follows the walk of the saving makes copies of the     *)
(* prototypes the walk has seen (Copies), so Reload is the program in the  *)
(* order of the walk (Position).                                           *)
(*                                                                         *)
(* The compiler always has room for the item it adds (Works), and its      *)
(* contexts and the definitions it has read go with the prototypes that    *)
(* are open and those that there are (Compiling).                          *)
(* What it has compiled means what it has read (Meaning): definitions that *)
(* ended are Right, and the open one is a Draft, whose jumps have the      *)
(* places of their labels in the pools.                                    *)
(***************************************************************************)
EXTENDS AssemblerProofs, CompilerProperties

-----------------------------------------------------------------------------
\* Nested prototypes: aasm_push, aasm_open, aasm_pop.

\* push_unsafe, with and without room: d is what it nests the prototype N in.
NestsIn(d, N, f) ==
  \E p, i :
    /\ p = [aasm_prototype(d) EXCEPT !.nesteds = Append(@, N)]
    /\ \A s \in SlotsIn(d) : At(f, s) = IF s = Slot(d) THEN p ELSE At(d, s)
    /\ i \in Nat /\ f.context = Append(d.context, [slot |-> N, idx |-> i])
Refuses(d, f) ==
  /\ \A s \in SlotsIn(d) : At(f, s) = At(d, s)
  /\ f.context = d.context
IsNested(c, d, N, f) ==
  /\ Len(f.slots) = N + 1 /\ f.slots \in Seq(Nat)
  /\ IF HasRoom(d, "nesteds") THEN NestsIn(d, N, f) /\ f.asserts = c.asserts
     ELSE Refuses(d, f) /\ f.asserts = FALSE

\* The new prototype is nested in the open one, or the assertion that there is room fails.
LEMMA NestedIs ==
  ASSUME NEW c, Good(c), Behind(c, DefaultRoom), NEW N, N = Len(c.slots),
         NEW d, d = WithSlot(c), NEW f, f = Nested(d, N)
  PROVE  IsNested(c, d, N, f)
<1>1. /\ Tidy(d) /\ Opened(d) /\ Len(d.slots) = N + 1 /\ SlotsIn(d) = SlotsIn(c) \cup {N}
      /\ \A s \in SlotsIn(c) : At(d, s) = At(c, s)
      /\ At(d, N) = Zeroed(DefaultRoom)
      /\ d.context = c.context /\ d.st = c.st /\ d.asserts = c.asserts
  BY WithSlotTidy
<1>2. N \in Nat \ {0}
  BY DEF Good, Tidy, Counts
<1>3. CASE ~HasRoom(d, "nesteds")
  <2>1. f = [d EXCEPT !.asserts = FALSE]
    BY <1>3 DEF Nested
  <2>2. Shape(d) /\ d.slots \in Seq(Nat)
    BY <1>1 DEF Tidy, Counts
  <2>3. f.buff = d.buff /\ f.slots = d.slots /\ f.context = d.context
    BY <2>1, <2>2 DEF Shape
  <2>3a. f.asserts = FALSE
    BY <2>1, <2>2 DEF Shape
  <2>4. Refuses(d, f)
    BY <2>3 DEF At, Refuses
  <2> QED BY <1>1, <1>3, <2>2, <2>3, <2>3a, <2>4 DEF IsNested
<1>4. CASE HasRoom(d, "nesteds")
  <2> DEFINE h == Slot(d)
             q == aasm_prototype(d)
             p == [q EXCEPT !.nesteds = Append(@, N)]
             e == WithPrototype(d, p)
             n == Len(q.nesteds)
             x == [slot |-> N, idx |-> n]
             R == DOMAIN d.st.text
  <2>1. f = [e EXCEPT !.context = Append(@, x)]
    BY <1>4 DEF Nested
  <2>2. h \in SlotsIn(d) /\ q = At(d, h)
    BY <1>1, SlotOK DEF aasm_prototype
  <2>3. q \in Protos(R, N + 1) /\ InRoom(q)
    BY <1>1, <2>2, AtOK
  <2>4. Len(q["nesteds"]) < q.max["nesteds"]
    BY <1>4 DEF HasRoom
  <2> HIDE DEF q, e, h, R, p
  <2>6. p \in Protos(R, N + 1) /\ InRoom(p) /\ p.max = q.max
    <3> DEFINE M == N + 1
    <3>1. N \in 0 .. M - 1
      BY <1>2
    <3> HIDE DEF M
    <3>2. q \in Protos(R, M) /\ Len(q.nesteds) < q.max.nesteds
      BY <2>3, <2>4 DEF M
    <3>3. p = [q EXCEPT !.nesteds = Append(@, N)]
      BY DEF p
    <3>4. p \in Protos(R, M) /\ InRoom(p) /\ p.max = q.max
      BY <2>3, <3>1, <3>2, <3>3, AppendedNested
    <3> QED BY <3>4 DEF M
  <2>7. Tidy(e) /\ SameBut(d, e, h, p) /\ e.slots = d.slots
    BY <1>1, <2>2, <2>6, WithPrototypeTidy DEF e, h, q, R
  <2>8. n \in Nat
    BY <2>3, LenProperties DEF Protos
  <2> HIDE DEF n, x
  <2>9. Shape(e) /\ e.slots \in Seq(Nat) /\ e.context = d.context
    BY <2>7 DEF Tidy, Counts, SameBut
  <2>10. f.buff = e.buff /\ f.slots = e.slots /\ f.context = Append(d.context, x)
    BY <2>1, <2>9 DEF Shape
  <2>10a. f.asserts = d.asserts
    <3>1. f.asserts = e.asserts
      BY <2>1, <2>9 DEF Shape
    <3> QED BY <2>7, <3>1 DEF SameBut
  <2>11. \A s \in SlotsIn(d) : At(f, s) = IF s = h THEN p ELSE At(d, s)
    <3>1. \A s : At(f, s) = At(e, s)
      BY <2>10 DEF At
    <3> QED BY <2>7, <3>1 DEF SameBut
  <2>12. NestsIn(d, N, f)
    <3>1. p = [aasm_prototype(d) EXCEPT !.nesteds = Append(@, N)]
      BY DEF p, q
    <3>2. \A s \in SlotsIn(d) : At(f, s) = IF s = Slot(d) THEN p ELSE At(d, s)
      BY <2>11 DEF h
    <3>3. f.context = Append(d.context, [slot |-> N, idx |-> n])
      BY <2>10 DEF x
    <3> QED BY <2>8, <3>1, <3>2, <3>3, Zenon DEF NestsIn
  <2>13. Len(f.slots) = N + 1 /\ f.slots \in Seq(Nat)
    BY <1>1, <2>7, <2>9, <2>10
  <2>14. f.asserts = c.asserts
    BY <1>1, <2>10a
  <2> QED BY <1>4, <2>12, <2>13, <2>14 DEF IsNested
<1> QED BY <1>3, <1>4

\* aasm_push: g is the assembler with room for a nested prototype.
Pushes(a, g, f) ==
  /\ Good(f) /\ f.asserts = a.asserts /\ Len(f.slots) = Len(a.slots) + 1
  /\ \A s \in SlotsIn(a) \ {Slot(a)} : At(f, s) = At(a, s)
  /\ At(f, Slot(a)) = [aasm_prototype(g) EXCEPT !.nesteds = Append(@, Len(a.slots))]
  /\ At(f, Len(a.slots)) = Zeroed(DefaultRoom)
  /\ \E i \in Nat : f.context = Append(a.context, [slot |-> Len(a.slots), idx |-> i])
FailsToPush(a, g, f) ==
  /\ f.asserts = FALSE /\ Len(f.slots) = Len(a.slots) + 1 /\ f.slots \in Seq(Nat)
  /\ \A s \in SlotsIn(a) \ {Slot(a)} : At(f, s) = At(a, s)
  /\ At(f, Slot(a)) = aasm_prototype(g)
  /\ At(f, Len(a.slots)) = Zeroed(DefaultRoom)
  /\ f.context = a.context

\* Room is made first; when there was room already nothing else happens.
LEMMA PushIs ==
  ASSUME NEW a, Good(a), a.asserts, NEW f, f = aasm_push(a)
  PROVE  \E g : /\ Roomier(a, g) /\ f.st = a.st
                /\ Pushes(a, g, f) \/ FailsToPush(a, g, f)
                /\ HasRoom(a, "nesteds") => g = a /\ Pushes(a, g, f)
<1> DEFINE g == Grown(a, "nesteds")
           c == new_prototype(g, DefaultRoom)
           d == WithSlot(c)
           N == Len(a.slots)
           h == Slot(a)
<1>0. "nesteds" \in Sections
  BY DEF Sections
<1>1. Roomier(a, g) /\ (HasRoom(a, "nesteds") => g = a)
  BY <1>0, GrownAlone, RoomStays
<1>2. f = Nested(d, Len(g.slots))
  BY DEF aasm_push, push_unsafe
<1>3. DefaultRoom \in Caps
  BY AssemblerAssumption DEF Caps
<1> HIDE DEF g
<1>3a. /\ Good(g) /\ Len(g.slots) = N /\ g.context = a.context /\ g.st = a.st
       /\ g.asserts = a.asserts
       /\ \A s \in SlotsIn(a) \ {h} : At(g, s) = At(a, s)
  BY <1>1 DEF Roomier, Alone, Only, Goes, Steady
<1>4. Good(c) /\ Same(g, c) /\ Behind(c, DefaultRoom)
  BY <1>3, <1>3a, NewPrototypeOK
<1> HIDE DEF c
<1>5. Len(c.slots) = N /\ c.context = a.context /\ c.st = a.st /\ c.asserts = a.asserts
  BY <1>3a, <1>4 DEF Same
<1>5a. \A s \in SlotsIn(a) : At(c, s) = At(g, s)
  BY <1>3a, <1>4 DEF Same, SlotsIn
<1>6. d = WithSlot(c)
  OBVIOUS
<1>6a. /\ Len(d.slots) = N + 1 /\ SlotsIn(d) = SlotsIn(c) \cup {N}
       /\ \A s \in SlotsIn(c) : At(d, s) = At(c, s)
       /\ At(d, N) = Zeroed(DefaultRoom)
       /\ d.context = c.context
  BY <1>4, <1>5, WithSlotTidy
<1> HIDE DEF d
<1>7. Fine(f) /\ f.st = c.st /\ (f.asserts => IsPushed(c, f))
  BY <1>2, <1>3a, <1>4, <1>5, <1>6, NestedOK
<1>8a. IsNested(c, d, N, f)
  BY <1>2, <1>3a, <1>4, <1>5, <1>6, NestedIs
<1>8. /\ Len(f.slots) = N + 1 /\ f.slots \in Seq(Nat)
      /\ IF HasRoom(d, "nesteds") THEN NestsIn(d, N, f) /\ f.asserts = c.asserts
         ELSE Refuses(d, f) /\ f.asserts = FALSE
  BY <1>8a DEF IsNested
<1>9. /\ SlotsIn(c) = SlotsIn(a) /\ h \in SlotsIn(a) /\ N \notin SlotsIn(a) /\ Slot(d) = h /\ Slot(g) = h
  <2>1. h \in SlotsIn(a)
    BY SlotOK DEF Good
  <2>2. N \in Nat
    BY DEF Good, Tidy, Counts
  <2> QED BY <1>3a, <1>5, <1>6a, <2>1, <2>2 DEF SlotsIn, Slot
<1>10. /\ \A s \in SlotsIn(a) : s \in SlotsIn(d) /\ At(d, s) = At(g, s)
       /\ N \in SlotsIn(d) /\ h # N
       /\ aasm_prototype(d) = aasm_prototype(g)
  <2>1. \A s \in SlotsIn(a) : s \in SlotsIn(d) /\ At(d, s) = At(g, s)
    BY <1>5a, <1>6a, <1>9
  <2> QED BY <1>6a, <1>9, <2>1 DEF aasm_prototype
<1>11. CASE HasRoom(d, "nesteds")
  <2>0. NestsIn(d, N, f) /\ f.asserts = c.asserts
    BY <1>8, <1>11
  <2>1. PICK p, i : /\ p = [aasm_prototype(d) EXCEPT !.nesteds = Append(@, N)]
                    /\ \A s \in SlotsIn(d) : At(f, s) = IF s = Slot(d) THEN p ELSE At(d, s)
                    /\ i \in Nat /\ f.context = Append(d.context, [slot |-> N, idx |-> i])
    BY <2>0 DEF NestsIn
  <2>2. At(f, h) = [aasm_prototype(g) EXCEPT !.nesteds = Append(@, N)]
    BY <1>9, <1>10, <2>1
  <2>3. \A s \in SlotsIn(a) \ {h} : At(f, s) = At(a, s)
    BY <1>3a, <1>9, <1>10, <2>1
  <2>4. At(f, N) = Zeroed(DefaultRoom)
    BY <1>6a, <1>9, <1>10, <2>1
  <2>5. Good(f) /\ f.asserts = a.asserts
    BY <1>5, <1>7, <2>0, FineGood
  <2>6. f.context = Append(a.context, [slot |-> N, idx |-> i])
    BY <1>5, <1>6a, <2>1
  <2>7. Pushes(a, g, f)
    BY <1>8, <2>1, <2>2, <2>3, <2>4, <2>5, <2>6 DEF Pushes
  <2> QED BY <1>1, <1>5, <1>7, <2>7
<1>12. CASE ~HasRoom(d, "nesteds")
  <2>0. Refuses(d, f) /\ f.asserts = FALSE
    BY <1>8, <1>12
  <2>1. \A s \in SlotsIn(d) : At(f, s) = At(d, s)
    BY <2>0 DEF Refuses
  <2>2. f.context = a.context
    BY <1>5, <1>6a, <2>0 DEF Refuses
  <2>3. At(f, h) = aasm_prototype(g)
    BY <1>9, <1>10, <2>1 DEF aasm_prototype
  <2>4. \A s \in SlotsIn(a) \ {h} : At(f, s) = At(a, s)
    BY <1>3a, <1>10, <2>1
  <2>5. FailsToPush(a, g, f)
    BY <1>6a, <1>8, <1>10, <2>0, <2>1, <2>2, <2>3, <2>4 DEF FailsToPush
  <2>6. ~HasRoom(a, "nesteds")
    <3> SUFFICES ASSUME HasRoom(a, "nesteds") PROVE FALSE
      OBVIOUS
    <3>1. g = a
      BY <1>1
    <3>2. HasRoom(d, "nesteds")
      BY <1>10, <3>1 DEF HasRoom
    <3> QED BY <1>12, <3>2
  <2> QED BY <1>1, <1>5, <1>7, <2>5, <2>6
<1> QED BY <1>11, <1>12

\* A prototype that the host opens is the last of those that are open.
LEMMA OpenAppend ==
  ASSUME NEW a, Opened(a), NEW x, NEW f, f.context = Append(a.context, x)
  PROVE  OpenIn(f) = Append(OpenIn(a), x.slot + 1)
<1> DEFINE c == a.context
           m == Len(c)
           u == OpenIn(a)
           w == OpenIn(f)
           y == x.slot + 1
           S == {c[i] : i \in 1 .. m} \cup {x}
<1>1. c \in Seq([slot : SlotsIn(a), idx : Nat])
  BY DEF Opened
<1>2. m \in Nat /\ DOMAIN c = 1 .. m /\ c = [i \in 1 .. m |-> c[i]]
  BY <1>1, LenProperties
<1>2a. c \in Seq(S) /\ x \in S
  <2>1. \A i \in 1 .. m : c[i] \in S
    OBVIOUS
  <2>2. x \in S
    OBVIOUS
  <2> HIDE DEF S, m, c
  <2>3. c \in [1 .. m -> S]
    BY <1>2, <2>1
  <2> QED BY <1>2, <2>2, <2>3, FunctionIsSeq
<1>3. /\ f.context \in Seq(S) /\ Len(f.context) = m + 1 /\ f.context[m + 1] = x
      /\ \A i \in 1 .. m : f.context[i] = c[i]
  BY <1>2a, AppendProperties
<1>4. DOMAIN f.context = 1 .. m + 1
  BY <1>3, LenProperties
<1> HIDE DEF c, m, S
<1>5. m + 1 \in 1 .. m + 1 /\ 1 .. m \subseteq 1 .. m + 1
  BY <1>2
<1>6. w = [i \in 1 .. m + 1 |-> w[i]] /\ u = [i \in 1 .. m |-> u[i]]
  BY <1>2, <1>4 DEF OpenIn, c
<1>7. \A i \in 1 .. m : w[i] = u[i]
  BY <1>2, <1>3, <1>4, <1>5 DEF OpenIn, c
<1>8. w[m + 1] = y
  BY <1>3, <1>4, <1>5 DEF OpenIn
<1> HIDE DEF w, u, y
<1>9. OneMore(m, u, y, w)
  BY <1>2, <1>6, <1>7, <1>8 DEF OneMore
<1> QED BY <1>9, AppendIs DEF w, u, y

\* A nested prototype, in what the host sees of the one it is nested in.
WithNested(q, c) == [q EXCEPT !.nesteds = Append(@, c)]

\* One more nested prototype, numbered from 1.
LEMMA NestedsAppend ==
  ASSUME NEW S, NEW q \in Seq(S), NEW x \in S
  PROVE  NestedsOf(Append(q, x)) = Append(NestedsOf(q), x + 1)
<1> DEFINE m == Len(q)
           e == Append(q, x)
           u == NestedsOf(q)
           w == NestedsOf(e)
           y == x + 1
<1>1. m \in Nat /\ DOMAIN q = 1 .. m
  BY LenProperties
<1>2. /\ e \in Seq(S) /\ Len(e) = m + 1 /\ e[m + 1] = x
      /\ \A i \in 1 .. m : e[i] = q[i]
  BY AppendProperties
<1>3. DOMAIN e = 1 .. m + 1
  BY <1>2, LenProperties
<1> HIDE DEF e, m
<1>4. m + 1 \in 1 .. m + 1 /\ 1 .. m \subseteq 1 .. m + 1
  BY <1>1
<1>5. w = [i \in 1 .. m + 1 |-> w[i]] /\ u = [i \in 1 .. m |-> u[i]]
  BY <1>1, <1>3 DEF NestedsOf
<1>6. \A i \in 1 .. m : w[i] = u[i]
  BY <1>1, <1>2, <1>3, <1>4 DEF NestedsOf
<1>7. w[m + 1] = y
  BY <1>2, <1>3, <1>4 DEF NestedsOf
<1> HIDE DEF w, u, y
<1>8. w = Append(u, y)
  <2>1. OneMore(m, u, y, w)
    BY <1>1, <1>5, <1>6, <1>7 DEF OneMore
  <2> QED BY <2>1, AppendIs
<1> QED BY <1>8 DEF w, u, y, e

\* The host sees the nested prototype at the end of the others.
LEMMA ShownNest ==
  ASSUME NEW a, NEW R, NEW n, NEW q \in Protos(R, n), NEW c \in Nat,
         NEW p, p = WithNested(q, c)
  PROVE  Shown(a, p) = WithNested(Shown(a, q), c + 1)
<1>1. q = [source |-> q.source, symbol |-> q.symbol, locals |-> q.locals, code |-> q.code,
           consts |-> q.consts, imports |-> q.imports, nesteds |-> q.nesteds, max |-> q.max]
  BY MembersOf
<1>2. q.nesteds \in Seq(0 .. n - 1)
  BY DEF Protos
<1> DEFINE x == Text(a, q.source)
           y == Text(a, q.symbol)
           k == ConstsOf(a, q.consts)
           m == ImportsOf(a, q.imports)
           d == NestedsOf(q.nesteds)
           e == Append(q.nesteds, c)
           g == Append(d, c + 1)
<1>3. p = [source |-> q.source, symbol |-> q.symbol, locals |-> q.locals, code |-> q.code,
           consts |-> q.consts, imports |-> q.imports, nesteds |-> e, max |-> q.max]
  <2>1. p = [q EXCEPT !.nesteds = e]
    BY DEF WithNested
  <2> HIDE DEF e
  <2> QED BY <1>1, <2>1
<1>4. NestedsOf(e) = g
  <2>1. q.nesteds \in Seq(Int)
    <3>1. 0 .. n - 1 \subseteq Int
      OBVIOUS
    <3> QED BY <1>2, <3>1, SeqIncluded
  <2> QED BY <2>1, NestedsAppend
<1>5. PICK w : w = Shown(a, q)
  OBVIOUS
<1>6. w = [source |-> x, symbol |-> y, locals |-> q.locals, code |-> q.code, consts |-> k,
           imports |-> m, nesteds |-> d]
  BY <1>5, ShownIs DEF Shows
<1>7. Shown(a, p) = [source |-> x, symbol |-> y, locals |-> q.locals, code |-> q.code, consts |-> k,
           imports |-> m, nesteds |-> g]
  <2> HIDE DEF e, g
  <2> QED BY <1>3, <1>4, ShownIs DEF Shows
<1>8. WithNested(w, c + 1) = [w EXCEPT !.nesteds = g]
  BY <1>6 DEF WithNested
<1> HIDE DEF x, y, k, m, d, g
<1>9. [w EXCEPT !.nesteds = g] = [source |-> x, symbol |-> y, locals |-> q.locals, code |-> q.code, consts |-> k,
           imports |-> m, nesteds |-> g]
  BY <1>6
<1> QED BY <1>5, <1>7, <1>8, <1>9

\* A prototype without items.
LEMMA ShownZeroed ==
  ASSUME NEW a, Text(a, 0) = EMPTY, NEW room
  PROVE  Shown(a, Zeroed(room)) = Promise!Blank
<1>1. ConstsOf(a, <<>>) = <<>> /\ ImportsOf(a, <<>>) = <<>> /\ NestedsOf(<<>>) = <<>>
  BY DEF ConstsOf, ImportsOf, NestedsOf
<1> QED BY <1>1, ShownIs DEF Shows, Zeroed, Promise!Blank

\* Reference 0 is the empty string.
LEMMA NoText ==
  ASSUME NEW a, Tidy(a)
  PROVE  Text(a, 0) = EMPTY
BY DEF Tidy, TableOK, Texts, Text, astring_table_to_string

\* Only what is shown at h differs: at most the local variables are forgotten.
LEMMA RoomMade ==
  ASSUME NEW P, NEW Q, NEW h, IsProgram(P, h), NEW v, Q = [P EXCEPT ![h] = v],
         v = P[h] \/ v = [P[h] EXCEPT !.locals = 0]
  PROVE  MadeRoom(P, Q, h)
<1>1. P = [i \in DOMAIN P |-> P[i]] /\ h \in DOMAIN P
  BY DEF IsProgram
<1>2. [P EXCEPT ![h] = P[h]] = P
  BY <1>1
<1>3. [P EXCEPT ![h] = [P[h] EXCEPT !.locals = 0]] = [P EXCEPT ![h].locals = 0]
  BY <1>1
<1> QED BY <1>2, <1>3 DEF MadeRoom

\* A program with one more prototype.
Nests(P, h, n) == [P EXCEPT ![h].nesteds = Append(@, Len(P) + 1), ![h].locals = n]
Grew(P, Q, h, new) == \E n \in {P[h].locals, 0} : Q = Append(Nests(P, h, n), new)

\* The program has as many prototypes as there are slots.
LEMMA ProgramLen ==
  ASSUME NEW a, Good(a)
  PROVE  /\ Len(ProgramOf(a)) = Len(a.slots) /\ DOMAIN ProgramOf(a) = 1 .. Len(a.slots)
         /\ Len(a.slots) \in Nat \ {0}
         /\ \A i \in 1 .. Len(a.slots) : ProgramOf(a)[i] = Shown(a, At(a, i - 1))
<1> DEFINE P == ProgramOf(a)
           N == Len(a.slots)
           S == {P[i] : i \in 1 .. N}
<1>1. N \in Nat \ {0} /\ P = [i \in 1 .. N |-> Shown(a, At(a, i - 1))]
  BY LinkedIs DEF Good
<1> HIDE DEF P, N
<1>2. P \in [1 .. N -> S]
  BY <1>1
<1>3. Len(P) = N
  <2> HIDE DEF S
  <2> QED BY <1>1, <1>2, FunctionIsSeq
<1> QED BY <1>1, <1>3 DEF P, N

\* aasm_push: the program has one more prototype, a blank one, nested in the open one.
LEMMA PushSees ==
  ASSUME NEW a, Good(a), NEW g, Roomier(a, g), NEW f, f.st = a.st, Pushes(a, g, f)
  PROVE  /\ Grew(ProgramOf(a), ProgramOf(f), Slot(a) + 1, Promise!Blank)
         /\ OpenIn(f) = Append(OpenIn(a), Len(ProgramOf(a)) + 1)
         /\ Slot(f) = Len(a.slots)
<1> DEFINE P == ProgramOf(a)
           Q == ProgramOf(f)
           N == Len(a.slots)
           h == Slot(a) + 1
           p == aasm_prototype(a)
           q == aasm_prototype(g)
           u == Shown(a, p)
           v == Shown(a, q)
           blank == Promise!Blank
<1>1. /\ Good(f) /\ Len(f.slots) = N + 1
      /\ \A s \in SlotsIn(a) \ {Slot(a)} : At(f, s) = At(a, s)
      /\ At(f, Slot(a)) = WithNested(q, N)
      /\ At(f, N) = Zeroed(DefaultRoom)
  BY DEF Pushes, WithNested
<1>2. PICK i \in Nat : f.context = Append(a.context, [slot |-> N, idx |-> i])
  BY DEF Pushes
<1>3. /\ N \in Nat \ {0} /\ DOMAIN P = 1 .. N /\ Len(P) = N
      /\ \A j \in 1 .. N : P[j] = Shown(a, At(a, j - 1))
  BY ProgramLen
<1>4. DOMAIN Q = 1 .. N + 1 /\ \A j \in 1 .. N + 1 : Q[j] = Shown(a, At(f, j - 1))
  <2>1. \A x : Shown(f, x) = Shown(a, x)
    BY ShownSt
  <2> QED BY <1>1, <2>1, ProgramLen
<1>5. v = u \/ v = [u EXCEPT !.locals = 0]
  BY RoomierShows
<1>6. IsProgram(P, h) /\ P[h] = u
  BY ProgramIs DEF Here
<1>7. PICK n \in {u.locals, 0} : v = WithLocals(u, n)
  <2>1. IsShown(u)
    BY ShownMembers
  <2> HIDE DEF u, v
  <2>2. u = [u EXCEPT !.locals = u.locals]
    BY <2>1 DEF IsShown
  <2> QED BY <1>5, <2>2 DEF WithLocals
<1>8. Shown(a, WithNested(q, N)) = WithNested(v, N + 1)
  <2>1. Good(g)
    BY DEF Roomier, Alone, Only, Goes
  <2>2. q \in Protos(DOMAIN g.st.text, Len(g.slots))
    BY <2>1, OpenOK
  <2>3. \A x : x = WithNested(q, N) => Shown(a, x) = WithNested(v, N + 1)
    BY <1>3, <2>2, ShownNest
  <2> QED BY <2>3
<1>9. Shown(a, At(f, N)) = blank
  BY <1>1, NoText, ShownZeroed DEF Good
<1>10. Slot(a) \in 0 .. N - 1 /\ SlotsIn(a) = 0 .. N - 1
  BY SlotOK DEF Good, SlotsIn
<1> DEFINE W == Nests(P, h, n)
<1>11. W = [j \in 1 .. N |-> W[j]] /\ W[h] = WithNested(v, N + 1)
       /\ \A j \in 1 .. N : j # h => W[j] = P[j]
  <2>1. P = [j \in 1 .. N |-> P[j]] /\ h \in 1 .. N /\ IsShown(P[h])
    BY <1>3, <1>6 DEF IsProgram
  <2>2. Len(P) = N /\ v = WithLocals(P[h], n)
    BY <1>3, <1>6, <1>7
  <2> HIDE DEF P, h, v, N
  <2>3. W = [P EXCEPT ![h] = [P[h] EXCEPT !.nesteds = Append(@, N + 1), !.locals = n]]
    BY <2>1, <2>2 DEF Nests
  <2>4. [P[h] EXCEPT !.nesteds = Append(@, N + 1), !.locals = n] = WithNested(v, N + 1)
    <3> DEFINE o == P[h]
    <3>1. o = [source |-> o.source, symbol |-> o.symbol, locals |-> o.locals, code |-> o.code,
               consts |-> o.consts, imports |-> o.imports, nesteds |-> o.nesteds]
      BY <2>1 DEF IsShown
    <3>2. v = [o EXCEPT !.locals = n]
      BY <2>2 DEF WithLocals
    <3> HIDE DEF o
    <3>3. v = [source |-> o.source, symbol |-> o.symbol, locals |-> n, code |-> o.code,
               consts |-> o.consts, imports |-> o.imports, nesteds |-> o.nesteds]
      BY <3>1, <3>2
    <3> DEFINE e == Append(o.nesteds, N + 1)
    <3>4. WithNested(v, N + 1) = [v EXCEPT !.nesteds = e]
      BY <3>3 DEF WithNested
    <3> HIDE DEF e
    <3>5. [v EXCEPT !.nesteds = e] =
              [source |-> o.source, symbol |-> o.symbol, locals |-> n, code |-> o.code,
               consts |-> o.consts, imports |-> o.imports, nesteds |-> e]
      BY ONLY <3>3
    <3>6. [o EXCEPT !.nesteds = e, !.locals = n] =
              [source |-> o.source, symbol |-> o.symbol, locals |-> n, code |-> o.code,
               consts |-> o.consts, imports |-> o.imports, nesteds |-> e]
      <4>1. PICK r : r = [o EXCEPT !.nesteds = e]
        OBVIOUS
      <4>2. r = [source |-> o.source, symbol |-> o.symbol, locals |-> o.locals,
                 code |-> o.code, consts |-> o.consts, imports |-> o.imports,
                 nesteds |-> e]
        BY ONLY <3>1, <4>1
      <4>3. [r EXCEPT !.locals = n] =
              [source |-> o.source, symbol |-> o.symbol, locals |-> n, code |-> o.code,
               consts |-> o.consts, imports |-> o.imports, nesteds |-> e]
        BY ONLY <4>2
      <4> QED BY ONLY <4>1, <4>3
    <3> QED BY <3>4, <3>5, <3>6 DEF o, e
  <2>5. W = [P EXCEPT ![h] = WithNested(v, N + 1)]
    BY <2>3, <2>4
  <2> HIDE DEF W
  <2> QED BY <2>1, <2>5
<1> HIDE DEF P, Q, W, N, h, v, u, q, p, blank
<1>12. \A j \in 1 .. N : Q[j] = W[j]
  <2> TAKE j \in 1 .. N
  <2>1. j \in 1 .. N + 1 /\ j - 1 \in 0 .. N - 1
    BY <1>3
  <2>2. Q[j] = Shown(a, At(f, j - 1))
    BY <1>4, <2>1
  <2>3. CASE j = h
    <3>1. j - 1 = Slot(a)
      BY <1>10, <2>3 DEF h
    <3> QED BY <1>1, <1>8, <1>11, <2>2, <2>3, <3>1
  <2>4. CASE j # h
    <3>1. j - 1 \in SlotsIn(a) \ {Slot(a)}
      BY <1>10, <2>1, <2>4 DEF h
    <3>2. At(f, j - 1) = At(a, j - 1)
      BY <1>1, <3>1
    <3> QED BY <1>3, <1>11, <2>2, <2>4, <3>2
  <2> QED BY <2>3, <2>4
<1>13. Q[N + 1] = blank /\ Q = [j \in 1 .. N + 1 |-> Q[j]]
  <2>1. N + 1 \in 1 .. N + 1 /\ N + 1 - 1 = N
    BY <1>3
  <2>2. Q = [j \in DOMAIN Q |-> Q[j]]
    BY DEF Q, ProgramOf
  <2>4. Q[N + 1] = blank
    <3>1. \A j \in 1 .. N + 1 : Q[j] = Shown(a, At(f, j - 1))
      BY <1>4
    <3>2. PICK j \in 1 .. N + 1 : j = N + 1
      BY <2>1
    <3>3. Q[j] = Shown(a, At(f, j - 1))
      BY <3>1
    <3>4. j - 1 = N
      BY <1>3, <3>2
    <3>5. Q[j] = blank
      BY ONLY <1>9, <3>3, <3>4
    <3> QED BY ONLY <3>2, <3>5
  <2>5. Q = [j \in 1 .. N + 1 |-> Q[j]]
    BY <1>4, <2>2, Zenon
  <2> QED BY <2>4, <2>5
<1>14. Q = Append(W, blank)
  <2>1. OneMore(N, W, blank, Q)
    BY <1>3, <1>11, <1>12, <1>13 DEF OneMore
  <2> QED BY <2>1, AppendIs
<1>15. n \in {P[h].locals, 0}
  BY <1>6, <1>7
<1>16. Grew(P, Q, h, blank)
  BY <1>14, <1>15 DEF Grew, W
<1>17. OpenIn(f) = Append(OpenIn(a), N + 1)
  <2> DEFINE x == [slot |-> N, idx |-> i]
  <2>1. x.slot + 1 = N + 1
    OBVIOUS
  <2> HIDE DEF x
  <2>2. OpenIn(f) = Append(OpenIn(a), x.slot + 1)
    BY <1>2, OpenAppend DEF Good, x
  <2> QED BY <2>1, <2>2
<1>18. Slot(f) = N
  <2> DEFINE x == [slot |-> N, idx |-> i]
             C == [slot : SlotsIn(f), idx : Nat]
             m == Len(a.context)
  <2>1. a.context \in Seq([slot : SlotsIn(a), idx : Nat]) /\ N \in SlotsIn(f)
        /\ SlotsIn(a) \subseteq SlotsIn(f)
    <3>1. SlotsIn(f) = 0 .. N
      BY <1>1, <1>3 DEF SlotsIn
    <3> QED BY <1>3, <1>10, <3>1 DEF Good, Opened
  <2>2. x \in C /\ x.slot = N
    BY <1>2, <2>1
  <2>3. a.context \in Seq(C)
    <3>1. [slot : SlotsIn(a), idx : Nat] \subseteq C
      BY <2>1
    <3> QED BY <2>1, <3>1, SeqIncluded
  <2>4. f.context = Append(a.context, x)
    BY <1>2
  <2> HIDE DEF x, C
  <2>5. Len(f.context) = m + 1 /\ f.context[m + 1] = x
    BY <2>2, <2>3, <2>4, AppendProperties
  <2> QED BY <2>2, <2>5 DEF Slot
<1> QED BY <1>3, <1>16, <1>17, <1>18 DEF P, Q, h, blank, N

\* When the push fails there is a slot that is not of the program.
LEMMA FailSees ==
  ASSUME NEW a, Good(a), NEW g, Roomier(a, g), NEW f, f.st = a.st, FailsToPush(a, g, f)
  PROVE  MadeRoom(ProgramOf(a), ProgramOf(f), Slot(a) + 1) /\ OpenIn(f) = OpenIn(a)
<1> DEFINE P == ProgramOf(a)
           Q == ProgramOf(f)
           N == Len(a.slots)
           h == Slot(a) + 1
           p == aasm_prototype(a)
           q == aasm_prototype(g)
           u == Shown(a, p)
           v == Shown(a, q)
<1>1. /\ f.asserts = FALSE /\ Len(f.slots) = N + 1 /\ f.slots \in Seq(Nat)
      /\ \A s \in SlotsIn(a) \ {Slot(a)} : At(f, s) = At(a, s)
      /\ At(f, Slot(a)) = q
      /\ At(f, N) = Zeroed(DefaultRoom)
      /\ f.context = a.context
  BY DEF FailsToPush
<1>3. /\ N \in Nat \ {0} /\ DOMAIN P = 1 .. N
      /\ \A j \in 1 .. N : P[j] = Shown(a, At(a, j - 1))
  BY ProgramLen
<1>10. Slot(a) \in 0 .. N - 1 /\ SlotsIn(a) = 0 .. N - 1
  BY SlotOK DEF Good, SlotsIn
<1>4. q.nesteds = p.nesteds
  <2>1. Good(g) /\ aasm_prototype(g).nesteds = aasm_prototype(a).nesteds
    BY DEF Roomier, Alone, Only, Goes, Steady
  <2> QED BY <2>1
<1>5. \A s \in 0 .. N - 1 : At(f, s).nesteds \in Seq(0 .. N - 1)
  <2> TAKE s \in 0 .. N - 1
  <2>1. At(f, s).nesteds = Kids(a, s)
    BY <1>1, <1>4, <1>10 DEF Kids, aasm_prototype
  <2> QED BY <1>10, <2>1 DEF Good, Tree
<1>6. Orphan(f)
  <2>1. Len(f.slots) > 1 /\ Len(f.slots) - 1 = N
    BY <1>1, <1>3
  <2>2. \A s \in 0 .. N : N \notin Range(At(f, s).nesteds)
    <3> TAKE s \in 0 .. N
    <3>1. CASE s = N
      <4>1. At(f, s).nesteds = <<>>
        BY <1>1, <3>1 DEF Zeroed
      <4> QED BY <4>1 DEF Range
    <3>2. CASE s # N
      <4>1. s \in 0 .. N - 1
        BY <1>3, <3>2
      <4> DEFINE d == At(f, s).nesteds
      <4>2. d \in Seq(0 .. N - 1)
        BY <1>5, <4>1
      <4>3. \A k \in DOMAIN d : d[k] \in 0 .. N - 1
        <5> HIDE DEF d
        <5> QED BY <4>2, ElementOfSeq, LenProperties
      <4>4. N \notin 0 .. N - 1
        BY <1>3
      <4> QED BY <4>3, <4>4 DEF Range
    <3> QED BY <3>1, <3>2
  <2> QED BY <1>1, <2>1, <2>2 DEF Orphan
<1>7. DOMAIN Linked(f) = 1 .. N
  <2> DEFINE s == f.slots
  <2>1. Linked(f) = SubSeq(s, 1, N)
    BY <1>1, <1>3, <1>6 DEF Linked, Front
  <2>2. s \in Seq(Nat) /\ Len(s) = N + 1
    BY <1>1
  <2> HIDE DEF s, N
  <2>3. \A i \in 1 .. N : i \in 1 .. Len(s)
    BY <1>3, <2>2
  <2>4. SubSeq(s, 1, N) = [i \in 1 .. N |-> s[i]]
    BY <1>3, <2>2
  <2> QED BY <2>1, <2>4
<1>8. Q = [j \in 1 .. N |-> Shown(a, At(f, j - 1))]
  <2>1. \A x : Shown(f, x) = Shown(a, x)
    BY ShownSt
  <2> QED BY <1>7, <2>1 DEF ProgramOf
<1>9. v = u \/ v = [u EXCEPT !.locals = 0]
  BY RoomierShows
<1>11. IsProgram(P, h) /\ P[h] = u
  BY ProgramIs DEF Here
<1>12. P = [j \in 1 .. N |-> P[j]]
  BY <1>3, <1>11 DEF IsProgram
<1> HIDE DEF P, Q, N, h, u, v, q, p
<1>13. \A j \in 1 .. N : Shown(a, At(f, j - 1)) = IF j = h THEN v ELSE P[j]
  <2> TAKE j \in 1 .. N
  <2>1. j - 1 \in 0 .. N - 1
    BY <1>3
  <2>3. CASE j = h
    <3>1. j - 1 = Slot(a)
      BY <1>10, <2>3 DEF h
    <3> QED BY <1>1, <2>3, <3>1 DEF v
  <2>4. CASE j # h
    <3>1. j - 1 \in SlotsIn(a) \ {Slot(a)}
      BY <1>10, <2>1, <2>4 DEF h
    <3> QED BY <1>1, <1>3, <2>4, <3>1
  <2> QED BY <2>3, <2>4
<1>14. Q = [P EXCEPT ![h] = v]
  BY <1>8, <1>12, <1>13
<1>15. MadeRoom(P, Q, h)
  BY <1>9, <1>11, <1>14, RoomMade
<1>16. OpenIn(f) = OpenIn(a)
  BY <1>1 DEF OpenIn
<1> QED BY <1>15, <1>16 DEF P, Q, h

-----------------------------------------------------------------------------
\* Each operation is a step of Program or none that the host sees.

\* A step of Program, or none that the host sees.
Mapped == Promise!PNext \/ UNCHANGED Promise!pvars

\* Making room maps to a step of Program or to none.
LEMMA RoomMap ==
  ASSUME Good(self), OpenIn(self') = OpenIn(self),
         MadeRoom(ProgramOf(self), ProgramOf(self'), Slot(self) + 1)
  PROVE  Mapped
BY MakeRoomMap DEF Mapped, Promise!PNext

\* An instruction that was emitted.
LEMMA EmitMap ==
  ASSUME Good(self), NEW i \in Codes, self' = aasm_emit(self, i)
  PROVE  Mapped
<1>1. SeesItem(self, self', "code", i)
  BY EmitSees, HostsOwn
<1>2. CASE Added(ProgramOf(self), ProgramOf(self'), Slot(self) + 1, "code", i)
  BY <1>1, <1>2, AddToMap DEF SeesItem, Mapped, Promise!PNext
<1> QED BY <1>1, <1>2, RoomMap DEF SeesItem

\* A constant that was added, plain or a string.
LEMMA ConstMap ==
  ASSUME Good(self), NEW y \in Plain \cup [string : Strings],
         SeesItem(self, self', "consts", y)
  PROVE  Mapped
<1>1. CASE Added(ProgramOf(self), ProgramOf(self'), Slot(self) + 1, "consts", y)
  BY <1>1, AddToMap DEF SeesItem, Mapped, Promise!PNext
<1> QED BY <1>1, RoomMap DEF SeesItem

\* An import that was added.
LEMMA ImportMap ==
  ASSUME Good(self), NEW x \in Externals,
         self' = aasm_add_import(self, x[1], x[2])
  PROVE  Mapped
<1> DEFINE y == [module |-> x[1], name |-> x[2]]
           I == {[module |-> z[1], name |-> z[2]] : z \in Externals}
<1>1. x[1] \in Words /\ x[2] \in Words
  BY AssemblerAssumption DEF Words
<1>2. SeesItem(self, self', "imports", y)
  BY <1>1, ImportSees
<1>3. y \in I
  OBVIOUS
<1> HIDE DEF y
<1>4. CASE Added(ProgramOf(self), ProgramOf(self'), Slot(self) + 1, "imports", y)
  BY <1>2, <1>3, <1>4, AddToMap DEF SeesItem, Mapped, Promise!PNext
<1> QED BY <1>2, <1>4, RoomMap DEF SeesItem

\* The functions that add an item to the open prototype.
LEMMA AddsMap ==
  ASSUME AsmInv,
         \/ \E i \in Codes : Emit(i)
         \/ \E c \in Plain : AddConstant(c)
         \/ \E s \in Strings : AddStringConstant(s)
         \/ \E x \in Externals : AddImport(x[1], x[2])
  PROVE  Mapped
<1>1. Good(self)
  BY ReadyIsGood DEF Emit, AddConstant, AddStringConstant, AddImport, MayAdd
<1>2. ASSUME NEW i \in Codes, Emit(i)
      PROVE  Mapped
  BY <1>1, <1>2, EmitMap DEF Emit
<1>3. ASSUME NEW c \in Plain, AddConstant(c)
      PROVE  Mapped
  <2>1. ConstantOf(self, c) = c
    BY DEF ConstantOf
  <2>2. c \in Plain \cup [string : DOMAIN self.st.text]
    OBVIOUS
  <2>3. SeesItem(self, aasm_add_constant(self, c), "consts", ConstantOf(self, c))
    BY <1>1, <2>2, ConstantSees
  <2>4. SeesItem(self, self', "consts", c)
    BY <1>3, <2>1, <2>3 DEF AddConstant
  <2> QED BY <1>1, <2>4, ConstMap
<1>4. ASSUME NEW s \in Strings, AddStringConstant(s)
      PROVE  Mapped
  <2> DEFINE y == [string |-> s]
  <2>1. y \in Plain \cup [string : Strings]
    OBVIOUS
  <2>2. SeesItem(self, self', "consts", y)
    BY <1>1, <1>4, StringSees DEF AddStringConstant, Words
  <2> HIDE DEF y
  <2> QED BY <1>1, <2>1, <2>2, ConstMap
<1>5. ASSUME NEW x \in Externals, AddImport(x[1], x[2])
      PROVE  Mapped
  BY <1>1, <1>5, ImportMap DEF AddImport
<1> QED BY <1>2, <1>3, <1>4, <1>5

\* A member of the open prototype is set.
LEMMA NameMap ==
  ASSUME Good(self), NEW f \in {"source", "symbol"}, NEW s \in Names,
         SeesSet(self, self', f, s)
  PROVE  Mapped
<1> DEFINE P == ProgramOf(self)
           Q == ProgramOf(self')
           h == Slot(self) + 1
<1>1. Here(self, P, h)
  BY HereIs
<1>2. P # <<>> /\ h = OpenIn(self)[Len(OpenIn(self))]
  BY <1>1 DEF Here
<1>3. Q = [P EXCEPT ![h][f] = s] /\ OpenIn(self') = OpenIn(self)
  BY DEF SeesSet
<1> HIDE DEF h
<1>4. Promise!NameIt(f, s)
  BY <1>2, <1>3 DEF Promise!NameIt, Promise!Loaded, Promise!Here
<1> QED BY <1>4 DEF Mapped, Promise!PNext

\* aasm_set_local_vars is a step of Program.
LEMMA LocalsMap ==
  ASSUME Good(self), NEW n \in LocalVars,
         SeesSet(self, self', "locals", n)
  PROVE  Mapped
<1> DEFINE P == ProgramOf(self)
           Q == ProgramOf(self')
           h == Slot(self) + 1
<1>1. Here(self, P, h)
  BY HereIs
<1>2. P # <<>> /\ h = OpenIn(self)[Len(OpenIn(self))]
  BY <1>1 DEF Here
<1>3. Q = [P EXCEPT ![h].locals = n] /\ OpenIn(self') = OpenIn(self)
  BY DEF SeesSet
<1> HIDE DEF h
<1>4. Promise!SetLocals(n)
  BY <1>2, <1>3 DEF Promise!SetLocals, Promise!Loaded, Promise!Here
<1> QED BY <1>4 DEF Mapped, Promise!PNext

\* The number of local variables is all that differs.
LEMMA ShownLocals ==
  ASSUME NEW a, NEW R, NEW k, NEW q \in Protos(R, k), NEW n, NEW p, p = [q EXCEPT !.locals = n]
  PROVE  /\ Shown(a, p) = [Shown(a, q) EXCEPT !["locals"] = n]
         /\ SameRoom(q, p)
         /\ (n \in AnyLocals => p \in Protos(R, k))
<1> DEFINE w == Shown(a, q)
<1>1. q = [source |-> q.source, symbol |-> q.symbol, locals |-> q.locals, code |-> q.code,
           consts |-> q.consts, imports |-> q.imports, nesteds |-> q.nesteds, max |-> q.max]
  BY MembersOf
<1>2. p = [source |-> q.source, symbol |-> q.symbol, locals |-> n, code |-> q.code,
           consts |-> q.consts, imports |-> q.imports, nesteds |-> q.nesteds, max |-> q.max]
  BY <1>1
<1>3. Shown(a, p) = [source |-> Text(a, q.source), symbol |-> Text(a, q.symbol),
                     locals |-> n, code |-> q.code, consts |-> ConstsOf(a, q.consts),
                     imports |-> ImportsOf(a, q.imports), nesteds |-> NestedsOf(q.nesteds)]
  BY <1>2, ShownIs DEF Shows
<1>4. PICK u : u = Shown(a, q)
  OBVIOUS
<1>5. u = [source |-> Text(a, q.source), symbol |-> Text(a, q.symbol),
           locals |-> q.locals, code |-> q.code, consts |-> ConstsOf(a, q.consts),
           imports |-> ImportsOf(a, q.imports), nesteds |-> NestedsOf(q.nesteds)]
  BY <1>4, ShownIs DEF Shows
<1>6. [u EXCEPT !["locals"] = n] =
          [source |-> Text(a, q.source), symbol |-> Text(a, q.symbol),
           locals |-> n, code |-> q.code, consts |-> ConstsOf(a, q.consts),
           imports |-> ImportsOf(a, q.imports), nesteds |-> NestedsOf(q.nesteds)]
  BY <1>5
<1>7. SameRoom(q, p)
  BY <1>2 DEF SameRoom, SameItems
<1>8. ASSUME n \in AnyLocals
      PROVE  p \in Protos(R, k)
  BY <1>1, <1>8 DEF Protos
<1> QED BY <1>3, <1>4, <1>6, <1>7, <1>8

\* The functions that set a member of the root.
LEMMA SetsMap ==
  ASSUME AsmInv,
         \/ \E s \in Names : SetSource(s)
         \/ \E n \in LocalVars : SetLocals(n)
  PROVE  Mapped
<1>1. Good(self)
  BY ReadyIsGood DEF SetSource, SetLocals
<1>2. ASSUME NEW s \in Names, SetSource(s)
      PROVE  Mapped
  <2>1. s \in Words
    BY AssemblerAssumption DEF Words
  <2>2. SeesSet(self, self', "source", s)
    BY <1>1, <1>2, <2>1, SetNameSees DEF SetSource
  <2> QED BY <1>1, <2>2, NameMap
<1>3. ASSUME NEW n \in LocalVars, SetLocals(n)
      PROVE  Mapped
  <2> DEFINE q == aasm_prototype(self)
             R == DOMAIN self.st.text
             k == Len(self.slots)
  <2>1. PICK p : p = [q EXCEPT !.locals = n]
    OBVIOUS
  <2>2. self' = WithPrototype(self, p)
    BY <1>3, <2>1 DEF SetLocals
  <2>3. q \in Protos(R, k) /\ InRoom(q)
    BY <1>1, OpenOK
  <2> HIDE DEF q
  <2>4. /\ Shown(self, p) = [Shown(self, q) EXCEPT !["locals"] = n]
        /\ SameRoom(q, p) /\ p \in Protos(R, k)
    BY <2>1, <2>3, ShownLocals, HostsOwn
  <2>5. p.max = q.max /\ p.nesteds = q.nesteds /\ InRoom(p)
    BY <2>3, <2>4 DEF SameRoom, SameItems, InRoom
  <2>6. Alone(self, self') /\ aasm_prototype(self') = p
    BY <1>1, <2>2, <2>4, <2>5, SetAlone DEF q
  <2>7. Shown(self', p) = Shown(self, p)
    BY <2>6, ShownSt DEF Alone
  <2>8. SeesSet(self, self', "locals", n)
    BY <2>4, <2>6, <2>7, SetSees DEF Alone, q
  <2> QED BY <1>1, <2>8, LocalsMap
<1> QED BY <1>2, <1>3

\* aasm_reserve: the open prototype is as it was, or a copy of it with more room.
LEMMA ReserveMap ==
  ASSUME AsmInv, NEW room \in Rooms, Reserve(room)
  PROVE  Mapped
<1> DEFINE q == aasm_prototype(self)
           p == aasm_prototype(self')
<1>1. Good(self)
  BY ReadyIsGood DEF Reserve
<1>2. room \in Caps
  BY AssemblerAssumption DEF Caps
<1>3. Fits(q, room)
  BY DEF Reserve, Fits, Sections
<1>4. self' = aasm_reserve(self, room)
  BY DEF Reserve
<1>5. Alone(self, self') /\ (p = q \/ p = Enlarged(q, room))
  BY <1>1, <1>2, <1>3, <1>4, ReserveAlone
<1>6. q \in Protos(DOMAIN self.st.text, Len(self.slots))
  BY <1>1, OpenOK
<1>7. Shown(self', p) = Shown(self, p)
  BY <1>5, ShownSt DEF Alone
<1> HIDE DEF p, q
<1>8. Shown(self', p) = Shown(self, q) \/ Shown(self', p) = [Shown(self, q) EXCEPT !.locals = 0]
  BY <1>5, <1>6, <1>7, ShownEnlarged
<1>9. Only(self, self')
  BY <1>5 DEF Alone
<1>10. MadeRoom(ProgramOf(self), ProgramOf(self'), Slot(self) + 1) /\ OpenIn(self') = OpenIn(self)
  BY <1>1, <1>8, <1>9, OnlyRoom DEF p, q
<1> QED BY <1>1, <1>10, RoomMap

\* Packing the string table.
LEMMA PackMap ==
  ASSUME AsmInv, Pack
  PROVE  Mapped
<1> DEFINE t == astring_table_pack(self.st)
<1>1. Good(self)
  BY ReadyIsGood DEF Pack
<1>2. TableOK(self.st)
  BY <1>1 DEF Good, Tidy
<1>3. TableOK(t) /\ t.text = self.st.text
  BY <1>2, PackedOK
<1>4. self' = [self EXCEPT !.st = t]
  BY DEF Pack
<1> HIDE DEF t
<1>5. Extends(self.st, t)
  BY <1>3 DEF Extends
<1>6. /\ Good(self') /\ Steady(self, self') /\ self'.st = t
      /\ aasm_prototype(self') = aasm_prototype(self)
  BY <1>1, <1>3, <1>4, <1>5, StringsOK
<1>7. \A s \in SlotsIn(self) \ {Slot(self)} : At(self', s) = At(self, s)
  <2>1. Shape(self)
    BY <1>1 DEF Good, Tidy
  <2>2. self'.buff = self.buff /\ self'.slots = self.slots
    BY <1>4, <2>1 DEF Shape
  <2> QED BY <2>2 DEF At
<1>8. Only(self, self')
  BY <1>1, <1>5, <1>6, <1>7 DEF Only, Goes
<1>9. Alike(self, self')
  BY <1>6, <1>8, OnlySame
<1> QED BY <1>9 DEF Alike, Mapped, Promise!pvars

\* A program that grew by the open prototype nesting a new one.
LEMMA NestMap ==
  ASSUME Good(self), NEW s \in Names \cup {EMPTY}, NEW new,
         new = [Promise!Blank EXCEPT !.symbol = s],
         Grew(ProgramOf(self), ProgramOf(self'), Slot(self) + 1, new),
         OpenIn(self') = Append(OpenIn(self), Len(ProgramOf(self)) + 1)
  PROVE  Mapped
<1> DEFINE P == ProgramOf(self)
           Q == ProgramOf(self')
           h == Slot(self) + 1
<1>1. Here(self, P, h)
  BY HereIs
<1>2. P # <<>> /\ h = OpenIn(self)[Len(OpenIn(self))]
  BY <1>1 DEF Here
<1>3. \E n \in {P[h].locals, 0} :
        Q = Append([P EXCEPT ![h].nesteds = Append(@, Len(P) + 1), ![h].locals = n], new)
  BY DEF Grew, Nests
<1> HIDE DEF h
<1>4. Promise!Nest(s)
  BY <1>2, <1>3 DEF Promise!Nest, Promise!Loaded, Promise!Kept, Promise!Here
<1> QED BY <1>4 DEF Mapped, Promise!PNext

\* aasm_push.
LEMMA PushMap ==
  ASSUME AsmInv, Push
  PROVE  Mapped
<1>1. Good(self) /\ self.asserts /\ self' = aasm_push(self)
  BY ReadyIsGood DEF Push, MayAdd, Ready
<1>2. PICK g : /\ Roomier(self, g) /\ self'.st = self.st
               /\ Pushes(self, g, self') \/ FailsToPush(self, g, self')
  BY <1>1, PushIs
<1>3. CASE FailsToPush(self, g, self')
  BY <1>1, <1>2, <1>3, FailSees, RoomMap
<1>4. CASE Pushes(self, g, self')
  <2>1. /\ Grew(ProgramOf(self), ProgramOf(self'), Slot(self) + 1, Promise!Blank)
        /\ OpenIn(self') = Append(OpenIn(self), Len(ProgramOf(self)) + 1)
    BY <1>1, <1>2, <1>4, PushSees
  <2>2. Promise!Blank = [Promise!Blank EXCEPT !.symbol = EMPTY]
    BY DEF Promise!Blank
  <2> QED BY <1>1, <2>1, <2>2, NestMap
<1> QED BY <1>2, <1>3, <1>4

\* The name of the last prototype.
LEMMA LastNamed ==
  ASSUME NEW P, NEW h, NEW m \in Nat, P = [i \in 1 .. m |-> P[i]], Len(P) = m,
         NEW blank, NEW Q, Grew(P, Q, h, blank), NEW s,
         NEW R, R = [Q EXCEPT ![m + 1]["symbol"] = s]
  PROVE  Grew(P, R, h, [blank EXCEPT !.symbol = s])
<1>1. PICK n \in {P[h].locals, 0} : Q = Append(Nests(P, h, n), blank)
  BY DEF Grew
<1> DEFINE W == Nests(P, h, n)
           new == [blank EXCEPT !.symbol = s]
<1>2. W = [i \in 1 .. m |-> W[i]]
  BY DEF Nests
<1> HIDE DEF W
<1> DEFINE S == {W[i] : i \in 1 .. m} \cup {blank, new}
<1>3. W \in [1 .. m -> S]
  BY <1>2
<1> HIDE DEF new
<1>3a. blank \in S /\ new \in S
  OBVIOUS
<1> HIDE DEF S
<1>4. W \in Seq(S) /\ Len(W) = m
  BY <1>3, FunctionIsSeq
<1>5. /\ Append(W, blank) \in Seq(S) /\ Len(Append(W, blank)) = m + 1
      /\ \A i \in 1 .. m : Append(W, blank)[i] = W[i]
      /\ Append(W, blank)[m + 1] = blank
  BY <1>3a, <1>4, AppendProperties
<1>6. Q = [i \in 1 .. m + 1 |-> Q[i]] /\ Q[m + 1] = blank /\ \A i \in 1 .. m : Q[i] = W[i]
  <2>1. Q = Append(W, blank)
    BY <1>1 DEF W
  <2>2. Q \in Seq(S) /\ Len(Q) = m + 1
    BY <1>5, <2>1
  <2>3. Q = [i \in 1 .. m + 1 |-> Q[i]]
    BY <2>2
  <2> QED BY <1>5, <2>1, <2>3
<1>7. R = [i \in 1 .. m + 1 |-> R[i]] /\ R[m + 1] = new /\ \A i \in 1 .. m : R[i] = W[i]
  <2>1. m + 1 \in 1 .. m + 1 /\ \A i \in 1 .. m : i \in 1 .. m + 1 /\ i # m + 1
    OBVIOUS
  <2>2. R[m + 1] = [Q[m + 1] EXCEPT !["symbol"] = s]
    BY <1>6, <2>1
  <2>3. R[m + 1] = new
    BY <1>6, <2>2 DEF new
  <2>4. R = [i \in 1 .. m + 1 |-> R[i]]
    BY <1>6
  <2>5. \A i \in 1 .. m : R[i] = W[i]
    BY <1>6, <2>1
  <2> QED BY <2>3, <2>4, <2>5
<1>8. OneMore(m, W, new, R)
  BY <1>2, <1>7 DEF OneMore
<1>9. R = Append(W, new)
  BY ONLY <1>8, AppendIs
<1> QED BY <1>9 DEF Grew, W, new

\* aasm_module_push: the nested prototype gets its name when it is open.
LEMMA ModulePushMap ==
  ASSUME AsmInv, NEW s \in Names, ModulePush(s)
  PROVE  Mapped
<1> DEFINE b == aasm_string_to_ref(self, s)
           f == aasm_push(b)
<1>1. Good(self) /\ self.asserts /\ self' = aasm_module_push(self, s)
  BY ReadyIsGood DEF ModulePush, MayAdd, Ready
<1>2. s \in Words
  BY AssemblerAssumption DEF Words
<1>3. b.asserts = self.asserts /\ HasText(b.st, s)
  BY <1>1, <1>2, InternOnly
<1>4. Alike(self, b)
  BY <1>1, <1>2, InternAlike
<1>5. self' = NamedIf(f, s)
  BY <1>1 DEF aasm_module_push
<1> HIDE DEF b
<1>6. Good(b) /\ ProgramOf(b) = ProgramOf(self) /\ OpenIn(b) = OpenIn(self)
      /\ Slot(b) = Slot(self) /\ Len(b.slots) = Len(self.slots)
  BY <1>4 DEF Alike
<1>6a. b.asserts
  BY <1>1, <1>3
<1>7. PICK g : /\ Roomier(b, g) /\ f.st = b.st
               /\ Pushes(b, g, f) \/ FailsToPush(b, g, f)
  BY <1>6, <1>6a, PushIs
<1> HIDE DEF f
<1>8. CASE FailsToPush(b, g, f)
  <2>1. f.asserts = FALSE
    BY <1>8 DEF FailsToPush
  <2>2. self' = f
    BY <1>5, <2>1 DEF NamedIf
  <2>3. MadeRoom(ProgramOf(b), ProgramOf(f), Slot(b) + 1) /\ OpenIn(f) = OpenIn(b)
    BY <1>6, <1>7, <1>8, FailSees
  <2> QED BY <1>1, <1>6, <2>2, <2>3, RoomMap
<1>9. CASE Pushes(b, g, f)
  <2>1. f.asserts /\ Good(f)
    BY <1>6a, <1>9 DEF Pushes
  <2>2. self' = WithName(f, "symbol", s)
    BY <1>5, <2>1 DEF NamedIf
  <2>3. HasText(f.st, s)
    BY <1>3, <1>7
  <2>4. /\ Alone(f, self')
        /\ Shown(self', aasm_prototype(self')) = [Shown(f, aasm_prototype(f)) EXCEPT !["symbol"] = s]
    BY <1>2, <2>1, <2>2, <2>3, WithNameAlone
  <2>5. SeesSet(f, self', "symbol", s)
    BY <2>4, SetSees DEF Alone
  <2>6. /\ Grew(ProgramOf(b), ProgramOf(f), Slot(b) + 1, Promise!Blank)
        /\ OpenIn(f) = Append(OpenIn(b), Len(ProgramOf(b)) + 1)
        /\ Slot(f) = Len(b.slots)
    BY <1>6, <1>7, <1>9, PushSees
  <2> DEFINE P == ProgramOf(self)
             m == Len(self.slots)
             h == Slot(self) + 1
             new == [Promise!Blank EXCEPT !.symbol = s]
  <2>7. m \in Nat /\ P = [i \in 1 .. m |-> P[i]] /\ Len(P) = m
    <3>1. IsProgram(P, h) /\ DOMAIN P = 1 .. m /\ Len(P) = m /\ m \in Nat
      BY <1>1, ProgramIs, ProgramLen
    <3> QED BY <3>1 DEF IsProgram
  <2>8. ProgramOf(self') = [ProgramOf(f) EXCEPT ![m + 1]["symbol"] = s]
    BY <1>6, <2>5, <2>6 DEF SeesSet
  <2>9. Grew(P, ProgramOf(f), h, Promise!Blank)
    BY <1>6, <2>6
  <2>10. OpenIn(self') = Append(OpenIn(self), Len(P) + 1)
    BY <1>6, <2>5, <2>6 DEF SeesSet
  <2>11. Grew(P, ProgramOf(self'), h, new)
    <3> HIDE DEF P, m, h
    <3> QED BY <2>7, <2>8, <2>9, LastNamed
  <2> HIDE DEF new
  <2> QED BY <1>1, <2>10, <2>11, NestMap DEF new
<1> QED BY <1>7, <1>8, <1>9

\* Which prototypes are open is no part of the program.
LEMMA ContextProgram ==
  ASSUME NEW a, Good(a), NEW b, Good(b), b.slots = a.slots, b.buff = a.buff, b.st = a.st
  PROVE  ProgramOf(b) = ProgramOf(a)
<1>1. /\ ProgramOf(a) = [i \in 1 .. Len(a.slots) |-> Shown(a, At(a, i - 1))]
      /\ ProgramOf(b) = [i \in 1 .. Len(b.slots) |-> Shown(b, At(b, i - 1))]
  BY LinkedIs DEF Good
<1>2. \A s : At(b, s) = At(a, s)
  BY DEF At
<1>3. \A p : Shown(b, p) = Shown(a, p)
  BY ShownSt
<1> QED BY <1>1, <1>2, <1>3

\* aasm_open.
LEMMA OpenMap ==
  ASSUME AsmInv, Open
  PROVE  Mapped
<1> DEFINE P == ProgramOf(self)
           h == Slot(self) + 1
           p == aasm_prototype(self)
           ns == p.nesteds
           C == [slot : SlotsIn(self), idx : Nat]
<1>1. Good(self)
  BY ReadyIsGood DEF Open
<1>2. self.context \in Seq(C) /\ self.context # <<>>
  BY <1>1 DEF Good, Opened
<1>3. PICK i \in 0 .. Len(ns) - 1 : self' = aasm_open(self, i)
  BY DEF Open
<1>4. ns \in Seq(SlotsIn(self))
  BY <1>1, OpenOK DEF Protos, SlotsIn
<1> DEFINE x == [slot |-> ns[i + 1], idx |-> i]
           c == Append(self.context, x)
<1>5. self' = [self EXCEPT !.context = c]
  BY <1>3 DEF aasm_open
<1>6. Here(self, P, h)
  BY <1>1, HereIs
<1>7. P # <<>> /\ h = OpenIn(self)[Len(OpenIn(self))] /\ P[h].nesteds = NestedsOf(ns)
  <2>1. P[h] = Shown(self, p)
    BY <1>6 DEF Here
  <2>2. Shown(self, p).nesteds = NestedsOf(ns)
    BY ShownMembers
  <2> QED BY <1>6, <2>1, <2>2 DEF Here
<1> HIDE DEF ns, h, P
<1>8. i + 1 \in 1 .. Len(ns) /\ i \in Nat /\ DOMAIN ns = 1 .. Len(ns)
  BY <1>3, <1>4
<1>9. ns[i + 1] \in SlotsIn(self)
  BY <1>4, <1>8
<1>10. x \in C
  BY <1>8, <1>9
<1>11. x.slot = ns[i + 1]
  OBVIOUS
<1> HIDE DEF x, C
<1>12. c \in Seq(C) /\ c # <<>>
  BY <1>2, <1>10
<1> HIDE DEF c
<1>13. Good(self') /\ self'.slots = self.slots /\ self'.context = c /\ self'.st = self.st
  BY <1>1, <1>5, <1>12, ContextOK DEF C
<1>14. self'.buff = self.buff
  <2>1. Shape(self)
    BY <1>1 DEF Good, Tidy
  <2> QED BY <1>5, <2>1 DEF Shape
<1>15. ProgramOf(self') = P
  BY <1>1, <1>13, <1>14, ContextProgram DEF P
<1>16. OpenIn(self') = Append(OpenIn(self), x.slot + 1)
  BY <1>1, <1>13, OpenAppend DEF Good, c
<1>17. i + 1 \in DOMAIN P[h].nesteds /\ P[h].nesteds[i + 1] = x.slot + 1
  BY <1>7, <1>8, <1>11 DEF NestedsOf
<1>18. \E j \in DOMAIN P[h].nesteds : OpenIn(self') = Append(OpenIn(self), P[h].nesteds[j])
  BY <1>16, <1>17
<1>19. Promise!Reopen
  BY <1>7, <1>15, <1>18 DEF Promise!Reopen, Promise!Loaded, Promise!Here, P
<1> QED BY <1>19 DEF Mapped, Promise!PNext

\* aasm_pop.
LEMMA PopMap ==
  ASSUME AsmInv, Pop
  PROVE  Mapped
<1> DEFINE C == [slot : SlotsIn(self), idx : Nat]
           c == self.context
           m == Len(c)
           d == SubSeq(c, 1, m - 1)
<1>1. Good(self)
  BY ReadyIsGood DEF Pop
<1>2. c \in Seq(C) /\ m \in Nat /\ m > 1
  BY <1>1 DEF Good, Opened, Pop
<1>3. self' = [self EXCEPT !.context = d]
  BY DEF Pop, aasm_pop, Front
<1> HIDE DEF C, c
<1>4. /\ d \in Seq(C) /\ Len(d) = m - 1 /\ DOMAIN d = 1 .. m - 1
      /\ \A k \in 1 .. m - 1 : d[k] = c[k] /\ k \in 1 .. m
  BY <1>2
<1>5. d # <<>>
  BY <1>2, <1>4, EmptySeq
<1> HIDE DEF d
<1>6. Good(self') /\ self'.slots = self.slots /\ self'.context = d /\ self'.st = self.st
  BY <1>1, <1>3, <1>4, <1>5, ContextOK DEF C
<1>7. self'.buff = self.buff
  <2>1. Shape(self)
    BY <1>1 DEF Good, Tidy
  <2> QED BY <1>3, <2>1 DEF Shape
<1>8. ProgramOf(self') = ProgramOf(self)
  BY <1>1, <1>6, <1>7, ContextProgram
<1> DEFINE u == OpenIn(self)
           S == {u[k] : k \in 1 .. m}
<1>9. u = [k \in 1 .. m |-> c[k].slot + 1] /\ OpenIn(self') = [k \in 1 .. m - 1 |-> d[k].slot + 1]
  BY <1>2, <1>4, <1>6 DEF OpenIn, c
<1>10. u \in Seq(S) /\ Len(u) = m
  <2>1. u \in [1 .. m -> S]
    BY <1>9
  <2> HIDE DEF u, S, m
  <2> QED BY <1>2, <2>1, FunctionIsSeq
<1>11. OpenIn(self') = SubSeq(u, 1, m - 1)
  <2>1. \A k \in 1 .. m - 1 : u[k] = d[k].slot + 1
    BY <1>4, <1>9
  <2> HIDE DEF u, S, m
  <2>2. SubSeq(u, 1, m - 1) = [k \in 1 .. m - 1 |-> u[k]]
    BY <1>2, <1>10
  <2> QED BY <1>9, <2>1, <2>2
<1>12. Promise!Close
  BY <1>2, <1>8, <1>10, <1>11 DEF Promise!Close
<1> QED BY <1>12 DEF Mapped, Promise!PNext

\* The program is empty, in what the host sees.
LEMMA FreshShows ==
  ASSUME NEW a, a = Fresh
  PROVE  ProgramOf(a) = <<>> /\ OpenIn(a) = <<>>
<1>1. a.slots = <<>> /\ a.context = <<>>
  BY DEF Fresh
<1>2. Linked(a) = <<>>
  <2>1. ~(Len(a.slots) > 1)
    BY <1>1
  <2> QED BY <1>1, <2>1 DEF Linked, Orphan
<1>3. DOMAIN <<>> = {}
  BY EmptySeq
<1>4. ProgramOf(a) = [i \in {} |-> Shown(a, At(a, i - 1))]
  BY <1>2, <1>3 DEF ProgramOf
<1>5. OpenIn(a) = [k \in {} |-> a.context[k].slot + 1]
  BY <1>1, <1>3 DEF OpenIn
<1> QED BY <1>4, <1>5

\* The assembler starts with one blank prototype, which is open.
LEMMA StartedShows ==
  ASSUME NEW a, a = Started
  PROVE  ProgramOf(a) = <<Promise!Blank>> /\ OpenIn(a) = <<1>>
<1> DEFINE blank == Promise!Blank
<1>1. Good(a) /\ Len(a.context) = 1 /\ aasm_prototype(a) = Zeroed(DefaultRoom) /\ Len(a.slots) = 1
  BY StartedOK
<1>2. Slot(a) = 0
  <2>1. Slot(a) \in SlotsIn(a)
    BY <1>1, SlotOK DEF Good
  <2>2. \A n : n = 1 => 0 .. n - 1 = {0}
    OBVIOUS
  <2> QED BY <1>1, <2>1, <2>2 DEF SlotsIn
<1>3. ProgramOf(a) = [i \in 1 .. 1 |-> Shown(a, At(a, i - 1))]
  BY <1>1, LinkedIs DEF Good
<1>4. At(a, 0) = Zeroed(DefaultRoom)
  BY <1>1, <1>2 DEF aasm_prototype
<1>5. Shown(a, At(a, 0)) = blank
  BY <1>1, <1>4, NoText, ShownZeroed DEF Good
<1> HIDE DEF blank
<1>6. \A i \in 1 .. 1 : Shown(a, At(a, i - 1)) = blank
  <2> TAKE i \in 1 .. 1
  <2>1. i - 1 = 0
    OBVIOUS
  <2> QED BY <1>5, <2>1
<1>7. ProgramOf(a) = <<blank>>
  <2>1. ProgramOf(a) = [i \in 1 .. 1 |-> blank]
    BY <1>3, <1>6
  <2> QED BY <2>1
<1>8. OpenIn(a) = <<1>>
  <2>1. a.context \in Seq([slot : SlotsIn(a), idx : Nat])
    BY <1>1 DEF Good, Opened
  <2>2. DOMAIN a.context = 1 .. 1 /\ a.context[1].slot = 0
    BY <1>1, <1>2, <2>1 DEF Slot
  <2>3. OpenIn(a) = [k \in 1 .. 1 |-> a.context[k].slot + 1]
    BY <2>2 DEF OpenIn
  <2>4. \A k \in 1 .. 1 : a.context[k].slot + 1 = 1
    BY <2>2
  <2>5. OpenIn(a) = [k \in 1 .. 1 |-> 1]
    BY <2>3, <2>4
  <2> QED BY <2>5
<1> QED BY <1>7, <1>8 DEF blank

\* aasm_load of nothing and aasm_cleanup.
LEMMA AnewMap ==
  ASSUME LoadNothing \/ Cleanup
  PROVE  Mapped
<1>1. CASE LoadNothing
  <2>1. ProgramOf(self') = <<Promise!Blank>> /\ OpenIn(self') = <<1>>
    BY <1>1, StartedShows DEF LoadNothing
  <2> DEFINE blank == Promise!Blank
  <2> HIDE DEF blank
  <2>2. <<blank>> # <<>>
    OBVIOUS
  <2>3. Promise!StartAnew
    BY <2>1, <2>2 DEF Promise!StartAnew, blank
  <2> QED BY <2>3 DEF Mapped, Promise!PNext
<1>2. CASE Cleanup
  <2>1. ProgramOf(self') = <<>> /\ OpenIn(self') = <<>>
    BY <1>2, FreshShows DEF Cleanup
  <2>3. Promise!StartAnew
    BY <2>1 DEF Promise!StartAnew
  <2> QED BY <2>3 DEF Mapped, Promise!PNext
<1> QED BY <1>1, <1>2

\* The initial state.
LEMMA InitMap ==
  ASSUME Init
  PROVE  Promise!PInit
BY FreshShows DEF Init, Promise!PInit

-----------------------------------------------------------------------------
\* The walk of save_chunk, and how a prototype that was saved is read.

\* The walk sees one slot at each step, and keeps what it has seen.
WalkIs(a, G) ==
  /\ G[0] = [seen |-> <<>>, todo |-> <<[slot |-> 0, level |-> 0]>>]
  /\ \A i \in 0 .. Len(a.slots) : Walked(a, G[i]) /\ Levelled(G[i]) /\ Len(G[i].seen) = i
  /\ \A i \in 1 .. Len(a.slots) : G[i - 1].todo # <<>> /\ G[i] = Further(a, G[i - 1])
  /\ \A i \in 0 .. Len(a.slots) : \A j \in 1 .. i : G[i].seen[j] = Visit(a)[j]
  /\ G[Len(a.slots)].todo = <<>>

\* A step of the walk: v is seen, and n is what the walk is then.
IsFurther(a, w, v, n) ==
  /\ v \in Visits(a) /\ v = w.todo[1] /\ ~In(w.seen, v.slot)
  /\ n.seen \in Seq(Visits(a)) /\ n.todo \in Seq(Visits(a))
  /\ Len(n.seen) = Len(w.seen) + 1 /\ n.seen[Len(w.seen) + 1] = v
  /\ \A i \in 1 .. Len(w.seen) : n.seen[i] = w.seen[i]
  /\ Len(Kids(a, v.slot)) \in Nat /\ Len(n.todo) = Len(Kids(a, v.slot)) + Len(w.todo) - 1
  /\ \A i \in 1 .. Len(Kids(a, v.slot)) :
       n.todo[i] = [slot |-> Kids(a, v.slot)[i], level |-> v.level + 1]
  /\ \A i \in Len(Kids(a, v.slot)) + 1 .. Len(n.todo) :
       n.todo[i] = w.todo[i - Len(Kids(a, v.slot)) + 1]

\* Further is such a step.
LEMMA FurtherStep ==
  ASSUME NEW a, Tree(a), NEW w, Walked(a, w), w.todo # <<>>
  PROVE  \E v : IsFurther(a, w, v, Further(a, w))
<1> DEFINE v == Head(w.todo)
           n == Further(a, w)
           kids == Kids(a, v.slot)
           m == Len(kids)
           ls == Len(w.seen)
           lt == Len(w.todo)
<1>1. /\ v \in Visits(a) /\ v = w.todo[1] /\ ~In(w.seen, v.slot)
      /\ n.seen \in Seq(Visits(a)) /\ n.todo \in Seq(Visits(a))
      /\ Len(n.seen) = ls + 1 /\ n.seen[ls + 1] = v
      /\ \A i \in 1 .. ls : n.seen[i] = w.seen[i]
      /\ m \in Nat /\ Len(n.todo) = m + lt - 1
      /\ \A i \in 1 .. m : n.todo[i] = [slot |-> kids[i], level |-> v.level + 1]
      /\ \A i \in m + 1 .. Len(n.todo) : n.todo[i] = w.todo[i - m + 1]
  BY FurtherIs
<1> HIDE DEF v, n
<1>2. IsFurther(a, w, v, n)
  BY <1>1, Zenon DEF IsFurther
<1> QED BY <1>2 DEF n

\* The walk of gc and save_chunk is one.
LEMMA WalkSees ==
  ASSUME NEW a, Tree(a)
  PROVE  \E G : WalkIs(a, G)
<1> DEFINE N == Len(a.slots)
<1>1. N \in Nat \ {0}
  BY DEF Tree
<1>2. PICK G : /\ Walk(a) = G
               /\ G[0] = [seen |-> <<>>, todo |-> <<[slot |-> 0, level |-> 0]>>]
               /\ \A i \in 1 .. N : G[i] = Further(a, G[i - 1])
  BY <1>1, WalkGoes
<1> DEFINE D(i) == Len(G[i].seen)
<1>3. Visit(a) = G[N].seen /\ Len(G[N].seen) = N
  BY <1>2, VisitIs DEF Visit
<1> HIDE DEF N
<1>4. \A i \in 0 .. N : WalkState(a, G[i], i)
  <2> DEFINE S == {i \in 0 .. N : WalkState(a, G[i], i)}
  <2>1. 0 \in S
    BY <1>1, <1>2, WalkBegins
  <2>2. \A i \in 0 .. N : i # 0 /\ i - 1 \in S => i \in S
    <3> TAKE i \in 0 .. N
    <3> HAVE i # 0 /\ i - 1 \in S
    <3>1. i \in 1 .. N /\ i \in Nat \ {0}
      BY <1>1
    <3> QED BY <1>2, <3>1, WalkGoesOn
  <2> HIDE DEF S
  <2>3. \A i \in 0 .. N : i \in S
    BY <1>1, <2>1, <2>2, StepByStep
  <2> QED BY <2>3 DEF S
<1>5. \A i \in 0 .. N : D(i) \in Nat
  <2> TAKE i \in 0 .. N
  <2>1. G[i].seen \in Seq(Visits(a))
    BY <1>4 DEF WalkState, Walked
  <2> QED BY <2>1, LenProperties
<1>6. \A i \in 1 .. N :
        /\ i - 1 \in 0 .. N
        /\ IF G[i - 1].todo = <<>> THEN G[i] = G[i - 1]
           ELSE /\ D(i) = D(i - 1) + 1
                /\ \A j \in 1 .. D(i - 1) : G[i].seen[j] = G[i - 1].seen[j]
  <2> TAKE i \in 1 .. N
  <2>1. i - 1 \in 0 .. N
    BY <1>1
  <2>2. CASE G[i - 1].todo = <<>>
    BY <1>2, <2>1, <2>2 DEF Further
  <2>3. CASE G[i - 1].todo # <<>>
    <3>1. Walked(a, G[i - 1])
      BY <1>4, <2>1 DEF WalkState
    <3>2. PICK w : w = G[i - 1]
      OBVIOUS
    <3>3. G[i] = Further(a, w)
      BY <1>2, <3>2
    <3>3a. Walked(a, w) /\ w.todo # <<>>
      BY <2>3, <3>1, <3>2
    <3>3b. PICK v : IsFurther(a, w, v, G[i])
      BY <3>3, <3>3a, FurtherStep, Zenon
    <3>4. /\ Len(G[i].seen) = Len(w.seen) + 1
          /\ \A j \in 1 .. Len(w.seen) : G[i].seen[j] = w.seen[j]
      BY <3>3b DEF IsFurther
    <3>5. D(i) = D(i - 1) + 1 /\ \A j \in 1 .. D(i - 1) : G[i].seen[j] = G[i - 1].seen[j]
      BY ONLY <3>2, <3>4
    <3> QED BY <2>1, <2>3, <3>5
  <2> QED BY <2>1, <2>2, <2>3
<1>7. D(0) = 0
  BY <1>2, EmptySeq
<1> HIDE DEF D
<1>8. \A i \in 0 .. N : D(i) <= i
  <2> DEFINE S == {i \in 0 .. N : D(i) <= i}
  <2>1. 0 \in S
    BY <1>1, <1>7
  <2>2. \A i \in 0 .. N : i # 0 /\ i - 1 \in S => i \in S
    <3> TAKE i \in 0 .. N
    <3> HAVE i # 0 /\ i - 1 \in S
    <3>1. i \in 1 .. N /\ i \in Nat
      BY <1>1
    <3>2. D(i) = D(i - 1) \/ D(i) = D(i - 1) + 1
      BY <1>6, <3>1 DEF D
    <3>3. D(i - 1) \in Nat /\ D(i - 1) <= i - 1 /\ D(i) \in Nat
      BY <1>5, <1>6, <3>1
    <3> QED BY <3>1, <3>2, <3>3
  <2> HIDE DEF S
  <2>3. \A i \in 0 .. N : i \in S
    BY <1>1, <2>1, <2>2, StepByStep
  <2> QED BY <2>3 DEF S
<1>9. \A i \in 0 .. N : D(i) = i
  <2> SUFFICES ASSUME NEW b \in 0 .. N, D(b) # b PROVE FALSE
    OBVIOUS
  <2> DEFINE S == {i \in 0 .. N : D(i) < i}
  <2>1. b \in S /\ b \in Nat
    BY <1>1, <1>5, <1>8
  <2>2. \A i \in b .. N : i # b /\ i - 1 \in S => i \in S
    <3> TAKE i \in b .. N
    <3> HAVE i # b /\ i - 1 \in S
    <3>1. i \in 1 .. N /\ i \in Nat /\ i \in 0 .. N
      BY <1>1, <2>1
    <3>2. D(i) = D(i - 1) \/ D(i) = D(i - 1) + 1
      BY <1>6, <3>1 DEF D
    <3>3. D(i - 1) \in Nat /\ D(i - 1) < i - 1 /\ D(i) \in Nat
      BY <1>5, <1>6, <3>1
    <3> QED BY <3>1, <3>2, <3>3
  <2> HIDE DEF S
  <2>3. \A i \in b .. N : i \in S
    BY <1>1, <2>1, <2>2, StepByStep
  <2>4. N \in b .. N
    BY <1>1
  <2>5. D(N) < N
    BY <2>3, <2>4 DEF S
  <2> QED BY <1>1, <1>3, <2>5 DEF D
<1>10. \A i \in 1 .. N : G[i - 1].todo # <<>>
  <2> TAKE i \in 1 .. N
  <2> SUFFICES ASSUME G[i - 1].todo = <<>> PROVE FALSE
    OBVIOUS
  <2>1. G[i] = G[i - 1]
    BY <1>6
  <2>2. D(i) = D(i - 1)
    BY <2>1 DEF D
  <2>3. i - 1 \in 0 .. N /\ i \in 0 .. N
    BY <1>1
  <2>4. D(i) = i /\ D(i - 1) = i - 1
    BY <1>9, <2>3
  <2> QED BY <2>2, <2>3, <2>4
<1>11. \A i \in 0 .. N : \A j \in 1 .. i : G[i].seen[j] = Visit(a)[j]
  <2> TAKE b \in 0 .. N
  <2> TAKE j \in 1 .. b
  <2> DEFINE S == {i \in 0 .. N : G[i].seen[j] = G[b].seen[j]}
  <2>1. b \in S /\ b \in Nat
    BY <1>1
  <2>2. \A i \in b .. N : i # b /\ i - 1 \in S => i \in S
    <3> TAKE i \in b .. N
    <3> HAVE i # b /\ i - 1 \in S
    <3>1. i \in 1 .. N /\ i \in 0 .. N /\ i - 1 \in 0 .. N /\ j \in 1 .. i - 1
      BY <1>1, <2>1
    <3>2. \A x \in 1 .. D(i - 1) : G[i].seen[x] = G[i - 1].seen[x]
      BY <1>6, <1>10, <3>1
    <3>3. D(i - 1) = i - 1
      BY <1>9, <3>1
    <3>4. G[i].seen[j] = G[i - 1].seen[j]
      BY <3>1, <3>2, <3>3
    <3> QED BY <3>1, <3>4
  <2> HIDE DEF S
  <2>3. \A i \in b .. N : i \in S
    BY <1>1, <2>1, <2>2, StepByStep
  <2>4. N \in b .. N
    BY <1>1
  <2>5. G[N].seen[j] = G[b].seen[j]
    BY <2>3, <2>4 DEF S
  <2> QED BY <1>3, <2>5
<1>12. \A i \in 0 .. N : Walked(a, G[i]) /\ Levelled(G[i])
  BY <1>4 DEF WalkState
<1>13. G[N].todo = <<>>
  <2> SUFFICES ASSUME G[N].todo # <<>> PROVE FALSE
    OBVIOUS
  <2> DEFINE t == G[N].todo
  <2>1. N \in 0 .. N
    BY <1>1
  <2>2. t \in Seq(Visits(a)) /\ t # <<>>
        /\ \A c \in SlotsIn(a) : ~(In(G[N].seen, c) /\ In(t, c))
    BY <1>12, <2>1 DEF Walked
  <2>3. \A x \in Visits(a) : x.slot \in SlotsIn(a)
    BY DEF Visits
  <2> HIDE DEF t
  <2>4. 1 \in DOMAIN t /\ t[1] \in Visits(a)
    BY <2>2
  <2>5. t[1].slot \in SlotsIn(a) /\ In(t, t[1].slot)
    BY <2>3, <2>4 DEF In
  <2>6. In(G[N].seen, t[1].slot)
    BY <1>3, <2>5, VisitIs
  <2> QED BY <2>2, <2>5, <2>6
<1>14. \A i \in 0 .. N : Len(G[i].seen) = i
  BY <1>9 DEF D
<1> QED BY <1>2, <1>10, <1>11, <1>12, <1>13, <1>14 DEF WalkIs, N

\* b is a while the open prototype is read: it shows u and has this room.
Reads(a, b, u, room) ==
  /\ Only(a, b) /\ b.asserts
  /\ Shown(b, aasm_prototype(b)) = u /\ aasm_prototype(b).max = room

\* The items that are shown are as many as there are.
LEMMA ShownLen ==
  ASSUME NEW a, NEW R, NEW n, NEW p \in Protos(R, n), NEW s \in {"consts", "imports"}
  PROVE  Len(Shown(a, p)[s]) = Len(p[s]) /\ Len(p[s]) \in Nat
<1>1. /\ Shown(a, p).consts = ConstsOf(a, p.consts)
      /\ Shown(a, p).imports = ImportsOf(a, p.imports)
  BY ShownIs DEF Shows
<1>2. p.consts \in Seq(Plain \cup [string : R]) /\ p.imports \in Seq([module : R, name : R])
  BY DEF Protos
<1>3. CASE s = "consts"
  <2> DEFINE q == p.consts
             m == Len(q)
             w == ConstsOf(a, q)
             S == {w[i] : i \in 1 .. m}
  <2>1. m \in Nat /\ DOMAIN q = 1 .. m
    BY <1>2, LenProperties
  <2>2. w = [i \in 1 .. m |-> w[i]]
    BY <2>1 DEF ConstsOf
  <2> HIDE DEF w, m
  <2>3. w \in [1 .. m -> S]
    BY <2>2
  <2>4. Len(w) = m
    <3> HIDE DEF S
    <3> QED BY <2>1, <2>3, FunctionIsSeq
  <2> QED BY <1>1, <1>3, <2>1, <2>4 DEF w, m
<1>4. CASE s = "imports"
  <2> DEFINE q == p.imports
             m == Len(q)
             w == ImportsOf(a, q)
             S == {w[i] : i \in 1 .. m}
  <2>1. m \in Nat /\ DOMAIN q = 1 .. m
    BY <1>2, LenProperties
  <2>2. w = [i \in 1 .. m |-> w[i]]
    BY <2>1 DEF ImportsOf
  <2> HIDE DEF w, m
  <2>3. w \in [1 .. m -> S]
    BY <2>2
  <2>4. Len(w) = m
    <3> HIDE DEF S
    <3> QED BY <2>1, <2>3, FunctionIsSeq
  <2> QED BY <1>1, <1>4, <2>1, <2>4 DEF w, m
<1> QED BY <1>3, <1>4

\* An item for which there is room is shown at the end of its section.
LEMMA ReadItem ==
  ASSUME NEW a, NEW b, NEW u, NEW room, Reads(a, b, u, room),
         NEW s \in {"consts", "imports"}, NEW x,
         IsItem(DOMAIN b.st.text, Len(b.slots), s, x), Len(u[s]) < room[s],
         NEW d, d = Add(b, s, x)
  PROVE  Reads(a, d, WithItem(u, s, ItemOf(b, s, x)), room)
<1> DEFINE q == aasm_prototype(b)
           p == aasm_prototype(d)
           R == DOMAIN b.st.text
           n == Len(b.slots)
<1>1. Only(a, b) /\ Good(b) /\ Shown(b, q) = u /\ q.max = room
  BY DEF Reads, Only, Goes
<1>2. b.asserts
  BY DEF Reads
<1>3. q \in Protos(R, n)
  BY <1>1, OpenOK
<1>4. HasRoom(b, s)
  <2>1. Len(Shown(b, q)[s]) = Len(q[s])
    BY <1>3, ShownLen
  <2> QED BY <1>1, <2>1 DEF HasRoom
<1>5. s \in Sections \ {"nesteds"}
  BY DEF Sections
<1>6. /\ Only(b, d) /\ d.st = b.st /\ d.asserts = b.asserts
      /\ p = WithItem(q, s, x)
  BY <1>1, <1>4, <1>5, AddOnly
<1>6a. d.asserts
  BY <1>2, <1>6
<1> HIDE DEF p, q, R, n
<1>7. Shown(d, p) = Shown(b, p)
  BY <1>6, ShownSt
<1>8. Shown(b, p) = WithItem(u, s, ItemOf(b, s, x))
  <2>1. IsItem(R, n, s, x)
    BY DEF R, n
  <2> QED BY <1>1, <1>3, <1>5, <1>6, <2>1, ShownAppend
<1>9. p.max = room
  <2>1. HasItem(p, q, s, x)
    BY <1>3, <1>5, <1>6, AppendedIs
  <2> QED BY <1>1, <2>1 DEF HasItem
<1>10. Only(a, d)
  BY <1>1, <1>6, OnlyOn
<1> QED BY <1>6a, <1>7, <1>8, <1>9, <1>10 DEF Reads, p

\* aasm_string_to_ref while a prototype is read.
LEMMA ReadString ==
  ASSUME NEW a, NEW b, NEW u, NEW room, Reads(a, b, u, room), NEW s \in Words,
         NEW d, d = aasm_string_to_ref(b, s)
  PROVE  Reads(a, d, u, room) /\ Good(d) /\ Goes(b, d) /\ HasText(d.st, s)
<1> DEFINE q == aasm_prototype(b)
<1>1. Only(a, b) /\ Good(b) /\ Shown(b, q) = u /\ q.max = room
  BY DEF Reads, Only, Goes
<1>2. b.asserts
  BY DEF Reads
<1>3. Only(b, d) /\ d.asserts = b.asserts /\ aasm_prototype(d) = q /\ HasText(d.st, s)
  BY <1>1, InternOnly
<1>4. d.asserts
  BY <1>2, <1>3
<1>5. Shown(d, q) = Shown(b, q)
  <2>1. q \in Protos(DOMAIN b.st.text, Len(b.slots))
    BY <1>1, OpenOK
  <2> QED BY <1>3, <2>1, ShownOn DEF Only, Goes
<1>6. Only(a, d)
  BY <1>1, <1>3, OnlyOn
<1>7. Goes(b, d) /\ Good(d)
  BY <1>3 DEF Only, Goes
<1> HIDE DEF q
<1> QED BY <1>1, <1>3, <1>4, <1>5, <1>6, <1>7 DEF Reads

\* A constant of the chunk.
LEMMA ReadConst ==
  ASSUME NEW a, NEW b, NEW u, NEW room, Reads(a, b, u, room),
         NEW c \in Plain \cup [string : Words], Len(u.consts) < room.consts
  PROVE  Reads(a, AddWritten(b, c), WithItem(u, "consts", c), room)
<1>1. CASE c \in Plain
  <2>1. AddWritten(b, c) = Add(b, "consts", c)
    BY <1>1 DEF AddWritten, aasm_add_constant
  <2>2. IsItem(DOMAIN b.st.text, Len(b.slots), "consts", c)
    BY <1>1 DEF IsItem
  <2>3. ItemOf(b, "consts", c) = c
    BY <1>1 DEF ItemOf, ConstantOf
  <2>4. Reads(a, Add(b, "consts", c), WithItem(u, "consts", ItemOf(b, "consts", c)), room)
    BY <2>2, ReadItem
  <2> QED BY <2>1, <2>3, <2>4
<1>2. CASE c \notin Plain
  <2> DEFINE w == c.string
             d == aasm_string_to_ref(b, w)
             x == [string |-> RefOf(d, w)]
  <2>1. w \in Words /\ c = [string |-> w]
    BY <1>2
  <2>2. AddWritten(b, c) = Add(d, "consts", x)
    BY <1>2 DEF AddWritten, AddString, AddRef, aasm_add_constant
  <2>3. Reads(a, d, u, room) /\ Good(d) /\ HasText(d.st, w)
    BY <2>1, ReadString
  <2> HIDE DEF d, w
  <2>4. x \in [string : DOMAIN d.st.text] /\ ConstantOf(d, x) = [string |-> w]
    BY <2>1, <2>3, StringConstant
  <2> HIDE DEF x
  <2>5. IsItem(DOMAIN d.st.text, Len(d.slots), "consts", x)
    BY <2>4 DEF IsItem
  <2>6. ItemOf(d, "consts", x) = c
    BY <2>1, <2>4 DEF ItemOf
  <2>7. Reads(a, Add(d, "consts", x), WithItem(u, "consts", ItemOf(d, "consts", x)), room)
    BY <2>3, <2>5, ReadItem
  <2> QED BY <2>2, <2>6, <2>7
<1> QED BY <1>1, <1>2

\* An import of the chunk.
LEMMA ReadImport ==
  ASSUME NEW a, NEW b, NEW u, NEW room, Reads(a, b, u, room),
         NEW i \in [module : Words, name : Words], Len(u.imports) < room.imports
  PROVE  Reads(a, aasm_add_import(b, i.module, i.name), WithItem(u, "imports", i), room)
<1> DEFINE m == i.module
           n == i.name
           d == aasm_string_to_ref(b, m)
           e == aasm_string_to_ref(d, n)
           x == [module |-> RefOf(e, m), name |-> RefOf(e, n)]
<1>1. m \in Words /\ n \in Words /\ i = [module |-> m, name |-> n]
  OBVIOUS
<1>2. aasm_add_import(b, m, n) = Add(e, "imports", x)
  BY DEF aasm_add_import, AddRefs
<1>3. Reads(a, d, u, room) /\ HasText(d.st, m)
  BY <1>1, ReadString
<1> HIDE DEF d, m, n
<1>4. Reads(a, e, u, room) /\ Good(e) /\ HasText(e.st, n) /\ Goes(d, e)
  BY <1>1, <1>3, ReadString
<1>5. HasText(e.st, m)
  BY <1>1, <1>3, <1>4, HasOn DEF Words
<1> HIDE DEF e
<1>6. /\ RefOf(e, m) \in DOMAIN e.st.text /\ Text(e, RefOf(e, m)) = m
      /\ RefOf(e, n) \in DOMAIN e.st.text /\ Text(e, RefOf(e, n)) = n
  BY <1>1, <1>4, <1>5, RefHasText
<1>7. IsItem(DOMAIN e.st.text, Len(e.slots), "imports", x)
  BY <1>6 DEF IsItem
<1>8. ItemOf(e, "imports", x) = i
  BY <1>1, <1>6 DEF ItemOf, ImportOf
<1> HIDE DEF x
<1>9. Reads(a, Add(e, "imports", x), WithItem(u, "imports", ItemOf(e, "imports", x)), room)
  BY <1>4, <1>7, ReadItem
<1> QED BY <1>2, <1>8, <1>9 DEF m, n

\* A name of the chunk.
LEMMA ReadName ==
  ASSUME NEW a, NEW b, NEW u, NEW room, Reads(a, b, u, room),
         NEW f \in {"source", "symbol"}, NEW s \in Words, NEW d, d = SetName(b, f, s)
  PROVE  Reads(a, d, WithMember(u, f, s), room)
<1> DEFINE c == aasm_string_to_ref(b, s)
<1>1. Reads(a, c, u, room) /\ Good(c) /\ HasText(c.st, s)
  BY ReadString
<1>2. d = WithName(c, f, s)
  BY DEF SetName
<1> HIDE DEF c
<1> DEFINE q == aasm_prototype(c)
           p == aasm_prototype(d)
<1>3. Only(a, c) /\ Shown(c, q) = u /\ q.max = room
  BY <1>1 DEF Reads
<1>4. c.asserts
  BY <1>1 DEF Reads
<1>5. /\ Alone(c, d) /\ SameRoom(q, p)
      /\ Shown(d, p) = [Shown(c, q) EXCEPT ![f] = s]
  BY <1>1, <1>2, WithNameAlone
<1>6. d.asserts
  BY <1>4, <1>5 DEF Alone
<1>7. Only(a, d) /\ p.max = room
  BY <1>3, <1>5, OnlyOn DEF Alone, SameRoom
<1>8. Shown(d, p) = WithMember(u, f, s)
  BY <1>3, <1>5 DEF WithMember
<1> HIDE DEF p, q
<1> QED BY <1>6, <1>7, <1>8 DEF Reads, p

\* A prototype without nested ones, as it is shown.
Rec(s, y, l, c, k, i) ==
  [source |-> s, symbol |-> y, locals |-> l, code |-> c, consts |-> k, imports |-> i,
   nesteds |-> <<>>]

\* Its members, one after the other.
LEMMA RecSet ==
  ASSUME NEW s, NEW y, NEW l, NEW c, NEW k, NEW i, NEW x
  PROVE  /\ WithMember(Rec(s, y, l, c, k, i), "source", x) = Rec(x, y, l, c, k, i)
         /\ WithMember(Rec(s, y, l, c, k, i), "symbol", x) = Rec(s, x, l, c, k, i)
         /\ WithItem(Rec(s, y, l, c, k, i), "consts", x) = Rec(s, y, l, c, Append(k, x), i)
         /\ WithItem(Rec(s, y, l, c, k, i), "imports", x) = Rec(s, y, l, c, k, Append(i, x))
         /\ Rec(s, y, l, c, k, i).consts = k /\ Rec(s, y, l, c, k, i).imports = i
<1>1. PICK r : r = Rec(s, y, l, c, k, i)
  OBVIOUS
<1>2. r = [source |-> s, symbol |-> y, locals |-> l, code |-> c, consts |-> k, imports |-> i,
           nesteds |-> <<>>]
  BY <1>1 DEF Rec
<1> DEFINE nil == <<>>
           kx == Append(k, x)
           ix == Append(i, x)
<1>3. r.consts = k /\ r.imports = i
  BY <1>2
<1>4. WithMember(r, "source", x) = Rec(x, y, l, c, k, i)
  <2>1. [r EXCEPT !.source = x] = [source |-> x, symbol |-> y, locals |-> l, code |-> c,
                                   consts |-> k, imports |-> i, nesteds |-> nil]
    BY <1>2
  <2> QED BY <2>1 DEF WithMember, Rec
<1>5. WithMember(r, "symbol", x) = Rec(s, x, l, c, k, i)
  <2>1. [r EXCEPT !.symbol = x] = [source |-> s, symbol |-> x, locals |-> l, code |-> c,
                                   consts |-> k, imports |-> i, nesteds |-> nil]
    BY <1>2
  <2> QED BY <2>1 DEF WithMember, Rec
<1> HIDE DEF kx, ix
<1>6. WithItem(r, "consts", x) = Rec(s, y, l, c, kx, i)
  <2>1. [r EXCEPT !.consts = kx] = [source |-> s, symbol |-> y, locals |-> l, code |-> c,
                                   consts |-> kx, imports |-> i, nesteds |-> nil]
    BY <1>2
  <2>2. WithItem(r, "consts", x) = [r EXCEPT !.consts = kx]
    BY <1>2 DEF WithItem, kx
  <2> QED BY <2>1, <2>2 DEF Rec
<1>7. WithItem(r, "imports", x) = Rec(s, y, l, c, k, ix)
  <2>1. [r EXCEPT !.imports = ix] = [source |-> s, symbol |-> y, locals |-> l, code |-> c,
                                   consts |-> k, imports |-> ix, nesteds |-> nil]
    BY <1>2
  <2>2. WithItem(r, "imports", x) = [r EXCEPT !.imports = ix]
    BY <1>2 DEF WithItem, ix
  <2> QED BY <2>1, <2>2 DEF Rec
<1> QED BY <1>1, <1>3, <1>4, <1>5, <1>6, <1>7 DEF kx, ix

\* The first items of a section and the next one.
LEMMA SubSeqNext ==
  ASSUME NEW S, NEW q \in Seq(S), NEW i \in 1 .. Len(q)
  PROVE  /\ SubSeq(q, 1, i) = Append(SubSeq(q, 1, i - 1), q[i])
         /\ Len(SubSeq(q, 1, i - 1)) = i - 1
<1> DEFINE u == SubSeq(q, 1, i - 1)
           w == SubSeq(q, 1, i)
<1>1. i \in Nat /\ i - 1 \in Nat /\ i - 1 + 1 = i
  OBVIOUS
<1>2. u = [j \in 1 .. i - 1 |-> q[j]] /\ w = [j \in 1 .. i |-> q[j]] /\ Len(u) = i - 1
  OBVIOUS
<1> HIDE DEF u, w
<1>3. OneMore(i - 1, u, q[i], w)
  <2>1. i \in 1 .. i /\ \A j \in 1 .. i - 1 : j \in 1 .. i
    BY <1>1
  <2>2. u = [j \in 1 .. i - 1 |-> u[j]] /\ w = [j \in 1 .. i |-> w[j]]
    BY <1>2
  <2>3. (\A j \in 1 .. i - 1 : w[j] = u[j]) /\ w[i] = q[i]
    BY <1>2, <2>1
  <2> QED BY <1>1, <2>2, <2>3 DEF OneMore
<1>4. w = Append(u, q[i])
  BY <1>3, AppendIs
<1> QED BY <1>2, <1>4 DEF u, w

\* All constants are read.
LEMMA ReadConsts ==
  ASSUME NEW a, NEW b, NEW s, NEW y, NEW l, NEW c, NEW i, NEW room,
         Reads(a, b, Rec(s, y, l, c, <<>>, i), room),
         NEW k \in Seq(Plain \cup [string : Words]), room.consts \in Nat,
         Len(k) <= room.consts
  PROVE  Reads(a, AddConsts(b, k), Rec(s, y, l, c, k, i), room)
<1> DEFINE N == Len(k)
           E == Plain \cup [string : Words]
           U(j) == Rec(s, y, l, c, SubSeq(k, 1, j), i)
<1>1. N \in Nat /\ DOMAIN k = 1 .. N
  BY LenProperties
<1>2. PICK G : /\ AddConsts(b, k) = G[N] /\ G[0] = b
               /\ \A j \in 1 .. N : G[j] = AddWritten(G[j - 1], k[j])
  BY <1>1, AddConstsGoes
<1>3. \A j \in 1 .. N : k[j] \in E
  <2> HIDE DEF E
  <2>1. k \in Seq(E)
    BY DEF E
  <2> QED BY <1>1, <2>1, ElementOfSeq
<1> DEFINE S == {j \in 0 .. N : Reads(a, G[j], U(j), room)}
<1>4. 0 \in S
  <2>1. SubSeq(k, 1, 0) = <<>>
    OBVIOUS
  <2>2. Reads(a, G[0], U(0), room)
    BY <1>2, <2>1
  <2> HIDE DEF U
  <2> QED BY <1>1, <2>2
<1>5. ASSUME NEW j \in 1 .. N, j - 1 \in S PROVE j \in S
  <2> DEFINE d == G[j - 1]
             x == k[j]
             v == U(j - 1)
  <2>1. Reads(a, d, v, room) /\ G[j] = AddWritten(d, x) /\ x \in E
    BY <1>2, <1>3, <1>5
  <2>2. SubSeq(k, 1, j) = Append(SubSeq(k, 1, j - 1), x) /\ Len(SubSeq(k, 1, j - 1)) = j - 1
    BY <1>1, SubSeqNext
  <2>3. v.consts = SubSeq(k, 1, j - 1) /\ WithItem(v, "consts", x) = U(j)
    <3>1. PICK g : g = SubSeq(k, 1, j - 1)
      OBVIOUS
    <3>2. PICK z : z = x
      OBVIOUS
    <3>3. v = Rec(s, y, l, c, g, i)
      BY <3>1
    <3>4. U(j) = Rec(s, y, l, c, Append(g, z), i)
      BY <2>2, <3>1, <3>2
    <3>5. /\ Rec(s, y, l, c, g, i).consts = g
          /\ WithItem(Rec(s, y, l, c, g, i), "consts", z) = Rec(s, y, l, c, Append(g, z), i)
      BY RecSet
    <3> HIDE DEF v, U, x
    <3> QED BY <3>1, <3>2, <3>3, <3>4, <3>5, Zenon
  <2>4. Len(v.consts) < room.consts
    <3>1. j - 1 < room.consts
      BY <1>1
    <3> QED BY <2>2, <2>3, <3>1
  <2> HIDE DEF d, x, v, U
  <2>5. Reads(a, AddWritten(d, x), WithItem(v, "consts", x), room)
    BY <2>1, <2>4, ReadConst
  <2> QED BY <1>1, <2>1, <2>3, <2>5
<1>6. N \in S
  <2> HIDE DEF S, N
  <2>1. \A j \in 0 .. N : j # 0 /\ j - 1 \in S => j \in S
    BY <1>1, <1>5
  <2>2. \A j \in 0 .. N : j \in S
    BY <1>1, <1>4, <2>1, StepByStep
  <2> QED BY <1>1, <2>2
<1>7. SubSeq(k, 1, N) = k
  OBVIOUS
<1> QED BY <1>2, <1>6, <1>7

\* All imports are read.
LEMMA ReadImports ==
  ASSUME NEW a, NEW b, NEW s, NEW y, NEW l, NEW c, NEW k, NEW room,
         Reads(a, b, Rec(s, y, l, c, k, <<>>), room),
         NEW i \in Seq([module : Words, name : Words]), room.imports \in Nat,
         Len(i) <= room.imports
  PROVE  Reads(a, AddImports(b, i), Rec(s, y, l, c, k, i), room)
<1> DEFINE N == Len(i)
           E == [module : Words, name : Words]
           U(j) == Rec(s, y, l, c, k, SubSeq(i, 1, j))
<1>1. N \in Nat /\ DOMAIN i = 1 .. N
  BY LenProperties
<1>2. PICK G : /\ AddImports(b, i) = G[N] /\ G[0] = b
               /\ \A j \in 1 .. N : G[j] = aasm_add_import(G[j - 1], i[j].module, i[j].name)
  BY <1>1, AddImportsGoes
<1>3. \A j \in 1 .. N : i[j] \in E
  <2> HIDE DEF E
  <2>1. i \in Seq(E)
    BY DEF E
  <2> QED BY <1>1, <2>1, ElementOfSeq
<1> DEFINE S == {j \in 0 .. N : Reads(a, G[j], U(j), room)}
<1>4. 0 \in S
  <2>1. SubSeq(i, 1, 0) = <<>>
    OBVIOUS
  <2>2. Reads(a, G[0], U(0), room)
    BY <1>2, <2>1
  <2> HIDE DEF U
  <2> QED BY <1>1, <2>2
<1>5. ASSUME NEW j \in 1 .. N, j - 1 \in S PROVE j \in S
  <2> DEFINE d == G[j - 1]
             x == i[j]
             v == U(j - 1)
  <2>1. Reads(a, d, v, room) /\ G[j] = aasm_add_import(d, x.module, x.name) /\ x \in E
    BY <1>2, <1>3, <1>5
  <2>2. SubSeq(i, 1, j) = Append(SubSeq(i, 1, j - 1), x) /\ Len(SubSeq(i, 1, j - 1)) = j - 1
    BY <1>1, SubSeqNext
  <2>3. v.imports = SubSeq(i, 1, j - 1) /\ WithItem(v, "imports", x) = U(j)
    <3>1. PICK g : g = SubSeq(i, 1, j - 1)
      OBVIOUS
    <3>2. PICK z : z = x
      OBVIOUS
    <3>3. v = Rec(s, y, l, c, k, g)
      BY <3>1
    <3>4. U(j) = Rec(s, y, l, c, k, Append(g, z))
      BY <2>2, <3>1, <3>2
    <3>5. /\ Rec(s, y, l, c, k, g).imports = g
          /\ WithItem(Rec(s, y, l, c, k, g), "imports", z) = Rec(s, y, l, c, k, Append(g, z))
      BY RecSet
    <3> HIDE DEF v, U, x
    <3> QED BY <3>1, <3>2, <3>3, <3>4, <3>5, Zenon
  <2>4. Len(v.imports) < room.imports
    <3>1. j - 1 < room.imports
      BY <1>1
    <3> QED BY <2>2, <2>3, <3>1
  <2> HIDE DEF d, x, v, U
  <2>5. Reads(a, aasm_add_import(d, x.module, x.name), WithItem(v, "imports", x), room)
    BY <2>1, <2>4, ReadImport
  <2> QED BY <1>1, <2>1, <2>3, <2>5
<1>6. N \in S
  <2> HIDE DEF S, N
  <2>1. \A j \in 0 .. N : j # 0 /\ j - 1 \in S => j \in S
    BY <1>1, <1>5
  <2>2. \A j \in 0 .. N : j \in S
    BY <1>1, <1>4, <2>1, StepByStep
  <2> QED BY <1>1, <2>2
<1>7. SubSeq(i, 1, N) = i
  OBVIOUS
<1> QED BY <1>2, <1>6, <1>7

\* The number of local variables and the code are written over.
IsFilled(a, R, n, q, l, c, p) ==
  /\ p \in Protos(R, n) /\ InRoom(p) /\ p.max = q.max /\ p.nesteds = q.nesteds
  /\ \A s, y, k, i, l0, c0 : Shown(a, q) = Rec(s, y, l0, c0, k, i)
       => Shown(a, p) = Rec(s, y, l, c, k, i)

\* They are shown then, and nothing else changes.
LEMMA FilledShows ==
  ASSUME NEW a, NEW R, NEW n, NEW q \in Protos(R, n), InRoom(q), q.nesteds = <<>>,
         NEW l \in AnyLocals, NEW c \in Seq(AnyCode), Len(c) <= q.max.code,
         NEW p, p = [q EXCEPT !.locals = l, !.code = c]
  PROVE  IsFilled(a, R, n, q, l, c, p)
<1>1. /\ q = [source |-> q.source, symbol |-> q.symbol, locals |-> q.locals, code |-> q.code,
              consts |-> q.consts, imports |-> q.imports, nesteds |-> q.nesteds, max |-> q.max]
      /\ Members(R, n, q.source, q.symbol, q.locals, q.code, q.consts, q.imports, q.nesteds, q.max)
  BY MembersOf
<1>2. p = [source |-> q.source, symbol |-> q.symbol, locals |-> l, code |-> c,
           consts |-> q.consts, imports |-> q.imports, nesteds |-> q.nesteds, max |-> q.max]
  BY <1>1
<1>3. p \in Protos(R, n)
  <2>1. Members(R, n, q.source, q.symbol, l, c, q.consts, q.imports, q.nesteds, q.max)
    BY <1>1 DEF Members
  <2>2. [source |-> q.source, symbol |-> q.symbol, locals |-> l, code |-> c,
         consts |-> q.consts, imports |-> q.imports, nesteds |-> q.nesteds, max |-> q.max] \in Protos(R, n)
    BY <2>1, ProtoOf, Zenon
  <2> QED BY <1>2, <2>2, Zenon
<1>4. p.max = q.max /\ p.nesteds = q.nesteds /\ InRoom(p)
  BY <1>2 DEF InRoom
<1>5. ASSUME NEW s, NEW y, NEW k, NEW i, NEW l0, NEW c0, Shown(a, q) = Rec(s, y, l0, c0, k, i)
      PROVE  Shown(a, p) = Rec(s, y, l, c, k, i)
  <2>1. /\ Text(a, q.source) = s /\ Text(a, q.symbol) = y /\ ConstsOf(a, q.consts) = k
        /\ ImportsOf(a, q.imports) = i /\ NestedsOf(q.nesteds) = <<>>
    BY <1>5, ShownIs DEF Shows, Rec
  <2>2. Shown(a, p) = [source |-> Text(a, q.source), symbol |-> Text(a, q.symbol),
                       locals |-> l, code |-> c, consts |-> ConstsOf(a, q.consts),
                       imports |-> ImportsOf(a, q.imports), nesteds |-> NestedsOf(q.nesteds)]
    BY <1>2, ShownIs DEF Shows
  <2> QED BY <2>1, <2>2 DEF Rec
<1> QED BY <1>3, <1>4, <1>5 DEF IsFilled

\* So the open prototype is filled.
LEMMA ReadFilled ==
  ASSUME NEW a, NEW b, NEW s, NEW y, NEW l0, NEW c0, NEW k, NEW i, NEW room,
         Reads(a, b, Rec(s, y, l0, c0, k, i), room), aasm_prototype(b).nesteds = <<>>,
         NEW t, t.locals \in AnyLocals, t.code \in Seq(AnyCode),
         Len(t.code) <= room.code
  PROVE  Reads(a, Filled(b, t), Rec(s, y, t.locals, t.code, k, i), room)
<1> DEFINE q == aasm_prototype(b)
           d == Filled(b, t)
<1>1. Only(a, b) /\ Good(b) /\ Shown(b, q) = Rec(s, y, l0, c0, k, i) /\ q.max = room
  BY DEF Reads, Only, Goes
<1>2. b.asserts
  BY DEF Reads
<1>3. PICK p : p = [q EXCEPT !.locals = t.locals, !.code = t.code]
  OBVIOUS
<1>4. d = WithPrototype(b, p)
  BY <1>3 DEF Filled
<1>5. q \in Protos(DOMAIN b.st.text, Len(b.slots)) /\ InRoom(q) /\ q.nesteds = <<>>
  BY <1>1, OpenOK
<1> HIDE DEF q, d
<1>6. /\ p \in Protos(DOMAIN b.st.text, Len(b.slots)) /\ InRoom(p) /\ p.max = q.max
      /\ p.nesteds = q.nesteds
      /\ Shown(b, p) = Rec(s, y, t.locals, t.code, k, i)
  <2> DEFINE R == DOMAIN b.st.text
             n == Len(b.slots)
             l == t.locals
             c == t.code
  <2>1. l \in AnyLocals /\ c \in Seq(AnyCode) /\ Len(c) <= q.max.code
    BY <1>1
  <2>2. q \in Protos(R, n) /\ p = [q EXCEPT !.locals = l, !.code = c]
    BY <1>3, <1>5
  <2> HIDE DEF R, n, l, c
  <2>3. InRoom(q) /\ q.nesteds = <<>>
    BY <1>5
  <2>4. IsFilled(b, R, n, q, l, c, p)
    BY <2>1, <2>2, <2>3, FilledShows
  <2> QED BY <1>1, <2>4 DEF IsFilled, R, n, l, c
<1>7. Alone(b, d) /\ aasm_prototype(d) = p
  BY <1>1, <1>4, <1>6, SetAlone DEF q
<1>8. d.asserts
  BY <1>2, <1>7 DEF Alone
<1>9. Shown(d, p) = Rec(s, y, t.locals, t.code, k, i) /\ Only(a, d)
  BY <1>1, <1>6, <1>7, ShownSt, OnlyOn DEF Alone
<1>10. p.max = room
  BY <1>1, <1>6
<1> QED BY <1>7, <1>8, <1>9, <1>10 DEF Reads, d

\* A room for all that is written in t.
Holds(room, t) ==
  /\ room \in Caps /\ Len(t.code) <= room.code /\ Len(t.consts) <= room.consts
  /\ Len(t.imports) <= room.imports /\ t.nesteds <= room.nesteds

\* Before it is read, a prototype is empty and has room for it.
LEMMA ReadBegin ==
  ASSUME NEW a, Good(a), a.asserts, aasm_prototype(a) = Zeroed(DefaultRoom),
         NEW t \in Writings, NEW b, b = aasm_reserve(a, Needed(t))
  PROVE  \E room : /\ Reads(a, b, Rec(EMPTY, EMPTY, 0, <<>>, <<>>, <<>>), room)
                   /\ Holds(room, t) /\ aasm_prototype(b).nesteds = <<>>
<1> DEFINE room == Needed(t)
           q == aasm_prototype(b)
<1>1. /\ t.code \in Seq(AnyCode) /\ t.consts \in Seq(Plain \cup [string : Words])
      /\ t.imports \in Seq([module : Words, name : Words]) /\ t.nesteds \in Nat
  BY DEF Writings
<1>2. /\ room.code = Len(t.code) /\ room.consts = Len(t.consts)
      /\ room.imports = Len(t.imports) /\ room.nesteds = t.nesteds /\ room \in Caps
  <2>1. Len(t.code) \in Nat /\ Len(t.consts) \in Nat /\ Len(t.imports) \in Nat
    BY <1>1, LenProperties
  <2>2. /\ room = [code |-> Len(t.code), consts |-> Len(t.consts), imports |-> Len(t.imports),
                   nesteds |-> t.nesteds]
    BY DEF Needed
  <2> QED BY <1>1, <2>1, <2>2 DEF Caps
<1>3. PICK rm : rm = room
  OBVIOUS
<1>4. b = aasm_reserve(a, rm) /\ rm \in Caps
  BY <1>2, <1>3
<1>5. /\ rm.code = Len(t.code) /\ rm.consts = Len(t.consts)
      /\ rm.imports = Len(t.imports) /\ rm.nesteds = t.nesteds
  BY <1>2, <1>3
<1> HIDE DEF room
<1>6. Fits(aasm_prototype(a), rm)
  <2> DEFINE r == aasm_prototype(a)
  <2>1. Len(<<>>) = 0
    BY EmptySeq
  <2>2. r.code = <<>> /\ r.consts = <<>> /\ r.imports = <<>> /\ r.nesteds = <<>>
    BY DEF Zeroed
  <2>3. rm.code \in Nat /\ rm.consts \in Nat /\ rm.imports \in Nat /\ rm.nesteds \in Nat
    BY <1>4 DEF Caps
  <2> HIDE DEF r
  <2>4. /\ 0 <= rm.code /\ 0 <= rm.consts /\ 0 <= rm.imports /\ 0 <= rm.nesteds
    BY <2>3
  <2>5. Fits(r, rm)
    BY <2>1, <2>2, <2>4 DEF Fits
  <2> QED BY <2>5 DEF r
<1>7. /\ Alone(a, b) /\ Good(b)
      /\ q = Zeroed(DefaultRoom) \/ q = Enlarged(Zeroed(DefaultRoom), rm)
  <2>1. Alone(a, b) /\ (q = aasm_prototype(a) \/ q = Enlarged(aasm_prototype(a), rm))
    BY <1>4, <1>6, ReserveAlone
  <2>2. Good(b)
    BY <2>1 DEF Alone, Only, Goes
  <2> QED BY <2>1, <2>2
<1>8. \A s \in Sections : q.max[s] >= rm[s]
  BY <1>4, <1>6, ReserveOK
<1>9. \E m : q = Zeroed(m)
  <2>1. Enlarged(Zeroed(DefaultRoom), rm) = Zeroed(rm)
    <3>1. PICK z : z = Zeroed(DefaultRoom)
      OBVIOUS
    <3> DEFINE nil == <<>>
    <3>2. z = [source |-> 0, symbol |-> 0, locals |-> 0, code |-> nil, consts |-> nil,
               imports |-> nil, nesteds |-> nil, max |-> DefaultRoom]
      BY <3>1 DEF Zeroed
    <3> HIDE DEF nil
    <3>3. [z EXCEPT !.max = rm]
            = [source |-> 0, symbol |-> 0, locals |-> 0, code |-> nil, consts |-> nil,
               imports |-> nil, nesteds |-> nil, max |-> rm]
      BY <3>2
    <3>4. PICK y : y = [z EXCEPT !.max = rm]
      OBVIOUS
    <3>5. [y EXCEPT !.locals = 0] = y
      BY <3>3, <3>4
    <3>6. Enlarged(z, rm) = [y EXCEPT !.locals = 0]
      BY <3>4 DEF Enlarged
    <3> QED BY <3>1, <3>3, <3>4, <3>5, <3>6 DEF Zeroed, nil
  <2> QED BY <1>7, <2>1
<1> HIDE DEF q
<1>10. q.max \in Caps
  BY <1>7, OpenOK DEF Protos, q
<1>11. Holds(q.max, t)
  <2>1. /\ q.max["code"] >= rm["code"] /\ q.max["consts"] >= rm["consts"]
        /\ q.max["imports"] >= rm["imports"] /\ q.max["nesteds"] >= rm["nesteds"]
    BY <1>8 DEF Sections
  <2>2. /\ q.max.code \in Nat /\ q.max.consts \in Nat /\ q.max.imports \in Nat
        /\ q.max.nesteds \in Nat /\ rm.code \in Nat /\ rm.consts \in Nat /\ rm.imports \in Nat
        /\ rm.nesteds \in Nat
    BY <1>4, <1>10 DEF Caps
  <2>3. /\ rm.code <= q.max.code /\ rm.consts <= q.max.consts
        /\ rm.imports <= q.max.imports /\ rm.nesteds <= q.max.nesteds
    BY <2>1, <2>2
  <2> QED BY <1>5, <1>10, <2>3 DEF Holds
<1>12. Shown(b, q) = Rec(EMPTY, EMPTY, 0, <<>>, <<>>, <<>>)
  <2>1. Tidy(b)
    BY <1>7 DEF Good
  <2>2. Shown(b, q) = Promise!Blank
    BY <1>9, <2>1, NoText, ShownZeroed
  <2> QED BY <2>2 DEF Rec, Promise!Blank
<1>13. q.nesteds = <<>>
  BY <1>9 DEF Zeroed
<1>14. Only(a, b)
  BY <1>7 DEF Alone
<1>15. b.asserts
  BY <1>7 DEF Alone
<1>16. Reads(a, b, Rec(EMPTY, EMPTY, 0, <<>>, <<>>, <<>>), q.max)
  BY <1>12, <1>14, <1>15 DEF Reads, q
<1> QED BY <1>11, <1>13, <1>16 DEF q

\* What a prototype shows that was written as t, apart from those nested in it.
AsRead(t) == Rec(t.source, t.symbol, t.locals, t.code, t.consts, t.imports)

\* It shows what was written, and has room for those that will be nested in it.
LEMMA ReadIntoIs ==
  ASSUME NEW a, Good(a), a.asserts, aasm_prototype(a) = Zeroed(DefaultRoom),
         NEW t \in Writings
  PROVE  \E room : Reads(a, ReadInto(a, t), AsRead(t), room) /\ Holds(room, t)
<1> DEFINE b == aasm_reserve(a, Needed(t))
           c == SetName(b, "source", t.source)
           d == SetName(c, "symbol", t.symbol)
           e == Filled(d, t)
           f == AddConsts(e, t.consts)
           g == AddImports(f, t.imports)
<1>1. /\ t.source \in Words /\ t.symbol \in Words /\ t.locals \in AnyLocals
      /\ t.code \in Seq(AnyCode) /\ t.consts \in Seq(Plain \cup [string : Words])
      /\ t.imports \in Seq([module : Words, name : Words]) /\ t.nesteds \in Nat
  BY DEF Writings
<1>2. ReadInto(a, t) = g
  BY DEF ReadInto, Headed
<1>3. PICK room : /\ Reads(a, b, Rec(EMPTY, EMPTY, 0, <<>>, <<>>, <<>>), room)
                  /\ Holds(room, t) /\ aasm_prototype(b).nesteds = <<>>
  BY ReadBegin
<1>4. room.consts \in Nat /\ room.imports \in Nat
  BY <1>3 DEF Holds, Caps
<1> HIDE DEF b
<1>5. Reads(a, c, Rec(t.source, EMPTY, 0, <<>>, <<>>, <<>>), room)
  <2> DEFINE u == Rec(EMPTY, EMPTY, 0, <<>>, <<>>, <<>>)
  <2>1. WithMember(u, "source", t.source) = Rec(t.source, EMPTY, 0, <<>>, <<>>, <<>>)
    BY RecSet
  <2> HIDE DEF u
  <2>2. Reads(a, c, WithMember(u, "source", t.source), room)
    BY <1>1, <1>3, ReadName DEF u
  <2> QED BY <2>1, <2>2
<1> HIDE DEF c
<1>6. Reads(a, d, Rec(t.source, t.symbol, 0, <<>>, <<>>, <<>>), room)
  <2> DEFINE u == Rec(t.source, EMPTY, 0, <<>>, <<>>, <<>>)
  <2>1. WithMember(u, "symbol", t.symbol) = Rec(t.source, t.symbol, 0, <<>>, <<>>, <<>>)
    BY RecSet
  <2> HIDE DEF u
  <2>2. Reads(a, d, WithMember(u, "symbol", t.symbol), room)
    BY <1>1, <1>5, ReadName DEF u
  <2> QED BY <2>1, <2>2
<1>7. aasm_prototype(d).nesteds = <<>>
  <2>1. Only(a, d)
    BY <1>6 DEF Reads
  <2>2. aasm_prototype(d).nesteds = aasm_prototype(a).nesteds
    BY <2>1 DEF Only, Goes, Steady
  <2> QED BY <2>2 DEF Zeroed
<1> HIDE DEF d
<1>8. Reads(a, e, Rec(t.source, t.symbol, t.locals, t.code, <<>>, <<>>), room)
  <2>1. Len(t.code) <= room.code
    BY <1>3 DEF Holds
  <2> QED BY <1>1, <1>6, <1>7, <2>1, ReadFilled
<1> HIDE DEF e
<1>9. Reads(a, f, Rec(t.source, t.symbol, t.locals, t.code, t.consts, <<>>), room)
  <2>1. Len(t.consts) <= room.consts
    BY <1>3 DEF Holds
  <2> QED BY <1>1, <1>4, <1>8, <2>1, ReadConsts
<1> HIDE DEF f
<1>10. Reads(a, g, Rec(t.source, t.symbol, t.locals, t.code, t.consts, t.imports), room)
  <2>1. Len(t.imports) <= room.imports
    BY <1>3 DEF Holds
  <2> QED BY <1>1, <1>4, <1>9, <2>1, ReadImports
<1> QED BY <1>2, <1>3, <1>10 DEF AsRead

-----------------------------------------------------------------------------
\* Prototypes that are read one after the other, as copies of those the walk sees.

\* What a prototype shows, apart from those nested in it.
Bare(a, p) ==
  Rec(Text(a, p.source), Text(a, p.symbol), p.locals, p.code, ConstsOf(a, p.consts),
      ImportsOf(a, p.imports))

\* Prototypes that show the same do so without those nested in them.
LEMMA BareShown ==
  ASSUME NEW a, NEW b, NEW p, NEW q, Shown(b, q) = Shown(a, p)
  PROVE  Bare(b, q) = Bare(a, p)
<1>1. Shows(b, q) = Shows(a, p)
  BY ShownIs
<1>2. /\ Text(b, q.source) = Text(a, p.source) /\ Text(b, q.symbol) = Text(a, p.symbol)
      /\ q.locals = p.locals /\ q.code = p.code /\ ConstsOf(b, q.consts) = ConstsOf(a, p.consts)
      /\ ImportsOf(b, q.imports) = ImportsOf(a, p.imports)
  BY <1>1 DEF Shows
<1> QED BY <1>2 DEF Bare

\* One that has none nested in it shows nothing else.
LEMMA BareRec ==
  ASSUME NEW b, NEW q, NEW s, NEW y, NEW l, NEW c, NEW k, NEW i,
         Shown(b, q) = Rec(s, y, l, c, k, i)
  PROVE  Bare(b, q) = Rec(s, y, l, c, k, i)
<1>1. Shows(b, q) = Rec(s, y, l, c, k, i)
  BY ShownIs
<1>2. /\ Text(b, q.source) = s /\ Text(b, q.symbol) = y
      /\ q.locals = l /\ q.code = c /\ ConstsOf(b, q.consts) = k
      /\ ImportsOf(b, q.imports) = i
  BY <1>1 DEF Shows, Rec
<1> QED BY <1>2 DEF Bare

\* Prototypes are closed, and nothing else changes.
LEMMA ClosedIs ==
  ASSUME NEW b, Good(b), NEW L \in 1 .. Len(b.context), NEW c, c = ClosedTo(b, L)
  PROVE  /\ Good(c) /\ c.slots = b.slots /\ c.buff = b.buff /\ c.st = b.st
         /\ c.asserts = b.asserts
         /\ Len(c.context) = L /\ \A i \in 1 .. L : c.context[i] = b.context[i]
<1> DEFINE C == [slot : SlotsIn(b), idx : Nat]
           x == b.context
           d == SubSeq(x, 1, L)
<1>1. x \in Seq(C) /\ c = [b EXCEPT !.context = d] /\ Len(x) \in Nat /\ L \in 1 .. Len(x)
  BY LenProperties DEF Good, Opened, ClosedTo
<1> HIDE DEF C, x
<1>2. d \in Seq(C) /\ Len(d) = L /\ \A i \in 1 .. L : d[i] = x[i]
  BY <1>1
<1>3. d # <<>>
  BY <1>1, <1>2, EmptySeq
<1> HIDE DEF d
<1>4. Good(c) /\ c.slots = b.slots /\ c.context = d /\ c.st = b.st
  BY <1>1, <1>2, <1>3, ContextOK DEF C
<1>5. c.asserts = b.asserts
  BY <1>1, <1>2, <1>3, ContextOK DEF C
<1>6. c.buff = b.buff
  <2>1. Shape(b)
    BY DEF Good, Tidy
  <2> QED BY <1>1, <2>1 DEF Shape
<1> QED BY <1>2, <1>4, <1>5, <1>6 DEF x

\* One more is nested in h, and nothing else changes in those that were there.
Adopts(a, b, h, N) ==
  /\ Good(b) /\ b.asserts /\ N = Len(a.slots) /\ Len(b.slots) = N + 1
  /\ \A s \in SlotsIn(a) :
       /\ Bare(b, At(b, s)) = Bare(a, At(a, s)) /\ At(b, s).max = At(a, s).max
       /\ Kids(b, s) = IF s = h THEN Append(Kids(a, s), N) ELSE Kids(a, s)
  /\ Kids(b, N) = <<>>

\* It is open, in those that are open up to a level.
OpensIn(a, b, L, N) ==
  /\ Len(b.context) = L + 1 /\ b.context[L + 1].slot = N
  /\ \A i \in 1 .. L : b.context[i].slot = a.context[i].slot

\* The same with one more nested in it.
WithOneMore(a, q, c, p) ==
  /\ Bare(a, p) = Bare(a, q) /\ p.max = q.max
  /\ p.nesteds = Append(q.nesteds, c)

\* The parent of the new prototype shows what it did.
LEMMA BareNested ==
  ASSUME NEW a, NEW R, NEW n, NEW q \in Protos(R, n), NEW c, NEW p, p = WithNested(q, c)
  PROVE  WithOneMore(a, q, c, p)
<1>1. q = [source |-> q.source, symbol |-> q.symbol, locals |-> q.locals, code |-> q.code,
           consts |-> q.consts, imports |-> q.imports, nesteds |-> q.nesteds, max |-> q.max]
  BY MembersOf
<1> DEFINE e == Append(q.nesteds, c)
<1>2. p = [q EXCEPT !.nesteds = e]
  BY DEF WithNested
<1> HIDE DEF e
<1>3. p = [source |-> q.source, symbol |-> q.symbol, locals |-> q.locals, code |-> q.code,
           consts |-> q.consts, imports |-> q.imports, nesteds |-> e, max |-> q.max]
  BY <1>1, <1>2
<1>4. /\ p.source = q.source /\ p.symbol = q.symbol /\ p.locals = q.locals /\ p.code = q.code
      /\ p.consts = q.consts /\ p.imports = q.imports /\ p.nesteds = e /\ p.max = q.max
  BY <1>3
<1> QED BY <1>4 DEF Bare, WithOneMore, e

\* What a prototype shows depends on the string table only.
LEMMA BareSt ==
  ASSUME NEW a, NEW b, b.st = a.st, NEW p
  PROVE  Bare(b, p) = Bare(a, p)
<1>1. Shown(b, p) = Shown(a, p)
  BY ShownSt
<1> QED BY <1>1, BareShown

\* aasm_push when there is room for one more.
LEMMA PushAdopts ==
  ASSUME NEW c, Good(c), c.asserts, HasRoom(c, "nesteds"), NEW f, f = aasm_push(c),
         NEW N, N = Len(c.slots)
  PROVE  /\ Adopts(c, f, Slot(c), N) /\ OpensIn(c, f, Len(c.context), N)
         /\ aasm_prototype(f) = Zeroed(DefaultRoom) /\ Slot(f) = N
<1>1. Pushes(c, c, f) /\ f.st = c.st
  BY PushIs
<1>2. Good(f) /\ f.asserts /\ Len(f.slots) = N + 1
  BY <1>1 DEF Pushes
<1>3. /\ \A s \in SlotsIn(c) \ {Slot(c)} : At(f, s) = At(c, s)
      /\ At(f, Slot(c)) = WithNested(aasm_prototype(c), N)
      /\ At(f, N) = Zeroed(DefaultRoom)
  BY <1>1 DEF Pushes, WithNested
<1>4. PICK i \in Nat : f.context = Append(c.context, [slot |-> N, idx |-> i])
  BY <1>1 DEF Pushes
<1>5. ASSUME NEW s \in SlotsIn(c)
      PROVE  /\ Bare(f, At(f, s)) = Bare(c, At(c, s)) /\ At(f, s).max = At(c, s).max
             /\ Kids(f, s) = IF s = Slot(c) THEN Append(Kids(c, s), N) ELSE Kids(c, s)
  <2>1. CASE s = Slot(c)
    <3> DEFINE q == aasm_prototype(c)
    <3>1. q \in Protos(DOMAIN c.st.text, Len(c.slots)) /\ q = At(c, s)
      BY <2>1, OpenOK DEF aasm_prototype
    <3> HIDE DEF q
    <3>2. PICK p : p = WithNested(q, N)
      OBVIOUS
    <3>3. WithOneMore(c, q, N, p)
      BY <3>1, <3>2, BareNested
    <3>4. At(f, s) = p
      BY <1>3, <2>1, <3>2 DEF q
    <3>5. Bare(f, p) = Bare(c, p)
      BY <1>1, BareSt
    <3> QED BY <2>1, <3>1, <3>3, <3>4, <3>5 DEF Kids, WithOneMore
  <2>2. CASE s # Slot(c)
    <3>1. At(f, s) = At(c, s)
      BY <1>3, <2>2
    <3>2. Bare(f, At(c, s)) = Bare(c, At(c, s))
      BY <1>1, BareSt
    <3> QED BY <2>2, <3>1, <3>2 DEF Kids
  <2> QED BY <2>1, <2>2
<1>6. Kids(f, N) = <<>>
  BY <1>3 DEF Kids, Zeroed
<1>7. Adopts(c, f, Slot(c), N)
  <2> DEFINE P(s) == /\ Bare(f, At(f, s)) = Bare(c, At(c, s)) /\ At(f, s).max = At(c, s).max
                     /\ Kids(f, s) = IF s = Slot(c) THEN Append(Kids(c, s), N) ELSE Kids(c, s)
  <2>1. \A s \in SlotsIn(c) : P(s)
    BY <1>5
  <2> QED BY <1>2, <1>6, <2>1, Zenon DEF Adopts
<1> DEFINE C == [slot : SlotsIn(c), idx : Nat]
           x == c.context
           y == [slot |-> N, idx |-> i]
           m == Len(x)
<1>8. x \in Seq(C) /\ m \in Nat
  BY LenProperties DEF Good, Opened
<1>9. /\ f.context = Append(x, y) /\ y.slot = N
  BY <1>4
<1> HIDE DEF C, x, y
<1>10. /\ Len(f.context) = m + 1 /\ f.context[m + 1] = y
       /\ \A j \in 1 .. m : f.context[j] = x[j]
  BY <1>8, <1>9, AppendProperties
<1>11. OpensIn(c, f, Len(c.context), N) /\ Slot(f) = N
  BY <1>9, <1>10 DEF OpensIn, Slot, x
<1> QED BY <1>3, <1>7, <1>11 DEF aasm_prototype

\* What was read shows t, and has room for those nested in t.
ReadAs(d, N, t) ==
  /\ Bare(d, At(d, N)) = AsRead(t)
  /\ At(d, N).max.nesteds \in Nat /\ t.nesteds <= At(d, N).max.nesteds

\* The new prototype is read, the others stay.
LEMMA ReadAdopts ==
  ASSUME NEW c, NEW f, NEW h, NEW L, NEW N, Good(c), Adopts(c, f, h, N), OpensIn(c, f, L, N),
         aasm_prototype(f) = Zeroed(DefaultRoom), Slot(f) = N,
         NEW t \in Writings, NEW d, d = ReadInto(f, t)
  PROVE  Adopts(c, d, h, N) /\ OpensIn(c, d, L, N) /\ ReadAs(d, N, t)
<1>1. Good(f) /\ N = Len(c.slots) /\ Len(f.slots) = N + 1 /\ Kids(f, N) = <<>>
  BY DEF Adopts
<1>2. f.asserts
  BY DEF Adopts
<1>3. PICK room : Reads(f, d, AsRead(t), room) /\ Holds(room, t)
  BY <1>1, <1>2, ReadIntoIs
<1>4. d.asserts
  BY <1>3 DEF Reads
<1>5. /\ Only(f, d) /\ Shown(d, aasm_prototype(d)) = AsRead(t)
      /\ aasm_prototype(d).max = room
  BY <1>3 DEF Reads
<1>6. /\ Good(d) /\ Len(d.slots) = Len(f.slots) /\ d.context = f.context
      /\ aasm_prototype(d).nesteds = aasm_prototype(f).nesteds
      /\ Extends(f.st, d.st)
      /\ \A s \in SlotsIn(f) \ {Slot(f)} : At(d, s) = At(f, s)
  BY <1>5 DEF Only, Goes, Steady
<1>7. Slot(d) = N
  BY <1>6 DEF Slot
<1>8. aasm_prototype(d) = At(d, N)
  BY <1>7 DEF aasm_prototype
<1>9. N \in Nat
  BY <1>1 DEF Good, Tree
<1>10. ASSUME NEW s \in SlotsIn(c)
       PROVE  /\ Bare(d, At(d, s)) = Bare(f, At(f, s)) /\ At(d, s) = At(f, s)
  <2>1. s \in SlotsIn(f) \ {Slot(f)}
    BY <1>1, <1>9 DEF SlotsIn
  <2>2. At(d, s) = At(f, s)
    BY <1>6, <2>1
  <2>3. Tidy(f)
    BY <1>1 DEF Good
  <2>4. At(f, s) \in Protos(DOMAIN f.st.text, Len(f.slots))
    BY <2>1, <2>3, AtOK
  <2>5. Shown(d, At(f, s)) = Shown(f, At(f, s))
    BY <1>6, <2>4, ShownOn
  <2> QED BY <2>2, <2>5, BareShown
<1>11. Kids(d, N) = <<>>
  BY <1>6, <1>8 DEF Kids, Zeroed
<1>12. Adopts(c, d, h, N)
  <2>1. \A s \in SlotsIn(c) :
          /\ Bare(f, At(f, s)) = Bare(c, At(c, s)) /\ At(f, s).max = At(c, s).max
          /\ Kids(f, s) = IF s = h THEN Append(Kids(c, s), N) ELSE Kids(c, s)
    BY DEF Adopts
  <2>2. ASSUME NEW s \in SlotsIn(c)
        PROVE  /\ Bare(d, At(d, s)) = Bare(c, At(c, s)) /\ At(d, s).max = At(c, s).max
               /\ Kids(d, s) = IF s = h THEN Append(Kids(c, s), N) ELSE Kids(c, s)
    <3>1. Bare(d, At(d, s)) = Bare(f, At(f, s)) /\ At(d, s) = At(f, s)
      BY <1>10
    <3>2. Kids(d, s) = Kids(f, s)
      BY <3>1 DEF Kids
    <3> QED BY <2>1, <3>1, <3>2
  <2> DEFINE P(s) == /\ Bare(d, At(d, s)) = Bare(c, At(c, s)) /\ At(d, s).max = At(c, s).max
                     /\ Kids(d, s) = IF s = h THEN Append(Kids(c, s), N) ELSE Kids(c, s)
  <2>3. \A s \in SlotsIn(c) : P(s)
    BY <2>2
  <2>4. Len(d.slots) = N + 1
    BY <1>1, <1>6
  <2> QED BY <1>1, <1>4, <1>6, <1>11, <2>3, <2>4, Zenon DEF Adopts
<1>13. OpensIn(c, d, L, N)
  BY <1>6 DEF OpensIn
<1>14. ReadAs(d, N, t)
  <2>1. Bare(d, At(d, N)) = AsRead(t)
    BY <1>5, <1>8, BareRec DEF AsRead
  <2>2. At(d, N).max.nesteds \in Nat /\ t.nesteds <= At(d, N).max.nesteds
    BY <1>3, <1>5, <1>8 DEF Holds, Caps
  <2> QED BY <2>1, <2>2 DEF ReadAs
<1> QED BY <1>12, <1>13, <1>14

\* A prototype is read into the one that is open at its level.
LEMMA ReadNestedIs ==
  ASSUME NEW b, Good(b), b.asserts, NEW L \in 1 .. Len(b.context), NEW h, h = b.context[L].slot,
         Len(Kids(b, h)) < At(b, h).max.nesteds, NEW t \in Writings,
         NEW x, x = [level |-> L, proto |-> t], NEW d, d = ReadNested(b, x),
         NEW N, N = Len(b.slots)
  PROVE  Adopts(b, d, h, N) /\ OpensIn(b, d, L, N) /\ ReadAs(d, N, t)
<1> DEFINE c == ClosedTo(b, L)
           f == aasm_push(c)
<1>1. /\ Good(c) /\ c.slots = b.slots /\ c.buff = b.buff /\ c.st = b.st
      /\ Len(c.context) = L /\ \A i \in 1 .. L : c.context[i] = b.context[i]
  BY ClosedIs
<1>2. c.asserts
  BY ClosedIs
<1>3. x.level = L /\ x.proto = t
  OBVIOUS
<1>4. ReadNested(b, x) = IF f.asserts THEN ReadInto(f, t) ELSE f
  BY <1>3 DEF ReadNested, ReadPushed, Pushed
<1> HIDE DEF c
<1>5. \A s : At(c, s) = At(b, s)
  BY <1>1 DEF At
<1>6. Slot(c) = h
  <2>1. L \in 1 .. L
    <3>1. b.context \in Seq([slot : SlotsIn(b), idx : Nat])
      BY DEF Good, Opened
    <3>2. Len(b.context) \in Nat
      BY <3>1, LenProperties
    <3> QED BY <3>2
  <2> QED BY <1>1, <2>1 DEF Slot
<1>7. HasRoom(c, "nesteds")
  BY <1>5, <1>6 DEF HasRoom, aasm_prototype, Kids
<1>8. N = Len(c.slots)
  BY <1>1
<1>9. /\ Adopts(c, f, h, N) /\ OpensIn(c, f, L, N)
      /\ aasm_prototype(f) = Zeroed(DefaultRoom) /\ Slot(f) = N
  BY <1>1, <1>2, <1>6, <1>7, <1>8, PushAdopts
<1>10. f.asserts
  BY <1>9 DEF Adopts
<1>11. d = ReadInto(f, t)
  BY <1>4, <1>10
<1> HIDE DEF f
<1>12. Adopts(c, d, h, N) /\ OpensIn(c, d, L, N) /\ ReadAs(d, N, t)
  BY <1>1, <1>9, <1>11, ReadAdopts
<1>13. OpensIn(b, d, L, N)
  BY <1>1, <1>12 DEF OpensIn
<1>14. Adopts(b, d, h, N)
  <2>1. SlotsIn(c) = SlotsIn(b)
    BY <1>1 DEF SlotsIn
  <2>2. \A s : Kids(c, s) = Kids(b, s) /\ Bare(c, At(c, s)) = Bare(b, At(b, s))
    BY <1>1, <1>5, BareSt DEF Kids
  <2> DEFINE P(a, s) == /\ Bare(d, At(d, s)) = Bare(a, At(a, s)) /\ At(d, s).max = At(a, s).max
                        /\ Kids(d, s) = IF s = h THEN Append(Kids(a, s), N) ELSE Kids(a, s)
  <2>3. \A s \in SlotsIn(b) : P(b, s)
    <3> TAKE s \in SlotsIn(b)
    <3>1. P(c, s)
      BY <1>12, <2>1 DEF Adopts
    <3> QED BY <1>5, <2>2, <3>1
  <2>4. Good(d) /\ Len(d.slots) = N + 1 /\ Kids(d, N) = <<>>
    BY <1>12 DEF Adopts
  <2>5. d.asserts
    BY <1>12 DEF Adopts
  <2> QED BY <2>3, <2>4, <2>5, Zenon DEF Adopts
<1> QED BY <1>12, <1>13, <1>14

\* The prototypes nested in the one that slot s of the loaded program copies.
Src(a, w, s) == Kids(a, w.seen[s + 1].slot)

\* A copy shows what the original does, and has room for as many nested ones.
Copied(a, w, b) ==
  \A s \in SlotsIn(b) :
    /\ Bare(b, At(b, s)) = Bare(a, At(a, w.seen[s + 1].slot))
    /\ At(b, s).max.nesteds \in Nat /\ Len(Src(a, w, s)) <= At(b, s).max.nesteds

\* What is nested in a copy are the copies of the first ones of the original.
Ranked(a, w, b) ==
  \A s \in SlotsIn(b) :
    /\ Len(Kids(b, s)) <= Len(Src(a, w, s))
    /\ \A i \in 1 .. Len(Kids(b, s)) : w.seen[Kids(b, s)[i] + 1].slot = Src(a, w, s)[i]

\* What the walk has still to see is nested in an original whose copy is open,
\* and has no copy there yet.
Parents(a, w, b) ==
  \A x \in 1 .. Len(w.todo) :
    /\ w.todo[x].level \in 1 .. Len(b.context)
    /\ \E i \in Len(Kids(b, b.context[w.todo[x].level].slot)) + 1
                  .. Len(Src(a, w, b.context[w.todo[x].level].slot)) :
         Src(a, w, b.context[w.todo[x].level].slot)[i] = w.todo[x].slot

\* What has no copy yet is still to be seen, each after the one before it.
InTurn(a, w, b) ==
  \A s \in SlotsIn(b) : \A i \in Len(Kids(b, s)) + 1 .. Len(Src(a, w, s)) :
    \E x \in 1 .. Len(w.todo) :
      /\ w.todo[x].slot = Src(a, w, s)[i]
      /\ i - 1 > Len(Kids(b, s)) =>
           \E y \in 1 .. x - 1 : w.todo[y].slot = Src(a, w, s)[i - 1]

\* b is what was loaded of a when the walk over a is w.
Copies(a, w, b) ==
  /\ Good(b) /\ b.asserts /\ Len(b.slots) = Len(w.seen) /\ b.context[1].slot = 0
  /\ Copied(a, w, b) /\ Ranked(a, w, b) /\ Parents(a, w, b) /\ InTurn(a, w, b)

\* No prototype is nested twice, as the walk has seen them.
Apart(a, w, b) ==
  /\ \A s \in SlotsIn(b) :
       /\ s \in Nat /\ s + 1 \in 1 .. Len(w.seen)
       /\ w.seen[s + 1] \in Visits(a) /\ w.seen[s + 1].slot \in SlotsIn(a)
       /\ Src(a, w, s) \in Seq(SlotsIn(a)) /\ Len(Src(a, w, s)) \in Nat
       /\ Kids(b, s) \in Seq(SlotsIn(b)) /\ Len(Kids(b, s)) \in Nat
       /\ \A i \in 1 .. Len(Kids(b, s)) : Kids(b, s)[i] \in SlotsIn(b)
  /\ \A s, t \in SlotsIn(b) : \A i \in 1 .. Len(Src(a, w, s)), j \in 1 .. Len(Src(a, w, t)) :
       Src(a, w, s)[i] = Src(a, w, t)[j] => s = t /\ i = j
  /\ Len(w.todo) \in Nat
  /\ \A x, y \in 1 .. Len(w.todo) : w.todo[x].slot = w.todo[y].slot => x = y
  /\ Len(b.context) \in Nat /\ \A i \in 1 .. Len(b.context) : b.context[i].slot \in SlotsIn(b)

\* It follows from the shape of the program and of the walk.
LEMMA ApartIs ==
  ASSUME NEW a, Tree(a), NEW w, Walked(a, w), NEW b, Good(b), Len(b.slots) = Len(w.seen)
  PROVE  Apart(a, w, b)
<1>1. w.seen \in Seq(Visits(a)) /\ w.todo \in Seq(Visits(a)) /\ Once(w.seen) /\ Once(w.todo)
  BY DEF Walked
<1>2. /\ Len(w.seen) \in Nat /\ Len(w.todo) \in Nat
      /\ DOMAIN w.seen = 1 .. Len(w.seen) /\ DOMAIN w.todo = 1 .. Len(w.todo)
  BY <1>1, LenProperties
<1>3. ASSUME NEW s \in SlotsIn(b)
      PROVE  /\ s \in Nat /\ s + 1 \in 1 .. Len(w.seen)
             /\ w.seen[s + 1] \in Visits(a) /\ w.seen[s + 1].slot \in SlotsIn(a)
             /\ Src(a, w, s) \in Seq(SlotsIn(a)) /\ Len(Src(a, w, s)) \in Nat
             /\ Kids(b, s) \in Seq(SlotsIn(b)) /\ Len(Kids(b, s)) \in Nat
             /\ \A i \in 1 .. Len(Kids(b, s)) : Kids(b, s)[i] \in SlotsIn(b)
  <2>1. s \in Nat /\ s + 1 \in 1 .. Len(w.seen)
    BY <1>2 DEF SlotsIn
  <2>2. w.seen[s + 1] \in Visits(a)
    BY <1>1, <1>2, <2>1, ElementOfSeq
  <2>3. w.seen[s + 1].slot \in SlotsIn(a)
    BY <2>2 DEF Visits
  <2>4. Src(a, w, s) \in Seq(SlotsIn(a))
    BY <2>3 DEF Tree, Src
  <2>5. Kids(b, s) \in Seq(SlotsIn(b))
    BY DEF Good, Tree
  <2>6. Len(Src(a, w, s)) \in Nat /\ Len(Kids(b, s)) \in Nat
    BY <2>4, <2>5, LenProperties
  <2>7. \A i \in 1 .. Len(Kids(b, s)) : Kids(b, s)[i] \in SlotsIn(b)
    BY <2>5, <2>6, ElementOfSeq
  <2> QED BY <2>1, <2>2, <2>3, <2>4, <2>5, <2>6, <2>7
<1>4. ASSUME NEW s \in SlotsIn(b), NEW t \in SlotsIn(b),
             NEW i \in 1 .. Len(Src(a, w, s)), NEW j \in 1 .. Len(Src(a, w, t)),
             Src(a, w, s)[i] = Src(a, w, t)[j]
      PROVE  s = t /\ i = j
  <2> DEFINE x == w.seen[s + 1].slot
             y == w.seen[t + 1].slot
  <2>1. x \in SlotsIn(a) /\ y \in SlotsIn(a) /\ s \in Nat /\ t \in Nat
        /\ s + 1 \in 1 .. Len(w.seen) /\ t + 1 \in 1 .. Len(w.seen)
    BY <1>3
  <2>2. Kids(a, x)[i] = Kids(a, y)[j]
    BY <1>4 DEF Src
  <2>3. i \in DOMAIN Kids(a, x) /\ j \in DOMAIN Kids(a, y)
    <3>1. /\ Src(a, w, s) \in Seq(SlotsIn(a)) /\ Src(a, w, t) \in Seq(SlotsIn(a))
      BY <1>3
    <3>2. i \in DOMAIN Src(a, w, s) /\ j \in DOMAIN Src(a, w, t)
      BY <3>1, LenProperties
    <3> QED BY <3>2 DEF Src
  <2>4. x = y /\ i = j
    <3> HIDE DEF x, y
    <3> QED BY <2>1, <2>2, <2>3 DEF Tree
  <2>5. s + 1 = t + 1
    BY <1>1, <1>2, <2>1, <2>4 DEF Once
  <2> QED BY <2>1, <2>4, <2>5
<1>5. \A x, y \in 1 .. Len(w.todo) : w.todo[x].slot = w.todo[y].slot => x = y
  BY <1>1, <1>2 DEF Once
<1>6. Len(b.context) \in Nat /\ \A i \in 1 .. Len(b.context) : b.context[i].slot \in SlotsIn(b)
  <2> DEFINE C == [slot : SlotsIn(b), idx : Nat]
  <2>1. b.context \in Seq(C)
    BY DEF Good, Opened
  <2> HIDE DEF C
  <2>2. Len(b.context) \in Nat /\ \A i \in 1 .. Len(b.context) : b.context[i] \in C
    BY <2>1, LenProperties, ElementOfSeq
  <2> QED BY <2>2 DEF C
<1> QED BY <1>2, <1>3, <1>4, <1>5, <1>6, Zenon DEF Apart

\* The next one to be seen is the next one to be nested in h, the prototype
\* that is open at its level.
Turn(a, w, b, v, h, k) ==
  /\ v = w.todo[1] /\ v.level \in 1 .. Len(b.context)
  /\ h = b.context[v.level].slot /\ h \in SlotsIn(b)
  /\ k = Len(Kids(b, h)) + 1 /\ k \in 1 .. Len(Src(a, w, h)) /\ Src(a, w, h)[k] = v.slot

\* Whatever is still to be seen comes in its turn.
LEMMA TurnIs ==
  ASSUME NEW a, NEW w, NEW b, Apart(a, w, b), Parents(a, w, b), InTurn(a, w, b),
         Len(w.todo) # 0
  PROVE  \E v, h, k : Turn(a, w, b, v, h, k)
<1>1. Len(w.todo) \in Nat /\ 1 \in 1 .. Len(w.todo)
  <2>1. Len(w.todo) \in Nat
    BY DEF Apart
  <2> QED BY <2>1
<1> DEFINE v == w.todo[1]
           h == b.context[v.level].slot
           S == Src(a, w, h)
           n == Len(Kids(b, h))
<1>2. PICK i \in n + 1 .. Len(S) : S[i] = v.slot
  BY <1>1 DEF Parents
<1>3. v.level \in 1 .. Len(b.context)
  BY <1>1 DEF Parents
<1>4. h \in SlotsIn(b)
  BY <1>3 DEF Apart
<1>5. n \in Nat /\ Len(S) \in Nat
  BY <1>4 DEF Apart
<1>6. PICK x \in 1 .. Len(w.todo) :
        /\ w.todo[x].slot = S[i]
        /\ i - 1 > n => \E y \in 1 .. x - 1 : w.todo[y].slot = S[i - 1]
  BY <1>2, <1>4 DEF InTurn
<1>7. x = 1
  BY <1>1, <1>2, <1>6 DEF Apart
<1>8. ~(i - 1 > n)
  BY <1>6, <1>7
<1>9. i = n + 1
  BY <1>2, <1>5, <1>8
<1>10. i \in 1 .. Len(S)
  BY <1>2, <1>5
<1> HIDE DEF v, S
<1>11. Turn(a, w, b, v, h, i)
  BY <1>2, <1>3, <1>4, <1>9, <1>10 DEF Turn, v, S
<1> QED BY <1>11

\* One step of the walk, and of the loading that follows it: N is the new copy,
\* the k-th one nested in h, and m are nested in its original.
Moves(a, w, n, b, d, v, h, k, N, m) ==
  /\ N \in Nat /\ m \in Nat /\ SlotsIn(d) = SlotsIn(b) \cup {N} /\ N \notin SlotsIn(b)
  /\ \A s \in SlotsIn(b) : n.seen[s + 1] = w.seen[s + 1] /\ Src(a, n, s) = Src(a, w, s)
  /\ n.seen[N + 1] = v /\ Src(a, n, N) = Kids(a, v.slot) /\ m = Len(Kids(a, v.slot))
  /\ \A s \in SlotsIn(b) : s # h => Kids(d, s) = Kids(b, s)
  /\ k = Len(Kids(b, h)) + 1 /\ Len(Kids(d, h)) = k /\ Kids(d, h)[k] = N
  /\ \A i \in 1 .. k - 1 : Kids(d, h)[i] = Kids(b, h)[i]
  /\ Kids(d, N) = <<>>
  /\ Len(n.todo) = m + Len(w.todo) - 1
  /\ \A i \in 1 .. m : n.todo[i] = [slot |-> Kids(a, v.slot)[i], level |-> v.level + 1]
  /\ \A i \in m + 1 .. Len(n.todo) : n.todo[i] = w.todo[i - m + 1]

\* What the steps of the walk and of the loading say together.
LEMMA MovesIs ==
  ASSUME NEW a, NEW w, NEW n, NEW b, NEW d, NEW v, NEW h, NEW k, NEW N, NEW m,
         Apart(a, w, b), Turn(a, w, b, v, h, k), IsFurther(a, w, v, n), Adopts(b, d, h, N),
         Len(b.slots) = Len(w.seen), Good(b), m = Len(Kids(a, v.slot))
  PROVE  Moves(a, w, n, b, d, v, h, k, N, m)
<1>1. /\ Len(n.seen) = Len(w.seen) + 1 /\ n.seen[Len(w.seen) + 1] = v
      /\ \A i \in 1 .. Len(w.seen) : n.seen[i] = w.seen[i]
      /\ m \in Nat /\ Len(n.todo) = m + Len(w.todo) - 1
      /\ \A i \in 1 .. m : n.todo[i] = [slot |-> Kids(a, v.slot)[i], level |-> v.level + 1]
      /\ \A i \in m + 1 .. Len(n.todo) : n.todo[i] = w.todo[i - m + 1]
  BY DEF IsFurther
<1>2. /\ N = Len(b.slots) /\ Len(d.slots) = N + 1
      /\ \A s \in SlotsIn(b) : Kids(d, s) = IF s = h THEN Append(Kids(b, s), N) ELSE Kids(b, s)
      /\ Kids(d, N) = <<>>
  BY DEF Adopts
<1>3. N \in Nat
  BY <1>2 DEF Good, Tree
<1>4. SlotsIn(d) = SlotsIn(b) \cup {N} /\ N \notin SlotsIn(b)
  BY <1>2, <1>3 DEF SlotsIn
<1>5. \A s \in SlotsIn(b) : n.seen[s + 1] = w.seen[s + 1] /\ Src(a, n, s) = Src(a, w, s)
  <2> TAKE s \in SlotsIn(b)
  <2>1. s + 1 \in 1 .. Len(w.seen)
    BY DEF Apart
  <2>2. n.seen[s + 1] = w.seen[s + 1]
    BY <1>1, <2>1
  <2> QED BY <2>2 DEF Src
<1>6. n.seen[N + 1] = v /\ Src(a, n, N) = Kids(a, v.slot)
  <2>1. n.seen[N + 1] = v
    BY <1>1, <1>2
  <2> QED BY <2>1 DEF Src
<1>7. h \in SlotsIn(b) /\ k = Len(Kids(b, h)) + 1
  BY DEF Turn
<1>8. /\ Len(Kids(d, h)) = k /\ Kids(d, h)[k] = N
      /\ \A i \in 1 .. k - 1 : Kids(d, h)[i] = Kids(b, h)[i]
  <2> DEFINE q == Kids(b, h)
             r == Kids(d, h)
             D == SlotsIn(b)
  <2>1. q \in Seq(D) /\ r = Append(q, N) /\ Len(q) \in Nat
    BY <1>2, <1>7 DEF Apart
  <2>2. k = Len(q) + 1
    BY <1>7
  <2> HIDE DEF q, r, D
  <2>3. Len(r) = Len(q) + 1 /\ r[Len(q) + 1] = N /\ \A i \in 1 .. Len(q) : r[i] = q[i]
    BY <2>1, AppendProperties
  <2>4. k - 1 = Len(q)
    BY <2>1, <2>2
  <2> QED BY <2>2, <2>3, <2>4 DEF q, r
<1>9. \A s \in SlotsIn(b) : s # h => Kids(d, s) = Kids(b, s)
  BY <1>2
<1> QED BY <1>1, <1>2, <1>3, <1>4, <1>5, <1>6, <1>7, <1>8, <1>9, Zenon DEF Moves

\* The new copy shows what its original does.
LEMMA CopiedOn ==
  ASSUME NEW a, NEW w, NEW n, NEW b, NEW d, NEW v, NEW h, NEW k, NEW N, NEW m,
         Moves(a, w, n, b, d, v, h, k, N, m), Adopts(b, d, h, N), Copied(a, w, b),
         NEW t, ReadAs(d, N, t), AsRead(t) = Bare(a, At(a, v.slot)), t.nesteds = m
  PROVE  Copied(a, n, d)
<1>1. ASSUME NEW s \in SlotsIn(b)
      PROVE  /\ Bare(d, At(d, s)) = Bare(a, At(a, n.seen[s + 1].slot))
             /\ At(d, s).max.nesteds \in Nat /\ Len(Src(a, n, s)) <= At(d, s).max.nesteds
  <2>1. n.seen[s + 1] = w.seen[s + 1] /\ Src(a, n, s) = Src(a, w, s)
    BY DEF Moves
  <2>2. Bare(d, At(d, s)) = Bare(b, At(b, s)) /\ At(d, s).max = At(b, s).max
    BY DEF Adopts
  <2>3. /\ Bare(b, At(b, s)) = Bare(a, At(a, w.seen[s + 1].slot))
        /\ At(b, s).max.nesteds \in Nat /\ Len(Src(a, w, s)) <= At(b, s).max.nesteds
    BY DEF Copied
  <2> QED BY <2>1, <2>2, <2>3
<1>2. /\ Bare(d, At(d, N)) = Bare(a, At(a, n.seen[N + 1].slot))
      /\ At(d, N).max.nesteds \in Nat /\ Len(Src(a, n, N)) <= At(d, N).max.nesteds
  <2>1. n.seen[N + 1] = v /\ Len(Src(a, n, N)) = m
    BY DEF Moves
  <2> QED BY <2>1 DEF ReadAs
<1> DEFINE P(s) == /\ Bare(d, At(d, s)) = Bare(a, At(a, n.seen[s + 1].slot))
                   /\ At(d, s).max.nesteds \in Nat /\ Len(Src(a, n, s)) <= At(d, s).max.nesteds
<1>3. P(N) /\ \A s \in SlotsIn(b) : P(s)
  BY <1>1, <1>2
<1>4. SlotsIn(d) = SlotsIn(b) \cup {N}
  BY DEF Moves
<1>5. \A s \in SlotsIn(d) : P(s)
  <2> HIDE DEF P
  <2> QED BY <1>3, <1>4
<1> QED BY <1>5 DEF Copied

\* It is the copy of the next one.
LEMMA RankedOn ==
  ASSUME NEW a, NEW w, NEW n, NEW b, NEW d, NEW v, NEW h, NEW k, NEW N, NEW m,
         Moves(a, w, n, b, d, v, h, k, N, m), Apart(a, w, b), Turn(a, w, b, v, h, k),
         Ranked(a, w, b)
  PROVE  Ranked(a, n, d)
<1> DEFINE P(s) == /\ Len(Kids(d, s)) <= Len(Src(a, n, s))
                   /\ \A i \in 1 .. Len(Kids(d, s)) :
                        n.seen[Kids(d, s)[i] + 1].slot = Src(a, n, s)[i]
<1>1. ASSUME NEW s \in SlotsIn(b)
      PROVE  /\ Src(a, n, s) = Src(a, w, s) /\ Len(Kids(b, s)) <= Len(Src(a, w, s))
             /\ Len(Kids(b, s)) \in Nat /\ Len(Src(a, w, s)) \in Nat
             /\ \A i \in 1 .. Len(Kids(b, s)) :
                  n.seen[Kids(b, s)[i] + 1].slot = Src(a, w, s)[i]
  <2>1. /\ Len(Kids(b, s)) <= Len(Src(a, w, s))
        /\ \A i \in 1 .. Len(Kids(b, s)) : w.seen[Kids(b, s)[i] + 1].slot = Src(a, w, s)[i]
    BY DEF Ranked
  <2>2. /\ Len(Kids(b, s)) \in Nat /\ Len(Src(a, w, s)) \in Nat
        /\ \A i \in 1 .. Len(Kids(b, s)) : Kids(b, s)[i] \in SlotsIn(b)
    BY DEF Apart
  <2>3. /\ Src(a, n, s) = Src(a, w, s)
        /\ \A c \in SlotsIn(b) : n.seen[c + 1] = w.seen[c + 1]
    BY DEF Moves
  <2> QED BY <2>1, <2>2, <2>3
<1>2. ASSUME NEW s \in SlotsIn(b), s # h
      PROVE  P(s)
  <2>1. Kids(d, s) = Kids(b, s)
    BY <1>2 DEF Moves
  <2> QED BY <1>1, <2>1
<1>3. h \in SlotsIn(b) /\ k \in 1 .. Len(Src(a, w, h)) /\ Src(a, w, h)[k] = v.slot
      /\ k = Len(Kids(b, h)) + 1
  BY DEF Turn
<1>4. P(h)
  <2>1. /\ Len(Kids(d, h)) = k /\ Kids(d, h)[k] = N
        /\ \A i \in 1 .. k - 1 : Kids(d, h)[i] = Kids(b, h)[i]
        /\ n.seen[N + 1] = v
    BY DEF Moves
  <2>2. /\ Src(a, n, h) = Src(a, w, h) /\ Len(Kids(b, h)) \in Nat /\ Len(Src(a, w, h)) \in Nat
        /\ \A i \in 1 .. Len(Kids(b, h)) : n.seen[Kids(b, h)[i] + 1].slot = Src(a, w, h)[i]
    BY <1>1, <1>3
  <2>3. k \in Nat /\ k - 1 = Len(Kids(b, h)) /\ k <= Len(Src(a, n, h))
    BY <1>3, <2>2
  <2>4. ASSUME NEW i \in 1 .. k
        PROVE  n.seen[Kids(d, h)[i] + 1].slot = Src(a, n, h)[i]
    <3>1. CASE i = k
      BY <1>3, <2>1, <2>2, <3>1
    <3>2. CASE i # k
      <4>1. i \in 1 .. k - 1
        BY <2>3, <3>2
      <4> QED BY <2>1, <2>2, <2>3, <4>1
    <3> QED BY <3>1, <3>2
  <2> QED BY <2>1, <2>3, <2>4
<1>5. P(N)
  <2>1. Kids(d, N) = <<>> /\ Len(Src(a, n, N)) = m /\ m \in Nat
    BY DEF Moves
  <2>2. Len(Kids(d, N)) = 0
    BY <2>1, EmptySeq
  <2> QED BY <2>1, <2>2
<1>6. SlotsIn(d) = SlotsIn(b) \cup {N}
  BY DEF Moves
<1>7. \A s \in SlotsIn(d) : P(s)
  <2> HIDE DEF P
  <2> QED BY <1>2, <1>4, <1>5, <1>6
<1> QED BY <1>7 DEF Ranked

\* An original that has still to be seen as the i-th one nested in that of s.
Awaits(a, w, b, s, x) ==
  \E i \in Len(Kids(b, s)) + 1 .. Len(Src(a, w, s)) : Src(a, w, s)[i] = w.todo[x].slot

\* The prototypes into which the next ones go are open.
LEMMA ParentsOn ==
  ASSUME NEW a, NEW w, NEW n, NEW b, NEW d, NEW v, NEW h, NEW k, NEW N, NEW m,
         Moves(a, w, n, b, d, v, h, k, N, m), Apart(a, w, b), Turn(a, w, b, v, h, k),
         OpensIn(b, d, v.level, N), Levelled(w), Parents(a, w, b)
  PROVE  Parents(a, n, d)
<1> DEFINE L == v.level
           G(x) == d.context[n.todo[x].level].slot
<1>1. /\ N \in Nat /\ m \in Nat /\ Src(a, n, N) = Kids(a, v.slot) /\ m = Len(Kids(a, v.slot))
      /\ Kids(d, N) = <<>> /\ Len(n.todo) = m + Len(w.todo) - 1
  BY DEF Moves
<1>1a. \A i \in 1 .. m : n.todo[i].slot = Kids(a, v.slot)[i] /\ n.todo[i].level = v.level + 1
  <2>1. \A i \in 1 .. m : n.todo[i] = [slot |-> Kids(a, v.slot)[i], level |-> v.level + 1]
    BY Zenon DEF Moves
  <2> TAKE i \in 1 .. m
  <2>2. n.todo[i] = [slot |-> Kids(a, v.slot)[i], level |-> v.level + 1]
    BY <2>1
  <2> QED BY ONLY <2>2
<1>1c. m \in Nat /\ Len(n.todo) = m + Len(w.todo) - 1
  BY <1>1
<1>1b. \A i \in m + 1 .. Len(n.todo) : n.todo[i] = w.todo[i - m + 1]
  BY DEF Moves
<1> HIDE DEF L
<1>2. /\ v = w.todo[1] /\ L \in 1 .. Len(b.context) /\ h = b.context[L].slot
      /\ h \in SlotsIn(b) /\ k = Len(Kids(b, h)) + 1 /\ k \in 1 .. Len(Src(a, w, h))
      /\ Src(a, w, h)[k] = v.slot
  BY DEF Turn, L
<1>3. Len(b.context) \in Nat /\ L \in Nat /\ L >= 1 /\ Len(w.todo) \in Nat /\ Len(n.todo) \in Int
  <2>1. Len(b.context) \in Nat /\ Len(w.todo) \in Nat
    BY DEF Apart
  <2> QED BY <1>1, <1>2, <2>1
<1>4. /\ Len(d.context) = L + 1 /\ d.context[L + 1].slot = N
      /\ \A i \in 1 .. L : d.context[i].slot = b.context[i].slot
  BY DEF OpensIn, L
<1>5. ASSUME NEW x \in 1 .. m
      PROVE  n.todo[x].level \in 1 .. Len(d.context) /\ Awaits(a, n, d, G(x), x)
  <2>1. n.todo[x].slot = Kids(a, v.slot)[x] /\ n.todo[x].level = L + 1
    BY <1>1a DEF L
  <2>2. G(x) = N /\ n.todo[x].level \in 1 .. Len(d.context)
    BY <1>3, <1>4, <2>1
  <2>3. x \in Len(Kids(d, N)) + 1 .. Len(Src(a, n, N))
    <3>1. Len(Kids(d, N)) = 0
      BY <1>1, EmptySeq
    <3> QED BY <1>1, <3>1
  <2>4. Src(a, n, N)[x] = n.todo[x].slot
    BY <1>1, <2>1
  <2>5. Awaits(a, n, d, N, x)
    BY <2>3, <2>4 DEF Awaits
  <2> QED BY <2>2, <2>5
<1>6. ASSUME NEW x \in m + 1 .. Len(n.todo)
      PROVE  n.todo[x].level \in 1 .. Len(d.context) /\ Awaits(a, n, d, G(x), x)
  <2> DEFINE y == x - m + 1
             g == b.context[w.todo[y].level].slot
             S == Src(a, w, g)
  <2>1. y \in 2 .. Len(w.todo) /\ n.todo[x] = w.todo[y]
    <3>1. n.todo[x] = w.todo[y]
      BY <1>1b
    <3> HIDE DEF L
    <3>2. y \in 2 .. Len(w.todo)
      BY <1>1c, <1>3
    <3> QED BY <3>1, <3>2
  <2>2. y \in 1 .. Len(w.todo) /\ y # 1 /\ 1 \in 1 .. Len(w.todo)
    BY <1>3, <2>1
  <2>3. w.todo[y].level \in 1 .. Len(b.context)
    BY <2>2 DEF Parents
  <2>4. PICK i \in Len(Kids(b, g)) + 1 .. Len(S) : S[i] = w.todo[y].slot
    BY <2>2 DEF Parents
  <2>5. w.todo[y].level <= L
    <3>1. 1 \in DOMAIN w.todo /\ y \in DOMAIN w.todo
      <4>1. DOMAIN w.todo = 1 .. Len(w.todo)
        BY DEF Apart
      <4> QED BY <2>2, <4>1
    <3>2. 1 < y
      BY <2>1
    <3>3. \A i1, j1 \in DOMAIN w.todo : i1 < j1 => w.todo[j1].level <= w.todo[i1].level
      BY DEF Levelled
    <3> HIDE DEF y
    <3>4. w.todo[y].level <= w.todo[1].level
      BY <3>1, <3>2, <3>3
    <3> QED BY <1>2, <3>4 DEF L
  <2> HIDE DEF y
  <2>6. w.todo[y].level \in 1 .. L /\ w.todo[y].level \in 1 .. Len(d.context)
    BY <1>3, <1>4, <2>3, <2>5
  <2>7. G(x) = g
    BY <1>4, <2>1, <2>6
  <2>8. g \in SlotsIn(b)
    BY <2>3 DEF Apart
  <2>9. Src(a, n, g) = S
    BY <2>8 DEF Moves
  <2>10. i \in Len(Kids(d, g)) + 1 .. Len(S)
    <3>1. CASE g # h
      <4>1. Kids(d, g) = Kids(b, g)
        BY <2>8, <3>1 DEF Moves
      <4> QED BY <2>4, <4>1
    <3>2. CASE g = h
      <4>1. Len(Kids(d, g)) = k
        BY <3>2 DEF Moves
      <4>2. i # k
        <5>1. w.todo[y].slot # w.todo[1].slot
          BY <2>2 DEF Apart
        <5> QED BY <1>2, <2>4, <3>2, <5>1
      <4>3. Len(Kids(b, h)) \in Nat /\ Len(S) \in Nat
        BY <2>8, <3>2 DEF Apart
      <4>4. k = Len(Kids(b, h)) + 1 /\ i \in Len(Kids(b, h)) + 1 .. Len(S)
        BY <1>2, <2>4, <3>2
      <4> HIDE DEF S, g
      <4>5. i \in k + 1 .. Len(S)
        BY <4>2, <4>3, <4>4
      <4> QED BY <4>1, <4>5
    <3> QED BY <3>1, <3>2
  <2> HIDE DEF g, S
  <2>11. Awaits(a, n, d, g, x)
    BY <2>1, <2>4, <2>9, <2>10 DEF Awaits
  <2> QED BY <2>1, <2>6, <2>7, <2>11
<1>7. \A x \in 1 .. Len(n.todo) : n.todo[x].level \in 1 .. Len(d.context) /\ Awaits(a, n, d, G(x), x)
  <2> HIDE DEF G
  <2> TAKE x \in 1 .. Len(n.todo)
  <2>1. x \in 1 .. m \/ x \in m + 1 .. Len(n.todo)
    BY <1>1c, <1>3
  <2> QED BY <1>5, <1>6, <2>1
<1> QED BY <1>7 DEF Parents, Awaits

\* Whatever has no copy yet is still to be seen in its turn.
Waits(a, w, b, s, i) ==
  \E x \in 1 .. Len(w.todo) :
    /\ w.todo[x].slot = Src(a, w, s)[i]
    /\ i - 1 > Len(Kids(b, s)) =>
         \E y \in 1 .. x - 1 : w.todo[y].slot = Src(a, w, s)[i - 1]

\* It is after the step too.
LEMMA InTurnOn ==
  ASSUME NEW a, NEW w, NEW n, NEW b, NEW d, NEW v, NEW h, NEW k, NEW N, NEW m,
         Moves(a, w, n, b, d, v, h, k, N, m), Apart(a, w, b), Turn(a, w, b, v, h, k),
         InTurn(a, w, b)
  PROVE  InTurn(a, n, d)
<1>1. /\ N \in Nat /\ m \in Nat /\ Src(a, n, N) = Kids(a, v.slot) /\ m = Len(Kids(a, v.slot))
      /\ Kids(d, N) = <<>> /\ Len(n.todo) = m + Len(w.todo) - 1
  BY DEF Moves
<1>1a. \A i \in 1 .. m : n.todo[i].slot = Kids(a, v.slot)[i] /\ n.todo[i].level = v.level + 1
  <2>1. \A i \in 1 .. m : n.todo[i] = [slot |-> Kids(a, v.slot)[i], level |-> v.level + 1]
    BY Zenon DEF Moves
  <2> TAKE i \in 1 .. m
  <2>2. n.todo[i] = [slot |-> Kids(a, v.slot)[i], level |-> v.level + 1]
    BY <2>1
  <2> QED BY ONLY <2>2
<1>1c. m \in Nat /\ Len(n.todo) = m + Len(w.todo) - 1
  BY <1>1
<1>1b. \A i \in m + 1 .. Len(n.todo) : n.todo[i] = w.todo[i - m + 1]
  BY DEF Moves
<1>2. /\ v = w.todo[1] /\ h \in SlotsIn(b) /\ k = Len(Kids(b, h)) + 1
      /\ k \in 1 .. Len(Src(a, w, h)) /\ Src(a, w, h)[k] = v.slot
  BY DEF Turn
<1>3. Len(w.todo) \in Nat /\ Len(n.todo) \in Int
  <2>1. Len(w.todo) \in Nat
    BY DEF Apart
  <2> QED BY <1>1, <2>1
<1>4. ASSUME NEW i \in Len(Kids(d, N)) + 1 .. Len(Src(a, n, N))
      PROVE  Waits(a, n, d, N, i)
  <2>1. Len(Kids(d, N)) = 0
    BY <1>1, EmptySeq
  <2>2. i \in 1 .. m
    BY <1>1, <2>1
  <2>3. \A j \in 1 .. m : n.todo[j].slot = Src(a, n, N)[j]
    BY <1>1, <1>1a
  <2>4. Len(w.todo) >= 1
    <3>1. Len(Src(a, w, h)) \in Nat /\ h \in SlotsIn(b) /\ Len(Kids(b, h)) \in Nat
      BY <1>2 DEF Apart
    <3>2. k \in Len(Kids(b, h)) + 1 .. Len(Src(a, w, h))
      BY <1>2, <3>1
    <3>3. \E x \in 1 .. Len(w.todo) : w.todo[x].slot = Src(a, w, h)[k]
      BY <3>1, <3>2 DEF InTurn
    <3> QED BY <1>3, <3>3
  <2>5. i \in 1 .. Len(n.todo)
    <3>1. m <= Len(n.todo)
      BY <1>1c, <1>3, <2>4
    <3>2. i \in Nat /\ 1 <= i /\ i <= m
      BY <1>1c, <2>2
    <3>3. i <= Len(n.todo)
      BY <1>1c, <1>3, <3>1, <3>2
    <3> QED BY <1>3, <3>2, <3>3
  <2>6. i - 1 > Len(Kids(d, N)) => i - 1 \in 1 .. i - 1 /\ i - 1 \in 1 .. m
    BY <1>1, <2>1, <2>2
  <2> QED BY <2>2, <2>3, <2>5, <2>6 DEF Waits
<1>5. ASSUME NEW s \in SlotsIn(b), NEW i \in Len(Kids(d, s)) + 1 .. Len(Src(a, n, s))
      PROVE  Waits(a, n, d, s, i)
  <2> DEFINE S == Src(a, w, s)
             q == Len(Kids(b, s))
             r == Len(Kids(d, s))
  <2>1. /\ Src(a, n, s) = S /\ q \in Nat /\ Len(S) \in Nat
        /\ IF s = h THEN r = q + 1 /\ k = q + 1 ELSE r = q
    <3>1. Src(a, n, s) = S /\ q \in Nat /\ Len(S) \in Nat
      BY DEF Moves, Apart
    <3>2. IF s = h THEN r = q + 1 /\ k = q + 1 ELSE r = q
      BY DEF Moves
    <3> QED BY <3>1, <3>2
  <2>2. \A j \in 1 .. Len(S) : S[j] = v.slot => s = h /\ j = k
    <3>1. h \in SlotsIn(b) /\ k \in 1 .. Len(Src(a, w, h)) /\ Src(a, w, h)[k] = v.slot
      BY <1>2
    <3>2. \A x \in 1 .. Len(Src(a, w, s)), y \in 1 .. Len(Src(a, w, h)) :
            Src(a, w, s)[x] = Src(a, w, h)[y] => s = h /\ x = y
      BY <3>1 DEF Apart
    <3> QED BY ONLY <3>1, <3>2
  <2>3. \A j \in q + 1 .. Len(S) : \E x \in 1 .. Len(w.todo) :
          /\ w.todo[x].slot = S[j]
          /\ j - 1 > q => \E y \in 1 .. x - 1 : w.todo[y].slot = S[j - 1]
    BY DEF InTurn
  <2>4. i \in r + 1 .. Len(S)
    BY <2>1
  <2> HIDE DEF S, q, r
  <2>5. i \in q + 1 .. Len(S) /\ i \in 1 .. Len(S)
    BY <2>1, <2>4
  <2>6. PICK x \in 1 .. Len(w.todo) :
          /\ w.todo[x].slot = S[i]
          /\ i - 1 > q => \E y \in 1 .. x - 1 : w.todo[y].slot = S[i - 1]
    BY <2>3, <2>5
  <2>7. S[i] # v.slot
    BY <2>1, <2>2, <2>4, <2>5
  <2>8. x # 1
    BY <1>2, <2>6, <2>7
  <2> DEFINE z == x + m - 1
  <2>9. z \in m + 1 .. Len(n.todo) /\ z \in 1 .. Len(n.todo) /\ z - m + 1 = x
    BY <1>1, <1>3, <2>8
  <2>10. n.todo[z] = w.todo[x]
    <3> HIDE DEF z
    <3> QED BY <1>1b, <2>9
  <2>11. ASSUME i - 1 > r
         PROVE  \E y \in 1 .. z - 1 : n.todo[y].slot = S[i - 1]
    <3>1. i - 1 > q /\ i - 1 \in 1 .. Len(S) /\ ~(s = h /\ i - 1 = k)
      BY <2>1, <2>4, <2>11
    <3>2. PICK y \in 1 .. x - 1 : w.todo[y].slot = S[i - 1]
      BY <2>6, <3>1
    <3>3. y # 1
      <4> DEFINE j == i - 1
      <4> HIDE DEF j
      <4>1. j \in 1 .. Len(S) /\ ~(s = h /\ j = k) /\ w.todo[y].slot = S[j]
        BY <3>1, <3>2 DEF j
      <4> QED BY <1>2, <2>2, <4>1
    <3> DEFINE u == y + m - 1
    <3>4. u \in m + 1 .. Len(n.todo) /\ u \in 1 .. z - 1 /\ u - m + 1 = y
      BY <1>1, <1>3, <3>3
    <3>5. n.todo[u] = w.todo[y]
      <4> HIDE DEF u
      <4> QED BY <1>1b, <3>4
    <3> HIDE DEF u, z
    <3> QED BY <3>2, <3>4, <3>5
  <2> HIDE DEF z
  <2>12. /\ n.todo[z].slot = S[i]
         /\ i - 1 > r => \E y \in 1 .. z - 1 : n.todo[y].slot = S[i - 1]
    BY <2>6, <2>10, <2>11
  <2>13. Src(a, n, s) = S
    BY <2>1
  <2> QED BY <2>9, <2>12, <2>13 DEF Waits, r
<1>6. SlotsIn(d) = SlotsIn(b) \cup {N}
  BY DEF Moves
<1>7. \A s \in SlotsIn(d) : \A i \in Len(Kids(d, s)) + 1 .. Len(Src(a, n, s)) : Waits(a, n, d, s, i)
  BY <1>4, <1>5, <1>6
<1> QED BY <1>7 DEF InTurn, Waits

-----------------------------------------------------------------------------
\* Saving and loading: all prototypes are copied, in the order of the walk.

\* What is saved of a prototype is what it shows, and how many are nested in it.
SavedAs(a, v, t) ==
  /\ Saved(a, v) = [level |-> v.level, proto |-> t] /\ t \in Writings
  /\ AsRead(t) = Bare(a, At(a, v.slot)) /\ t.nesteds = Len(Kids(a, v.slot))

\* set_headers and copy_prototype.
LEMMA SavedIs ==
  ASSUME NEW a, Good(a), NEW v \in Visits(a)
  PROVE  \E t : SavedAs(a, v, t)
<1> DEFINE h == v.slot
           p == At(a, h)
           u == Written(a, p)
           t == [u EXCEPT !.nesteds = Len(@)]
           x == Text(a, p.source)
           y == Text(a, p.symbol)
           k == ConstsOf(a, p.consts)
           m == ImportsOf(a, p.imports)
<1>1. h \in SlotsIn(a)
  BY DEF Visits
<1>2. t \in Writings
  BY <1>1, WrittenOK
<1>3. Saved(a, v) = [level |-> v.level, proto |-> t]
  BY DEF Saved
<1>4. u = [source |-> x, symbol |-> y, locals |-> p.locals, code |-> p.code,
           consts |-> k, imports |-> m, nesteds |-> p.nesteds]
  BY DEF Written, ConstsOf, ImportsOf
<1>5. PICK w : w = u
  OBVIOUS
<1> DEFINE n == Len(w.nesteds)
<1>6. t = [w EXCEPT !.nesteds = n]
  BY <1>5
<1> HIDE DEF u, x, y, k, m, p, n
<1>7. t = [source |-> x, symbol |-> y, locals |-> p.locals, code |-> p.code,
           consts |-> k, imports |-> m, nesteds |-> n]
  <2> HIDE DEF t
  <2> QED BY <1>4, <1>5, <1>6
<1> HIDE DEF t
<1>8. /\ t.source = x /\ t.symbol = y /\ t.locals = p.locals /\ t.code = p.code
      /\ t.consts = k /\ t.imports = m /\ t.nesteds = n
  BY <1>7
<1>9. w.nesteds = p.nesteds
  BY <1>4, <1>5
<1>10. n = Len(Kids(a, h))
  BY <1>9 DEF n, Kids, p
<1>11. AsRead(t) = Bare(a, p)
  BY <1>8 DEF AsRead, Bare, x, y, k, m
<1>12. SavedAs(a, v, t)
  BY <1>2, <1>3, <1>8, <1>10, <1>11 DEF SavedAs, p
<1> QED BY <1>12

\* A further prototype is loaded as the walk over the saved program goes on.
LEMMA CopyStep ==
  ASSUME NEW a, Good(a), NEW w, Walked(a, w), Levelled(w), w.todo # <<>>,
         NEW b, Copies(a, w, b),
         NEW d, d = ReadNested(b, Saved(a, Further(a, w).seen[Len(w.seen) + 1]))
  PROVE  Copies(a, Further(a, w), d)
<1>1. Tree(a) /\ Good(b) /\ Len(b.slots) = Len(w.seen)
  BY DEF Good, Copies
<1>2. b.asserts
  BY DEF Copies
<1>3. Copied(a, w, b) /\ Ranked(a, w, b) /\ Parents(a, w, b) /\ InTurn(a, w, b)
  BY DEF Copies
<1>4. Apart(a, w, b)
  BY <1>1, ApartIs
<1>5. Len(w.todo) # 0
  <2>1. w.todo \in Seq(Visits(a))
    BY DEF Walked
  <2> DEFINE V == Visits(a)
  <2> HIDE DEF V
  <2>2. \A q \in Seq(V) : Len(q) = 0 => q = <<>>
    BY EmptySeq, LenProperties
  <2> QED BY <2>1, <2>2 DEF V
<1>6. PICK v0, h, k : Turn(a, w, b, v0, h, k)
  BY <1>3, <1>4, <1>5, TurnIs
<1>7. PICK n : n = Further(a, w)
  OBVIOUS
<1>8. PICK v : IsFurther(a, w, v, n)
  BY <1>1, <1>7, FurtherStep
<1>9. v = w.todo[1] /\ v \in Visits(a) /\ n.seen[Len(w.seen) + 1] = v /\ Len(n.seen) = Len(w.seen) + 1
  BY <1>8 DEF IsFurther
<1>10. Turn(a, w, b, v, h, k)
  BY <1>6, <1>9 DEF Turn
<1>11. PICK t : SavedAs(a, v, t)
  BY <1>9, SavedIs
<1>12. d = ReadNested(b, Saved(a, v))
  BY <1>7, <1>9
<1> DEFINE N == Len(b.slots)
           L == v.level
           m == Len(Kids(a, v.slot))
<1>13. /\ L \in 1 .. Len(b.context) /\ h = b.context[L].slot /\ h \in SlotsIn(b)
       /\ k = Len(Kids(b, h)) + 1 /\ k \in 1 .. Len(Src(a, w, h))
  BY <1>10 DEF Turn
<1>14. Len(Kids(b, h)) < At(b, h).max.nesteds
  <2>1. At(b, h).max.nesteds \in Nat /\ Len(Src(a, w, h)) <= At(b, h).max.nesteds
    BY <1>3, <1>13 DEF Copied
  <2>2. Len(Kids(b, h)) \in Nat /\ Len(Src(a, w, h)) \in Nat
    BY <1>4, <1>13 DEF Apart
  <2> QED BY <1>13, <2>1, <2>2
<1>15. Saved(a, v) = [level |-> L, proto |-> t] /\ t \in Writings
       /\ AsRead(t) = Bare(a, At(a, v.slot)) /\ t.nesteds = m
  BY <1>11 DEF SavedAs
<1> HIDE DEF N, L, m
<1>16. Adopts(b, d, h, N) /\ OpensIn(b, d, L, N) /\ ReadAs(d, N, t)
  BY <1>1, <1>2, <1>12, <1>13, <1>14, <1>15, ReadNestedIs DEF N
<1>17. Moves(a, w, n, b, d, v, h, k, N, m)
  BY <1>1, <1>4, <1>8, <1>10, <1>16, MovesIs DEF m
<1>18. Copied(a, n, d)
  BY <1>3, <1>15, <1>16, <1>17, CopiedOn
<1>19. Ranked(a, n, d)
  BY <1>3, <1>4, <1>10, <1>17, RankedOn
<1>20. Parents(a, n, d)
  BY <1>3, <1>4, <1>10, <1>16, <1>17, ParentsOn DEF L
<1>21. InTurn(a, n, d)
  BY <1>3, <1>4, <1>10, <1>17, InTurnOn
<1>22. Good(d) /\ Len(d.slots) = Len(n.seen)
  BY <1>1, <1>9, <1>16 DEF Adopts, N
<1>23. d.asserts
  BY <1>16 DEF Adopts
<1>23a. d.context[1].slot = 0
  <2>1. 1 \in 1 .. L
    <3>1. Len(b.context) \in Nat
      BY <1>4 DEF Apart
    <3> QED BY <1>13, <3>1
  <2>2. b.context[1].slot = 0
    BY DEF Copies
  <2> QED BY <1>16, <2>1, <2>2 DEF OpensIn
<1>24. Copies(a, n, d)
  BY <1>18, <1>19, <1>20, <1>21, <1>22, <1>23, <1>23a DEF Copies
<1> QED BY <1>7, <1>24

\* The root is loaded as the walk begins.
LEMMA CopyRoot ==
  ASSUME NEW a, Good(a), NEW w, w = [seen |-> <<>>, todo |-> <<[slot |-> 0, level |-> 0]>>],
         Walked(a, w), NEW t, SavedAs(a, Further(a, w).seen[1], t),
         NEW b, b = ReadInto(Started, t)
  PROVE  Copies(a, Further(a, w), b)
<1>1. Tree(a)
  BY DEF Good
<1>2. w.seen = <<>> /\ w.todo = <<[slot |-> 0, level |-> 0]>>
  OBVIOUS
<1>3. Len(w.seen) = 0 /\ w.todo[1] = [slot |-> 0, level |-> 0] /\ w.todo # <<>> /\ Len(w.todo) = 1
  BY <1>2, EmptySeq
<1>4. PICK n : n = Further(a, w)
  OBVIOUS
<1>5. PICK v : IsFurther(a, w, v, n)
  BY <1>1, <1>3, <1>4, FurtherStep
<1> DEFINE m == Len(Kids(a, 0))
<1>6. v = [slot |-> 0, level |-> 0]
  BY <1>3, <1>5 DEF IsFurther
<1>7. v.slot = 0 /\ v.level = 0
  BY <1>6
<1>8. Len(n.seen) = 1 /\ n.seen[1] = v /\ m \in Nat /\ Len(n.todo) = m
  <2>1. Len(n.seen) = Len(w.seen) + 1 /\ n.seen[Len(w.seen) + 1] = v
        /\ m \in Nat /\ Len(n.todo) = m + Len(w.todo) - 1
    BY <1>5, <1>7 DEF IsFurther
  <2> HIDE DEF m
  <2>2. Len(w.seen) + 1 = 1 /\ m + Len(w.todo) - 1 = m
    BY <1>3, <2>1
  <2> QED BY <2>1, <2>2
<1>9. \A i \in 1 .. m : n.todo[i].slot = Kids(a, 0)[i] /\ n.todo[i].level = 1
  <2> TAKE i \in 1 .. m
  <2>1. n.todo[i] = [slot |-> Kids(a, v.slot)[i], level |-> v.level + 1]
    BY <1>5, <1>7 DEF IsFurther
  <2>2. v.level + 1 = 1
    BY <1>7
  <2>3. n.todo[i] = [slot |-> Kids(a, 0)[i], level |-> 1]
    BY <1>7, <2>1, <2>2
  <2> QED BY ONLY <2>3
<1> DEFINE s0 == Started
<1>10. /\ Good(s0) /\ Len(s0.context) = 1 /\ aasm_prototype(s0) = Zeroed(DefaultRoom)
       /\ Len(s0.slots) = 1
  BY StartedOK
<1>11. s0.asserts
  BY StartedOK
<1>12. t \in Writings /\ AsRead(t) = Bare(a, At(a, 0)) /\ t.nesteds = m
  BY <1>4, <1>7, <1>8 DEF SavedAs
<1> HIDE DEF s0, m
<1>13. PICK room : Reads(s0, b, AsRead(t), room) /\ Holds(room, t)
  BY <1>10, <1>11, <1>12, ReadIntoIs DEF s0
<1>14. b.asserts
  BY <1>13 DEF Reads
<1>15. /\ Only(s0, b) /\ Shown(b, aasm_prototype(b)) = AsRead(t)
       /\ aasm_prototype(b).max = room
  BY <1>13 DEF Reads
<1>16. /\ Good(b) /\ Len(b.slots) = 1 /\ Len(b.context) = 1
       /\ aasm_prototype(b).nesteds = aasm_prototype(s0).nesteds
  BY <1>10, <1>15 DEF Only, Goes, Steady
<1>17. SlotsIn(b) = {0}
  <2>1. \A x : x = 1 => 0 .. x - 1 = {0}
    OBVIOUS
  <2> QED BY <1>16, <2>1 DEF SlotsIn
<1>18. Slot(b) = 0 /\ b.context[1].slot = 0
  <2>1. Slot(b) \in SlotsIn(b)
    BY <1>16, SlotOK DEF Good
  <2> QED BY <1>16, <1>17, <2>1 DEF Slot
<1>19. aasm_prototype(b) = At(b, 0)
  BY <1>18 DEF aasm_prototype
<1>20. Kids(b, 0) = <<>> /\ Len(Kids(b, 0)) = 0
  <2>1. Kids(b, 0) = <<>>
    BY <1>10, <1>16, <1>19 DEF Kids, Zeroed
  <2> QED BY <2>1, EmptySeq
<1>21. Src(a, n, 0) = Kids(a, 0) /\ n.seen[0 + 1].slot = 0
  <2>1. 0 + 1 = 1
    OBVIOUS
  <2> QED BY <1>7, <1>8, <2>1 DEF Src
<1>22. Copied(a, n, b)
  <2>1. Bare(b, At(b, 0)) = Bare(a, At(a, 0))
    BY <1>12, <1>15, <1>19, BareRec DEF AsRead
  <2>2. At(b, 0).max.nesteds \in Nat /\ m <= At(b, 0).max.nesteds
    BY <1>12, <1>13, <1>15, <1>19 DEF Holds, Caps
  <2>3. Len(Src(a, n, 0)) = m
    BY <1>21 DEF m
  <2> QED BY <1>17, <1>21, <2>1, <2>2, <2>3 DEF Copied
<1>23. Ranked(a, n, b)
  <2>1. Len(Kids(b, 0)) <= Len(Src(a, n, 0))
    BY <1>8, <1>20, <1>21 DEF m
  <2>2. \A i \in 1 .. Len(Kids(b, 0)) : FALSE
    BY <1>20
  <2> QED BY <1>17, <2>1, <2>2 DEF Ranked
<1>24. Parents(a, n, b)
  <2>1. ASSUME NEW x \in 1 .. Len(n.todo)
        PROVE  /\ n.todo[x].level \in 1 .. Len(b.context)
               /\ \E i \in Len(Kids(b, b.context[n.todo[x].level].slot)) + 1
                             .. Len(Src(a, n, b.context[n.todo[x].level].slot)) :
                    Src(a, n, b.context[n.todo[x].level].slot)[i] = n.todo[x].slot
    <3>1. x \in 1 .. m
      BY <1>8
    <3>2. n.todo[x].level = 1 /\ n.todo[x].slot = Kids(a, 0)[x]
      BY <1>9, <3>1
    <3>3. x \in Len(Kids(b, 0)) + 1 .. Len(Src(a, n, 0))
      BY <1>20, <1>21, <3>1 DEF m
    <3>4. n.todo[x].level \in 1 .. Len(b.context)
      BY <1>16, <3>2
    <3> QED BY <1>18, <1>21, <3>2, <3>3, <3>4
  <2> QED BY <2>1 DEF Parents
<1>25. InTurn(a, n, b)
  <2>1. ASSUME NEW i \in Len(Kids(b, 0)) + 1 .. Len(Src(a, n, 0))
        PROVE  /\ i \in 1 .. Len(n.todo) /\ n.todo[i].slot = Src(a, n, 0)[i]
               /\ i - 1 > Len(Kids(b, 0)) =>
                    \E y \in 1 .. i - 1 : n.todo[y].slot = Src(a, n, 0)[i - 1]
    <3>1. i \in 1 .. m
      BY <1>20, <1>21 DEF m
    <3>2. i - 1 > Len(Kids(b, 0)) => i - 1 \in 1 .. m /\ i - 1 \in 1 .. i - 1
      BY <1>8, <1>20, <3>1
    <3>3. \A j \in 1 .. m : n.todo[j].slot = Src(a, n, 0)[j]
      BY <1>9, <1>21
    <3> QED BY <1>8, <3>1, <3>2, <3>3
  <2>2. \A i \in Len(Kids(b, 0)) + 1 .. Len(Src(a, n, 0)) : Waits(a, n, b, 0, i)
    BY <2>1 DEF Waits
  <2> QED BY <1>17, <2>2 DEF InTurn, Waits
<1>26. Copies(a, n, b)
  BY <1>8, <1>14, <1>16, <1>18, <1>22, <1>23, <1>24, <1>25 DEF Copies
<1> QED BY <1>4, <1>26

\* A chunk has all prototypes.
LEMMA SavedLen ==
  ASSUME NEW a, Good(a)
  PROVE  Len(save_chunk(a)) = Len(a.slots)
<1> DEFINE N == Len(a.slots)
           vs == Visit(a)
           c == save_chunk(a)
           S == {Saved(a, vs[k]) : k \in 1 .. N}
<1>1. Tree(a) /\ N \in Nat \ {0}
  BY DEF Good, Tree
<1>2. vs \in Seq(Visits(a)) /\ Len(vs) = N
  BY <1>1, VisitIs
<1>3. DOMAIN vs = 1 .. N
  BY <1>2, LenProperties
<1>4. c = [k \in 1 .. N |-> Saved(a, vs[k])]
  BY <1>3 DEF save_chunk, WrittenAll
<1> HIDE DEF c
<1>5. c \in [1 .. N -> S]
  BY <1>4
<1>6. Len(c) = N
  <2> HIDE DEF N, S
  <2> QED BY <1>1, <1>5, FunctionIsSeq
<1> QED BY <1>6 DEF c

\* All that the walk saw is loaded.
LEMMA LoadCopies ==
  ASSUME NEW a, Good(a)
  PROVE  \E G : /\ WalkIs(a, G)
                /\ Copies(a, G[Len(a.slots)], Loading(Started, save_chunk(a))[Len(a.slots)])
<1> DEFINE N == Len(a.slots)
           vs == Visit(a)
           c == save_chunk(a)
           B == Loading(Started, c)
<1>1. Tree(a) /\ N \in Nat \ {0}
  BY DEF Good, Tree
<1>2. PICK G : WalkIs(a, G)
  BY <1>1, WalkSees
<1>3. vs \in Seq(Visits(a)) /\ Len(vs) = N
  BY <1>1, VisitIs
<1>4. DOMAIN vs = 1 .. N
  BY <1>3, LenProperties
<1>6. Len(c) = N
  BY SavedLen
<1>7. \A k \in 1 .. N : c[k] = Saved(a, vs[k])
  BY <1>4 DEF save_chunk, WrittenAll
<1> HIDE DEF c, vs
<1>8. /\ B[1] = ReadInto(Started, c[1].proto)
      /\ \A k \in 2 .. N : B[k] = ReadNested(B[k - 1], c[k])
  <2>1. Len(c) \in Nat /\ Len(c) >= 1
    BY <1>1, <1>6
  <2> QED BY <1>6, <2>1, LoadingGoes
<1> HIDE DEF B, N
<1>9. /\ G[0] = [seen |-> <<>>, todo |-> <<[slot |-> 0, level |-> 0]>>]
      /\ \A i \in 0 .. N : Walked(a, G[i]) /\ Levelled(G[i]) /\ Len(G[i].seen) = i
      /\ \A i \in 1 .. N : G[i - 1].todo # <<>> /\ G[i] = Further(a, G[i - 1])
      /\ \A i \in 0 .. N : \A j \in 1 .. i : G[i].seen[j] = vs[j]
  BY <1>2 DEF WalkIs, N, vs
<1> DEFINE S == {k \in 1 .. N : Copies(a, G[k], B[k])}
<1>10. 1 \in S
  <2>1. 1 \in 1 .. N /\ 1 \in 0 .. N /\ 0 \in 0 .. N /\ 1 - 1 = 0 /\ 1 \in 1 .. 1
    BY <1>1 DEF N
  <2>2. PICK w : w = G[0]
    OBVIOUS
  <2>3. /\ w = [seen |-> <<>>, todo |-> <<[slot |-> 0, level |-> 0]>>] /\ Walked(a, w)
        /\ G[1] = Further(a, w) /\ G[1].seen[1] = vs[1]
    BY <1>9, <2>1, <2>2
  <2>4. vs[1] \in Visits(a)
    BY <1>3, <1>4, <2>1, ElementOfSeq
  <2>5. PICK t : SavedAs(a, vs[1], t)
    BY <2>4, SavedIs
  <2>6. c[1].proto = t
    BY <1>7, <2>1, <2>5 DEF SavedAs
  <2>7. Copies(a, Further(a, w), B[1])
    BY <1>8, <2>3, <2>5, <2>6, CopyRoot
  <2> QED BY <2>1, <2>3, <2>7
<1>11. ASSUME NEW k \in 1 .. N, k # 1, k - 1 \in S PROVE k \in S
  <2>1. k \in 2 .. N /\ k - 1 \in 0 .. N /\ k \in 0 .. N /\ k - 1 + 1 = k /\ k \in 1 .. k
    BY <1>1, <1>11 DEF N
  <2>2. PICK w : w = G[k - 1]
    OBVIOUS
  <2>3. /\ Walked(a, w) /\ Levelled(w) /\ w.todo # <<>> /\ G[k] = Further(a, w)
        /\ Len(w.seen) + 1 = k /\ G[k].seen[k] = vs[k]
    BY <1>9, <2>1, <2>2
  <2>4. Copies(a, w, B[k - 1])
    BY <1>11, <2>2
  <2>5. B[k] = ReadNested(B[k - 1], Saved(a, Further(a, w).seen[Len(w.seen) + 1]))
    BY <1>7, <1>8, <2>1, <2>3
  <2>6. Copies(a, Further(a, w), B[k])
    BY <2>3, <2>4, <2>5, CopyStep
  <2> QED BY <2>3, <2>6
<1>12. N \in S
  <2> HIDE DEF S
  <2>1. \A k \in 1 .. N : k # 1 /\ k - 1 \in S => k \in S
    BY <1>11
  <2>2. N \in Nat /\ N \in 1 .. N
    BY <1>1 DEF N
  <2>3. \A k \in 1 .. N : k \in S
    BY <1>10, <2>1, <2>2, StepByStep
  <2> QED BY <2>2, <2>3
<1>13. Copies(a, G[N], B[N])
  BY <1>12
<1> QED BY <1>2, <1>13 DEF N, B, c

\* b is a, saved and loaded: its slots are those of a in the order they were
\* saved.
Reloads(a, b) ==
  /\ Good(b) /\ Len(b.slots) = Len(a.slots) /\ b.context[1].slot = 0
  /\ \A s \in SlotsIn(b) :
       /\ Bare(b, At(b, s)) = Bare(a, At(a, Order(a)[s + 1]))
       /\ Len(Kids(b, s)) = Len(Kids(a, Order(a)[s + 1]))
       /\ \A i \in 1 .. Len(Kids(b, s)) :
            Order(a)[Kids(b, s)[i] + 1] = Kids(a, Order(a)[s + 1])[i]

\* The loaded program is the saved one.
LEMMA LoadReloads ==
  ASSUME NEW a, Good(a), NEW b, b = Loading(Started, save_chunk(a))[Len(a.slots)]
  PROVE  Reloads(a, b)
<1> DEFINE N == Len(a.slots)
<1>1. Tree(a) /\ N \in Nat \ {0}
  BY DEF Good, Tree
<1>2. PICK G : WalkIs(a, G) /\ Copies(a, G[N], b)
  BY LoadCopies
<1>3. PICK w : w = G[N]
  OBVIOUS
<1>4. Copies(a, w, b)
  BY <1>2, <1>3
<1>5. N \in 0 .. N
  BY <1>1
<1> HIDE DEF N
<1>6. /\ Walked(a, w) /\ Len(w.seen) = N /\ w.todo = <<>>
      /\ \A j \in 1 .. N : w.seen[j] = Visit(a)[j]
  BY <1>2, <1>3, <1>5 DEF WalkIs, N
<1>7. Good(b) /\ Len(b.slots) = N /\ b.context[1].slot = 0
  BY <1>4, <1>6 DEF Copies
<1>8. Apart(a, w, b)
  BY <1>1, <1>6, <1>7, ApartIs
<1>9. \A s \in SlotsIn(b) : w.seen[s + 1].slot = Order(a)[s + 1]
  <2>1. Visit(a) \in Seq(Visits(a)) /\ Len(Visit(a)) = N
    BY <1>1, VisitIs DEF N
  <2>2. DOMAIN Visit(a) = 1 .. N
    BY <2>1, LenProperties
  <2> TAKE s \in SlotsIn(b)
  <2>3. s + 1 \in 1 .. N
    BY <1>6, <1>8 DEF Apart
  <2> DEFINE j == s + 1
  <2> HIDE DEF j
  <2>4. w.seen[j].slot = Order(a)[j]
    BY <1>6, <2>2, <2>3 DEF Order, SlotsOf, j
  <2> QED BY <2>4 DEF j
<1>10. ASSUME NEW s \in SlotsIn(b)
       PROVE  /\ Bare(b, At(b, s)) = Bare(a, At(a, Order(a)[s + 1]))
              /\ Len(Kids(b, s)) = Len(Kids(a, Order(a)[s + 1]))
              /\ \A i \in 1 .. Len(Kids(b, s)) :
                   Order(a)[Kids(b, s)[i] + 1] = Kids(a, Order(a)[s + 1])[i]
  <2>1. Src(a, w, s) = Kids(a, Order(a)[s + 1])
    BY <1>9 DEF Src
  <2>2. Bare(b, At(b, s)) = Bare(a, At(a, Order(a)[s + 1]))
    BY <1>4, <1>9 DEF Copies, Copied
  <2>3. Len(Kids(b, s)) = Len(Src(a, w, s))
    <3>1. Len(Kids(b, s)) \in Nat /\ Len(Src(a, w, s)) \in Nat
      BY <1>8 DEF Apart
    <3>2. Len(Kids(b, s)) <= Len(Src(a, w, s))
      BY <1>4 DEF Copies, Ranked
    <3>3. ASSUME Len(Kids(b, s)) < Len(Src(a, w, s)) PROVE FALSE
      <4> DEFINE i == Len(Kids(b, s)) + 1
      <4>1. i \in Len(Kids(b, s)) + 1 .. Len(Src(a, w, s))
        BY <3>1, <3>3
      <4> HIDE DEF i
      <4>2. \E x \in 1 .. Len(w.todo) : w.todo[x].slot = Src(a, w, s)[i]
        BY <1>4, <4>1 DEF Copies, InTurn
      <4>3. Len(w.todo) = 0
        BY <1>6, EmptySeq
      <4> QED BY <4>2, <4>3
    <3> QED BY <3>1, <3>2, <3>3
  <2>4. ASSUME NEW i \in 1 .. Len(Kids(b, s))
        PROVE  Order(a)[Kids(b, s)[i] + 1] = Kids(a, Order(a)[s + 1])[i]
    <3>1. w.seen[Kids(b, s)[i] + 1].slot = Src(a, w, s)[i]
      BY <1>4 DEF Copies, Ranked
    <3>2. Kids(b, s)[i] \in SlotsIn(b)
      BY <1>8 DEF Apart
    <3> QED BY <1>9, <2>1, <3>1, <3>2
  <2> QED BY <2>1, <2>2, <2>3, <2>4
<1> QED BY <1>7, <1>10 DEF Reloads, N

\* Where each slot lies in an order of all slots; both count from 1.
Position(o, N) == [i \in 1 .. N |-> CHOOSE j \in 1 .. N : o[j] + 1 = i]

\* f is the place of each slot in the order o.
Places(o, N, f) ==
  /\ f \in [1 .. N -> 1 .. N] /\ f[1] = 1
  /\ \A i \in 1 .. N : o[f[i]] + 1 = i
  /\ \A j \in 1 .. N : o[j] + 1 \in 1 .. N /\ f[o[j] + 1] = j
  /\ \A i, j \in 1 .. N : f[i] = f[j] => i = j

\* In the order in which a is saved each slot has a place of its own, the root
\* the first.
LEMMA PositionIs ==
  ASSUME NEW a, Good(a), NEW N, N = Len(a.slots)
  PROVE  Places(Order(a), N, Position(Order(a), N))
<1> DEFINE o == Order(a)
           f == Position(o, N)
<1>1. Tree(a) /\ N \in Nat \ {0}
  BY DEF Good, Tree
<1>2. /\ o \in [1 .. N -> SlotsIn(a)]
      /\ \A i, j \in 1 .. N : o[i] = o[j] => i = j
      /\ \A s \in SlotsIn(a) : \E k \in 1 .. N : o[k] = s
  BY <1>1, OrderIs
<1>3. SlotsIn(a) = 0 .. N - 1
  BY DEF SlotsIn
<1>4. o[1] = 0
  <2>1. Visit(a)[1] = [slot |-> 0, level |-> 0] /\ Visit(a) \in Seq(Visits(a)) /\ Len(Visit(a)) = N
    BY <1>1, VisitIs
  <2>2. 1 \in DOMAIN Visit(a)
    BY <1>1, <2>1, LenProperties
  <2> QED BY <2>1, <2>2 DEF Order, SlotsOf
<1> HIDE DEF o
<1>5. \A j \in 1 .. N : o[j] + 1 \in 1 .. N
  BY <1>1, <1>2, <1>3
<1>6. ASSUME NEW i \in 1 .. N
      PROVE  \E j \in 1 .. N : o[j] + 1 = i
  <2>1. i - 1 \in SlotsIn(a) /\ i - 1 + 1 = i
    BY <1>1, <1>3
  <2>2. PICK k \in 1 .. N : o[k] = i - 1
    BY <1>2, <2>1
  <2> QED BY <2>1, <2>2
<1>7. \A i \in 1 .. N : f[i] \in 1 .. N /\ o[f[i]] + 1 = i
  BY <1>6 DEF Position
<1>8. f \in [1 .. N -> 1 .. N]
  BY <1>7 DEF Position
<1> HIDE DEF f
<1>9. \A j, k \in 1 .. N : o[j] + 1 = o[k] + 1 => j = k
  <2> TAKE j, k \in 1 .. N
  <2> HAVE o[j] + 1 = o[k] + 1
  <2>1. o[j] \in Int /\ o[k] \in Int
    BY <1>2, <1>3
  <2>2. o[j] = o[k]
    BY <2>1
  <2> QED BY <1>2, <2>2
<1>10. \A j \in 1 .. N : f[o[j] + 1] = j
  BY <1>5, <1>7, <1>9
<1>11. f[1] = 1
  <2>1. 1 \in 1 .. N /\ o[1] + 1 = 1
    BY <1>1, <1>4
  <2> QED BY <1>10, <2>1
<1>12. \A i, j \in 1 .. N : f[i] = f[j] => i = j
  BY <1>7
<1> QED BY <1>5, <1>7, <1>8, <1>10, <1>11, <1>12 DEF Places, o, f

\* The names of nested prototypes in another order.
Named(ns, f) == [k \in DOMAIN ns |-> f[ns[k]]]

\* Renamed changes them and nothing else.
LEMMA RenamedIs ==
  ASSUME NEW u, IsShown(u), NEW f
  PROVE  Promise!Renamed(u, f) =
           [source |-> u.source, symbol |-> u.symbol, locals |-> u.locals, code |-> u.code,
            consts |-> u.consts, imports |-> u.imports, nesteds |-> Named(u.nesteds, f)]
<1>1. u = [source |-> u.source, symbol |-> u.symbol, locals |-> u.locals, code |-> u.code,
           consts |-> u.consts, imports |-> u.imports, nesteds |-> u.nesteds]
  BY DEF IsShown
<1> DEFINE e == Named(u.nesteds, f)
<1>2. Promise!Renamed(u, f) = [u EXCEPT !.nesteds = e]
  BY <1>1 DEF Promise!Renamed, Named
<1> HIDE DEF e
<1>3. [u EXCEPT !.nesteds = e] = [source |-> u.source, symbol |-> u.symbol, locals |-> u.locals,
                                   code |-> u.code, consts |-> u.consts, imports |-> u.imports,
                                   nesteds |-> e]
  BY <1>1
<1> QED BY <1>2, <1>3 DEF e

\* A copy is its original, under the new names of those nested in it.
LEMMA CopyRenamed ==
  ASSUME NEW a, NEW b, NEW p, NEW q, Bare(b, q) = Bare(a, p), NEW f,
         NestedsOf(q.nesteds) = Named(NestedsOf(p.nesteds), f)
  PROVE  Shown(b, q) = Promise!Renamed(Shown(a, p), f)
<1>1. /\ Text(b, q.source) = Text(a, p.source) /\ Text(b, q.symbol) = Text(a, p.symbol)
      /\ q.locals = p.locals /\ q.code = p.code /\ ConstsOf(b, q.consts) = ConstsOf(a, p.consts)
      /\ ImportsOf(b, q.imports) = ImportsOf(a, p.imports)
  BY DEF Bare, Rec
<1>2. PICK u : u = Shown(a, p)
  OBVIOUS
<1>3. /\ u.source = Text(a, p.source) /\ u.symbol = Text(a, p.symbol) /\ u.locals = p.locals
      /\ u.code = p.code /\ u.consts = ConstsOf(a, p.consts)
      /\ u.imports = ImportsOf(a, p.imports) /\ u.nesteds = NestedsOf(p.nesteds)
  BY <1>2, ShownIs DEF Shows
<1>4. IsShown(u)
  BY <1>2, ShownMembers
<1>5. Promise!Renamed(u, f) =
        [source |-> u.source, symbol |-> u.symbol, locals |-> u.locals, code |-> u.code,
         consts |-> u.consts, imports |-> u.imports, nesteds |-> Named(u.nesteds, f)]
  BY <1>4, RenamedIs
<1>6. Shown(b, q) =
        [source |-> u.source, symbol |-> u.symbol, locals |-> u.locals, code |-> u.code,
         consts |-> u.consts, imports |-> u.imports, nesteds |-> Named(u.nesteds, f)]
  BY <1>1, <1>3, ShownIs DEF Shows
<1> QED BY <1>2, <1>5, <1>6

\* The program after it was saved and loaded.
LEMMA ReloadShows ==
  ASSUME NEW a, Good(a), NEW b, Reloads(a, b), NEW N, N = Len(a.slots),
         NEW f, Places(Order(a), N, f)
  PROVE  \A i \in 1 .. N : ProgramOf(b)[f[i]] = Promise!Renamed(ProgramOf(a)[i], f)
<1> DEFINE o == Order(a)
           P == ProgramOf(a)
           Q == ProgramOf(b)
<1>1. Good(b) /\ Len(b.slots) = N
  BY DEF Reloads
<1>2. /\ N \in Nat \ {0}
      /\ \A i \in 1 .. N : P[i] = Shown(a, At(a, i - 1)) /\ Q[i] = Shown(b, At(b, i - 1))
  BY <1>1, ProgramLen
<1>3. SlotsIn(a) = 0 .. N - 1 /\ SlotsIn(b) = 0 .. N - 1
  BY <1>1 DEF SlotsIn
<1>4. ASSUME NEW i \in 1 .. N
      PROVE  Q[f[i]] = Promise!Renamed(P[i], f)
  <2> DEFINE j == f[i]
             s == j - 1
             h == i - 1
             p == At(a, h)
             q == At(b, s)
             ks == Kids(a, h)
             ls == Kids(b, s)
  <2>1. j \in 1 .. N /\ o[j] + 1 = i
    BY DEF Places
  <2>2. s \in SlotsIn(b) /\ h \in SlotsIn(a) /\ s + 1 = j /\ h + 1 = i
    BY <1>2, <1>3, <2>1
  <2>3. o[j] = h
    <3>1. o[j] \in SlotsIn(a)
      <4>1. o \in [1 .. N -> SlotsIn(a)]
        BY OrderIs DEF Good
      <4> QED BY <2>1, <4>1
    <3> HIDE DEF j
    <3>2. o[j] \in Int
      BY <1>2, <1>3, <3>1
    <3> HIDE DEF o
    <3> QED BY <2>1, <3>2
  <2>4. P[i] = Shown(a, p) /\ Q[j] = Shown(b, q)
    BY <1>2, <2>1
  <2> HIDE DEF P, Q, o, j, s, h
  <2>5. /\ Bare(b, q) = Bare(a, p) /\ Len(ls) = Len(ks)
        /\ \A k \in 1 .. Len(ls) : o[ls[k] + 1] = ks[k]
    BY <2>2, <2>3 DEF Reloads, o
  <2>6. ks \in Seq(SlotsIn(a)) /\ ls \in Seq(SlotsIn(b))
    BY <1>1, <2>2 DEF Good, Tree
  <2>7. Len(ls) \in Nat /\ DOMAIN ls = 1 .. Len(ls) /\ DOMAIN ks = 1 .. Len(ls)
    BY <2>5, <2>6, LenProperties
  <2>8. p.nesteds = ks /\ q.nesteds = ls
    BY DEF Kids
  <2> HIDE DEF p, q, ks, ls
  <2>9. ASSUME NEW k \in 1 .. Len(ls)
        PROVE  ls[k] + 1 = f[ks[k] + 1]
    <3>1. ls[k] \in SlotsIn(b)
      BY <2>6, <2>7, ElementOfSeq
    <3> DEFINE x == ls[k] + 1
    <3>2. x \in 1 .. N
      BY <1>2, <1>3, <3>1
    <3> HIDE DEF x
    <3>3. f[o[x] + 1] = x
      BY <3>2 DEF Places, o
    <3> QED BY <2>5, <3>3 DEF x
  <2>10. NestedsOf(ls) = Named(NestedsOf(ks), f)
    <3>1. NestedsOf(ls) = [k \in 1 .. Len(ls) |-> ls[k] + 1]
      BY <2>7 DEF NestedsOf
    <3>2. DOMAIN NestedsOf(ks) = 1 .. Len(ls) /\ \A k \in 1 .. Len(ls) : NestedsOf(ks)[k] = ks[k] + 1
      BY <2>7 DEF NestedsOf
    <3>3. Named(NestedsOf(ks), f) = [k \in 1 .. Len(ls) |-> f[ks[k] + 1]]
      BY <3>2 DEF Named
    <3> QED BY <2>9, <3>1, <3>3
  <2>11. Shown(b, q) = Promise!Renamed(Shown(a, p), f)
    BY <2>5, <2>8, <2>10, CopyRenamed
  <2>12. Q[j] = Promise!Renamed(P[i], f)
    BY <2>4, <2>11
  <2> QED BY <2>12 DEF j
<1> QED BY <1>4

\* aasm_save, aasm_load.
LEMMA ReloadMap ==
  ASSUME AsmInv, SaveAndLoad
  PROVE  Mapped
<1> DEFINE N == Len(self.slots)
           b == Loading(Started, save_chunk(self))[N]
           P == ProgramOf(self)
           Q == ProgramOf(b)
<1>1. Good(self)
  BY ReadyIsGood DEF SaveAndLoad
<1>2. self' = ClosedTo(b, 1)
  BY <1>1, SavedLen DEF SaveAndLoad, load_chunk
<1>3. Reloads(self, b)
  BY <1>1, LoadReloads
<1> HIDE DEF b
<1>4. Good(b) /\ Len(b.slots) = N /\ b.context[1].slot = 0
  BY <1>3 DEF Reloads
<1>5. 1 \in 1 .. Len(b.context)
  <2>1. Len(b.context) \in Nat \ {0}
    BY <1>4, SlotOK DEF Good
  <2> QED BY <2>1
<1>6. /\ Good(self') /\ self'.slots = b.slots /\ self'.buff = b.buff /\ self'.st = b.st
      /\ Len(self'.context) = 1 /\ \A i \in 1 .. 1 : self'.context[i] = b.context[i]
  <2>1. PICK L : L = 1
    OBVIOUS
  <2>2. PICK c : c = ClosedTo(b, L)
    OBVIOUS
  <2>3. L \in 1 .. Len(b.context)
    BY <1>5, <2>1
  <2>4. /\ Good(c) /\ c.slots = b.slots /\ c.buff = b.buff /\ c.st = b.st
        /\ Len(c.context) = L /\ \A i \in 1 .. L : c.context[i] = b.context[i]
    BY <1>4, <2>2, <2>3, ClosedIs
  <2> QED BY <1>2, <2>1, <2>2, <2>4
<1>7. ProgramOf(self') = Q
  BY <1>4, <1>6, ContextProgram
<1>8. OpenIn(self') = <<1>>
  <2>1. self'.context \in Seq([slot : SlotsIn(self'), idx : Nat])
    BY <1>6 DEF Good, Opened
  <2>2. DOMAIN self'.context = 1 .. 1
    BY <1>6, <2>1, LenProperties
  <2>3. 1 \in 1 .. 1 /\ 0 + 1 = 1
    OBVIOUS
  <2>4. self'.context[1].slot = 0
    BY <1>4, <1>6, <2>3
  <2>5. OpenIn(self') = [k \in 1 .. 1 |-> self'.context[k].slot + 1]
    BY <2>2 DEF OpenIn
  <2>6. \A k \in 1 .. 1 : self'.context[k].slot + 1 = 1
    BY <2>3, <2>4
  <2>7. OpenIn(self') = [k \in 1 .. 1 |-> 1]
    BY <2>5, <2>6
  <2> QED BY <2>7
<1>9. P # <<>> /\ DOMAIN P = 1 .. N /\ DOMAIN Q = 1 .. N
  <2>1. DOMAIN P = 1 .. N /\ DOMAIN Q = 1 .. N
    BY <1>1, <1>4, ProgramLen
  <2>2. P # <<>>
    BY <1>1, HereIs DEF Here
  <2> QED BY <2>1, <2>2
<1> DEFINE f == Position(Order(self), N)
<1>10. Places(Order(self), N, f)
  BY <1>1, PositionIs
<1> HIDE DEF f, N
<1>11. \A i \in 1 .. N : Q[f[i]] = Promise!Renamed(P[i], f)
  BY <1>1, <1>3, <1>10, ReloadShows DEF N
<1>12. /\ f \in [1 .. N -> 1 .. N] /\ f[1] = 1
       /\ \A i, j \in 1 .. N : f[i] = f[j] => i = j
  BY <1>10 DEF Places
<1> HIDE DEF P, Q
<1>13. Promise!Reload
  <2>1. \E g \in [DOMAIN P -> DOMAIN P] :
          /\ g[1] = 1
          /\ \A i, j \in DOMAIN P : g[i] = g[j] => i = j
          /\ DOMAIN Q = DOMAIN P
          /\ \A i \in DOMAIN P : Q[g[i]] = Promise!Renamed(P[i], g)
    BY <1>9, <1>11, <1>12
  <2>2. Promise!Loaded
    BY <1>9 DEF Promise!Loaded, P
  <2> QED BY <1>7, <1>8, <2>1, <2>2 DEF Promise!Reload, P
<1> QED BY <1>13 DEF Mapped, Promise!PNext

\* Every step of the assembler is a step of Program or changes nothing of it.
LEMMA StepMap ==
  ASSUME AsmInv, [Next]_vars
  PROVE  Mapped
<1>1. CASE UNCHANGED vars
  <2>1. self' = self
    BY <1>1 DEF vars
  <2>2. UNCHANGED Promise!pvars
    BY <2>1 DEF Promise!pvars
  <2> QED BY <2>2 DEF Mapped
<1>2. CASE Next
  <2>1. ASSUME NEW i \in Codes, Emit(i) PROVE Mapped
    BY <2>1, AddsMap
  <2>2. ASSUME NEW c \in Plain, AddConstant(c) PROVE Mapped
    BY <2>2, AddsMap
  <2>3. ASSUME NEW s \in Strings, AddStringConstant(s) PROVE Mapped
    BY <2>3, AddsMap
  <2>4. ASSUME NEW x \in Externals, AddImport(x[1], x[2]) PROVE Mapped
    BY <2>4, AddsMap
  <2>5. ASSUME NEW s \in Names, SetSource(s) PROVE Mapped
    BY <2>5, SetsMap
  <2>6. ASSUME NEW s \in Names, ModulePush(s) PROVE Mapped
    BY <2>6, ModulePushMap
  <2>7. ASSUME NEW n \in LocalVars, SetLocals(n) PROVE Mapped
    BY <2>7, SetsMap
  <2>8. ASSUME NEW room \in Rooms, Reserve(room) PROVE Mapped
    BY <2>8, ReserveMap
  <2>9. ASSUME Push PROVE Mapped
    BY <2>9, PushMap
  <2>10. ASSUME Open PROVE Mapped
    BY <2>10, OpenMap
  <2>11. ASSUME Pop PROVE Mapped
    BY <2>11, PopMap
  <2>12. ASSUME Pack PROVE Mapped
    BY <2>12, PackMap
  <2>13. ASSUME LoadNothing \/ Cleanup PROVE Mapped
    BY <2>13, AnewMap
  <2>14. ASSUME SaveAndLoad PROVE Mapped
    BY <2>14, ReloadMap
  <2> QED BY <1>2, <2>1, <2>2, <2>3, <2>4, <2>5, <2>6, <2>7, <2>8, <2>9, <2>10, <2>11, <2>12,
             <2>13, <2>14 DEF Next
<1> QED BY <1>1, <1>2

\* The assembler implements Program: that buffers grow, move and are collected,
\* that prototypes are enlarged and the string table is rebuilt is not seen by
\* the host, but for the local variables that an enlarged prototype forgets, and
\* a program that is saved and loaded is the same in another order, whatever
\* the host calls and in which order (asm.c).
THEOREM ImplementsProgram == Spec => KeepsProgram
<1>1. Init => Promise!PInit
  BY InitMap
<1>2. AsmInv /\ [Next]_vars => [Promise!PNext]_(Promise!pvars)
  BY StepMap DEF Mapped
<1> QED BY <1>1, <1>2, AssemblerIsFine, PTL DEF Spec, KeepsProgram, Promise!PSpec

-----------------------------------------------------------------------------
\* The compiler: what a call does to the prototype it reads, which always has room.

\* There is room for an item of each kind in every prototype.
Roomy(a) == \A s \in SlotsIn(a), x \in Sections : At(a, s).max[x] > 0

\* After a step of the compiler in the open prototype: the others are as they were,
\* this one has that code and as many nested ones as before.
Works(a, b, code) == Only(a, b) /\ b.asserts /\ Roomy(b) /\ aasm_prototype(b).code = code

\* An assembler that can be worked with.
Usable(a) == Good(a) /\ a.asserts /\ Roomy(a)

\* Two such steps make one.
LEMMA WorksOn ==
  ASSUME NEW a, NEW b, NEW c, NEW d, NEW e, Works(a, b, d), Works(b, c, e)
  PROVE  Works(a, c, e)
BY OnlyOn DEF Works

\* After such a step it can be worked with again.
LEMMA WorksUsable ==
  ASSUME NEW a, NEW b, NEW d, Works(a, b, d)
  PROVE  Usable(b)
BY DEF Works, Usable, Only, Goes

\* The others have the room that they had.
LEMMA RoomyOn ==
  ASSUME NEW a, NEW b, Only(a, b), Roomy(a), \A x \in Sections : aasm_prototype(b).max[x] > 0
  PROVE  Roomy(b)
<1>1. SlotsIn(b) = SlotsIn(a) /\ Slot(b) = Slot(a)
  BY DEF Only, Goes, Steady, SlotsIn, Slot
<1>2. ASSUME NEW s \in SlotsIn(b), NEW x \in Sections
      PROVE  At(b, s).max[x] > 0
  <2>1. CASE s = Slot(a)
    BY <1>1, <2>1 DEF aasm_prototype
  <2>2. CASE s # Slot(a)
    <3>1. At(b, s) = At(a, s)
      BY <1>1, <2>2 DEF Only
    <3>2. At(a, s).max[x] > 0
      BY <1>1 DEF Roomy
    <3> QED BY <3>1, <3>2
  <2> QED BY <2>1, <2>2
<1> QED BY <1>2 DEF Roomy

\* Room for one more item in a section.
IsGrown(a, s, g) ==
  /\ Alone(a, g) /\ Usable(g) /\ HasRoom(g, s)
  /\ SameItems(aasm_prototype(a), aasm_prototype(g))

\* Where there is some room, twice as much is enough for one more.
LEMMA GrownHasRoom ==
  ASSUME NEW a, Usable(a), NEW s \in Sections, NEW g, g = Grown(a, s)
  PROVE  IsGrown(a, s, g)
<1> DEFINE p == aasm_prototype(a)
           room == [p.max EXCEPT ![s] = 2 * p.max[s]]
<1>1. p \in Protos(DOMAIN a.st.text, Len(a.slots)) /\ InRoom(p) /\ p.max \in Caps
  BY OpenOK, SlotOK, AtOK DEF Usable, Good, aasm_prototype
<1>2. \A x \in Sections : p.max[x] > 0
  <2>1. Slot(a) \in SlotsIn(a)
    BY SlotOK DEF Usable, Good
  <2> QED BY <2>1 DEF Usable, Roomy, aasm_prototype
<1>3. CASE Len(p[s]) # p.max[s]
  <2>1. g = a
    BY <1>3 DEF Grown
  <2>2. HasRoom(a, s)
    BY <1>1, <1>3, MembersOf DEF HasRoom, InRoom, Sections, Caps, Protos
  <2> QED BY <2>1, <2>2, AloneSelf DEF IsGrown, Usable, SameItems
<1>4. CASE Len(p[s]) = p.max[s]
  <2>1. g = aasm_reserve(a, room)
    BY <1>4 DEF Grown, GROW_FACTOR
  <2> HIDE DEF p
  <2>2. /\ room \in Caps /\ room[s] = 2 * p.max[s] /\ p.max[s] \in Nat /\ p.max[s] > 0
        /\ \A x \in Sections : room[x] > 0 /\ room[x] \in Nat /\ room[x] >= p.max[x]
    BY <1>1, <1>2 DEF Caps, Sections
  <2>3. Fits(p, room)
    BY <1>1, <2>2 DEF Fits, InRoom, Sections, Caps, Protos
  <2>4. ~(p.max[s] >= room[s])
    BY <2>2
  <2> HIDE DEF room
  <2>5. Alone(a, g) /\ aasm_prototype(g) = Enlarged(p, room)
    BY <2>1, <2>2, <2>3, <2>4, ReserveAlone DEF Usable, p
  <2>6. SameItems(p, aasm_prototype(g)) /\ aasm_prototype(g).max = room
    BY <1>1, <2>2, <2>3, <2>5, EnlargedIs
  <2>7. HasRoom(g, s)
    <3>1. aasm_prototype(g)[s] = p[s]
      BY <2>6 DEF SameItems, Sections
    <3> QED BY <1>4, <2>2, <2>6, <3>1 DEF HasRoom
  <2>8. Usable(g)
    BY <2>2, <2>5, <2>6, RoomyOn DEF Alone, Only, Goes, Usable
  <2> QED BY <2>5, <2>6, <2>7, <2>8 DEF IsGrown, p
<1> QED BY <1>3, <1>4

\* Its code, when an item is added.
CodeWith(q, s, x) == IF s = "code" THEN Append(q.code, x) ELSE q.code

\* An item is added (aasm_emit, aasm_add_constant, the end of aasm_add_import).
LEMMA AddWorks ==
  ASSUME NEW a, Usable(a), NEW s \in Sections \ {"nesteds"}, NEW x,
         IsItem(DOMAIN a.st.text, Len(a.slots), s, x), NEW b, b = Add(a, s, x)
  PROVE  Works(a, b, CodeWith(aasm_prototype(a), s, x))
<1>1. PICK g : g = Grown(a, s)
  OBVIOUS
<1>2. IsGrown(a, s, g)
  BY <1>1, GrownHasRoom
<1> DEFINE q == aasm_prototype(g)
           p == WithItem(q, s, x)
<1>3. b = Stored(g, s, x)
  BY <1>1 DEF Add
<1>4. Good(g) /\ HasRoom(g, s) /\ g.asserts /\ g.st = a.st /\ Len(g.slots) = Len(a.slots)
  BY <1>2 DEF IsGrown, Alone, Usable, Only, Goes, Steady
<1>5. IsStored(g, s, x, b)
  BY <1>3, <1>4, StoredOnly
<1>6. Only(g, b) /\ b.asserts /\ aasm_prototype(b) = p
  BY <1>4, <1>5 DEF IsStored
<1>7. q \in Protos(DOMAIN g.st.text, Len(g.slots))
  BY <1>4, OpenOK
<1> HIDE DEF q
<1>8. HasItem(p, q, s, x)
  BY <1>7, AppendedIs
<1>9. p.max = q.max /\ p.code = CodeWith(q, s, x)
  BY <1>8 DEF HasItem, CodeWith
<1>10. q.code = aasm_prototype(a).code
  BY <1>2 DEF IsGrown, SameItems, q
<1>11. \A y \in Sections : aasm_prototype(b).max[y] > 0
  <2>1. Slot(g) \in SlotsIn(g)
    BY <1>4, SlotOK DEF Good
  <2>2. \A y \in Sections : q.max[y] > 0
    BY <1>2, <2>1 DEF IsGrown, Usable, Roomy, aasm_prototype, q
  <2> QED BY <1>6, <1>9, <2>2
<1>12. Roomy(b)
  BY <1>2, <1>6, <1>11, RoomyOn DEF IsGrown, Usable
<1>13. Only(a, b)
  BY <1>2, <1>6, OnlyOn DEF IsGrown, Alone
<1> QED BY <1>6, <1>9, <1>10, <1>12, <1>13 DEF Works, CodeWith

\* A string is interned.
LEMMA InternWorks ==
  ASSUME NEW a, Usable(a), NEW s \in Words, NEW b, b = aasm_string_to_ref(a, s)
  PROVE  /\ Works(a, b, aasm_prototype(a).code)
         /\ RefOf(b, s) \in DOMAIN b.st.text /\ HasText(b.st, s)
<1>1. /\ Only(a, b) /\ b.asserts = a.asserts /\ aasm_prototype(b) = aasm_prototype(a)
      /\ RefOf(b, s) \in DOMAIN b.st.text /\ HasText(b.st, s)
  BY InternOnly DEF Usable
<1>2. Slot(a) \in SlotsIn(a)
  BY SlotOK DEF Usable, Good
<1>3. \A x \in Sections : aasm_prototype(b).max[x] > 0
  BY <1>1, <1>2 DEF Usable, Roomy, aasm_prototype
<1>4. Roomy(b)
  BY <1>1, <1>3, RoomyOn DEF Usable
<1> QED BY <1>1, <1>4 DEF Works, Usable

\* aasm_emit.
LEMMA EmitWorks ==
  ASSUME NEW a, Usable(a), NEW i \in AnyCode
  PROVE  Works(a, aasm_emit(a, i), Append(aasm_prototype(a).code, i))
<1>1. IsItem(DOMAIN a.st.text, Len(a.slots), "code", i)
  BY DEF IsItem
<1>2. "code" \in Sections \ {"nesteds"}
  BY DEF Sections
<1> QED BY <1>1, <1>2, AddWorks DEF aasm_emit, CodeWith

\* aasm_add_constant, of one that is not a string.
LEMMA ConstantWorks ==
  ASSUME NEW a, Usable(a), NEW c \in Plain \cup [string : DOMAIN a.st.text]
  PROVE  Works(a, aasm_add_constant(a, c), aasm_prototype(a).code)
<1>1. IsItem(DOMAIN a.st.text, Len(a.slots), "consts", c)
  BY DEF IsItem
<1>2. "consts" \in Sections \ {"nesteds"}
  BY DEF Sections
<1> QED BY <1>1, <1>2, AddWorks DEF aasm_add_constant, CodeWith

\* aasm_add_constant, of a string.
LEMMA StringWorks ==
  ASSUME NEW a, Usable(a), NEW s \in Words
  PROVE  Works(a, AddString(a, s), aasm_prototype(a).code)
<1>1. PICK b : b = aasm_string_to_ref(a, s)
  OBVIOUS
<1>2. Works(a, b, aasm_prototype(a).code) /\ RefOf(b, s) \in DOMAIN b.st.text
  BY <1>1, InternWorks
<1>3. Works(b, aasm_add_constant(b, [string |-> RefOf(b, s)]), aasm_prototype(b).code)
  BY <1>2, WorksUsable, ConstantWorks
<1>4. AddString(a, s) = aasm_add_constant(b, [string |-> RefOf(b, s)])
  BY <1>1 DEF AddString, AddRef
<1>5. aasm_prototype(b).code = aasm_prototype(a).code
  BY <1>2 DEF Works
<1> QED BY <1>2, <1>3, <1>4, <1>5, WorksOn

\* aasm_add_import.
LEMMA ImportWorks ==
  ASSUME NEW a, Usable(a), NEW m \in Words, NEW n \in Words
  PROVE  Works(a, aasm_add_import(a, m, n), aasm_prototype(a).code)
<1>1. PICK b : b = aasm_string_to_ref(a, m)
  OBVIOUS
<1>2. PICK c : c = aasm_string_to_ref(b, n)
  OBVIOUS
<1>3. Works(a, b, aasm_prototype(a).code) /\ HasText(b.st, m)
  BY <1>1, InternWorks
<1>4. Works(b, c, aasm_prototype(b).code) /\ RefOf(c, n) \in DOMAIN c.st.text
  BY <1>2, <1>3, WorksUsable, InternWorks
<1>5. Goes(b, c)
  BY <1>4 DEF Works, Only
<1>6. RefOf(c, m) \in DOMAIN c.st.text
  BY <1>3, <1>5, HasOn DEF Words
<1> DEFINE x == [module |-> RefOf(c, m), name |-> RefOf(c, n)]
<1>7. IsItem(DOMAIN c.st.text, Len(c.slots), "imports", x)
  BY <1>4, <1>6 DEF IsItem
<1>8. "imports" \in Sections \ {"nesteds"} /\ "imports" # "code"
  BY DEF Sections
<1>9. aasm_add_import(a, m, n) = Add(c, "imports", x)
  BY <1>1, <1>2 DEF aasm_add_import, AddRefs
<1>10. Usable(c) /\ aasm_prototype(c).code = aasm_prototype(a).code
  BY <1>3, <1>4, WorksUsable DEF Works
<1> HIDE DEF x
<1>11. Works(c, aasm_add_import(a, m, n), aasm_prototype(c).code)
  BY <1>7, <1>8, <1>9, <1>10, AddWorks DEF CodeWith
<1> QED BY <1>3, <1>4, <1>10, <1>11, WorksOn

\* The room of the open prototype, when it is the same one otherwise.
LEMMA SameRoomWorks ==
  ASSUME NEW a, Usable(a), NEW b, Alone(a, b), aasm_prototype(b).max = aasm_prototype(a).max
  PROVE  Works(a, b, aasm_prototype(b).code)
<1>1. Slot(a) \in SlotsIn(a)
  BY SlotOK DEF Usable, Good
<1>2. \A x \in Sections : aasm_prototype(b).max[x] > 0
  BY <1>1 DEF Usable, Roomy, aasm_prototype
<1>3. Roomy(b)
  BY <1>2, RoomyOn DEF Usable, Alone
<1> QED BY <1>3 DEF Works, Usable, Alone

\* A name of the open prototype is set.
LEMMA NameWorks ==
  ASSUME NEW a, Usable(a), NEW f \in {"source", "symbol"}, NEW s \in Words,
         NEW b, b = SetName(a, f, s)
  PROVE  Works(a, b, aasm_prototype(a).code)
<1>1. PICK c : c = aasm_string_to_ref(a, s)
  OBVIOUS
<1>2. Works(a, c, aasm_prototype(a).code) /\ HasText(c.st, s)
  BY <1>1, InternWorks
<1>3. Usable(c) /\ aasm_prototype(c).code = aasm_prototype(a).code
  BY <1>2, WorksUsable DEF Works
<1>4. b = WithName(c, f, s)
  BY <1>1 DEF SetName
<1>5. Alone(c, b) /\ SameRoom(aasm_prototype(c), aasm_prototype(b))
  BY <1>2, <1>3, <1>4, WithNameAlone DEF Usable
<1>6. Works(c, b, aasm_prototype(a).code)
  BY <1>3, <1>5, SameRoomWorks DEF SameRoom, SameItems
<1> QED BY <1>2, <1>6, WorksOn

\* A prototype with other code of the same length and another number of local variables.
WithCode(q, c, n) == [q EXCEPT !.code = c, !.locals = n]
IsRecoded(R, k, q, c, p) ==
  /\ p \in Protos(R, k) /\ InRoom(p)
  /\ p.max = q.max /\ p.nesteds = q.nesteds /\ p.code = c

\* It is a prototype of the same table, with the room and the nested ones it had.
LEMMA CodeReplaced ==
  ASSUME NEW R, NEW k, NEW q \in Protos(R, k), InRoom(q), NEW n \in Nat,
         NEW c \in Seq(AnyCode), Len(c) = Len(q.code), NEW p, p = WithCode(q, c, n)
  PROVE  IsRecoded(R, k, q, c, p)
<1>1. /\ q = [source |-> q.source, symbol |-> q.symbol, locals |-> q.locals, code |-> q.code,
              consts |-> q.consts, imports |-> q.imports, nesteds |-> q.nesteds, max |-> q.max]
      /\ Members(R, k, q.source, q.symbol, q.locals, q.code, q.consts, q.imports, q.nesteds, q.max)
  BY MembersOf
<1>2. p = [source |-> q.source, symbol |-> q.symbol, locals |-> n, code |-> c,
           consts |-> q.consts, imports |-> q.imports, nesteds |-> q.nesteds, max |-> q.max]
  BY <1>1 DEF WithCode
<1>3. p \in Protos(R, k)
  <2>1. Members(R, k, q.source, q.symbol, n, c, q.consts, q.imports, q.nesteds, q.max)
    BY <1>1, HostsOwn DEF Members
  <2>2. [source |-> q.source, symbol |-> q.symbol, locals |-> n, code |-> c,
         consts |-> q.consts, imports |-> q.imports, nesteds |-> q.nesteds, max |-> q.max] \in Protos(R, k)
    BY <2>1, ProtoOf, Zenon
  <2> QED BY <1>2, <2>2, Zenon
<1> QED BY <1>2, <1>3 DEF InRoom, IsRecoded

\* The code of the open prototype is replaced by other code of the same length, and the
\* number of its local variables is set.
LEMMA CodeWorks ==
  ASSUME NEW a, Usable(a), NEW c \in Seq(AnyCode), Len(c) = Len(aasm_prototype(a).code),
         NEW n \in Nat, NEW b, b = WithPrototype(a, WithCode(aasm_prototype(a), c, n))
  PROVE  Works(a, b, c)
<1>1. PICK p : p = WithCode(aasm_prototype(a), c, n)
  OBVIOUS
<1>2. aasm_prototype(a) \in Protos(DOMAIN a.st.text, Len(a.slots)) /\ InRoom(aasm_prototype(a))
  BY OpenOK DEF Usable
<1>3. IsRecoded(DOMAIN a.st.text, Len(a.slots), aasm_prototype(a), c, p)
  BY <1>1, <1>2, CodeReplaced
<1>4. Alone(a, b) /\ aasm_prototype(b) = p
  BY <1>1, <1>3, SetAlone DEF Usable, IsRecoded
<1> QED BY <1>3, <1>4, SameRoomWorks DEF IsRecoded

\* A new prototype is open, nested in the one that was: nothing else changes.
Opens(a, f) ==
  /\ Usable(f) /\ Len(f.slots) = Len(a.slots) + 1
  /\ At(f, Len(a.slots)).nesteds = <<>> /\ At(f, Len(a.slots)).code = <<>>
  /\ \A s \in SlotsIn(a) \ {Slot(a)} : At(f, s) = At(a, s)
  /\ Kids(f, Slot(a)) = Append(Kids(a, Slot(a)), Len(a.slots))
  /\ Extends(a.st, f.st)
  /\ \E i : f.context = Append(a.context, [slot |-> Len(a.slots), idx |-> i])

\* aasm_push: there is always room for it.
LEMMA PushOpens ==
  ASSUME NEW a, Usable(a), NEW f, f = aasm_push(a)
  PROVE  Opens(a, f) /\ f.st = a.st
<1>1. PICK g : g = Grown(a, "nesteds")
  OBVIOUS
<1>2. "nesteds" \in Sections
  BY DEF Sections
<1>3. IsGrown(a, "nesteds", g)
  BY <1>1, <1>2, GrownHasRoom
<1>4. Good(g) /\ g.asserts /\ HasRoom(g, "nesteds") /\ Roomy(g)
  BY <1>3 DEF IsGrown, Usable
<1>5. f = aasm_push(g)
  BY <1>1, <1>2, <1>4, RoomStays DEF aasm_push
<1>6. f.st = g.st /\ Pushes(g, g, f)
  BY <1>4, <1>5, PushIs
<1> DEFINE N == Len(a.slots)
           h == Slot(a)
<1>7. /\ g.st = a.st /\ Len(g.slots) = N /\ g.context = a.context /\ Slot(g) = h
      /\ SlotsIn(g) = SlotsIn(a)
      /\ \A s \in SlotsIn(a) \ {h} : At(g, s) = At(a, s)
  BY <1>3 DEF IsGrown, Alone, Only, Goes, Steady, Slot, SlotsIn
<1>8. /\ Good(f) /\ f.asserts /\ Len(f.slots) = N + 1
      /\ \A s \in SlotsIn(a) \ {h} : At(f, s) = At(g, s)
      /\ At(f, h) = [aasm_prototype(g) EXCEPT !.nesteds = Append(@, N)]
      /\ At(f, N) = Zeroed(DefaultRoom)
      /\ \E i : f.context = Append(a.context, [slot |-> N, idx |-> i])
  BY <1>4, <1>6, <1>7 DEF Pushes
<1>9. Roomy(f)
  <2>1. N \in Nat \ {0} /\ h \in SlotsIn(a)
    BY SlotOK DEF Usable, Good, Tidy, Counts
  <2>2. ASSUME NEW s \in SlotsIn(f), NEW x \in Sections
        PROVE  At(f, s).max[x] > 0
    <3>1. s \in SlotsIn(a) \/ s = N
      BY <1>8, <2>1, <2>2 DEF SlotsIn
    <3>2. CASE s = N
      BY <1>8, <3>2, CompilerAssumption DEF Zeroed
    <3>3. CASE s \in SlotsIn(a) /\ s # h
      BY <1>4, <1>7, <1>8, <3>3 DEF Roomy
    <3>4. CASE s = h
      <4>1. aasm_prototype(g).max[x] > 0
        BY <1>4, <1>7, <2>1 DEF Roomy, aasm_prototype
      <4>2. aasm_prototype(g) \in Protos(DOMAIN g.st.text, Len(g.slots))
        BY <1>4, OpenOK
      <4>3. At(f, h).max = aasm_prototype(g).max
        BY <1>8, <4>2 DEF Protos
      <4> QED BY <3>4, <4>1, <4>3
    <3> QED BY <3>1, <3>2, <3>3, <3>4
  <2> QED BY <2>2 DEF Roomy
<1>10. At(f, N).nesteds = <<>> /\ At(f, N).code = <<>>
  BY <1>8 DEF Zeroed
<1>11. Extends(a.st, f.st)
  BY <1>6, <1>7 DEF Extends
<1>12. Kids(f, h) = Append(Kids(a, h), N)
  <2>1. aasm_prototype(g) \in Protos(DOMAIN g.st.text, Len(g.slots))
    BY <1>4, OpenOK
  <2>2. At(f, h).nesteds = Append(aasm_prototype(g).nesteds, N)
    BY <1>8, <2>1 DEF Protos
  <2>3. aasm_prototype(g).nesteds = aasm_prototype(a).nesteds
    BY <1>3 DEF IsGrown, SameItems
  <2> QED BY <2>2, <2>3 DEF Kids, aasm_prototype
<1> QED BY <1>6, <1>7, <1>8, <1>9, <1>10, <1>11, <1>12 DEF Opens, Usable

-----------------------------------------------------------------------------
\* The compiler: pools, contexts and what is remembered of the text.

\* What the pools hold, and what a context is made of.
Literal ==
  Strings \cup Symbols \cup Externals \cup Functions \cup {l.text : l \in Literals}
Pool == Seq([literal : Literal, idx : Int])
ArgCounts == {Len(g.args) : g \in Signatures}
Context ==
  [num_arguments : ArgCounts, num_variables : Nat, locals : Pool, imports : Pool,
   constants : Pool, nesteds : Pool, pseudo_nesteds : Pool, label_addresses : Pool,
   pseudo_jumps : Seq(Nat), sym : {"statement", "def"}]

\* What is remembered of the text.
Said ==
  [op : {"plain"}] \cup [op : {"ldk"}, text : Literal] \cup [op : {"imp"}, module : Strings, name : Strings]
    \cup [op : {"llv"}, name : Symbols] \cup [op : {"jmp"}, label : Symbols]
    \cup [op : {"cls"}, name : Strings] \cup [op : {"label"}, name : Symbols]
Definition == [name : Functions, args : Seq(Symbols), vars : Seq(Symbols), body : Seq(Said)]

\* No two of the locals have one name.
Distinct(pool) == IsInjective([i \in DOMAIN pool |-> pool[i].literal])

\* The last element is replaced.
IsReplaced(S, q, x, r) ==
  /\ r \in Seq(S) /\ Len(r) = Len(q) /\ Last(q) = q[Len(q)] /\ Last(q) \in S
  /\ r[Len(q)] = x /\ \A i \in 1 .. Len(q) - 1 : r[i] = q[i]

\* Append to the front replaces the last element.
LEMMA LastReplaced ==
  ASSUME NEW S, NEW q \in Seq(S), q # <<>>, NEW x \in S, NEW r, r = Append(Front(q), x)
  PROVE  IsReplaced(S, q, x, r)
<1>1. Len(q) \in Nat \ {0} /\ Last(q) = q[Len(q)] /\ Last(q) \in S
  BY DEF Last
<1>2. PICK k : k = Len(q) - 1
  OBVIOUS
<1>3. k \in Nat /\ k \in 0 .. Len(q)
  BY <1>1, <1>2
<1>4. PICK u : u = SubSeq(q, 1, k)
  OBVIOUS
<1>5. u \in Seq(S) /\ Len(u) = k /\ \A i \in 1 .. k : u[i] = q[i]
  BY <1>3, <1>4
<1>6. r = Append(u, x)
  BY <1>2, <1>4 DEF Front
<1>7. r \in Seq(S) /\ Len(r) = k + 1 /\ r[k + 1] = x /\ \A i \in 1 .. k : r[i] = u[i]
  BY <1>3, <1>5, <1>6
<1>8. k + 1 = Len(q)
  BY <1>1, <1>2
<1> QED BY <1>1, <1>2, <1>5, <1>7, <1>8 DEF IsReplaced

\* The index of a literal that is in the pool.
LEMMA IdxIs ==
  ASSUME NEW pool \in Pool, NEW x, Has(pool, x)
  PROVE  IdxOf(pool, x) \in Int
<1> DEFINE I == {i \in 1 .. Len(pool) : pool[i].literal = x}
<1>1. I # {} /\ I \subseteq Nat
  BY DEF Has, Pool
<1>2. \E m \in I : \A y \in I : m <= y
  BY <1>1, Least
<1>3. Min(I) \in I
  BY <1>2, Zenon DEF Min
<1>4. SelectInSeq(pool, LAMBDA v : v.literal = x) = Min(I)
  BY <1>1, Zenon DEF SelectInSeq
<1> HIDE DEF I
<1>5. PICK j : j = Min(I)
  OBVIOUS
<1>6. IdxOf(pool, x) = pool[j].idx
  BY <1>4, <1>5, Zenon DEF IdxOf
<1>7. j \in 1 .. Len(pool)
  BY <1>3, <1>5 DEF I
<1>8. pool[j] \in [literal : Literal, idx : Int]
  <2> DEFINE T == [literal : Literal, idx : Int]
  <2>1. pool \in Seq(T)
    BY DEF Pool
  <2> HIDE DEF T
  <2>2. pool[j] \in T
    BY <1>7, <2>1, ElementOfSeq
  <2> QED BY <2>2 DEF T
<1> QED BY <1>6, <1>8

\* A literal is pushed.
LEMMA PushedIs ==
  ASSUME NEW pool \in Pool, NEW x \in Literal, NEW n \in Int, NEW q, q = pool_push(pool, x, n)
  PROVE  q \in Pool /\ Has(q, x) /\ IdxOf(q, x) \in Int
<1>1. CASE Has(pool, x)
  BY <1>1, IdxIs DEF pool_push
<1>2. CASE ~Has(pool, x)
  <2>1. q = Append(pool, [literal |-> x, idx |-> n])
    BY <1>2 DEF pool_push
  <2>2. q \in Pool
    BY <2>1 DEF Pool
  <2>3. Len(pool) \in Nat /\ Len(pool) + 1 \in DOMAIN q
        /\ q[Len(pool) + 1] = [literal |-> x, idx |-> n]
    BY <2>1 DEF Pool
  <2>4. Has(q, x)
    BY <2>3 DEF Has
  <2> QED BY <2>2, <2>4, IdxIs
<1> QED BY <1>1, <1>2

\* A name in the pool is made longer.
LEMMA RenamedPool ==
  ASSUME NEW pool \in Pool, NEW f \in Functions, NEW n \in ArgCounts
  PROVE  Renamed(pool, f, n) \in Pool
<1>1. SymbolOf[<<f, n>>] \in Literal
  BY CompilerAssumption DEF ArgCounts, Literal
<1>2. PICK y : y = SymbolOf[<<f, n>>]
  OBVIOUS
<1>3. PICK i : i = SelectInSeq(pool, LAMBDA v : v.literal = f)
  OBVIOUS
<1>4. Renamed(pool, f, n) = [pool EXCEPT ![i].literal = y]
  BY <1>2, <1>3, Zenon DEF Renamed
<1>5. [pool EXCEPT ![i].literal = y] \in Pool
  <2> DEFINE T == [literal : Literal, idx : Int]
  <2>1. pool \in Seq(T)
    BY DEF Pool
  <2>2. CASE i \notin DOMAIN pool
    <3>1. pool = [k \in DOMAIN pool |-> pool[k]]
      <4> HIDE DEF T
      <4> QED BY <2>1, LenProperties
    <3>2. [pool EXCEPT ![i].literal = y] = [k \in DOMAIN pool |-> pool[k]]
      BY <2>2
    <3> QED BY <3>1, <3>2
  <2>3. CASE i \in DOMAIN pool
    <3>1. i \in 1 .. Len(pool)
      BY <2>1, <2>3, LenProperties
    <3>2. pool[i] \in T
      <4> HIDE DEF T
      <4> QED BY <2>1, <3>1, ElementOfSeq
    <3>3. PICK e : e = [pool[i] EXCEPT !.literal = y]
      OBVIOUS
    <3>4. e \in T
      BY <1>1, <1>2, <3>2, <3>3
    <3>5. [pool EXCEPT ![i].literal = y] = [pool EXCEPT ![i] = e]
      BY <3>3, Zenon
    <3> HIDE DEF T
    <3>6. [pool EXCEPT ![i] = e] \in Seq(T)
      BY <2>1, <3>1, <3>4, ExceptSeq
    <3> QED BY <3>5, <3>6 DEF T, Pool
  <2> QED BY <2>2, <2>3
<1> QED BY <1>4, <1>5

\* Two sequences behind one another.
IsJoined(S, u, w, r, m, n) ==
  /\ r \in Seq(S) /\ Len(r) = m + n /\ DOMAIN r = 1 .. m + n
  /\ \A i \in 1 .. m + n : IF i <= m THEN r[i] = u[i] ELSE i - m \in 1 .. n /\ r[i] = w[i - m]

\* The concatenation is such a sequence.
LEMMA Joined ==
  ASSUME NEW S, NEW u \in Seq(S), NEW w \in Seq(S), NEW m \in Nat, NEW n \in Nat,
         Len(u) = m, Len(w) = n, NEW r, r = u \o w
  PROVE  IsJoined(S, u, w, r, m, n)
<1>1. /\ r \in Seq(S) /\ Len(r) = m + n
      /\ \A i \in 1 .. m + n : r[i] = IF i <= m THEN u[i] ELSE w[i - m]
  BY ConcatProperties
<1>2. DOMAIN r = 1 .. m + n
  BY <1>1, LenProperties
<1> QED BY <1>1, <1>2 DEF IsJoined

\* The locals at the beginning of a definition.
LEMMA SignedIs ==
  ASSUME NEW g \in Signatures
  PROVE  /\ Signed(g) \in Pool /\ Len(g.args) \in ArgCounts /\ Len(g.vars) \in Nat
         /\ g.args \in Seq(Symbols) /\ g.vars \in Seq(Symbols)
         /\ ~Duplicated(g) => Distinct(Signed(g))
<1> DEFINE T == [literal : Literal, idx : Int]
<1>1. PICK x : x = g.args
  OBVIOUS
<1>2. PICK y : y = g.vars
  OBVIOUS
<1>3. x \in Seq(Symbols) /\ y \in Seq(Symbols) /\ Len(x) \in ArgCounts
  BY <1>1, <1>2, CompilerAssumption DEF ArgCounts
<1>4. /\ Len(x) \in Nat /\ DOMAIN x = 1 .. Len(x) /\ \A i \in 1 .. Len(x) : x[i] \in Literal
      /\ Len(y) \in Nat /\ DOMAIN y = 1 .. Len(y) /\ \A i \in 1 .. Len(y) : y[i] \in Literal
  BY <1>3, LenProperties, ElementOfSeq DEF Literal
<1>5. PICK u : u = [i \in 1 .. Len(x) |-> [literal |-> x[i], idx |-> -i]]
  OBVIOUS
<1>6. PICK w : w = [i \in 1 .. Len(y) |-> [literal |-> y[i], idx |-> i - 1]]
  OBVIOUS
<1>7. u \in [1 .. Len(x) -> T] /\ w \in [1 .. Len(y) -> T]
  BY <1>4, <1>5, <1>6
<1>8. /\ \A i \in 1 .. Len(x) : u[i].literal = x[i]
      /\ \A i \in 1 .. Len(y) : w[i].literal = y[i]
  BY <1>5, <1>6
<1>9. Signed(g) = u \o w
  BY <1>1, <1>2, <1>4, <1>5, <1>6, Zenon DEF Signed
<1> HIDE DEF T
<1>10. u \in Seq(T) /\ Len(u) = Len(x) /\ w \in Seq(T) /\ Len(w) = Len(y)
  BY <1>4, <1>7, FunctionIsSeq
<1>11. PICK r : r = u \o w
  OBVIOUS
<1>12. PICK z : z = x \o y
  OBVIOUS
<1>13. IsJoined(T, u, w, r, Len(x), Len(y)) /\ IsJoined(Symbols, x, y, z, Len(x), Len(y))
  BY <1>3, <1>4, <1>10, <1>11, <1>12, Joined
<1>14. ASSUME ~Duplicated(g)
       PROVE  Distinct(Signed(g))
  <2>1. IsInjective(z)
    BY <1>1, <1>2, <1>12, <1>14 DEF Duplicated
  <2>2. \A i \in 1 .. Len(x) + Len(y) : r[i].literal = z[i]
    BY <1>4, <1>8, <1>13 DEF IsJoined
  <2>3. DOMAIN z = 1 .. Len(x) + Len(y) /\ DOMAIN r = 1 .. Len(x) + Len(y)
    BY <1>13 DEF IsJoined
  <2>4. Distinct(r)
    BY <2>1, <2>2, <2>3 DEF IsInjective, Distinct
  <2> QED BY <1>9, <1>11, <2>4
<1>15. r \in Seq(T)
  BY <1>13 DEF IsJoined
<1> QED BY <1>1, <1>2, <1>3, <1>4, <1>9, <1>11, <1>14, <1>15 DEF Pool, T

\* An instruction, or a statement, that makes a closure.
Closes(q) == \E k \in DOMAIN q : q[k].op = "cls"

\* The root definition has one inside: it never ends.
Held(cs) == cs # <<>> /\ cs[1].sym = "def"

\* The assembler has the definitions that are remembered, those that are read are open.
Sound(a, cs, src) ==
  /\ Usable(a) /\ src \in Seq(Definition) /\ Len(a.slots) = Len(src) + 1
  /\ cs \in Seq(Context) /\ Len(a.context) = Len(cs) + 1
  /\ a.context[1].slot = 0
  /\ \A i \in 2 .. Len(a.context) : a.context[i].slot # 0
  /\ \A i \in 1 .. Len(cs) : Distinct(cs[i].locals)

\* Unless the root definition never ends, none has one inside, and only the open one may
\* make a closure, one that it cannot resolve.
IsFlat(a, cs, src) ==
  /\ \A s \in 1 .. Len(src) : Kids(a, s) = <<>>
  /\ \A s \in 1 .. Len(src) : Closes(src[s].body) =>
       cs # <<>> /\ s = Slot(a) /\ Closes(aasm_prototype(a).code)
  /\ cs # <<>> => cs[1].nesteds = <<>>
Compiling(a, cs, src) ==
  /\ Sound(a, cs, src)
  /\ Len(cs) > 1 => Held(cs)
  /\ Held(cs) \/ IsFlat(a, cs, src)

\* A context of the same definition.
Likewise(c, d) == d \in Context /\ d.sym = c.sym /\ d.nesteds = c.nesteds

\* The definition that is read.
LEMMA OpenDefinition ==
  ASSUME NEW a, NEW cs, NEW src, Sound(a, cs, src), cs # <<>>
  PROVE  /\ Slot(a) \in 1 .. Len(src) /\ Slot(a) \in SlotsIn(a) /\ src[Slot(a)] \in Definition
         /\ Len(cs) \in Nat \ {0} /\ Len(src) \in Nat
         /\ Last(cs) = cs[Len(cs)] /\ Last(cs) \in Context /\ Distinct(Last(cs).locals)
<1>1. Slot(a) \in SlotsIn(a) /\ Len(a.context) \in Nat \ {0}
  BY SlotOK DEF Sound, Usable, Good
<1>2. Len(cs) \in Nat \ {0} /\ Len(src) \in Nat
  BY EmptySeq, LenProperties DEF Sound
<1>3. Len(a.context) \in 2 .. Len(a.context)
  BY <1>1, <1>2 DEF Sound
<1>4. Slot(a) # 0
  BY <1>3 DEF Sound, Slot
<1>5. Slot(a) \in 1 .. Len(src)
  BY <1>1, <1>2, <1>4 DEF Sound, SlotsIn
<1>6. src[Slot(a)] \in Definition
  BY <1>5, ElementOfSeq DEF Sound
<1>7. Last(cs) = cs[Len(cs)] /\ cs[Len(cs)] \in Context
  BY <1>2, ElementOfSeq DEF Sound, Last
<1>8. Distinct(Last(cs).locals)
  BY <1>2, <1>7 DEF Sound
<1> QED BY <1>1, <1>2, <1>5, <1>6, <1>7, <1>8

\* A statement is remembered.
Remembers(src, s, st, src2) ==
  /\ src2 \in Seq(Definition) /\ Len(src2) = Len(src)
  /\ \A t \in 1 .. Len(src) : t # s => src2[t] = src[t]
  /\ src2[s].body = Append(src[s].body, st)

\* A statement appended to the body of one definition leaves the others.
LEMMA BodyOn ==
  ASSUME NEW src \in Seq(Definition), NEW s \in 1 .. Len(src), NEW st \in Said,
         NEW src2, src2 = [src EXCEPT ![s].body = Append(@, st)]
  PROVE  Remembers(src, s, st, src2)
<1>1. src[s] \in Definition
  BY ElementOfSeq
<1>2. PICK q : q = Append(src[s].body, st)
  OBVIOUS
<1>3. q \in Seq(Said)
  BY <1>1, <1>2 DEF Definition
<1>4. PICK d : d = [src[s] EXCEPT !.body = q]
  OBVIOUS
<1>5. d \in Definition /\ d.body = q
  BY <1>1, <1>3, <1>4 DEF Definition
<1>6. src2 = [src EXCEPT ![s] = d]
  BY <1>2, <1>4, Zenon
<1>7. /\ src2 \in Seq(Definition) /\ Len(src2) = Len(src)
      /\ \A t \in 1 .. Len(src) : src2[t] = IF t = s THEN d ELSE src[t]
  <2>1. src \in Seq(Definition) /\ s \in 1 .. Len(src)
    OBVIOUS
  <2>2. /\ [src EXCEPT ![s] = d] \in Seq(Definition) /\ Len([src EXCEPT ![s] = d]) = Len(src)
        /\ \A t \in 1 .. Len(src) : [src EXCEPT ![s] = d][t] = IF t = s THEN d ELSE src[t]
    BY ONLY <1>5, <2>1, ExceptSeq
  <2> QED BY ONLY <1>6, <2>2
<1> QED BY <1>2, <1>5, <1>7 DEF Remembers

\* After a statement the others are as they were.
LEMMA ClosesAppend ==
  ASSUME NEW S, NEW q \in Seq(S), NEW x \in S
  PROVE  Closes(Append(q, x)) <=> Closes(q) \/ x.op = "cls"
<1>1. /\ Len(q) \in Nat /\ DOMAIN q = 1 .. Len(q) /\ DOMAIN Append(q, x) = 1 .. Len(q) + 1
      /\ Append(q, x)[Len(q) + 1] = x /\ \A i \in 1 .. Len(q) : Append(q, x)[i] = q[i]
  OBVIOUS
<1>2. \A k : k \in 1 .. Len(q) + 1 <=> k \in 1 .. Len(q) \/ k = Len(q) + 1
  BY <1>1
<1> QED BY <1>1, <1>2 DEF Closes

\* A statement is read: some code is added to the open prototype.
Says(a, b, st) ==
  \E code : /\ Works(a, b, code)
            /\ Closes(aasm_prototype(a).code) \/ st.op = "cls" => Closes(code)

\* What is said of the assembler and the text holds after the statement.
LEMMA SayOn ==
  ASSUME NEW a, NEW cs, NEW src, Compiling(a, cs, src), cs # <<>>,
         NEW st \in Said, NEW b, Says(a, b, st),
         NEW c, Likewise(Last(cs), c), Distinct(c.locals),
         NEW cs2, cs2 = Append(Front(cs), c),
         NEW src2, src2 = [src EXCEPT ![Slot(a)].body = Append(@, st)]
  PROVE  Compiling(b, cs2, src2)
<1>1. PICK code : /\ Works(a, b, code)
                  /\ Closes(aasm_prototype(a).code) \/ st.op = "cls" => Closes(code)
  BY DEF Says
<1>2. Sound(a, cs, src)
  BY DEF Compiling
<1>3. /\ Slot(a) \in 1 .. Len(src) /\ Slot(a) \in SlotsIn(a) /\ src[Slot(a)] \in Definition
      /\ Len(cs) \in Nat \ {0} /\ Len(src) \in Nat
      /\ Last(cs) = cs[Len(cs)] /\ Last(cs) \in Context
  BY <1>2, OpenDefinition
<1>4. /\ cs2 \in Seq(Context) /\ Len(cs2) = Len(cs) /\ cs2[Len(cs)] = c
      /\ \A i \in 1 .. Len(cs) - 1 : cs2[i] = cs[i]
  <2>1. cs \in Seq(Context) /\ c \in Context
    BY <1>2 DEF Sound, Likewise
  <2>2. cs # <<>> /\ cs2 = Append(Front(cs), c)
    OBVIOUS
  <2>3. IsReplaced(Context, cs, c, cs2)
    BY ONLY <2>1, <2>2, LastReplaced, Zenon
  <2> QED BY <2>3 DEF IsReplaced
<1>5. Remembers(src, Slot(a), st, src2)
  BY <1>2, <1>3, BodyOn DEF Sound
<1>6. /\ Usable(b) /\ Len(b.slots) = Len(a.slots) /\ b.context = a.context
      /\ Slot(b) = Slot(a) /\ aasm_prototype(b).nesteds = aasm_prototype(a).nesteds
      /\ \A s \in SlotsIn(a) \ {Slot(a)} : At(b, s) = At(a, s)
      /\ aasm_prototype(b).code = code
  BY <1>1, WorksUsable DEF Works, Only, Goes, Steady, Slot
<1>7. Sound(b, cs2, src2)
  <2>1. \A i \in 1 .. Len(cs2) : Distinct(cs2[i].locals)
    BY <1>2, <1>3, <1>4 DEF Sound
  <2> QED BY <1>2, <1>4, <1>5, <1>6, <2>1 DEF Sound, Remembers
<1>8. cs2[1].sym = cs[1].sym /\ cs2[1].nesteds = cs[1].nesteds /\ cs2 # <<>>
  BY <1>3, <1>4 DEF Likewise
<1>9. Held(cs2) <=> Held(cs)
  BY <1>8 DEF Held
<1>10. ASSUME IsFlat(a, cs, src)
       PROVE  IsFlat(b, cs2, src2)
  <2>1. ASSUME NEW s \in 1 .. Len(src2)
        PROVE  Kids(b, s) = <<>>
    <3>1. s \in 1 .. Len(src) /\ s \in SlotsIn(a)
      BY <1>2, <1>3, <1>5 DEF Remembers, Sound, SlotsIn
    <3>2. Kids(b, s) = Kids(a, s)
      BY <1>6, <3>1 DEF Kids, aasm_prototype
    <3> QED BY <1>10, <3>1, <3>2 DEF IsFlat
  <2>2. ASSUME NEW s \in 1 .. Len(src2), Closes(src2[s].body)
        PROVE  cs2 # <<>> /\ s = Slot(b) /\ Closes(aasm_prototype(b).code)
    <3>1. s \in 1 .. Len(src)
      BY <1>5 DEF Remembers
    <3>2. CASE s # Slot(a)
      BY <1>5, <1>10, <2>2, <3>1, <3>2 DEF IsFlat, Remembers
    <3>3. CASE s = Slot(a)
      <4>1. src[s].body \in Seq(Said) /\ src2[s].body = Append(src[s].body, st)
        BY <1>3, <1>5, <3>3 DEF Definition, Remembers
      <4>2. Closes(src[s].body) \/ st.op = "cls"
        BY <2>2, <4>1, ClosesAppend
      <4>3. Closes(code)
        BY <1>1, <1>10, <3>1, <4>2 DEF IsFlat
      <4> QED BY <1>6, <1>8, <3>3, <4>3
    <3> QED BY <3>2, <3>3
  <2> QED BY <1>8, <1>10, <2>1, <2>2 DEF IsFlat
<1> QED BY <1>4, <1>7, <1>9, <1>10 DEF Compiling

-----------------------------------------------------------------------------
\* The compiler: each statement goes on reading.

\* Nothing is done to the assembler.
LEMMA WorksSelf ==
  ASSUME NEW a, Usable(a)
  PROVE  Works(a, a, aasm_prototype(a).code)
BY AloneSelf DEF Works, Usable, Alone

\* What the open prototype holds.
LEMMA OpenHolds ==
  ASSUME NEW a, Usable(a)
  PROVE  /\ aasm_prototype(a).code \in Seq(AnyCode)
         /\ Len(aasm_prototype(a).code) \in Nat /\ Len(aasm_prototype(a).consts) \in Nat
         /\ Len(aasm_prototype(a).imports) \in Nat /\ Len(aasm_prototype(a).nesteds) \in Nat
<1>1. aasm_prototype(a) \in Protos(DOMAIN a.st.text, Len(a.slots))
  BY OpenOK DEF Usable
<1>2. PICK q : q = aasm_prototype(a)
  OBVIOUS
<1>3. /\ q.code \in Seq(AnyCode) /\ q.consts \in Seq(Plain \cup [string : DOMAIN a.st.text])
      /\ q.imports \in Seq([module : DOMAIN a.st.text, name : DOMAIN a.st.text])
      /\ q.nesteds \in Seq(0 .. Len(a.slots) - 1)
  BY <1>1, <1>2, MembersOf DEF Members
<1> QED BY <1>2, <1>3, LenProperties

\* The state that is reached still is one in which the compiler reads.
GoesOnReading == Compiling(self', ctxs', source') /\ outcome' = outcome

\* A statement that emits an instruction.
LEMMA EmitsOn ==
  ASSUME Compiling(self, ctxs, source), ctxs # <<>>,
         NEW a, Works(self, a, aasm_prototype(self).code),
         NEW ins \in AnyCode, NEW c, Likewise(pctx, c), Distinct(c.locals),
         NEW st \in Said, st.op = "cls" => ins.op = "cls", Emits(a, ins, c, st)
  PROVE  GoesOnReading
<1>1. Usable(self) /\ Usable(a) /\ aasm_prototype(a).code = aasm_prototype(self).code
  BY WorksUsable DEF Compiling, Sound, Works
<1>2. PICK e : e = aasm_emit(a, ins)
  OBVIOUS
<1>3. Works(a, e, Append(aasm_prototype(a).code, ins))
  BY <1>1, <1>2, EmitWorks
<1>4. PICK code : code = Append(aasm_prototype(self).code, ins)
  OBVIOUS
<1>5. Works(self, e, code)
  BY <1>1, <1>3, <1>4, WorksOn
<1>6. Closes(aasm_prototype(self).code) \/ st.op = "cls" => Closes(code)
  BY <1>1, <1>4, OpenHolds, ClosesAppend
<1>7. Says(self, e, st)
  BY <1>5, <1>6 DEF Says
<1>8. /\ self' = e /\ ctxs' = Append(Front(ctxs), c) /\ outcome' = outcome
      /\ source' = [source EXCEPT ![Slot(self)].body = Append(@, st)]
  BY <1>2 DEF Emits
<1>9. Likewise(Last(ctxs), c)
  BY DEF pctx
<1>10. Compiling(e, ctxs', source')
  BY <1>7, <1>8, <1>9, SayOn
<1> QED BY <1>8, <1>10 DEF GoesOnReading

\* The context in which is read.
LEMMA ContextIs ==
  ASSUME Compiling(self, ctxs, source), ctxs # <<>>
  PROVE  /\ pctx \in Context /\ Distinct(pctx.locals) /\ Usable(self)
         /\ Works(self, self, aasm_prototype(self).code)
BY OpenDefinition, WorksSelf DEF Compiling, Sound, pctx

\* One pool of the context is another one.
LEMMA ContextWith ==
  ASSUME NEW c \in Context, Distinct(c.locals), NEW q \in Pool,
         NEW d, \/ d = c
                \/ d = [c EXCEPT !.constants = q]
                \/ d = [c EXCEPT !.imports = q]
                \/ d = [c EXCEPT !.pseudo_nesteds = q]
                \/ d = [c EXCEPT !.label_addresses = q]
  PROVE  Likewise(c, d) /\ Distinct(d.locals)
<1>1. /\ d \in Context /\ d.sym = c.sym /\ d.nesteds = c.nesteds /\ d.locals = c.locals
  BY DEF Context
<1> QED BY <1>1 DEF Likewise

\* An instruction with an index.
LEMMA InstructionIs ==
  ASSUME NEW n \in Int, NEW i,
         \/ i = [op |-> "ldk", idx |-> n] \/ i = [op |-> "imp", idx |-> n]
         \/ i = [op |-> "llv", idx |-> n] \/ i = [op |-> "jmp", idx |-> n]
         \/ i = [op |-> "cls", idx |-> n]
  PROVE  i \in AnyCode
BY DEF AnyCode, Indexed

\* An instruction of the host, which has no name in it.
LEMMA PlainlyOn ==
  ASSUME Compiling(self, ctxs, source), ctxs # <<>>, NEW i \in Codes, Plainly(i)
  PROVE  GoesOnReading
<1>1. i \in AnyCode
  BY HostsOwn
<1>2. PICK st : st = [op |-> "plain"]
  OBVIOUS
<1>3. st \in Said /\ st.op # "cls"
  BY <1>2 DEF Said
<1>4. Likewise(pctx, pctx) /\ Distinct(pctx.locals)
  BY ContextIs DEF Likewise
<1>5. Emits(self, i, pctx, st)
  BY <1>2 DEF Plainly
<1> QED BY <1>1, <1>3, <1>4, <1>5, ContextIs, EmitsOn

\* A constant: one that was loaded before keeps its index.
LEMMA LoadConstantOn ==
  ASSUME Compiling(self, ctxs, source), ctxs # <<>>, NEW l \in Literals, LoadConstant(l)
  PROVE  GoesOnReading
<1> DEFINE known == Known(pctx.constants, l.text)
<1>1. PICK idx : idx = IF known THEN IdxOf(pctx.constants, l.text)
                       ELSE Len(aasm_prototype(self).consts)
  OBVIOUS
<1>2. PICK a : a = IF known THEN self
                   ELSE IF l \in Plain THEN aasm_add_constant(self, l)
                   ELSE AddString(self, l.text)
  OBVIOUS
<1>3. PICK q : q = pool_push(pctx.constants, l.text, idx)
  OBVIOUS
<1>4. PICK c : c = [pctx EXCEPT !.constants = q]
  OBVIOUS
<1>5. PICK st : st = [op |-> "ldk", text |-> l.text]
  OBVIOUS
<1>6. PICK ins : ins = [op |-> "ldk", idx |-> idx]
  OBVIOUS
<1>7. Emits(a, ins, c, st)
  BY <1>1, <1>2, <1>3, <1>4, <1>5, <1>6, Zenon DEF LoadConstant
<1>8. pctx \in Context /\ Usable(self) /\ Distinct(pctx.locals)
  BY ContextIs
<1>9. pctx.constants \in Pool /\ l.text \in Literal
  BY <1>8 DEF Context, Literal
<1>10. idx \in Int
  BY <1>1, <1>8, <1>9, IdxIs, OpenHolds DEF Known
<1>11. Works(self, a, aasm_prototype(self).code)
  <2>1. CASE known
    BY <1>2, <1>8, <2>1, WorksSelf
  <2>2. CASE ~known /\ l \in Plain
    BY <1>2, <1>8, <2>2, ConstantWorks
  <2>3. CASE ~known /\ l \notin Plain
    <3>1. l.text \in Words
      BY <2>3, CompilerAssumption DEF Words
    <3> QED BY <1>2, <1>8, <2>3, <3>1, StringWorks
  <2> QED BY <2>1, <2>2, <2>3
<1>12. q \in Pool
  BY <1>3, <1>9, <1>10, PushedIs
<1>13. Likewise(pctx, c) /\ Distinct(c.locals)
  BY <1>4, <1>8, <1>12, ContextWith
<1>14. st \in Said /\ st.op # "cls" /\ ins \in AnyCode
  <2>1. st \in Said /\ st.op # "cls"
    BY <1>5, <1>9 DEF Said
  <2>2. ins \in AnyCode
    BY <1>6, <1>10, InstructionIs
  <2> QED BY <2>1, <2>2
<1> QED BY <1>7, <1>11, <1>13, <1>14, EmitsOn

\* An import: one that was named before keeps its index.
LEMMA ImportOn ==
  ASSUME Compiling(self, ctxs, source), ctxs # <<>>, NEW x \in Externals, Import(x[1], x[2])
  PROVE  GoesOnReading
<1>1. PICK m : m = x[1]
  OBVIOUS
<1>2. PICK n : n = x[2]
  OBVIOUS
<1>3. x = <<m, n>> /\ m \in Strings /\ n \in Strings /\ <<m, n>> \in Literal
  BY <1>1, <1>2, AssemblerAssumption DEF Literal
<1> DEFINE known == Known(pctx.imports, <<m, n>>)
<1>4. PICK idx : idx = IF known THEN IdxOf(pctx.imports, <<m, n>>)
                       ELSE Len(aasm_prototype(self).imports)
  OBVIOUS
<1>5. PICK a : a = IF known THEN self ELSE aasm_add_import(self, m, n)
  OBVIOUS
<1>6. PICK q : q = pool_push(pctx.imports, <<m, n>>, idx)
  OBVIOUS
<1>7. PICK c : c = [pctx EXCEPT !.imports = q]
  OBVIOUS
<1>8. PICK st : st = [op |-> "imp", module |-> m, name |-> n]
  OBVIOUS
<1>9. PICK ins : ins = [op |-> "imp", idx |-> idx]
  OBVIOUS
<1>10. Import(m, n)
  BY <1>1, <1>2
<1>11. Emits(a, ins, c, st)
  BY <1>4, <1>5, <1>6, <1>7, <1>8, <1>9, <1>10, Zenon DEF Import
<1>12. pctx \in Context /\ Usable(self) /\ Distinct(pctx.locals)
  BY ContextIs
<1>13. pctx.imports \in Pool
  BY <1>12 DEF Context
<1>14. idx \in Int
  BY <1>4, <1>12, <1>13, IdxIs, OpenHolds DEF Known
<1>15. Works(self, a, aasm_prototype(self).code)
  BY <1>3, <1>5, <1>12, WorksSelf, ImportWorks DEF Words
<1>16. q \in Pool
  BY <1>3, <1>6, <1>13, <1>14, PushedIs
<1>17. Likewise(pctx, c) /\ Distinct(c.locals)
  BY <1>7, <1>12, <1>16, ContextWith
<1>18. st \in Said /\ st.op # "cls" /\ ins \in AnyCode
  <2>1. st \in Said /\ st.op # "cls"
    BY <1>3, <1>8 DEF Said
  <2>2. ins \in AnyCode
    BY <1>9, <1>14, InstructionIs
  <2> QED BY <2>1, <2>2
<1> QED BY <1>11, <1>15, <1>17, <1>18, EmitsOn

\* A local variable, or a label, is loaded.
LEMMA LocalOn ==
  ASSUME Compiling(self, ctxs, source), ctxs # <<>>, NEW x \in Symbols,
         Has(pctx.locals, x), Local(x)
  PROVE  GoesOnReading
<1>1. pctx \in Context /\ Distinct(pctx.locals) /\ Works(self, self, aasm_prototype(self).code)
  BY ContextIs
<1>2. PICK n : n = IdxOf(pctx.locals, x)
  OBVIOUS
<1>3. n \in Int
  BY <1>1, <1>2, IdxIs DEF Context
<1>4. PICK st : st = [op |-> "llv", name |-> x]
  OBVIOUS
<1>5. PICK ins : ins = [op |-> "llv", idx |-> n]
  OBVIOUS
<1>6. Emits(self, ins, pctx, st)
  BY <1>2, <1>4, <1>5, Zenon DEF Local
<1>7. st \in Said /\ st.op # "cls"
  BY <1>4 DEF Said
<1>8. ins \in AnyCode
  BY <1>3, <1>5, InstructionIs
<1>9. Likewise(pctx, pctx)
  BY <1>1 DEF Likewise
<1> QED BY <1>1, <1>6, <1>7, <1>8, <1>9, EmitsOn

\* A jump to a label.
LEMMA JumpOn ==
  ASSUME Compiling(self, ctxs, source), ctxs # <<>>, NEW x \in Symbols, Jump(x)
  PROVE  GoesOnReading
<1>1. /\ pctx \in Context /\ Distinct(pctx.locals) /\ Works(self, self, aasm_prototype(self).code)
      /\ Usable(self)
  BY ContextIs
<1>2. PICK pool : pool = pool_push(pctx.label_addresses, x, Len(pctx.label_addresses))
  OBVIOUS
<1>3. x \in Literal /\ pctx.label_addresses \in Pool /\ Len(pctx.label_addresses) \in Int
  BY <1>1 DEF Context, Literal, Pool
<1>4. PICK n : n = IdxOf(pool, x)
  OBVIOUS
<1>5. pool \in Pool /\ n \in Int
  BY <1>2, <1>3, <1>4, PushedIs
<1>6. PICK c : c = [pctx EXCEPT !.label_addresses = pool,
                                !.pseudo_jumps = Append(@, NumInstructions)]
  OBVIOUS
<1>7. PICK st : st = [op |-> "jmp", label |-> x]
  OBVIOUS
<1>8. PICK ins : ins = [op |-> "jmp", idx |-> n]
  OBVIOUS
<1>9. Emits(self, ins, c, st)
  BY <1>2, <1>4, <1>6, <1>7, <1>8, Zenon DEF Jump
<1>10. st \in Said /\ st.op # "cls"
  BY <1>7 DEF Said
<1>11. ins \in AnyCode
  BY <1>5, <1>8, InstructionIs
<1>12. Likewise(pctx, c) /\ c.locals = pctx.locals
  <2>1. PICK d : d = [pctx EXCEPT !.label_addresses = pool]
    OBVIOUS
  <2>2. Likewise(pctx, d) /\ d \in Context /\ d.pseudo_jumps = pctx.pseudo_jumps
        /\ d.locals = pctx.locals
    BY <1>1, <1>5, <2>1 DEF Context, Likewise
  <2>3. PICK j : j = Append(pctx.pseudo_jumps, NumInstructions)
    OBVIOUS
  <2>4. j \in Seq(Nat)
    <3>1. pctx.pseudo_jumps \in Seq(Nat) /\ NumInstructions \in Nat
      BY <1>1, OpenHolds DEF Context, NumInstructions
    <3> QED BY <2>3, <3>1
  <2>5. c = [d EXCEPT !.pseudo_jumps = j]
    BY <1>6, <2>1, <2>3
  <2>6. c \in Context /\ c.sym = d.sym /\ c.nesteds = d.nesteds /\ c.locals = d.locals
    BY <2>2, <2>4, <2>5 DEF Context
  <2> QED BY <2>2, <2>6 DEF Likewise
<1> QED BY <1>1, <1>9, <1>10, <1>11, <1>12, EmitsOn

\* A closure, of a definition that may come later.
LEMMA ClosureOn ==
  ASSUME Compiling(self, ctxs, source), ctxs # <<>>, NEW s \in DOMAIN SymbolOf,
         Closure(s[1], s[2])
  PROVE  GoesOnReading
<1>1. /\ pctx \in Context /\ Distinct(pctx.locals) /\ Works(self, self, aasm_prototype(self).code)
  BY ContextIs
<1>2. PICK name : name = SymbolOf[<<s[1], s[2]>>]
  OBVIOUS
<1>3. name \in Strings /\ name \in Literal
  <2>1. s = <<s[1], s[2]>>
    BY CompilerAssumption
  <2>2. name = SymbolOf[s]
    BY <1>2, <2>1, Zenon
  <2> QED BY <2>2, CompilerAssumption DEF Literal
<1>4. PICK pool : pool = pool_push(pctx.pseudo_nesteds, name, Len(pctx.pseudo_nesteds))
  OBVIOUS
<1>5. pctx.pseudo_nesteds \in Pool /\ Len(pctx.pseudo_nesteds) \in Int
  BY <1>1 DEF Context, Pool
<1>6. PICK n : n = IdxOf(pool, name)
  OBVIOUS
<1>7. pool \in Pool /\ n \in Int
  BY <1>3, <1>4, <1>5, <1>6, PushedIs
<1>8. PICK c : c = [pctx EXCEPT !.pseudo_nesteds = pool]
  OBVIOUS
<1>9. PICK st : st = [op |-> "cls", name |-> name]
  OBVIOUS
<1>10. PICK ins : ins = [op |-> "cls", idx |-> n]
  OBVIOUS
<1>11. Emits(self, ins, c, st)
  BY <1>2, <1>4, <1>6, <1>8, <1>9, <1>10, Zenon DEF Closure
<1>12. st \in Said /\ ins.op = "cls"
  BY <1>3, <1>9, <1>10 DEF Said
<1>13. ins \in AnyCode
  BY <1>7, <1>10, InstructionIs
<1>14. Likewise(pctx, c) /\ Distinct(c.locals)
  BY <1>1, <1>7, <1>8, ContextWith
<1> QED BY <1>1, <1>11, <1>12, <1>13, <1>14, EmitsOn

\* A name that is not there yet is added to the locals.
LEMMA DistinctOn ==
  ASSUME NEW pool \in Pool, Distinct(pool), NEW x \in Literal, ~Has(pool, x), NEW n \in Int,
         NEW q, q = Append(pool, [literal |-> x, idx |-> n])
  PROVE  q \in Pool /\ Distinct(q)
<1> DEFINE T == [literal : Literal, idx : Int]
<1>1. [literal |-> x, idx |-> n] \in T /\ pool \in Seq(T)
  BY DEF Pool
<1>2. PICK v : v = [literal |-> x, idx |-> n]
  OBVIOUS
<1> HIDE DEF T
<1>3. /\ q \in Seq(T) /\ Len(pool) \in Nat /\ DOMAIN pool = 1 .. Len(pool)
      /\ DOMAIN q = 1 .. Len(pool) + 1
      /\ q[Len(pool) + 1] = v /\ \A i \in 1 .. Len(pool) : q[i] = pool[i]
  BY <1>1, <1>2
<1>4. \A i \in 1 .. Len(pool) : pool[i].literal # x
  BY <1>3 DEF Has
<1>5. v.literal = x
  BY <1>2
<1>6. \A i \in DOMAIN q : i \in 1 .. Len(pool) \/ i = Len(pool) + 1
  BY <1>3
<1>7. \A i, j \in 1 .. Len(pool) : pool[i].literal = pool[j].literal => i = j
  BY <1>3 DEF Distinct, IsInjective
<1>8. \A i, j \in DOMAIN q : q[i].literal = q[j].literal => i = j
  BY <1>3, <1>4, <1>5, <1>6, <1>7
<1>9. Distinct(q)
  BY <1>8 DEF Distinct, IsInjective
<1> QED BY <1>3, <1>9 DEF Pool, T

\* A label has a name of its own.
LEMMA LabelOn ==
  ASSUME Compiling(self, ctxs, source), ctxs # <<>>, NEW x \in Symbols, ~IsTaken(x), Label(x)
  PROVE  GoesOnReading
<1>1. /\ pctx \in Context /\ Distinct(pctx.locals) /\ Works(self, self, aasm_prototype(self).code)
      /\ Usable(self)
  BY ContextIs
<1>2. PICK q : q = Append(pctx.locals, [literal |-> x, idx |-> NumInstructions])
  OBVIOUS
<1>3. PICK c : c = [pctx EXCEPT !.locals = q]
  OBVIOUS
<1>4. PICK st : st = [op |-> "label", name |-> x]
  OBVIOUS
<1>5. /\ ctxs' = Append(Front(ctxs), c) /\ self' = self /\ outcome' = outcome
      /\ source' = [source EXCEPT ![Slot(self)].body = Append(@, st)]
  BY <1>2, <1>3, <1>4 DEF Label
<1>6. q \in Pool /\ Distinct(q)
  <2>1. pctx.locals \in Pool /\ x \in Literal
    BY <1>1 DEF Context, Literal
  <2>2. ~Has(pctx.locals, x)
    BY DEF IsTaken
  <2>3. NumInstructions \in Int
    BY <1>1, OpenHolds DEF NumInstructions
  <2> QED BY <1>1, <1>2, <2>1, <2>2, <2>3, DistinctOn
<1>7. Likewise(pctx, c) /\ c.locals = q
  BY <1>1, <1>3, <1>6 DEF Context, Likewise
<1>8. st \in Said /\ st.op # "cls"
  BY <1>4 DEF Said
<1>9. Says(self, self, st)
  BY <1>1, <1>8 DEF Says
<1>10. Likewise(Last(ctxs), c) /\ Distinct(c.locals)
  BY <1>6, <1>7 DEF pctx
<1>11. Compiling(self, ctxs', source')
  BY <1>5, <1>8, <1>9, <1>10, SayOn
<1> QED BY <1>5, <1>11 DEF GoesOnReading

-----------------------------------------------------------------------------
\* The compiler: definitions begin and end.

\* The prototype that was opened is open.
LEMMA OpenedLast ==
  ASSUME NEW a, Usable(a), NEW f, Opens(a, f)
  PROVE  /\ Slot(f) = Len(a.slots) /\ Len(f.context) = Len(a.context) + 1
         /\ Len(a.context) \in Nat \ {0}
         /\ f.context[Len(f.context)].slot = Len(a.slots)
         /\ \A i \in 1 .. Len(a.context) : f.context[i] = a.context[i]
<1>1. a.context \in Seq([slot : SlotsIn(a), idx : Nat]) /\ Len(a.context) \in Nat \ {0}
  BY SlotOK DEF Usable, Good, Opened
<1>2. PICK i : f.context = Append(a.context, [slot |-> Len(a.slots), idx |-> i])
  BY DEF Opens
<1>3. PICK x : x = [slot |-> Len(a.slots), idx |-> i]
  OBVIOUS
<1>4. PICK S : S = [slot : SlotsIn(a), idx : Nat]
  OBVIOUS
<1>5. /\ Len(f.context) = Len(a.context) + 1 /\ f.context[Len(a.context) + 1] = x
      /\ \A k \in 1 .. Len(a.context) : f.context[k] = a.context[k]
  BY <1>1, <1>2, <1>3, <1>4
<1> QED BY <1>1, <1>3, <1>5 DEF Slot

\* A table that extends one that extends a third extends the third.
LEMMA ExtendsTrans ==
  ASSUME NEW t, NEW u, NEW v, Extends(t, u), Extends(u, v)
  PROVE  Extends(t, v)
BY DEF Extends

\* What is done next to the prototype that was opened.
LEMMA OpensOn ==
  ASSUME NEW a, Usable(a), NEW b, Opens(a, b), NEW c, Works(b, c, <<>>)
  PROVE  Opens(a, c)
<1>1. Slot(b) = Len(a.slots) /\ Slot(a) \in SlotsIn(a) /\ Len(a.slots) \in Nat
  BY OpenedLast, SlotOK DEF Usable, Good, Tidy, Counts
<1>2. /\ Usable(c) /\ Len(c.slots) = Len(b.slots) /\ c.context = b.context
      /\ aasm_prototype(c).nesteds = aasm_prototype(b).nesteds
      /\ Slot(c) = Slot(b) /\ aasm_prototype(c).code = <<>>
      /\ \A s \in SlotsIn(b) \ {Slot(b)} : At(c, s) = At(b, s)
  BY WorksUsable DEF Works, Only, Goes, Steady, Slot
<1>3. \A s \in SlotsIn(a) : s \in SlotsIn(b) \ {Slot(b)}
  BY <1>1 DEF Opens, SlotsIn
<1>4. At(c, Len(a.slots)).nesteds = <<>> /\ At(c, Len(a.slots)).code = <<>>
  BY <1>1, <1>2 DEF aasm_prototype, Opens
<1>5. Extends(a.st, c.st)
  BY ExtendsTrans DEF Opens, Works, Only, Goes
<1>6. Kids(c, Slot(a)) = Append(Kids(a, Slot(a)), Len(a.slots))
  <2>1. At(c, Slot(a)) = At(b, Slot(a))
    BY <1>1, <1>2, <1>3
  <2> QED BY <2>1 DEF Opens, Kids
<1> QED BY <1>2, <1>3, <1>4, <1>5, <1>6 DEF Opens

\* aasm_module_push.
LEMMA ModuleOpens ==
  ASSUME NEW a, Usable(a), NEW s \in Strings, NEW f, f = aasm_module_push(a, s)
  PROVE  Opens(a, f)
<1>1. PICK b : b = aasm_string_to_ref(a, s)
  OBVIOUS
<1>2. Works(a, b, aasm_prototype(a).code) /\ HasText(b.st, s)
  BY <1>1, InternWorks DEF Words
<1>3. Usable(b)
  BY <1>2, WorksUsable
<1>4. PICK g : g = aasm_push(b)
  OBVIOUS
<1>5. Opens(b, g) /\ g.st = b.st
  BY <1>3, <1>4, PushOpens
<1>6. f = WithName(g, "symbol", s)
  BY <1>1, <1>4, <1>5 DEF aasm_module_push, NamedIf, Opens, Usable
<1>7. Slot(g) = Len(b.slots)
  BY <1>3, <1>5, OpenedLast
<1>8. aasm_prototype(g).code = <<>>
  BY <1>5, <1>7 DEF Opens, aasm_prototype
<1>9. Alone(g, f) /\ SameRoom(aasm_prototype(g), aasm_prototype(f))
  BY <1>2, <1>5, <1>6, WithNameAlone DEF Opens, Usable, Words
<1>10. Works(g, f, <<>>)
  BY <1>5, <1>8, <1>9, SameRoomWorks DEF SameRoom, SameItems, Opens
<1>11. Opens(b, f)
  BY <1>3, <1>5, <1>10, OpensOn
<1>12. /\ Len(b.slots) = Len(a.slots) /\ b.context = a.context /\ Slot(b) = Slot(a)
       /\ SlotsIn(b) = SlotsIn(a)
       /\ \A x \in SlotsIn(a) \ {Slot(a)} : At(b, x) = At(a, x)
  BY <1>2 DEF Works, Only, Goes, Steady, Slot, SlotsIn
<1>13. Kids(b, Slot(a)) = Kids(a, Slot(a)) /\ Extends(a.st, b.st)
  BY <1>2, <1>12 DEF Works, Only, Goes, Steady, Kids, aasm_prototype
<1>14. Extends(a.st, f.st)
  BY <1>11, <1>13, ExtendsTrans DEF Opens
<1> QED BY <1>11, <1>12, <1>13, <1>14 DEF Opens

\* The context and the definition at the beginning.
LEMMA BegunIs ==
  ASSUME NEW g \in Signatures, ~Duplicated(g), NEW c, c = Begun(g)
  PROVE  c \in Context /\ Distinct(c.locals) /\ c.nesteds = <<>> /\ c.sym = "statement"
<1>1. PICK m : m = Len(g.args)
  OBVIOUS
<1>2. PICK n : n = Len(g.vars)
  OBVIOUS
<1>3. PICK q : q = Signed(g)
  OBVIOUS
<1>4. m \in ArgCounts /\ n \in Nat /\ q \in Pool /\ Distinct(q)
  BY <1>1, <1>2, <1>3, SignedIs
<1>5. c = [num_arguments |-> m, num_variables |-> n, locals |-> q, imports |-> <<>>,
           constants |-> <<>>, nesteds |-> <<>>, pseudo_nesteds |-> <<>>,
           label_addresses |-> <<>>, pseudo_jumps |-> <<>>, sym |-> "statement"]
  BY <1>1, <1>2, <1>3 DEF Begun, NoContext
<1>6. <<>> \in Pool /\ <<>> \in Seq(Nat)
  BY DEF Pool
<1>7. c \in Context
  BY <1>4, <1>5, <1>6 DEF Context
<1>8. c.locals = q /\ c.nesteds = <<>> /\ c.sym = "statement"
  BY <1>5
<1> QED BY <1>4, <1>7, <1>8

\* What is remembered when a definition begins.
LEMMA DefinedIs ==
  ASSUME NEW f \in Functions, NEW g \in Signatures, NEW d, d = Defined(f, g)
  PROVE  d \in Definition /\ d.body = <<>>
BY SignedIs DEF Definition, Defined

\* A definition begins.
LEMMA DefinedOn ==
  ASSUME NEW a, NEW cs, NEW src, Compiling(a, cs, src), NEW f, Opens(a, f),
         NEW d \in Definition, d.body = <<>>, NEW src2, src2 = Append(src, d),
         NEW cs2 \in Seq(Context), Len(cs2) = Len(cs) + 1,
         \A i \in 1 .. Len(cs2) : Distinct(cs2[i].locals),
         IF cs = <<>> THEN cs2[1].nesteds = <<>> ELSE cs2[1].sym = "def"
  PROVE  Compiling(f, cs2, src2)
<1>1. Sound(a, cs, src) /\ Usable(a)
  BY DEF Compiling, Sound
<1>2. Len(cs) \in Nat /\ Len(src) \in Nat /\ cs \in Seq(Context) /\ src \in Seq(Definition)
  BY <1>1, LenProperties DEF Sound
<1>3. cs2 # <<>>
  BY <1>2
<1>4. /\ src2 \in Seq(Definition) /\ Len(src2) = Len(src) + 1 /\ src2[Len(src) + 1] = d
      /\ \A s \in 1 .. Len(src) : src2[s] = src[s]
  BY <1>2
<1>5. /\ Slot(f) = Len(a.slots) /\ Len(f.context) = Len(a.context) + 1
      /\ Len(a.context) \in Nat \ {0}
      /\ f.context[Len(f.context)].slot = Len(a.slots)
      /\ \A i \in 1 .. Len(a.context) : f.context[i] = a.context[i]
  BY <1>1, OpenedLast
<1>6. /\ Usable(f) /\ Len(f.slots) = Len(a.slots) + 1
      /\ At(f, Len(a.slots)).nesteds = <<>> /\ At(f, Len(a.slots)).code = <<>>
      /\ \A s \in SlotsIn(a) \ {Slot(a)} : At(f, s) = At(a, s)
  BY DEF Opens
<1>7. Len(a.slots) = Len(src) + 1 /\ Len(a.context) = Len(cs) + 1 /\ a.context[1].slot = 0
  BY <1>1 DEF Sound
<1>8. Sound(f, cs2, src2)
  <2>1. f.context[1].slot = 0
    BY <1>5, <1>7
  <2>2. \A i \in 2 .. Len(f.context) : f.context[i].slot # 0
    <3>1. \A i \in 2 .. Len(a.context) : f.context[i].slot # 0
      <4>1. \A i \in 2 .. Len(a.context) : a.context[i].slot # 0
        BY <1>1 DEF Sound
      <4>2. \A i \in 2 .. Len(a.context) : i \in 1 .. Len(a.context)
        BY <1>5
      <4> QED BY <1>5, <4>1, <4>2
    <3>2. f.context[Len(f.context)].slot # 0
      BY <1>2, <1>5, <1>7
    <3> QED BY <1>5, <3>1, <3>2
  <2> QED BY <1>4, <1>5, <1>6, <1>7, <2>1, <2>2 DEF Sound
<1>9. CASE cs # <<>>
  <2>1. Held(cs2)
    BY <1>3, <1>9 DEF Held
  <2> QED BY <1>8, <2>1 DEF Compiling
<1>10. CASE cs = <<>>
  <2>1. Len(cs) = 0 /\ ~Held(cs) /\ IsFlat(a, cs, src)
    BY <1>10 DEF Compiling, Held
  <2>2. Slot(a) = 0
    BY <1>7, <2>1 DEF Slot
  <2>3. ASSUME NEW s \in 1 .. Len(src2)
        PROVE  Kids(f, s) = <<>> /\ ~Closes(src2[s].body)
    <3>1. CASE s = Len(src) + 1
      <4>1. ~Closes(d.body)
        BY DEF Closes
      <4> QED BY <1>4, <1>6, <1>7, <3>1, <4>1 DEF Kids
    <3>2. CASE s \in 1 .. Len(src)
      <4>1. s \in SlotsIn(a) \ {Slot(a)}
        BY <1>2, <1>7, <2>2, <3>2 DEF SlotsIn
      <4>2. Kids(f, s) = Kids(a, s) /\ src2[s] = src[s]
        BY <1>4, <1>6, <3>2, <4>1 DEF Kids
      <4> QED BY <1>10, <2>1, <3>2, <4>2 DEF IsFlat
    <3> QED BY <1>2, <1>4, <3>1, <3>2
  <2>4. IsFlat(f, cs2, src2)
    BY <1>10, <2>3 DEF IsFlat
  <2>5. ~(Len(cs2) > 1)
    BY <2>1
  <2> QED BY <1>8, <2>4, <2>5 DEF Compiling
<1> QED BY <1>9, <1>10

\* A definition of the module begins.
LEMMA DefModuleOn ==
  ASSUME Compiling(self, ctxs, source), NEW f \in Functions, NEW g \in Signatures,
         ~Duplicated(g), DefModule(f, g)
  PROVE  GoesOnReading
<1>1. PICK a : a = aasm_module_push(self, f)
  OBVIOUS
<1>2. PICK c : c = Begun(g)
  OBVIOUS
<1>3. PICK d : d = Defined(f, g)
  OBVIOUS
<1>4. PICK cs : cs = <<c>>
  OBVIOUS
<1>5. PICK src : src = Append(source, d)
  OBVIOUS
<1>6. self' = a /\ ctxs' = cs /\ source' = src /\ outcome' = outcome /\ ctxs = <<>>
  BY <1>1, <1>2, <1>3, <1>4, <1>5 DEF DefModule
<1>7. Usable(self) /\ f \in Strings
  BY CompilerAssumption DEF Compiling, Sound
<1>8. Opens(self, a)
  BY <1>1, <1>7, ModuleOpens
<1>9. c \in Context /\ Distinct(c.locals) /\ c.nesteds = <<>>
  BY <1>2, BegunIs
<1>10. d \in Definition /\ d.body = <<>>
  BY <1>3, DefinedIs
<1>11. /\ cs \in Seq(Context) /\ Len(cs) = Len(ctxs) + 1
       /\ \A i \in 1 .. Len(cs) : cs[i] = c
  BY <1>4, <1>6, <1>9
<1>12. Len(cs) = 1
  BY <1>6, <1>11
<1>13. IF ctxs = <<>> THEN cs[1].nesteds = <<>> ELSE cs[1].sym = "def"
  BY <1>6, <1>9, <1>11, <1>12
<1>14. \A i \in 1 .. Len(cs) : Distinct(cs[i].locals)
  BY <1>9, <1>11
<1>15. Compiling(a, cs, src)
  BY <1>5, <1>8, <1>10, <1>11, <1>13, <1>14, DefinedOn
<1> QED BY <1>6, <1>15 DEF GoesOnReading

\* The context of the outer definition, with another nested one: what is said next is def.
WithNestedSym(c, q) == [c EXCEPT !.nesteds = q, !.sym = "def"]

\* It is a context with the same locals.
LEMMA OuterIs ==
  ASSUME NEW c \in Context, NEW q \in Pool, NEW d, d = WithNestedSym(c, q)
  PROVE  d \in Context /\ d.sym = "def" /\ d.locals = c.locals
BY DEF Context, WithNestedSym

\* A definition begins in another one.
LEMMA DefNestedOn ==
  ASSUME Compiling(self, ctxs, source), NEW f \in Functions, NEW g \in Signatures,
         ~Duplicated(g), ~TooDeep, DefNested(f, g)
  PROVE  GoesOnReading
<1>1. PICK a : a = aasm_push(self)
  OBVIOUS
<1>2. PICK c : c = Begun(g)
  OBVIOUS
<1>3. PICK d : d = Defined(f, g)
  OBVIOUS
<1>4. PICK n : n = Len(aasm_prototype(self).nesteds)
  OBVIOUS
<1>5. PICK q : q = pool_push(pctx.nesteds, f, n)
  OBVIOUS
<1>6. PICK o : o = WithNestedSym(pctx, q)
  OBVIOUS
<1>7. PICK u : u = Append(Front(ctxs), o)
  OBVIOUS
<1>8. PICK w : w = <<c>>
  OBVIOUS
<1>9. PICK cs : cs = u \o w
  OBVIOUS
<1>10. PICK src : src = Append(source, d)
  OBVIOUS
<1>11. ctxs # <<>> /\ self' = a /\ ctxs' = cs /\ source' = src /\ outcome' = outcome
  BY <1>1, <1>2, <1>3, <1>4, <1>5, <1>6, <1>7, <1>8, <1>9, <1>10, Zenon
     DEF DefNested, WithNestedSym, AfterNested
<1>12. Sound(self, ctxs, source) /\ Usable(self) /\ ctxs \in Seq(Context)
  BY DEF Compiling, Sound
<1>13. /\ Len(ctxs) \in Nat \ {0} /\ pctx = ctxs[Len(ctxs)] /\ pctx \in Context
       /\ Distinct(pctx.locals)
  BY <1>11, <1>12, OpenDefinition DEF pctx
<1>14. n \in Int
  BY <1>4, <1>12, OpenHolds
<1>15. pctx.nesteds \in Pool /\ f \in Literal
  BY <1>13 DEF Context, Literal
<1>16. q \in Pool
  BY <1>5, <1>14, <1>15, PushedIs
<1>17. o \in Context /\ o.sym = "def" /\ o.locals = pctx.locals
  BY <1>6, <1>13, <1>16, OuterIs
<1>18. IsReplaced(Context, ctxs, o, u)
  BY <1>7, <1>11, <1>12, <1>17, LastReplaced, Zenon
<1>19. c \in Context /\ Distinct(c.locals)
  BY <1>2, BegunIs
<1>20. w \in Seq(Context) /\ Len(w) = 1 /\ w[1] = c
  BY <1>8, <1>19
<1>21. u \in Seq(Context) /\ Len(u) = Len(ctxs)
  BY <1>18 DEF IsReplaced
<1>22. IsJoined(Context, u, w, cs, Len(ctxs), 1)
  BY <1>9, <1>13, <1>20, <1>21, Joined
<1>23. cs \in Seq(Context) /\ Len(cs) = Len(ctxs) + 1
  BY <1>22 DEF IsJoined
<1>24. \A i \in 1 .. Len(ctxs) : cs[i] = u[i]
  BY <1>13, <1>22 DEF IsJoined
<1>25. cs[Len(ctxs) + 1] = c
  <2>1. Len(ctxs) + 1 \in 1 .. Len(ctxs) + 1 /\ ~(Len(ctxs) + 1 <= Len(ctxs))
        /\ Len(ctxs) + 1 - Len(ctxs) = 1
    BY <1>13
  <2> QED BY <1>20, <1>22, <2>1 DEF IsJoined
<1>26. ASSUME NEW i \in 1 .. Len(cs)
       PROVE  Distinct(cs[i].locals)
  <2>1. CASE i = Len(ctxs) + 1
    BY <1>19, <1>25, <2>1
  <2>2. CASE i = Len(ctxs)
    <3>1. cs[i] = o
      BY <1>13, <1>18, <1>24, <2>2 DEF IsReplaced
    <3> QED BY <1>13, <1>17, <3>1
  <2>3. CASE i \in 1 .. Len(ctxs) - 1
    <3>1. cs[i] = ctxs[i]
      BY <1>13, <1>18, <1>24, <2>3 DEF IsReplaced
    <3>2. i \in 1 .. Len(ctxs)
      BY <1>13, <2>3
    <3> QED BY <1>12, <3>1, <3>2 DEF Sound
  <2> QED BY <1>13, <1>23, <2>1, <2>2, <2>3
<1>27. cs[1].sym = "def"
  <2>1. CASE Len(ctxs) = 1
    BY <1>17, <1>18, <1>24, <2>1 DEF IsReplaced
  <2>2. CASE Len(ctxs) > 1
    <3>1. 1 \in 1 .. Len(ctxs) - 1 /\ 1 \in 1 .. Len(ctxs)
      BY <1>13, <2>2
    <3>2. cs[1] = ctxs[1]
      BY <1>18, <1>24, <3>1 DEF IsReplaced
    <3> QED BY <2>2, <3>2 DEF Compiling, Held
  <2>3. Len(ctxs) = 1 \/ Len(ctxs) > 1
    <3>1. PICK m : m = Len(ctxs)
      OBVIOUS
    <3>2. m \in Nat /\ m # 0
      BY <1>13, <3>1
    <3>3. m = 1 \/ m > 1
      BY <3>2
    <3> QED BY <3>1, <3>3
  <2> QED BY <2>1, <2>2, <2>3
<1>28. Opens(self, a)
  BY <1>1, <1>12, PushOpens
<1>29. d \in Definition /\ d.body = <<>>
  BY <1>3, DefinedIs
<1>30. IF ctxs = <<>> THEN cs[1].nesteds = <<>> ELSE cs[1].sym = "def"
  BY <1>11, <1>27
<1>31. Compiling(a, cs, src)
  BY <1>10, <1>23, <1>26, <1>28, <1>29, <1>30, DefinedOn
<1> QED BY <1>11, <1>31 DEF GoesOnReading

\* An instruction with another index.
LEMMA IdxSet ==
  ASSUME NEW i \in AnyCode, NEW n \in Int
  PROVE  [i EXCEPT !.idx = n] \in AnyCode
<1>1. CASE i \in Indexed
  BY <1>1 DEF AnyCode
<1>2. CASE i \notin Indexed
  <2>1. PICK j \in Indexed, m \in Int : i = [j EXCEPT !.idx = m]
    BY <1>2 DEF AnyCode
  <2>2. [i EXCEPT !.idx = n] = [j EXCEPT !.idx = n]
    <3>1. [[j EXCEPT !.idx = m] EXCEPT !.idx = n] = [j EXCEPT !.idx = n]
      OBVIOUS
    <3> QED BY ONLY <2>1, <3>1
  <2>3. [j EXCEPT !.idx = n] \in AnyCode
    BY DEF AnyCode
  <2> QED BY <2>2, <2>3
<1> QED BY <1>1, <1>2

\* What takes the place of an instruction at the end of a definition.
LEMMA ResolvedOn ==
  ASSUME Usable(self), pctx \in Context, Resolvable,
         NEW off \in 0 .. NumInstructions - 1
  PROVE  Resolved(off) \in AnyCode
<1>1. PICK q : q = aasm_prototype(self).code
  OBVIOUS
<1>2. q \in Seq(AnyCode) /\ Len(q) \in Nat /\ NumInstructions = Len(q)
  BY <1>1, OpenHolds DEF NumInstructions
<1>3. off \in Int /\ off + 1 \in 1 .. Len(q)
  BY <1>2
<1>4. PICK ins : ins = q[off + 1]
  OBVIOUS
<1>5. ins \in AnyCode
  BY <1>2, <1>3, <1>4, ElementOfSeq
<1>6. pctx.locals \in Pool /\ pctx.nesteds \in Pool
  BY DEF Context
<1>7. PICK x : x = LabelAt(off)
  OBVIOUS
<1>8. PICK y : y = ClosureAt(off)
  OBVIOUS
<1>9. CASE IsPseudoJump(off)
  <2>1. Has(pctx.locals, x)
    BY <1>7, <1>9 DEF Resolvable
  <2>2. IdxOf(pctx.locals, x) \in Int
    BY <1>6, <2>1, IdxIs
  <2>3. PICK n : n = Displacement(off)
    OBVIOUS
  <2>4. n \in Int
    BY <1>3, <1>7, <2>2, <2>3 DEF Displacement
  <2>5. [ins EXCEPT !.idx = n] \in AnyCode
    BY <1>5, <2>4, IdxSet
  <2>6. CASE ins.op # "cls"
    <3>1. Resolved(off) = [ins EXCEPT !.idx = n]
      BY <1>1, <1>4, <1>9, <2>3, <2>6 DEF Resolved
    <3> QED BY <2>5, <3>1
  <2>7. CASE ins.op = "cls"
    <3>1. PICK m : m = IdxOf(pctx.nesteds, y)
      OBVIOUS
    <3>2. Has(pctx.nesteds, y)
      BY <1>1, <1>4, <1>8, <2>7 DEF Resolvable
    <3>3. m \in Int
      BY <1>6, <3>1, <3>2, IdxIs
    <3>4. [ins EXCEPT !.idx = m] \in AnyCode
      BY <1>5, <3>3, IdxSet
    <3>5. Resolved(off) = [ins EXCEPT !.idx = n] \/ Resolved(off) = [ins EXCEPT !.idx = m]
      BY <1>1, <1>4, <1>8, <1>9, <2>3, <2>7, <3>1 DEF Resolved
    <3> QED BY <2>5, <3>4, <3>5
  <2> QED BY <2>6, <2>7
<1>10. CASE ~IsPseudoJump(off) /\ ins.op = "cls"
  <2>1. Has(pctx.nesteds, y)
    BY <1>1, <1>4, <1>8, <1>10 DEF Resolvable
  <2>2. PICK n : n = IdxOf(pctx.nesteds, y)
    OBVIOUS
  <2>3. n \in Int
    BY <1>6, <2>1, <2>2, IdxIs
  <2>4. Resolved(off) = [ins EXCEPT !.idx = n]
    BY <1>1, <1>4, <1>8, <1>10, <2>2 DEF Resolved
  <2> QED BY <1>5, <2>3, <2>4, IdxSet
<1>11. CASE ~IsPseudoJump(off) /\ ins.op # "cls"
  BY <1>1, <1>4, <1>5, <1>11 DEF Resolved
<1> QED BY <1>9, <1>10, <1>11

\* The code of a definition that ends.
ResolvedCode == [i \in DOMAIN aasm_prototype(self).code |-> Resolved(i - 1)]

\* It is code, as many instructions as before.
LEMMA ResolvedCodeOn ==
  ASSUME Usable(self), pctx \in Context, Resolvable
  PROVE  /\ ResolvedCode \in Seq(AnyCode)
         /\ Len(ResolvedCode) = Len(aasm_prototype(self).code)
<1>1. PICK q : q = aasm_prototype(self).code
  OBVIOUS
<1>2. q \in Seq(AnyCode) /\ Len(q) \in Nat /\ NumInstructions = Len(q)
  BY <1>1, OpenHolds DEF NumInstructions
<1>3. DOMAIN q = 1 .. Len(q)
  BY <1>2, LenProperties
<1>4. ASSUME NEW i \in 1 .. Len(q)
      PROVE  Resolved(i - 1) \in AnyCode
  <2>1. i - 1 \in 0 .. NumInstructions - 1
    BY <1>2
  <2> QED BY <2>1, ResolvedOn
<1>5. ResolvedCode \in [1 .. Len(q) -> AnyCode]
  BY <1>1, <1>3, <1>4 DEF ResolvedCode
<1> QED BY <1>1, <1>2, <1>5, FunctionIsSeq

\* What end does before the prototype is closed.
LEMMA FinishedOn ==
  ASSUME Compiling(self, ctxs, source), ctxs # <<>>, Resolvable
  PROVE  /\ Works(self, Finished, ResolvedCode)
         /\ pctx.nesteds = <<>> => ~Closes(aasm_prototype(self).code)
<1>1. pctx \in Context /\ Usable(self)
  BY ContextIs
<1>2. PICK n : n = pctx.num_variables
  OBVIOUS
<1>3. n \in Nat
  BY <1>1, <1>2 DEF Context
<1>4. PICK c : c = ResolvedCode
  OBVIOUS
<1>5. c \in Seq(AnyCode) /\ Len(c) = Len(aasm_prototype(self).code)
  BY <1>1, <1>4, ResolvedCodeOn
<1>6. Finished = WithPrototype(self, WithCode(aasm_prototype(self), c, n))
  BY <1>2, <1>4, Zenon DEF Finished, WithCode, ResolvedCode
<1>7. Works(self, Finished, c)
  BY <1>1, <1>3, <1>5, <1>6, CodeWorks
<1>8. ASSUME pctx.nesteds = <<>>, Closes(aasm_prototype(self).code)
      PROVE  FALSE
  <2>1. PICK q : q = aasm_prototype(self).code
    OBVIOUS
  <2>2. q \in Seq(AnyCode) /\ Len(q) \in Nat /\ NumInstructions = Len(q)
    BY <1>1, <2>1, OpenHolds DEF NumInstructions
  <2>3. DOMAIN q = 1 .. Len(q)
    BY <2>2, LenProperties
  <2>4. PICK k \in 1 .. Len(q) : q[k].op = "cls"
    BY <1>8, <2>1, <2>3 DEF Closes
  <2>5. PICK off : off = k - 1
    OBVIOUS
  <2>6. off \in 0 .. NumInstructions - 1 /\ off + 1 = k
    BY <2>2, <2>5
  <2>7. Has(pctx.nesteds, ClosureAt(off))
    BY <2>1, <2>4, <2>6 DEF Resolvable
  <2> QED BY <1>8, <2>7 DEF Has
<1> QED BY <1>4, <1>7, <1>8

\* aasm_pop after some work in the open prototype.
Popped(a, b) ==
  /\ Usable(b) /\ Len(b.slots) = Len(a.slots)
  /\ Len(b.context) = Len(a.context) - 1
  /\ \A i \in 1 .. Len(b.context) : b.context[i] = a.context[i]
  /\ \A s \in SlotsIn(a) : Kids(b, s) = Kids(a, s)

\* What aasm_pop leaves.
LEMMA PopIs ==
  ASSUME NEW a, NEW b, NEW code, Works(a, b, code), Usable(a), Len(a.context) > 1,
         NEW c, c = aasm_pop(b)
  PROVE  Popped(a, c)
<1>1. /\ Usable(b) /\ Len(b.slots) = Len(a.slots) /\ b.context = a.context
      /\ aasm_prototype(b).nesteds = aasm_prototype(a).nesteds
      /\ Slot(b) = Slot(a) /\ SlotsIn(b) = SlotsIn(a)
      /\ \A s \in SlotsIn(a) \ {Slot(a)} : At(b, s) = At(a, s)
  BY WorksUsable DEF Works, Only, Goes, Steady, Slot, SlotsIn
<1>2. Len(a.context) \in Nat
  BY LenProperties DEF Usable, Good, Opened
<1>3. PICK L : L = Len(b.context) - 1
  OBVIOUS
<1>4. L \in 1 .. Len(b.context) /\ L = Len(a.context) - 1
  BY <1>1, <1>2, <1>3
<1>5. c = ClosedTo(b, L)
  BY <1>3 DEF aasm_pop, ClosedTo, Front
<1>6. Good(b)
  BY <1>1 DEF Usable
<1>7. /\ Good(c) /\ c.slots = b.slots /\ c.buff = b.buff
      /\ c.asserts = b.asserts
      /\ Len(c.context) = L /\ \A i \in 1 .. L : c.context[i] = b.context[i]
  BY <1>4, <1>5, <1>6, ClosedIs
<1>8. SlotsIn(c) = SlotsIn(a) /\ \A s \in SlotsIn(a) : At(c, s) = At(b, s)
  BY <1>1, <1>7 DEF SlotsIn, At
<1>9. Usable(c)
  BY <1>1, <1>7, <1>8 DEF Usable, Roomy
<1>10. ASSUME NEW s \in SlotsIn(a)
       PROVE  Kids(c, s) = Kids(a, s)
  <2>1. CASE s = Slot(a)
    BY <1>1, <1>8, <2>1 DEF Kids, aasm_prototype
  <2>2. CASE s # Slot(a)
    BY <1>1, <1>8, <2>2 DEF Kids
  <2> QED BY <2>1, <2>2
<1> QED BY <1>1, <1>4, <1>7, <1>9, <1>10 DEF Popped

\* A definition is closed.
LEMMA PopOn ==
  ASSUME NEW a, NEW cs, NEW src, Sound(a, cs, src), cs # <<>>,
         NEW b, NEW code, Works(a, b, code), NEW c, c = aasm_pop(b),
         NEW cs2 \in Seq(Context), Len(cs2) = Len(cs) - 1,
         \A i \in 1 .. Len(cs2) : Distinct(cs2[i].locals)
  PROVE  Sound(c, cs2, src) /\ \A s \in 1 .. Len(src) : Kids(c, s) = Kids(a, s)
<1>1. Usable(a) /\ Len(cs) \in Nat \ {0} /\ Len(a.context) = Len(cs) + 1 /\ Len(src) \in Nat
  BY OpenDefinition DEF Sound
<1>2. Len(a.context) > 1
  BY <1>1
<1>3. Popped(a, c)
  BY <1>1, <1>2, PopIs
<1>4. \A s \in 1 .. Len(src) : s \in SlotsIn(a)
  BY <1>1 DEF Sound, SlotsIn
<1>5. /\ Len(c.context) = Len(cs) /\ c.context[1] = a.context[1]
      /\ \A i \in 2 .. Len(c.context) : i \in 2 .. Len(a.context) /\ c.context[i] = a.context[i]
  BY <1>1, <1>3 DEF Popped
<1>6. Len(cs) = Len(cs2) + 1
  BY <1>1, LenProperties
<1>7. /\ a.context[1].slot = 0 /\ \A i \in 2 .. Len(a.context) : a.context[i].slot # 0
      /\ src \in Seq(Definition) /\ Len(a.slots) = Len(src) + 1
  BY DEF Sound
<1>8. c.context[1].slot = 0 /\ \A i \in 2 .. Len(c.context) : c.context[i].slot # 0
  BY <1>5, <1>7
<1>9. Sound(c, cs2, src)
  BY <1>3, <1>5, <1>6, <1>7, <1>8 DEF Sound, Popped
<1> QED BY <1>3, <1>4, <1>9 DEF Popped

\* A definition of the module ends: it cannot have one inside, so it has no closures.
LEMMA EndModuleOn ==
  ASSUME Compiling(self, ctxs, source), Reading, Resolvable, Len(ctxs) = 1, EndModule,
         UNCHANGED <<outcome, source>>
  PROVE  GoesOnReading
<1>1. ctxs # <<>> /\ pctx.sym = "statement" /\ Sound(self, ctxs, source)
  BY DEF Reading, Compiling
<1>2. pctx \in Context /\ Usable(self)
  BY <1>1, ContextIs
<1>3. /\ Slot(self) \in 1 .. Len(source) /\ source[Slot(self)] \in Definition
      /\ pctx = ctxs[1] /\ Len(source) \in Nat
  BY <1>1, OpenDefinition DEF pctx
<1>4. IsFlat(self, ctxs, source) /\ pctx.nesteds = <<>>
  <2>1. ~Held(ctxs)
    BY <1>1, <1>3 DEF Held
  <2>2. IsFlat(self, ctxs, source)
    BY <2>1 DEF Compiling
  <2> QED BY <1>1, <1>3, <2>2 DEF IsFlat
<1>5. Works(self, Finished, ResolvedCode) /\ ~Closes(aasm_prototype(self).code)
  BY <1>1, <1>4, FinishedOn
<1>6. PICK name : name = SymbolOf[<<source[Slot(self)].name, pctx.num_arguments>>]
  OBVIOUS
<1>7. name \in Words
  <2>1. source[Slot(self)].name \in Functions /\ pctx.num_arguments \in ArgCounts
    BY <1>2, <1>3 DEF Definition, Context
  <2> QED BY <1>6, <2>1, CompilerAssumption DEF ArgCounts, Words
<1>8. PICK x : x = Finished
  OBVIOUS
<1>9. Usable(x) /\ aasm_prototype(x).code = ResolvedCode
  BY <1>5, <1>8, WorksUsable DEF Works
<1>10. PICK b : b = SetName(x, "symbol", name)
  OBVIOUS
<1>11. Works(x, b, ResolvedCode)
  BY <1>7, <1>9, <1>10, NameWorks
<1>12. Works(self, b, ResolvedCode)
  BY <1>5, <1>8, <1>11, WorksOn
<1>13. self' = aasm_pop(b) /\ ctxs' = <<>> /\ source' = source /\ outcome' = outcome
  BY <1>6, <1>8, <1>10 DEF EndModule
<1>14. PICK c : c = aasm_pop(b)
  OBVIOUS
<1>15. PICK cs : cs = <<>>
  OBVIOUS
<1>16. cs \in Seq(Context) /\ Len(cs) = 0
  BY <1>15
<1>17. Len(cs) = Len(ctxs) - 1 /\ \A i \in 1 .. Len(cs) : Distinct(cs[i].locals)
  <2>1. Len(cs) = Len(ctxs) - 1
    BY <1>16
  <2>2. \A i \in 1 .. Len(cs) : FALSE
    BY <1>16
  <2> QED BY <2>1, <2>2
<1>18. Sound(c, cs, source) /\ \A s \in 1 .. Len(source) : Kids(c, s) = Kids(self, s)
  <2>1. Sound(self, ctxs, source) /\ ctxs # <<>> /\ cs \in Seq(Context)
    BY <1>1, <1>16
  <2> QED BY ONLY <1>12, <1>14, <1>17, <2>1, PopOn
<1>19. IsFlat(c, cs, source)
  BY <1>4, <1>5, <1>15, <1>18 DEF IsFlat
<1>20. Compiling(c, cs, source)
  BY <1>16, <1>18, <1>19 DEF Compiling
<1> QED BY <1>13, <1>14, <1>15, <1>20 DEF GoesOnReading

\* The context of the outer definition, in which the nested one has another name.
WithNesteds(c, q) == [c EXCEPT !.nesteds = q]

\* It is a context with the same locals and the same symbol.
LEMMA NestedsIs ==
  ASSUME NEW c \in Context, NEW q \in Pool, NEW d, d = WithNesteds(c, q)
  PROVE  d \in Context /\ d.sym = c.sym /\ d.locals = c.locals
BY DEF Context, WithNesteds

\* A definition inside another one ends.
LEMMA EndNestedOn ==
  ASSUME Compiling(self, ctxs, source), Reading, Resolvable, Len(ctxs) # 1, EndNested,
         UNCHANGED <<outcome, source>>
  PROVE  GoesOnReading
<1>1. ctxs # <<>> /\ Sound(self, ctxs, source) /\ ctxs \in Seq(Context)
  BY DEF Reading, Compiling, Sound
<1>2. pctx \in Context /\ Usable(self)
  BY <1>1, ContextIs
<1>3. /\ Slot(self) \in 1 .. Len(source) /\ source[Slot(self)] \in Definition
      /\ Len(ctxs) \in Nat \ {0} /\ Len(source) \in Nat
  BY <1>1, OpenDefinition
<1>4. PICK L : L = Len(ctxs) - 1
  OBVIOUS
<1>5. PICK K : K = Len(ctxs) - 2
  OBVIOUS
<1>6. L \in Nat \ {0} /\ K \in Nat /\ L = K + 1 /\ L \in 1 .. Len(ctxs) /\ K \in 0 .. Len(ctxs)
      /\ \A i \in 1 .. K : i \in 1 .. Len(ctxs)
  BY <1>3, <1>4, <1>5
<1>7. PICK o : o = ctxs[L]
  OBVIOUS
<1>8. o \in Context /\ Distinct(o.locals)
  BY <1>1, <1>6, <1>7, ElementOfSeq DEF Sound
<1>9. PICK q : q = Renamed(o.nesteds, source[Slot(self)].name, pctx.num_arguments)
  OBVIOUS
<1>10. q \in Pool
  <2>1. source[Slot(self)].name \in Functions /\ pctx.num_arguments \in ArgCounts
    BY <1>2, <1>3 DEF Definition, Context
  <2>2. o.nesteds \in Pool
    BY <1>8 DEF Context
  <2> QED BY <1>9, <2>1, <2>2, RenamedPool
<1>11. PICK d : d = WithNesteds(o, q)
  OBVIOUS
<1>12. d \in Context /\ d.sym = o.sym /\ d.locals = o.locals
  BY <1>8, <1>10, <1>11, NestedsIs
<1>13. PICK u : u = SubSeq(ctxs, 1, K)
  OBVIOUS
<1>14. u \in Seq(Context) /\ Len(u) = K /\ \A i \in 1 .. K : u[i] = ctxs[i]
  BY <1>1, <1>6, <1>13
<1>15. PICK cs : cs = Append(u, d)
  OBVIOUS
<1>16. /\ cs \in Seq(Context) /\ Len(cs) = L /\ cs[L] = d
       /\ \A i \in 1 .. K : cs[i] = ctxs[i]
  BY <1>6, <1>12, <1>14, <1>15
<1>17. PICK b : b = Finished
  OBVIOUS
<1>18. Works(self, b, ResolvedCode)
  BY <1>1, <1>17, FinishedOn
<1>19. PICK c : c = aasm_pop(b)
  OBVIOUS
<1>20. self' = c /\ ctxs' = cs /\ source' = source /\ outcome' = outcome
  BY <1>4, <1>5, <1>7, <1>9, <1>11, <1>13, <1>15, <1>17, <1>19, Zenon
     DEF EndNested, WithNesteds
<1>21. \A i \in 1 .. Len(cs) : Distinct(cs[i].locals)
  <2>1. \A i \in 1 .. K : Distinct(cs[i].locals)
    BY <1>1, <1>6, <1>16 DEF Sound
  <2>2. \A i \in 1 .. Len(cs) : i = L \/ i \in 1 .. K
    BY <1>6, <1>16
  <2> QED BY <1>8, <1>12, <1>16, <2>1, <2>2
<1>22. Sound(c, cs, source)
  BY <1>1, <1>4, <1>16, <1>18, <1>19, <1>21, PopOn
<1>23. Held(ctxs)
  <2>1. Len(ctxs) > 1
    BY <1>4, <1>6
  <2> QED BY <2>1 DEF Compiling
<1>24. cs[1].sym = "def"
  <2>1. CASE L = 1
    BY <1>7, <1>12, <1>16, <1>23, <2>1 DEF Held
  <2>2. CASE L # 1
    <3>1. 1 \in 1 .. K
      BY <1>6, <2>2
    <3> QED BY <1>16, <1>23, <3>1 DEF Held
  <2> QED BY <2>1, <2>2
<1>25. Held(cs)
  BY <1>6, <1>16, <1>24 DEF Held
<1>26. Compiling(c, cs, source)
  BY <1>22, <1>25 DEF Compiling
<1> QED BY <1>20, <1>26 DEF GoesOnReading

-----------------------------------------------------------------------------
\* The compiler: the invariant.

\* No definition of the chunk that is loaded has one inside or makes a closure, for one
\* that has another inside never ends (AfterNested).
AllFlat(a, src) ==
  /\ src \in Seq(Definition) /\ Len(a.slots) = Len(src) + 1
  /\ \A s \in 1 .. Len(src) : Kids(a, s) = <<>> /\ ~Closes(src[s].body)

\* The inductive invariant of the compiler.
CompilerInv ==
  /\ outcome \in {"reading", "failed", "compiled", "loaded"}
  /\ outcome # "reading" => ctxs = <<>>
  /\ outcome \in {"reading", "compiled"} => Compiling(self, ctxs, source)
  /\ outcome = "loaded" => AllFlat(self, source)

\* A module that has been read to its end is flat.
LEMMA CompiledIsFlat ==
  ASSUME NEW a, NEW src, Compiling(a, <<>>, src)
  PROVE  AllFlat(a, src)
<1>1. PICK cs : cs = <<>>
  OBVIOUS
<1>2. ~Held(cs) /\ Compiling(a, cs, src)
  BY <1>1 DEF Held
<1>3. IsFlat(a, cs, src) /\ Sound(a, cs, src)
  BY <1>2 DEF Compiling
<1> QED BY <1>1, <1>3 DEF IsFlat, Sound, AllFlat

\* So is the one that is loaded from its chunk: its definitions are the others' in the order
\* of the walk, and the root is the first of both.
LEMMA LoadedIsFlat ==
  ASSUME NEW a, NEW src, Compiling(a, <<>>, src),
         NEW b, b = load_chunk(Started, save_chunk(a))
  PROVE  AllFlat(b, src)
<1>1. AllFlat(a, src) /\ Good(a)
  BY CompiledIsFlat DEF Compiling, Sound, Usable
<1>2. PICK N : N = Len(a.slots)
  OBVIOUS
<1>3. N \in Nat \ {0} /\ Len(src) \in Nat /\ N = Len(src) + 1 /\ Tree(a)
  BY <1>1, <1>2, LenProperties DEF Good, Tidy, Counts, AllFlat
<1>4. PICK c : c = Loading(Started, save_chunk(a))[N]
  OBVIOUS
<1>5. Reloads(a, c)
  BY <1>1, <1>2, <1>4, LoadReloads
<1>6. Len(save_chunk(a)) = N
  BY <1>1, <1>2, SavedLen
<1>7. b = ClosedTo(c, 1)
  BY <1>4, <1>6 DEF load_chunk
<1>8. Good(c) /\ Len(c.slots) = N
  BY <1>2, <1>5 DEF Reloads
<1>9. 1 \in 1 .. Len(c.context)
  <2>1. Len(c.context) \in Nat \ {0}
    BY <1>8, EmptySeq, LenProperties DEF Good, Opened
  <2> QED BY <2>1
<1>10. b.slots = c.slots /\ b.buff = c.buff
  BY <1>7, <1>8, <1>9, ClosedIs
<1>11. PICK o : o = Order(a)
  OBVIOUS
<1>12. PICK f : f = Position(o, N)
  OBVIOUS
<1>13. Places(o, N, f)
  BY <1>1, <1>2, <1>11, <1>12, PositionIs
<1>14. ASSUME NEW s \in 1 .. Len(src)
       PROVE  Kids(b, s) = <<>>
  <2>1. s \in SlotsIn(c) /\ s + 1 \in 1 .. N /\ s + 1 # 1
    BY <1>3, <1>8 DEF SlotsIn
  <2>2. o[s + 1] \in 0 .. N - 1
    BY <1>2, <1>3, <1>11, <2>1, OrderIs DEF SlotsIn
  <2>3. f[o[s + 1] + 1] = s + 1 /\ f[1] = 1
    BY <1>13, <2>1 DEF Places
  <2>4. o[s + 1] # 0
    BY <2>1, <2>3
  <2>5. o[s + 1] \in 1 .. Len(src)
    BY <1>3, <2>2, <2>4
  <2>6. Kids(a, o[s + 1]) = <<>>
    BY <1>1, <2>5 DEF AllFlat
  <2>7. Len(Kids(c, s)) = 0
    BY <1>5, <1>11, <2>1, <2>6 DEF Reloads
  <2>8. Kids(c, s) \in Seq(SlotsIn(c))
    BY <1>8, <2>1 DEF Good, Tree
  <2>9. Kids(c, s) = <<>>
    BY <2>7, <2>8, EmptySeq
  <2> QED BY <1>10, <2>9 DEF Kids, At
<1> QED BY <1>1, <1>3, <1>8, <1>10, <1>14 DEF AllFlat

\* The module is the root, with the name of the file.
LEMMA CompilerInit ==
  ASSUME CInit
  PROVE  CompilerInv
<1>1. PICK z : z = Started
  OBVIOUS
<1>2. /\ Good(z) /\ Len(z.context) = 1 /\ z.asserts /\ Len(z.slots) = 1
      /\ aasm_prototype(z) = Zeroed(DefaultRoom)
  BY <1>1, StartedOK
<1>3. Slot(z) \in SlotsIn(z) /\ SlotsIn(z) = {0}
  <2>1. Slot(z) \in SlotsIn(z)
    BY <1>2, SlotOK DEF Good
  <2>2. SlotsIn(z) = {0}
    BY <1>2 DEF SlotsIn
  <2> QED BY <2>1, <2>2
<1>4. z.context[1].slot = 0
  BY <1>2, <1>3 DEF Slot
<1>5. Roomy(z)
  <2>1. At(z, 0).max = DefaultRoom
    BY <1>2, <1>3 DEF aasm_prototype, Zeroed
  <2> QED BY <1>3, <2>1, CompilerAssumption DEF Roomy
<1>6. Usable(z) /\ File \in Words
  BY <1>2, <1>5, CompilerAssumption DEF Usable, Words
<1>7. PICK q : q = aasm_prototype(z).code
  OBVIOUS
<1>8. PICK y : y = SetName(z, "source", File)
  OBVIOUS
<1>9. Works(z, y, q)
  BY <1>6, <1>7, <1>8, NameWorks
<1>10. Usable(y) /\ aasm_prototype(y).code = q
  BY <1>9, WorksUsable DEF Works
<1>11. PICK x : x = SetName(y, "symbol", File)
  OBVIOUS
<1>12. Works(y, x, q)
  BY <1>6, <1>10, <1>11, NameWorks
<1>13. Works(z, x, q)
  BY <1>9, <1>12, WorksOn
<1>14. Usable(x) /\ Len(x.slots) = 1 /\ x.context = z.context
  BY <1>2, <1>13, WorksUsable DEF Works, Only, Goes, Steady
<1>15. PICK cs : cs = <<>>
  OBVIOUS
<1>16. PICK src : src = <<>>
  OBVIOUS
<1>17. cs \in Seq(Context) /\ Len(cs) = 0 /\ src \in Seq(Definition) /\ Len(src) = 0
  BY <1>15, <1>16
<1>18. (\A i \in 1 .. Len(cs) : FALSE) /\ (\A i \in 1 .. Len(src) : FALSE)
       /\ (\A i \in 2 .. Len(x.context) : FALSE)
  <2>1. Len(x.context) = 1
    BY <1>2, <1>14
  <2>2. \A i : i \notin 1 .. 0 /\ i \notin 2 .. 1
    OBVIOUS
  <2> QED BY <1>17, <2>1, <2>2
<1>19. Sound(x, cs, src)
  BY <1>2, <1>4, <1>14, <1>17, <1>18 DEF Sound
<1>20. IsFlat(x, cs, src)
  BY <1>15, <1>18 DEF IsFlat
<1>21. Compiling(x, cs, src)
  BY <1>17, <1>19, <1>20 DEF Compiling
<1>22. self = x /\ ctxs = cs /\ source = src /\ outcome = "reading"
  BY <1>1, <1>8, <1>11, <1>15, <1>16 DEF CInit
<1> QED BY <1>21, <1>22 DEF CompilerInv

\* A text that is refused.
LEMMA FailKeeps ==
  ASSUME Fail
  PROVE  CompilerInv'
BY DEF Fail, CompilerInv

\* The compiler reads on.
LEMMA ReadingKeeps ==
  ASSUME outcome = "reading", GoesOnReading
  PROVE  CompilerInv'
BY DEF GoesOnReading, CompilerInv

\* A statement.
LEMMA StatementKeeps ==
  ASSUME CompilerInv, Statement
  PROVE  CompilerInv'
<1>1. outcome = "reading" /\ ctxs # <<>>
  BY DEF Statement, Reading
<1>2. Compiling(self, ctxs, source)
  BY <1>1 DEF CompilerInv
<1>3. ASSUME NEW i \in Codes, Plainly(i) PROVE CompilerInv'
  BY <1>1, <1>2, <1>3, PlainlyOn, ReadingKeeps
<1>4. ASSUME NEW l \in Literals, LoadConstant(l) PROVE CompilerInv'
  BY <1>1, <1>2, <1>4, LoadConstantOn, ReadingKeeps
<1>5. ASSUME NEW x \in Externals, Import(x[1], x[2]) PROVE CompilerInv'
  BY <1>1, <1>2, <1>5, ImportOn, ReadingKeeps
<1>6. ASSUME NEW x \in Symbols, Local(x) PROVE CompilerInv'
  <2>1. CASE Has(pctx.locals, x)
    BY <1>1, <1>2, <1>6, <2>1, LocalOn, ReadingKeeps
  <2>2. CASE ~Has(pctx.locals, x)
    BY <1>6, <2>2, FailKeeps DEF Local
  <2> QED BY <2>1, <2>2
<1>7. ASSUME NEW x \in Symbols, Jump(x) PROVE CompilerInv'
  BY <1>1, <1>2, <1>7, JumpOn, ReadingKeeps
<1>8. ASSUME NEW x \in Symbols, Label(x) PROVE CompilerInv'
  <2>1. CASE IsTaken(x)
    BY <1>8, <2>1, FailKeeps DEF Label
  <2>2. CASE ~IsTaken(x)
    BY <1>1, <1>2, <1>8, <2>2, LabelOn, ReadingKeeps
  <2> QED BY <2>1, <2>2
<1>9. ASSUME NEW s \in DOMAIN SymbolOf, Closure(s[1], s[2]) PROVE CompilerInv'
  BY <1>1, <1>2, <1>9, ClosureOn, ReadingKeeps
<1> QED BY <1>3, <1>4, <1>5, <1>6, <1>7, <1>8, <1>9 DEF Statement

\* A definition begins.
LEMMA BeginKeeps ==
  ASSUME CompilerInv, NEW f \in Functions, NEW g \in Signatures,
         DefModule(f, g) \/ DefNested(f, g)
  PROVE  CompilerInv'
<1>1. outcome = "reading"
  BY DEF DefModule, DefNested
<1>2. Compiling(self, ctxs, source)
  BY <1>1 DEF CompilerInv
<1>3. CASE Duplicated(g) \/ (DefNested(f, g) /\ TooDeep)
  BY <1>3, FailKeeps DEF DefModule, DefNested
<1>4. CASE ~Duplicated(g) /\ (DefModule(f, g) \/ ~TooDeep)
  BY <1>1, <1>2, <1>4, DefModuleOn, DefNestedOn, ReadingKeeps
<1> QED BY <1>3, <1>4

\* A definition ends.
LEMMA EndKeeps ==
  ASSUME CompilerInv, End
  PROVE  CompilerInv'
<1>1. Reading /\ outcome = "reading"
  BY DEF End, Reading
<1>2. Compiling(self, ctxs, source)
  BY <1>1 DEF CompilerInv
<1>3. CASE ~Resolvable
  BY <1>3, FailKeeps DEF End
<1>4. CASE Resolvable
  <2>1. UNCHANGED <<outcome, source>>
    BY <1>4 DEF End
  <2>2. CASE Len(ctxs) = 1
    BY <1>1, <1>2, <1>4, <2>1, <2>2, EndModuleOn, ReadingKeeps DEF End
  <2>3. CASE Len(ctxs) # 1
    BY <1>1, <1>2, <1>4, <2>1, <2>3, EndNestedOn, ReadingKeeps DEF End
  <2> QED BY <2>2, <2>3
<1> QED BY <1>3, <1>4

\* The chunk is saved and loaded.
LEMMA LoadKeeps ==
  ASSUME CompilerInv, Load
  PROVE  CompilerInv'
<1>1. /\ outcome = "compiled" /\ outcome' = "loaded" /\ ctxs' = ctxs /\ source' = source
      /\ self' = load_chunk(Started, save_chunk(self))
  BY DEF Load
<1>2. Compiling(self, <<>>, source) /\ ctxs = <<>>
  BY <1>1 DEF CompilerInv
<1>3. PICK b : b = load_chunk(Started, save_chunk(self))
  OBVIOUS
<1>4. AllFlat(b, source)
  BY <1>2, <1>3, LoadedIsFlat
<1> QED BY <1>1, <1>2, <1>3, <1>4 DEF CompilerInv

\* Every step.
LEMMA CompilerStep ==
  ASSUME CompilerInv, [CNext]_cvars
  PROVE  CompilerInv'
<1>1. CASE UNCHANGED cvars
  BY <1>1 DEF cvars, CompilerInv
<1>2. ASSUME EndOfFile PROVE CompilerInv'
  BY <1>2 DEF EndOfFile, CompilerInv
<1>3. ASSUME SyntaxError PROVE CompilerInv'
  BY <1>3, FailKeeps DEF SyntaxError
<1> QED BY <1>1, <1>2, <1>3, StatementKeeps, BeginKeeps, EndKeeps, LoadKeeps DEF CNext

\* The invariant holds in every state of the compiler.
LEMMA CompilerIsSound == CSpec => []CompilerInv
<1>1. CInit => CompilerInv
  BY CompilerInit
<1>2. CompilerInv /\ [CNext]_cvars => CompilerInv'
  BY CompilerStep
<1> QED BY <1>1, <1>2, PTL DEF CSpec

\* What the invariant says of the pools.
LEMMA InvTypes ==
  ASSUME CompilerInv
  PROVE  CompilerTypeOK
<1>1. CASE outcome \in {"reading", "compiled"}
  <2>1. Sound(self, ctxs, source)
    BY <1>1 DEF CompilerInv, Compiling
  <2>2. Len(source) \in Nat /\ Len(ctxs) \in Nat
    BY <2>1, LenProperties DEF Sound
  <2>3. Len(source) = Len(self.slots) - 1
    BY <2>1, <2>2 DEF Sound
  <2>4. outcome = "reading" => Len(self.context) = Len(ctxs) + 1
    BY <2>1 DEF Sound
  <2>5. ASSUME NEW c \in Range(ctxs)
        PROVE  Distinct(c.locals) /\ \A off \in Range(c.pseudo_jumps) : off \in Nat
    <3>1. PICK i \in 1 .. Len(ctxs) : c = ctxs[i]
      BY <2>1, LenProperties DEF Range, Sound
    <3>2. c \in Context
      BY <2>1, <3>1, ElementOfSeq DEF Sound
    <3>3. c.pseudo_jumps \in Seq(Nat)
      BY <3>2 DEF Context
    <3>4. PICK q : q = c.pseudo_jumps
      OBVIOUS
    <3>5. q \in Seq(Nat) /\ DOMAIN q = 1 .. Len(q)
      BY <3>3, <3>4, LenProperties
    <3>6. \A k \in 1 .. Len(q) : q[k] \in Nat
      BY <3>5, ElementOfSeq
    <3>7. \A off \in Range(q) : off \in Nat
      BY <3>5, <3>6 DEF Range
    <3> QED BY <2>1, <3>1, <3>4, <3>7 DEF Sound
  <2> QED BY <2>3, <2>4, <2>5 DEF CompilerInv, CompilerTypeOK, Distinct
<1>2. CASE outcome = "failed"
  BY <1>2 DEF CompilerInv, CompilerTypeOK, Range
<1>3. CASE outcome = "loaded"
  <2>1. Len(source) \in Nat
    BY <1>3, LenProperties DEF CompilerInv, AllFlat
  <2>2. Len(source) = Len(self.slots) - 1
    BY <1>3, <2>1 DEF CompilerInv, AllFlat
  <2> QED BY <1>3, <2>2 DEF CompilerInv, CompilerTypeOK, Range
<1> QED BY <1>1, <1>2, <1>3 DEF CompilerInv

\* Type invariant of the compiler: a slot for each definition that was begun, a context
\* for each that is open, no name twice among the locals (compiler.cpp).
THEOREM CompilerTypes == CSpec => []CompilerTypeOK
BY CompilerIsSound, InvTypes, PTL

-----------------------------------------------------------------------------
\* What is written: the text of a definition while it is open.

\* What a constant is written as.
TextOf(c) == IF c \in Plain THEN c.text ELSE c.string

\* The pools of constants and imports lead to what was written.
ConstsNamed(ks, pool) ==
  \A i \in DOMAIN pool :
    pool[i].idx + 1 \in DOMAIN ks /\ TextOf(ks[pool[i].idx + 1]) = pool[i].literal
ImportsNamed(is, pool) ==
  \A i \in DOMAIN pool :
    /\ pool[i].idx + 1 \in DOMAIN is
    /\ <<is[pool[i].idx + 1].module, is[pool[i].idx + 1].name>> = pool[i].literal

\* The argument or variable x has index n.
LocalIs(d, x, n) == IF n < 0 THEN d.args[-n] = x ELSE d.vars[n + 1] = x

\* Locals are arguments, variables and labels; a label is written once, and its index is
\* how many instructions are before it.
LocalsMean(pool, d) ==
  \A i \in DOMAIN pool :
    IsLabel(d, pool[i].literal) \/ LocalIs(d, pool[i].literal, pool[i].idx)
IsLabelAt(d, j, x) == j \in DOMAIN d.body /\ d.body[j].op = "label" /\ d.body[j].name = x
WrittenOnce(d, j) == \A i \in DOMAIN d.body : IsLabelAt(d, i, d.body[j].name) => i = j
InPool(pool, x, n) == \E i \in DOMAIN pool : pool[i].literal = x /\ pool[i].idx = n
LabelsKept(pool, d) ==
  \A j \in DOMAIN d.body : d.body[j].op = "label" =>
    WrittenOnce(d, j) /\ InPool(pool, d.body[j].name, Instructions(d, j))
Numbered(pool) == \A i \in DOMAIN pool : pool[i].idx = i - 1

\* An instruction as it is while the definition is read: a jump has the place of its label
\* in the pool of labels.
Drafted(u, c, d, ins, t) ==
  /\ t.op = "plain" => ins \in Codes
  /\ t.op = "jmp" =>
       \E i \in DOMAIN c.label_addresses :
         ins = [op |-> "jmp", idx |-> i - 1] /\ c.label_addresses[i].literal = t.label
  /\ t.op = "llv" =>
       ins.op = "llv" /\ (IsLabel(d, t.name) \/ LocalIs(d, t.name, ins.idx))
  /\ t.op = "imp" =>
       /\ ins.op = "imp" /\ ins.idx + 1 \in DOMAIN u.imports
       /\ u.imports[ins.idx + 1] = [module |-> t.module, name |-> t.name]
  /\ t.op = "ldk" =>
       /\ ins.op = "ldk" /\ ins.idx + 1 \in DOMAIN u.consts
       /\ TextOf(u.consts[ins.idx + 1]) = t.text

\* What the open prototype, its context and what is remembered of the text say of each other.
Pools(u, c, d) ==
  /\ c.num_arguments = Len(d.args) /\ c.num_variables = Len(d.vars)
  /\ ConstsNamed(u.consts, c.constants) /\ ImportsNamed(u.imports, c.imports)
  /\ Numbered(c.label_addresses)
  /\ LocalsMean(c.locals, d) /\ LabelsKept(c.locals, d)
DraftedAt(u, c, d, j) ==
  d.body[j].op # "label" =>
    /\ Drafted(u, c, d, u.code[Instructions(d, j)], d.body[j])
    /\ Instructions(d, j) - 1 \in Range(c.pseudo_jumps) <=> d.body[j].op = "jmp"
Drafts(u, c, d) ==
  /\ Len(u.code) = Instructions(d, Len(d.body))
  /\ \A off \in Range(c.pseudo_jumps) : off \in Nat /\ off < Len(u.code)
  /\ \A j \in DOMAIN d.body : DraftedAt(u, c, d, j)
Draft(u, c, d) == Pools(u, c, d) /\ Drafts(u, c, d)
\* How many instructions there are after each statement.
LEMMA InstructionsIs ==
  ASSUME NEW d, NEW n \in Nat
  PROVE  /\ Instructions(d, n) \in Nat
         /\ IF d.body[n + 1].op # "label" THEN Instructions(d, n + 1) = Instructions(d, n) + 1
            ELSE Instructions(d, n + 1) = Instructions(d, n)
         /\ \A m \in 0 .. n : Instructions(d, m) <= Instructions(d, n)
         /\ Instructions(d, 0) = 0
<1> DEFINE I(m) == {j \in 1 .. m : d.body[j].op # "label"}
<1>1. ASSUME NEW m \in Nat
      PROVE  IsFiniteSet(I(m)) /\ Instructions(d, m) = Cardinality(I(m))
  <2>1. IsFiniteSet(1 .. m)
    BY FS_Interval
  <2>2. IsFiniteSet(I(m))
    BY <2>1, FS_Subset
  <2> QED BY <2>2 DEF Instructions
<1>2. Cardinality(I(n)) \in Nat
  BY <1>1, FS_CardinalityType
<1>3. I(n + 1) = IF d.body[n + 1].op # "label" THEN I(n) \cup {n + 1} ELSE I(n)
  BY SMT
<1>4. n + 1 \notin I(n) /\ n + 1 \in Nat
  BY SMT
<1>5. ASSUME NEW m \in 0 .. n
      PROVE  Cardinality(I(m)) <= Cardinality(I(n))
  <2>1. I(m) \subseteq I(n)
    BY SMT
  <2> QED BY <1>1, <2>1, FS_Subset
<1>6. I(0) = {}
  BY SMT
<1>7. Cardinality(I(0)) = 0
  BY <1>6, FS_EmptySet
<1> HIDE DEF I
<1>8. Cardinality(I(n) \cup {n + 1}) = Cardinality(I(n)) + 1
  BY <1>1, <1>4, FS_AddElement
<1>9. IF d.body[n + 1].op # "label" THEN Instructions(d, n + 1) = Instructions(d, n) + 1
      ELSE Instructions(d, n + 1) = Instructions(d, n)
  BY <1>1, <1>3, <1>4, <1>8
<1>10. \A m \in 0 .. n : Instructions(d, m) <= Instructions(d, n)
  BY <1>1, <1>5
<1> QED BY <1>1, <1>2, <1>7, <1>9, <1>10

\* An instruction that was emitted: one of those so far.
LEMMA EmittedIs ==
  ASSUME NEW d, NEW n \in Nat, NEW j \in 1 .. n, d.body[j].op # "label"
  PROVE  Instructions(d, j) \in 1 .. Instructions(d, n)
<1>1. j - 1 \in Nat /\ j = (j - 1) + 1 /\ j \in 0 .. n /\ j \in Nat
  OBVIOUS
<1>2. Instructions(d, j - 1) \in Nat /\ Instructions(d, j) = Instructions(d, j - 1) + 1
  BY <1>1, InstructionsIs
<1>3. Instructions(d, j) <= Instructions(d, n) /\ Instructions(d, n) \in Nat
  BY <1>1, InstructionsIs
<1> QED BY <1>2, <1>3

\* The definition goes on with a statement.
Continues(d, t, e) ==
  /\ e.name = d.name /\ e.args = d.args /\ e.vars = d.vars
  /\ Len(d.body) \in Nat /\ DOMAIN d.body = 1 .. Len(d.body)
  /\ Len(e.body) = Len(d.body) + 1 /\ DOMAIN e.body = 1 .. Len(d.body) + 1
  /\ \A j \in 1 .. Len(d.body) : e.body[j] = d.body[j]
  /\ e.body[Len(d.body) + 1] = t

\* The statements before it are the instructions that they were.
LEMMA ContinuesIs ==
  ASSUME NEW d, NEW t, NEW e, Continues(d, t, e)
  PROVE  /\ \A n \in 0 .. Len(d.body) : Instructions(e, n) = Instructions(d, n)
         /\ IF t.op # "label"
            THEN Instructions(e, Len(e.body)) = Instructions(d, Len(d.body)) + 1
            ELSE Instructions(e, Len(e.body)) = Instructions(d, Len(d.body))
         /\ Instructions(d, Len(d.body)) \in Nat
         /\ \A x : IsLabel(d, x) => IsLabel(e, x)
<1> DEFINE m == Len(d.body)
<1>1. m \in Nat /\ Len(e.body) = m + 1 /\ e.body[m + 1] = t
  BY DEF Continues
<1>2. ASSUME NEW n \in 0 .. m PROVE Instructions(e, n) = Instructions(d, n)
  <2>1. \A j \in 1 .. n : e.body[j] = d.body[j]
    BY <1>1, <1>2 DEF Continues
  <2>2. {j \in 1 .. n : e.body[j].op # "label"} = {j \in 1 .. n : d.body[j].op # "label"}
    BY <2>1
  <2> QED BY <2>2 DEF Instructions
<1>3. m \in 0 .. m
  BY <1>1
<1>4. Instructions(e, m) = Instructions(d, m)
  BY <1>2, <1>3
<1>5. IF e.body[m + 1].op # "label" THEN Instructions(e, m + 1) = Instructions(e, m) + 1
      ELSE Instructions(e, m + 1) = Instructions(e, m)
  BY <1>1, InstructionsIs
<1>6. Instructions(d, m) \in Nat
  BY <1>1, InstructionsIs
<1>7. \A x : IsLabel(d, x) => IsLabel(e, x)
  BY <1>1 DEF IsLabel, Continues
<1> QED BY <1>1, <1>2, <1>4, <1>5, <1>6, <1>7

\* A sequence that begins as another.
Prefix(q, r) == \A i \in DOMAIN q : i \in DOMAIN r /\ r[i] = q[i]

\* What was drafted stays so while items, labels and statements are added.
LEMMA DraftedOn ==
  ASSUME NEW u, NEW c, NEW d, NEW ins, NEW t, Drafted(u, c, d, ins, t),
         NEW w, NEW k, NEW e, Prefix(u.consts, w.consts), Prefix(u.imports, w.imports),
         Prefix(c.label_addresses, k.label_addresses),
         e.args = d.args, e.vars = d.vars, \A x : IsLabel(d, x) => IsLabel(e, x)
  PROVE  Drafted(w, k, e, ins, t)
<1>1. t.op = "jmp" =>
       \E i \in DOMAIN k.label_addresses :
         ins = [op |-> "jmp", idx |-> i - 1] /\ k.label_addresses[i].literal = t.label
  BY DEF Drafted, Prefix
<1>2. t.op = "llv" =>
       ins.op = "llv" /\ (IsLabel(e, t.name) \/ LocalIs(e, t.name, ins.idx))
  BY DEF Drafted, LocalIs
<1>3. t.op = "imp" =>
       /\ ins.op = "imp" /\ ins.idx + 1 \in DOMAIN w.imports
       /\ w.imports[ins.idx + 1] = [module |-> t.module, name |-> t.name]
  BY DEF Drafted, Prefix
<1>4. t.op = "ldk" =>
       /\ ins.op = "ldk" /\ ins.idx + 1 \in DOMAIN w.consts
       /\ TextOf(w.consts[ins.idx + 1]) = t.text
  BY DEF Drafted, Prefix
<1> QED BY <1>1, <1>2, <1>3, <1>4 DEF Drafted

\* The pools of labels and locals, when the definition goes on.
LEMMA LocalsOn ==
  ASSUME NEW pool, NEW d, NEW t, NEW e, Continues(d, t, e), LocalsMean(pool, d)
  PROVE  LocalsMean(pool, e)
<1>1. e.args = d.args /\ e.vars = d.vars /\ \A x : IsLabel(d, x) => IsLabel(e, x)
  BY ContinuesIs DEF Continues
<1> QED BY <1>1 DEF LocalsMean, LocalIs

\* The jumps that wait for their labels: one more when a jump was emitted.
JumpsOn(c, k, t, n) ==
  Range(k.pseudo_jumps) = IF t.op = "jmp" THEN Range(c.pseudo_jumps) \cup {n}
                          ELSE Range(c.pseudo_jumps)

\* An instruction ins is emitted for statement t; w and k are the prototype before it and
\* the context after it.
Drafting(u, c, d, w, k, ins, t) ==
  /\ w.code = u.code /\ Prefix(u.consts, w.consts) /\ Prefix(u.imports, w.imports)
  /\ k.num_arguments = c.num_arguments /\ k.num_variables = c.num_variables
  /\ k.locals = c.locals
  /\ ConstsNamed(w.consts, k.constants) /\ ImportsNamed(w.imports, k.imports)
  /\ Numbered(k.label_addresses) /\ Prefix(c.label_addresses, k.label_addresses)
  /\ JumpsOn(c, k, t, Len(u.code))
  /\ Drafted(w, k, d, ins, t)

\* The prototype after it.
EmittedOn(w, ins, v) ==
  /\ v.consts = w.consts /\ v.imports = w.imports
  /\ Len(w.code) \in Nat /\ Len(v.code) = Len(w.code) + 1
  /\ \A i \in 1 .. Len(w.code) : v.code[i] = w.code[i]
  /\ v.code[Len(w.code) + 1] = ins

\* The text and the definition grow by an instruction and the statement that asked for it.
LEMMA DraftOn ==
  ASSUME NEW u, NEW c, NEW d, Draft(u, c, d), NEW t, t.op # "label", NEW e, Continues(d, t, e),
         NEW w, NEW k, NEW ins, Drafting(u, c, d, w, k, ins, t), NEW v, EmittedOn(w, ins, v)
  PROVE  Draft(v, k, e)
<1> DEFINE m == Len(d.body)
<1>1. /\ m \in Nat /\ Len(e.body) = m + 1 /\ DOMAIN e.body = 1 .. m + 1
      /\ DOMAIN d.body = 1 .. m /\ e.body[m + 1] = t
      /\ \A j \in 1 .. m : e.body[j] = d.body[j]
      /\ e.args = d.args /\ e.vars = d.vars
  BY DEF Continues
<1> HIDE DEF m
<1>2. /\ \A n \in 0 .. m : Instructions(e, n) = Instructions(d, n)
      /\ Instructions(e, m + 1) = Instructions(d, m) + 1 /\ Instructions(d, m) \in Nat
      /\ \A x : IsLabel(d, x) => IsLabel(e, x)
  BY <1>1, ContinuesIs DEF m
<1>3. PICK n : n = Len(u.code)
  OBVIOUS
<1>4. /\ n \in Nat /\ n = Instructions(d, m) /\ Len(v.code) = n + 1
      /\ \A i \in 1 .. n : v.code[i] = u.code[i]
      /\ v.code[n + 1] = ins
  BY <1>2, <1>3 DEF Draft, Drafts, Drafting, EmittedOn, m
<1>5. Pools(v, k, e)
  <2>1. k.num_arguments = Len(e.args) /\ k.num_variables = Len(e.vars)
    BY <1>1 DEF Draft, Pools, Drafting
  <2>2. ConstsNamed(v.consts, k.constants) /\ ImportsNamed(v.imports, k.imports)
        /\ Numbered(k.label_addresses)
    BY DEF Drafting, EmittedOn
  <2>3. LocalsMean(k.locals, e)
    BY LocalsOn DEF Draft, Pools, Drafting
  <2>4. ASSUME NEW j \in DOMAIN e.body, e.body[j].op = "label"
        PROVE  WrittenOnce(e, j) /\ InPool(k.locals, e.body[j].name, Instructions(e, j))
    <3>1. j \in 1 .. m /\ j \in DOMAIN d.body /\ j \in 0 .. m
      BY <1>1, <2>4
    <3>2. d.body[j] = e.body[j] /\ Instructions(e, j) = Instructions(d, j)
      BY <1>1, <1>2, <3>1
    <3>3. WrittenOnce(d, j) /\ InPool(c.locals, d.body[j].name, Instructions(d, j))
      BY <2>4, <3>1, <3>2 DEF Draft, Pools, LabelsKept
    <3>4. WrittenOnce(e, j)
      BY <1>1, <3>1, <3>2, <3>3 DEF WrittenOnce, IsLabelAt
    <3> QED BY <3>2, <3>3, <3>4 DEF Drafting
  <2>5. LabelsKept(k.locals, e)
    BY <2>4 DEF LabelsKept
  <2> QED BY <2>1, <2>2, <2>3, <2>5 DEF Pools
<1>6. \A off \in Range(c.pseudo_jumps) : off \in Nat /\ off < n
  BY <1>3 DEF Draft, Drafts
<1>7. JumpsOn(c, k, t, n)
  BY <1>3 DEF Drafting
<1>8. \A off \in Range(k.pseudo_jumps) : off \in Nat /\ off < n + 1
  <2>1. ASSUME NEW off \in Range(k.pseudo_jumps) PROVE off = n \/ off \in Range(c.pseudo_jumps)
    BY <1>7 DEF JumpsOn
  <2>2. \A off \in Range(c.pseudo_jumps) : off \in Nat /\ off < n + 1
    <3>1. \A off \in Nat : off < n => off < n + 1
      BY <1>4
    <3> QED BY <1>6, <3>1
  <2> QED BY <1>4, <2>1, <2>2
<1>9. ASSUME NEW j \in DOMAIN e.body PROVE DraftedAt(v, k, e, j)
  <2> SUFFICES ASSUME e.body[j].op # "label" PROVE DraftedAt(v, k, e, j)
    BY DEF DraftedAt
  <2>1. CASE j = m + 1
    <3>1. e.body[j] = t /\ Instructions(e, j) = n + 1
      BY <1>1, <1>2, <1>4, <2>1
    <3>2. Drafted(w, k, d, ins, t) /\ v.consts = w.consts /\ v.imports = w.imports
      BY DEF Drafting, EmittedOn
    <3>3. Drafted(v, k, e, ins, t)
      BY <1>1, <1>2, <3>2, DraftedOn DEF Prefix
    <3>4. n \in Range(k.pseudo_jumps) <=> t.op = "jmp"
      <4>1. ~(n < n)
        BY <1>4
      <4>2. n \notin Range(c.pseudo_jumps)
        BY <1>6, <4>1
      <4> QED BY <1>7, <4>2 DEF JumpsOn
    <3>5. (n + 1) - 1 = n
      BY <1>4
    <3> QED BY <1>4, <3>1, <3>3, <3>4, <3>5 DEF DraftedAt
  <2>2. CASE j # m + 1
    <3>1. j \in 1 .. m /\ j \in DOMAIN d.body /\ j \in 0 .. m
      BY <1>1, <2>2
    <3>2. d.body[j] = e.body[j] /\ Instructions(e, j) = Instructions(d, j)
      BY <1>1, <1>2, <3>1
    <3>3. PICK i : i = Instructions(d, j)
      OBVIOUS
    <3>4. i \in 1 .. n
      BY <1>1, <1>4, <3>1, <3>2, <3>3, EmittedIs
    <3>5. Drafted(u, c, d, u.code[i], d.body[j])
          /\ (i - 1 \in Range(c.pseudo_jumps) <=> d.body[j].op = "jmp")
      BY <3>1, <3>2, <3>3 DEF Draft, Drafts, DraftedAt
    <3>6. /\ Prefix(u.consts, v.consts) /\ Prefix(u.imports, v.imports)
          /\ Prefix(c.label_addresses, k.label_addresses)
      BY DEF Drafting, EmittedOn
    <3>7. Drafted(v, k, e, u.code[i], d.body[j])
      BY <1>1, <1>2, <3>5, <3>6, DraftedOn
    <3>8. i - 1 # n /\ v.code[i] = u.code[i]
      BY <1>4, <3>4
    <3>9. i - 1 \in Range(k.pseudo_jumps) <=> i - 1 \in Range(c.pseudo_jumps)
      BY <1>7, <3>8 DEF JumpsOn
    <3> QED BY <3>2, <3>3, <3>5, <3>7, <3>8, <3>9 DEF DraftedAt
  <2> QED BY <2>1, <2>2
<1>10. Len(v.code) = Instructions(e, Len(e.body))
  BY <1>1, <1>2, <1>4
<1>11. Drafts(v, k, e)
  BY <1>4, <1>8, <1>9, <1>10 DEF Drafts
<1> QED BY <1>5, <1>11 DEF Draft

\* A label: it is a local whose index is how many instructions there are.
Labelling(c, k, x, n) ==
  /\ k.num_arguments = c.num_arguments /\ k.num_variables = c.num_variables
  /\ k.constants = c.constants /\ k.imports = c.imports
  /\ k.label_addresses = c.label_addresses /\ k.pseudo_jumps = c.pseudo_jumps
  /\ Len(c.locals) \in Nat /\ DOMAIN c.locals = 1 .. Len(c.locals)
  /\ DOMAIN k.locals = 1 .. Len(c.locals) + 1
  /\ \A i \in 1 .. Len(c.locals) : k.locals[i] = c.locals[i]
  /\ k.locals[Len(c.locals) + 1] = [literal |-> x, idx |-> n]

\* A label adds its name and no instruction.
LEMMA DraftLabel ==
  ASSUME NEW u, NEW c, NEW d, Draft(u, c, d), NEW x, ~Has(c.locals, x),
         NEW t, t = [op |-> "label", name |-> x], NEW e, Continues(d, t, e),
         NEW k, Labelling(c, k, x, Len(u.code))
  PROVE  Draft(u, k, e)
<1> DEFINE m == Len(d.body)
<1>1. /\ m \in Nat /\ Len(e.body) = m + 1 /\ DOMAIN e.body = 1 .. m + 1
      /\ DOMAIN d.body = 1 .. m /\ e.body[m + 1] = t
      /\ \A j \in 1 .. m : e.body[j] = d.body[j]
      /\ e.args = d.args /\ e.vars = d.vars
  BY DEF Continues
<1> HIDE DEF m
<1>2. t.op = "label" /\ t.name = x
  OBVIOUS
<1>3. /\ \A n \in 0 .. m : Instructions(e, n) = Instructions(d, n)
      /\ Instructions(e, m + 1) = Instructions(d, m) /\ Instructions(d, m) \in Nat
      /\ \A y : IsLabel(d, y) => IsLabel(e, y)
  BY <1>1, <1>2, ContinuesIs DEF m
<1>4. PICK n : n = Len(u.code)
  OBVIOUS
<1>5. n = Instructions(d, m) /\ n \in Nat
  BY <1>3, <1>4 DEF Draft, Drafts, m
<1>6. PICK p : p = Len(c.locals)
  OBVIOUS
<1>7. /\ p \in Nat /\ DOMAIN c.locals = 1 .. p /\ DOMAIN k.locals = 1 .. p + 1
      /\ \A i \in 1 .. p : k.locals[i] = c.locals[i]
      /\ k.locals[p + 1].literal = x /\ k.locals[p + 1].idx = n
  BY <1>4, <1>6 DEF Labelling
<1>8. LocalsMean(k.locals, e)
  <2>1. LocalsMean(c.locals, e)
    BY LocalsOn DEF Draft, Pools
  <2>2. IsLabel(e, x)
    <3>1. m + 1 \in DOMAIN e.body
      BY <1>1
    <3> QED BY <1>1, <1>2, <3>1 DEF IsLabel
  <2>3. ASSUME NEW i \in 1 .. p + 1
        PROVE  IsLabel(e, k.locals[i].literal) \/ LocalIs(e, k.locals[i].literal, k.locals[i].idx)
    <3>1. CASE i = p + 1
      BY <1>7, <2>2, <3>1
    <3>2. CASE i # p + 1
      <4>1. i \in 1 .. p
        BY <1>7, <3>2
      <4> QED BY <1>7, <2>1, <4>1 DEF LocalsMean
    <3> QED BY <3>1, <3>2
  <2> QED BY <1>7, <2>3 DEF LocalsMean
<1>9. ASSUME NEW j \in DOMAIN e.body, e.body[j].op = "label"
      PROVE  WrittenOnce(e, j) /\ InPool(k.locals, e.body[j].name, Instructions(e, j))
  <2>1. CASE j = m + 1
    <3>1. e.body[j].name = x /\ Instructions(e, j) = n
      BY <1>1, <1>2, <1>3, <1>5, <2>1
    <3>2. p + 1 \in DOMAIN k.locals
      BY <1>7
    <3>3. InPool(k.locals, x, n)
      BY <1>7, <3>2 DEF InPool
    <3>4. ASSUME NEW i \in DOMAIN e.body, IsLabelAt(e, i, x) PROVE i = j
      <4>1. SUFFICES ASSUME i # m + 1 PROVE FALSE
        BY <2>1
      <4>2. i \in 1 .. m /\ i \in DOMAIN d.body
        BY <1>1, <4>1
      <4>3. d.body[i].op = "label" /\ d.body[i].name = x
        BY <1>1, <3>4, <4>2 DEF IsLabelAt
      <4>4. InPool(c.locals, x, Instructions(d, i))
        BY <4>2, <4>3 DEF Draft, Pools, LabelsKept
      <4> QED BY <4>4 DEF InPool, Has
    <3> QED BY <3>1, <3>3, <3>4 DEF WrittenOnce
  <2>2. CASE j # m + 1
    <3>1. j \in 1 .. m /\ j \in DOMAIN d.body /\ j \in 0 .. m
      BY <1>1, <2>2
    <3>2. d.body[j] = e.body[j] /\ Instructions(e, j) = Instructions(d, j)
      BY <1>1, <1>3, <3>1
    <3>3. WrittenOnce(d, j) /\ InPool(c.locals, d.body[j].name, Instructions(d, j))
      BY <1>9, <3>1, <3>2 DEF Draft, Pools, LabelsKept
    <3>4. PICK i \in 1 .. p : c.locals[i].literal = d.body[j].name
                              /\ c.locals[i].idx = Instructions(d, j)
      BY <1>7, <3>3 DEF InPool
    <3>5. i \in 1 .. p + 1
      BY <1>7
    <3>6. InPool(k.locals, e.body[j].name, Instructions(e, j))
      BY <1>7, <3>2, <3>4, <3>5 DEF InPool
    <3>7. x # d.body[j].name
      BY <1>7, <3>4 DEF Has
    <3>8. WrittenOnce(e, j)
      <4>1. ASSUME NEW i2 \in DOMAIN e.body, IsLabelAt(e, i2, e.body[j].name) PROVE i2 = j
        <5>1. e.body[i2].name = d.body[j].name
          BY <3>2, <4>1 DEF IsLabelAt
        <5>2. i2 # m + 1
          BY <1>1, <1>2, <3>7, <5>1
        <5>3. i2 \in 1 .. m
          BY <1>1, <5>2
        <5>4. IsLabelAt(d, i2, d.body[j].name)
          BY <1>1, <3>2, <4>1, <5>3 DEF IsLabelAt
        <5> QED BY <1>1, <3>3, <5>3, <5>4 DEF WrittenOnce
      <4> QED BY <4>1 DEF WrittenOnce
    <3> QED BY <3>6, <3>8
  <2> QED BY <2>1, <2>2
<1>10. LabelsKept(k.locals, e)
  BY <1>9 DEF LabelsKept
<1>11. Pools(u, k, e)
  BY <1>1, <1>8, <1>10 DEF Draft, Pools, Labelling
<1>12. ASSUME NEW j \in DOMAIN e.body PROVE DraftedAt(u, k, e, j)
  <2> SUFFICES ASSUME e.body[j].op # "label" PROVE DraftedAt(u, k, e, j)
    BY DEF DraftedAt
  <2>1. j # m + 1
    BY <1>1, <1>2
  <2>2. j \in 1 .. m /\ j \in DOMAIN d.body /\ j \in 0 .. m
    BY <1>1, <2>1
  <2>3. d.body[j] = e.body[j] /\ Instructions(e, j) = Instructions(d, j)
    BY <1>1, <1>3, <2>2
  <2>4. DraftedAt(u, c, d, j)
    BY <2>2 DEF Draft, Drafts
  <2>5. Drafted(u, c, d, u.code[Instructions(d, j)], d.body[j])
        /\ (Instructions(d, j) - 1 \in Range(c.pseudo_jumps) <=> d.body[j].op = "jmp")
    BY <2>3, <2>4 DEF DraftedAt
  <2>6. Prefix(c.label_addresses, k.label_addresses) /\ k.pseudo_jumps = c.pseudo_jumps
    BY DEF Labelling, Prefix
  <2>7. Drafted(u, k, e, u.code[Instructions(d, j)], d.body[j])
    BY <1>1, <1>3, <2>5, <2>6, DraftedOn DEF Prefix
  <2> QED BY <2>3, <2>5, <2>6, <2>7 DEF DraftedAt
<1>13. Drafts(u, k, e)
  BY <1>1, <1>3, <1>12 DEF Draft, Drafts, Labelling, m
<1> QED BY <1>11, <1>13 DEF Draft

\* A name that is in a pool has the index of an entry with that name.
LEMMA IdxAt ==
  ASSUME NEW pool \in Pool, NEW x, Has(pool, x)
  PROVE  \E i \in DOMAIN pool : pool[i].literal = x /\ IdxOf(pool, x) = pool[i].idx
<1> DEFINE I == {i \in 1 .. Len(pool) : pool[i].literal = x}
<1>1. I # {} /\ I \subseteq Nat
  BY DEF Has, Pool
<1>2. \E m \in I : \A y \in I : m <= y
  BY <1>1, Least
<1>3. Min(I) \in I
  BY <1>2, Zenon DEF Min
<1>4. SelectInSeq(pool, LAMBDA v : v.literal = x) = Min(I)
  BY <1>1, Zenon DEF SelectInSeq
<1> HIDE DEF I
<1>5. PICK j : j = Min(I)
  OBVIOUS
<1>6. IdxOf(pool, x) = pool[j].idx
  BY <1>4, <1>5, Zenon DEF IdxOf
<1>7. j \in 1 .. Len(pool) /\ pool[j].literal = x
  BY <1>3, <1>5 DEF I
<1>8. j \in DOMAIN pool
  BY <1>7 DEF Pool
<1> QED BY <1>6, <1>7, <1>8

\* In a pool that is numbered an index leads to its entry.
LEMMA NumberedAt ==
  ASSUME NEW pool \in Pool, Numbered(pool), NEW i \in DOMAIN pool
  PROVE  LiteralAt(pool, i - 1) = pool[i].literal
<1>1. PICK n : n = i - 1
  OBVIOUS
<1> DEFINE I == {k \in 1 .. Len(pool) : pool[k].idx = n}
<1>2. i \in 1 .. Len(pool) /\ DOMAIN pool = 1 .. Len(pool) /\ i \in Int
  BY DEF Pool
<1>3. i \in I
  BY <1>1, <1>2 DEF Numbered
<1>4. I # {} /\ I \subseteq Nat
  BY <1>3
<1>5. \E m \in I : \A y \in I : m <= y
  BY <1>4, Least
<1>6. Min(I) \in I
  BY <1>5, Zenon DEF Min
<1>7. SelectInSeq(pool, LAMBDA v : v.idx = n) = Min(I)
  BY <1>4, Zenon DEF SelectInSeq
<1>8. \A k \in I : k = i
  BY <1>1, <1>2 DEF Numbered
<1>9. Min(I) = i
  BY <1>6, <1>8
<1> HIDE DEF I
<1>10. LiteralAt(pool, n) = pool[i].literal
  BY <1>7, <1>9, Zenon DEF LiteralAt
<1> QED BY <1>1, <1>10

\* What pool_push leaves.
PushedOn(pool, x, n, q) ==
  /\ Prefix(pool, q)
  /\ \A i \in DOMAIN q :
       \/ i \in DOMAIN pool /\ q[i] = pool[i]
       \/ i = Len(pool) + 1 /\ q[i].literal = x /\ q[i].idx = n /\ ~Has(pool, x)

\* What pool_push leaves of the pool, and where the name is in it.
LEMMA PushedAt ==
  ASSUME NEW pool \in Pool, NEW x \in Literal, NEW n \in Int, NEW q, q = pool_push(pool, x, n)
  PROVE  PushedOn(pool, x, n, q)
<1>1. CASE Has(pool, x)
  BY <1>1 DEF pool_push, PushedOn, Prefix
<1>2. CASE ~Has(pool, x)
  <2> DEFINE T == [literal : Literal, idx : Int]
  <2>1. PICK v : v = [literal |-> x, idx |-> n]
    OBVIOUS
  <2>2. v \in T /\ pool \in Seq(T) /\ v.literal = x /\ v.idx = n
    BY <2>1 DEF Pool
  <2>3. q = Append(pool, v)
    BY <1>2, <2>1 DEF pool_push
  <2> HIDE DEF T
  <2>4. /\ Len(pool) \in Nat /\ DOMAIN pool = 1 .. Len(pool)
        /\ DOMAIN q = 1 .. Len(pool) + 1
        /\ q[Len(pool) + 1] = v /\ \A i \in 1 .. Len(pool) : q[i] = pool[i]
    BY <2>2, <2>3
  <2>5. \A i \in DOMAIN q : i \in DOMAIN pool \/ i = Len(pool) + 1
    BY <2>4
  <2>6. \A i \in DOMAIN pool : i \in DOMAIN q
    BY <2>4
  <2> QED BY <1>2, <2>2, <2>4, <2>5, <2>6 DEF PushedOn, Prefix
<1> QED BY <1>1, <1>2

\* A constant and an import that were named get the index of what they are.
LEMMA ConstsPushed ==
  ASSUME NEW ks, NEW us, Prefix(ks, us), NEW pool \in Pool, ConstsNamed(ks, pool),
         NEW x \in Literal, NEW n \in Int,
         Has(pool, x) \/ (n + 1 \in DOMAIN us /\ TextOf(us[n + 1]) = x)
  PROVE  ConstsNamed(us, pool_push(pool, x, n))
<1>1. PICK q : q = pool_push(pool, x, n)
  OBVIOUS
<1>2. PushedOn(pool, x, n, q)
  BY <1>1, PushedAt
<1>3. ASSUME NEW i \in DOMAIN q
      PROVE  q[i].idx + 1 \in DOMAIN us /\ TextOf(us[q[i].idx + 1]) = q[i].literal
  BY <1>2 DEF PushedOn, ConstsNamed, Prefix
<1> QED BY <1>1, <1>3 DEF ConstsNamed

\* An import that is pushed is the one that was added to the prototype.
LEMMA ImportsPushed ==
  ASSUME NEW is, NEW us, Prefix(is, us), NEW pool \in Pool, ImportsNamed(is, pool),
         NEW x \in Literal, NEW n \in Int,
         Has(pool, x) \/ (n + 1 \in DOMAIN us /\ <<us[n + 1].module, us[n + 1].name>> = x)
  PROVE  ImportsNamed(us, pool_push(pool, x, n))
<1>1. PICK q : q = pool_push(pool, x, n)
  OBVIOUS
<1>2. PushedOn(pool, x, n, q)
  BY <1>1, PushedAt
<1>3. ASSUME NEW i \in DOMAIN q
      PROVE  /\ q[i].idx + 1 \in DOMAIN us
             /\ <<us[q[i].idx + 1].module, us[q[i].idx + 1].name>> = q[i].literal
  BY <1>2 DEF PushedOn, ImportsNamed, Prefix
<1> QED BY <1>1, <1>3 DEF ImportsNamed

\* The pool of labels is numbered.
LEMMA NumberedPushed ==
  ASSUME NEW pool \in Pool, Numbered(pool), NEW x \in Literal,
         NEW q, q = pool_push(pool, x, Len(pool))
  PROVE  Numbered(q) /\ Prefix(pool, q)
<1>1. Len(pool) \in Nat
  BY DEF Pool
<1>2. PushedOn(pool, x, Len(pool), q)
  BY <1>1, PushedAt
<1>3. ASSUME NEW i \in DOMAIN q PROVE q[i].idx = i - 1
  <2>1. CASE i \in DOMAIN pool /\ q[i] = pool[i]
    BY <2>1 DEF Numbered
  <2>2. CASE i = Len(pool) + 1 /\ q[i].idx = Len(pool)
    BY <1>1, <2>2
  <2> QED BY <1>2, <2>1, <2>2 DEF PushedOn
<1> QED BY <1>2, <1>3 DEF Numbered, PushedOn

\* Items are added: the others keep their places.
LEMMA PoolsOn ==
  ASSUME NEW ks, NEW us, Prefix(ks, us), NEW pool
  PROVE  /\ ConstsNamed(ks, pool) => ConstsNamed(us, pool)
         /\ ImportsNamed(ks, pool) => ImportsNamed(us, pool)
<1>1. ConstsNamed(ks, pool) => ConstsNamed(us, pool)
  BY DEF ConstsNamed, Prefix
<1>2. ImportsNamed(ks, pool) => ImportsNamed(us, pool)
  BY DEF ImportsNamed, Prefix
<1> QED BY <1>1, <1>2

\* A sequence begins as itself.
LEMMA PrefixSelf ==
  ASSUME NEW q
  PROVE  Prefix(q, q)
BY DEF Prefix

\* A sequence begins as the one to which an element is appended.
LEMMA PrefixAppend ==
  ASSUME NEW S, NEW q \in Seq(S), NEW x, NEW r, r = Append(q, x)
  PROVE  /\ Prefix(q, r) /\ Len(q) + 1 \in DOMAIN r /\ r[Len(q) + 1] = x
         /\ Len(q) \in Nat /\ Len(r) = Len(q) + 1
BY DEF Prefix

\* What the host sees of the open prototype.
OpenText(a) == Shown(a, aasm_prototype(a))

\* One item more in a section, the same in the others.
OneMoreItem(u, s, y, w) ==
  /\ w.code = IF s = "code" THEN Append(u.code, y) ELSE u.code
  /\ w.consts = IF s = "consts" THEN Append(u.consts, y) ELSE u.consts
  /\ w.imports = IF s = "imports" THEN Append(u.imports, y) ELSE u.imports

\* The items of a prototype are shown item by item.
LEMMA SameItemsShown ==
  ASSUME NEW a, NEW b, b.st = a.st, NEW p, NEW q, SameItems(p, q)
  PROVE  /\ Shown(b, q).code = Shown(a, p).code
         /\ Shown(b, q).consts = Shown(a, p).consts
         /\ Shown(b, q).imports = Shown(a, p).imports
<1>1. Shown(b, q) = Shown(a, q)
  BY ShownSt
<1>2. Shown(a, q) = Shows(a, q) /\ Shown(a, p) = Shows(a, p)
  BY ShownIs
<1>3. /\ Shows(a, q).code = Shows(a, p).code
      /\ Shows(a, q).consts = Shows(a, p).consts
      /\ Shows(a, q).imports = Shows(a, p).imports
  BY DEF Shows, SameItems
<1> QED BY <1>1, <1>2, <1>3

\* aasm_emit and the like, where there is room or room is made.
LEMMA AddShows ==
  ASSUME NEW a, Usable(a), NEW s \in Sections \ {"nesteds"}, NEW x,
         IsItem(DOMAIN a.st.text, Len(a.slots), s, x), NEW b, b = Add(a, s, x)
  PROVE  OneMoreItem(OpenText(a), s, ItemOf(a, s, x), OpenText(b))
<1>1. PICK g : g = Grown(a, s)
  OBVIOUS
<1>2. IsGrown(a, s, g)
  BY <1>1, GrownHasRoom
<1>3. PICK q : q = aasm_prototype(g)
  OBVIOUS
<1>4. PICK p : p = WithItem(q, s, x)
  OBVIOUS
<1>5. b = Stored(g, s, x)
  BY <1>1 DEF Add
<1>6. Good(g) /\ HasRoom(g, s) /\ g.st = a.st /\ Len(g.slots) = Len(a.slots)
      /\ SameItems(aasm_prototype(a), q)
  BY <1>2, <1>3 DEF IsGrown, Alone, Usable, Only, Goes, Steady
<1>7. IsStored(g, s, x, b)
  BY <1>5, <1>6, StoredOnly
<1>8. aasm_prototype(b) = p /\ b.st = g.st
  BY <1>3, <1>4, <1>6, <1>7 DEF IsStored
<1>9. q \in Protos(DOMAIN g.st.text, Len(g.slots))
  BY <1>3, <1>6, OpenOK
<1>10. PICK u : u = Shown(g, q)
  OBVIOUS
<1>11. Shown(g, p) = WithItem(u, s, ItemOf(g, s, x))
  BY <1>4, <1>6, <1>9, <1>10, ShownAppend
<1>12. ItemOf(g, s, x) = ItemOf(a, s, x)
  BY <1>6 DEF ItemOf, ConstantOf, ImportOf, Text
<1>13. PICK y : y = ItemOf(a, s, x)
  OBVIOUS
<1>14. OpenText(b) = WithItem(u, s, y)
  <2>1. Shown(b, p) = Shown(g, p)
    BY <1>8, ShownSt
  <2> QED BY <1>8, <1>11, <1>12, <1>13, <2>1 DEF OpenText
<1>15. u.code = OpenText(a).code /\ u.consts = OpenText(a).consts
       /\ u.imports = OpenText(a).imports
  BY <1>6, <1>10, SameItemsShown DEF OpenText
<1>16. IsShown(u)
  BY <1>10, ShownMembers
<1>17. OneMoreItem(u, s, y, WithItem(u, s, y))
  BY <1>16, SMT DEF IsShown, OneMoreItem, WithItem, Sections
<1> QED BY <1>13, <1>14, <1>15, <1>17 DEF OneMoreItem

\* A string is interned: nothing is seen of it.
LEMMA InternShows ==
  ASSUME NEW a, Usable(a), NEW s \in Words, NEW b, b = aasm_string_to_ref(a, s)
  PROVE  OpenText(b) = OpenText(a)
<1>1. Only(a, b) /\ aasm_prototype(b) = aasm_prototype(a)
  BY InternOnly DEF Usable
<1>2. Extends(a.st, b.st)
  BY <1>1 DEF Only, Goes
<1>3. aasm_prototype(a) \in Protos(DOMAIN a.st.text, Len(a.slots))
  BY OpenOK DEF Usable
<1> QED BY <1>1, <1>2, <1>3, ShownOn DEF OpenText

\* aasm_emit.
LEMMA EmitShows ==
  ASSUME NEW a, Usable(a), NEW i \in AnyCode
  PROVE  OneMoreItem(OpenText(a), "code", i, OpenText(aasm_emit(a, i)))
<1>1. IsItem(DOMAIN a.st.text, Len(a.slots), "code", i)
  BY DEF IsItem
<1>2. "code" \in Sections \ {"nesteds"}
  BY DEF Sections
<1>3. ItemOf(a, "code", i) = i
  BY DEF ItemOf
<1> QED BY <1>1, <1>2, <1>3, AddShows DEF aasm_emit

\* A constant is added as it is written.
LEMMA ConstantShows ==
  ASSUME NEW a, Usable(a), NEW l \in Literals,
         NEW b, b = IF l \in Plain THEN aasm_add_constant(a, l) ELSE AddString(a, l.text)
  PROVE  \E y : TextOf(y) = l.text /\ OneMoreItem(OpenText(a), "consts", y, OpenText(b))
<1>1. "consts" \in Sections \ {"nesteds"}
  BY DEF Sections
<1>2. CASE l \in Plain
  <2>1. IsItem(DOMAIN a.st.text, Len(a.slots), "consts", l)
    BY <1>2 DEF IsItem
  <2>2. ItemOf(a, "consts", l) = l
    BY <1>2 DEF ItemOf, ConstantOf
  <2>3. OneMoreItem(OpenText(a), "consts", l, OpenText(b))
    BY <1>1, <1>2, <2>1, <2>2, AddShows DEF aasm_add_constant
  <2> QED BY <1>2, <2>3 DEF TextOf
<1>3. CASE l \notin Plain
  <2>1. PICK s : s = l.text
    OBVIOUS
  <2>2. s \in Words /\ s \in Strings
    BY <1>3, <2>1, CompilerAssumption DEF Words
  <2>3. PICK d : d = aasm_string_to_ref(a, s)
    OBVIOUS
  <2>4. Works(a, d, aasm_prototype(a).code) /\ HasText(d.st, s)
    BY <2>2, <2>3, InternWorks
  <2>5. Usable(d) /\ Good(d)
    BY <2>4, WorksUsable DEF Usable
  <2>6. PICK c : c = [string |-> RefOf(d, s)]
    OBVIOUS
  <2>7. c \in [string : DOMAIN d.st.text] /\ ConstantOf(d, c) = [string |-> s]
    BY <2>2, <2>4, <2>5, <2>6, StringConstant
  <2>8. IsItem(DOMAIN d.st.text, Len(d.slots), "consts", c)
    BY <2>7 DEF IsItem
  <2>9. b = Add(d, "consts", c)
    BY <1>3, <2>1, <2>3, <2>6 DEF AddString, AddRef, aasm_add_constant
  <2>10. ItemOf(d, "consts", c) = [string |-> s]
    BY <2>7 DEF ItemOf
  <2>11. OneMoreItem(OpenText(d), "consts", [string |-> s], OpenText(b))
    BY <1>1, <2>5, <2>8, <2>9, <2>10, AddShows
  <2>12. OpenText(d) = OpenText(a)
    BY <2>2, <2>3, InternShows
  <2>13. TextOf([string |-> s]) = s
    <3>1. [string |-> s] \in [string : Nat \cup Strings \cup {EMPTY}]
      BY <2>2
    <3>2. [string |-> s] \notin Plain
      BY <3>1, AssemblerAssumption
    <3> QED BY <3>2 DEF TextOf
  <2> QED BY <2>1, <2>11, <2>12, <2>13
<1> QED BY <1>2, <1>3

\* An import is added as it is written.
LEMMA ImportShows ==
  ASSUME NEW a, Usable(a), NEW m \in Words, NEW n \in Words, NEW b, b = aasm_add_import(a, m, n)
  PROVE  OneMoreItem(OpenText(a), "imports", [module |-> m, name |-> n], OpenText(b))
<1>1. PICK d : d = aasm_string_to_ref(a, m)
  OBVIOUS
<1>2. PICK e : e = aasm_string_to_ref(d, n)
  OBVIOUS
<1>3. Works(a, d, aasm_prototype(a).code) /\ HasText(d.st, m)
  BY <1>1, InternWorks
<1>4. Usable(d)
  BY <1>3, WorksUsable
<1>5. Works(d, e, aasm_prototype(d).code) /\ HasText(e.st, n)
  BY <1>2, <1>4, InternWorks
<1>6. Usable(e) /\ Good(e) /\ Goes(d, e)
  BY <1>5, WorksUsable DEF Usable, Works, Only
<1>7. HasText(e.st, m)
  BY <1>3, <1>6, HasOn DEF Words
<1>8. /\ RefOf(e, m) \in DOMAIN e.st.text /\ Text(e, RefOf(e, m)) = m
      /\ RefOf(e, n) \in DOMAIN e.st.text /\ Text(e, RefOf(e, n)) = n
  BY <1>5, <1>6, <1>7, RefHasText
<1>9. PICK x : x = [module |-> RefOf(e, m), name |-> RefOf(e, n)]
  OBVIOUS
<1>10. IsItem(DOMAIN e.st.text, Len(e.slots), "imports", x)
  BY <1>8, <1>9 DEF IsItem
<1>11. ItemOf(e, "imports", x) = [module |-> m, name |-> n]
  BY <1>8, <1>9 DEF ItemOf, ImportOf
<1>12. b = Add(e, "imports", x)
  BY <1>1, <1>2, <1>9 DEF aasm_add_import, AddRefs
<1>13. "imports" \in Sections \ {"nesteds"}
  BY DEF Sections
<1>14. OneMoreItem(OpenText(e), "imports", [module |-> m, name |-> n], OpenText(b))
  BY <1>6, <1>10, <1>11, <1>12, <1>13, AddShows
<1>15. OpenText(e) = OpenText(a)
  BY <1>1, <1>2, <1>4, InternShows
<1> QED BY <1>14, <1>15

\* How much is shown of the open prototype.
LEMMA OpenTextIs ==
  ASSUME NEW a, Usable(a)
  PROVE  LET u == OpenText(a)
             p == aasm_prototype(a)
         IN  /\ u.code = p.code /\ u.code \in Seq(AnyCode) /\ u.locals = p.locals
             /\ u.consts \in Seq(Plain \cup [string : Words])
             /\ u.imports \in Seq([module : Words, name : Words])
             /\ Len(u.consts) = Len(p.consts) /\ Len(u.imports) = Len(p.imports)
<1>1. PICK p : p = aasm_prototype(a)
  OBVIOUS
<1>2. PICK u : u = Shown(a, p)
  OBVIOUS
<1>3. p \in Protos(DOMAIN a.st.text, Len(a.slots)) /\ Good(a)
  BY <1>1, OpenOK DEF Usable
<1>4. Len(u.consts) = Len(p.consts) /\ Len(u.imports) = Len(p.imports)
  BY <1>2, <1>3, ShownLen, SMT
<1>5. u = Shows(a, p)
  BY <1>2, ShownIs
<1>6. u.code = p.code /\ u.locals = p.locals
  BY <1>5 DEF Shows
<1>7. p.code \in Seq(AnyCode)
  BY <1>3, MembersOf DEF Members
<1>8. Slot(a) \in SlotsIn(a)
  BY <1>3, SlotOK DEF Good
<1>9. [Written(a, p) EXCEPT !.nesteds = Len(@)] \in Writings
  BY <1>1, <1>3, <1>8, WrittenOK DEF aasm_prototype
<1>10. u.consts = Written(a, p).consts /\ u.imports = Written(a, p).imports
  BY <1>2 DEF Shown, Written
<1>11. /\ Written(a, p).consts \in Seq(Plain \cup [string : Words])
       /\ Written(a, p).imports \in Seq([module : Words, name : Words])
  BY <1>9 DEF Writings, Written
<1> QED BY <1>1, <1>2, <1>4, <1>6, <1>7, <1>10, <1>11 DEF OpenText

-----------------------------------------------------------------------------
\* What is written: a definition that has ended, and all that was read.

\* A definition that has ended means what was written.
Right(u, d) ==
  /\ u.symbol = SymbolOf[<<d.name, Len(d.args)>>]
  /\ u.locals = Len(d.vars)
  /\ Len(u.code) = Instructions(d, Len(d.body))
  /\ \A j \in DOMAIN d.body : d.body[j].op # "label" =>
       Means(u, d, Instructions(d, j), d.body[j])

\* A definition of the module that is not open any more.
IsChild(a, s) == \E k \in DOMAIN Kids(a, 0) : Kids(a, 0)[k] = s
IsDone(a, s) == IsChild(a, s) /\ \A i \in DOMAIN a.context : a.context[i].slot # s
DoneRight(a, src) == \A s \in SlotsIn(a) : IsDone(a, s) => Right(Shown(a, At(a, s)), src[s])

\* A definition inside another is none of the module.
DeepAreNone(a) == \A i \in DOMAIN a.context : i > 2 => ~IsChild(a, a.context[i].slot)

\* While none was begun inside another the definitions are those of the module, in order.
InSequence(a) ==
  /\ Len(Kids(a, 0)) = Len(a.slots) - 1
  /\ \A k \in 1 .. Len(a.slots) - 1 : Kids(a, 0)[k] = k

\* What has been compiled means what was written so far.
Meaning(a, cs, src) ==
  /\ DoneRight(a, src) /\ DeepAreNone(a)
  /\ ~Held(cs) => InSequence(a)
  /\ (Len(cs) = 1 /\ ~Held(cs)) => Draft(OpenText(a), cs[1], src[Slot(a)])
\* What is nested in the root is no root.
LEMMA ChildIs ==
  ASSUME NEW a, Good(a), NEW s, IsChild(a, s)
  PROVE  s \in 1 .. Len(a.slots) - 1 /\ s \in SlotsIn(a)
<1>1. PICK k \in DOMAIN Kids(a, 0) : Kids(a, 0)[k] = s
  BY DEF IsChild
<1>2. 0 \in SlotsIn(a) /\ Len(a.slots) \in Nat
  BY DEF Good, Tree, SlotsIn
<1>3. PICK q : q = Kids(a, 0)
  OBVIOUS
<1>4. q \in Seq(SlotsIn(a)) /\ k \in DOMAIN q
  BY <1>1, <1>2, <1>3 DEF Good, Tree
<1>5. q[k] \in SlotsIn(a)
  BY <1>4, LenProperties, ElementOfSeq
<1>6. 0 < q[k]
  BY <1>1, <1>2, <1>3 DEF Good, Tree
<1> QED BY <1>1, <1>2, <1>3, <1>5, <1>6 DEF SlotsIn

\* The open prototype is not done.
LEMMA DoneIs ==
  ASSUME NEW a, Good(a), NEW s, IsDone(a, s)
  PROVE  s \in 1 .. Len(a.slots) - 1 /\ s \in SlotsIn(a) /\ s # Slot(a)
<1>1. s \in 1 .. Len(a.slots) - 1 /\ s \in SlotsIn(a)
  BY ChildIs DEF IsDone
<1>2. Len(a.context) \in DOMAIN a.context
  <2>1. PICK q : q = a.context
    OBVIOUS
  <2>2. PICK S : S = [slot : SlotsIn(a), idx : Nat]
    OBVIOUS
  <2>3. q \in Seq(S) /\ q # <<>>
    BY <2>1, <2>2 DEF Good, Opened
  <2>4. Len(q) \in DOMAIN q
    BY <2>3
  <2> QED BY <2>1, <2>4
<1>3. s # Slot(a)
  BY <1>2 DEF IsDone, Slot
<1> QED BY <1>1, <1>3

\* A step in the open prototype.
LEMMA OnlyRight ==
  ASSUME NEW a, NEW b, Good(a), Only(a, b), NEW src, NEW src2,
         \A s \in 1 .. Len(a.slots) - 1 : s # Slot(a) => src2[s] = src[s]
  PROVE  /\ \A s : IsDone(b, s) => IsDone(a, s)
         /\ DoneRight(a, src) => DoneRight(b, src2)
         /\ DeepAreNone(a) => DeepAreNone(b)
         /\ InSequence(a) => InSequence(b)
<1>1. /\ Len(b.slots) = Len(a.slots) /\ b.context = a.context /\ SlotsIn(b) = SlotsIn(a)
      /\ Slot(b) = Slot(a) /\ Extends(a.st, b.st)
      /\ \A s \in SlotsIn(a) \ {Slot(a)} : At(b, s) = At(a, s)
  BY DEF Only, Goes, Steady, SlotsIn, Slot
<1>2. Kids(b, 0) = Kids(a, 0)
  <2>1. 0 \in SlotsIn(a)
    BY DEF Good, Tree, SlotsIn
  <2>2. CASE Slot(a) = 0
    BY <1>1, <2>2 DEF Only, Goes, Steady, aasm_prototype, Kids
  <2>3. CASE Slot(a) # 0
    BY <1>1, <2>1, <2>3 DEF Kids
  <2> QED BY <2>2, <2>3
<1>3. \A s : (IsChild(b, s) <=> IsChild(a, s)) /\ (IsDone(b, s) <=> IsDone(a, s))
  BY <1>1, <1>2 DEF IsChild, IsDone
<1>4. ASSUME DoneRight(a, src), NEW s \in SlotsIn(b), IsDone(b, s)
      PROVE  Right(Shown(b, At(b, s)), src2[s])
  <2>1. IsDone(a, s) /\ s \in SlotsIn(a)
    BY <1>1, <1>3, <1>4
  <2>2. s \in 1 .. Len(a.slots) - 1 /\ s # Slot(a)
    BY <2>1, DoneIs
  <2>3. At(b, s) = At(a, s)
    BY <1>1, <2>1, <2>2
  <2>4. At(a, s) \in Protos(DOMAIN a.st.text, Len(a.slots))
    BY <2>1, AtOK DEF Good
  <2>5. Shown(b, At(a, s)) = Shown(a, At(a, s))
    BY <1>1, <2>4, ShownOn
  <2>6. Right(Shown(a, At(a, s)), src[s])
    BY <1>4, <2>1 DEF DoneRight
  <2> QED BY <2>2, <2>3, <2>5, <2>6
<1>5. DeepAreNone(a) => DeepAreNone(b)
  BY <1>1, <1>3 DEF DeepAreNone
<1>6. InSequence(a) => InSequence(b)
  BY <1>1, <1>2 DEF InSequence
<1> QED BY <1>3, <1>4, <1>5, <1>6 DEF DoneRight

\* The definition goes on in what is remembered of the text.
LEMMA ContinuesOn ==
  ASSUME NEW src \in Seq(Definition), NEW s \in 1 .. Len(src), NEW st \in Said,
         NEW src2, src2 = [src EXCEPT ![s].body = Append(@, st)]
  PROVE  Continues(src[s], st, src2[s])
<1>1. src[s] \in Definition
  BY ElementOfSeq
<1>2. PICK q : q = src[s].body
  OBVIOUS
<1>3. PICK r : r = Append(q, st)
  OBVIOUS
<1>4. q \in Seq(Said)
  BY <1>1, <1>2 DEF Definition
<1>5. /\ Len(q) \in Nat /\ DOMAIN q = 1 .. Len(q) /\ Len(r) = Len(q) + 1
      /\ DOMAIN r = 1 .. Len(q) + 1 /\ r[Len(q) + 1] = st
      /\ \A j \in 1 .. Len(q) : r[j] = q[j]
  BY <1>3, <1>4
<1>6. PICK d : d = [src[s] EXCEPT !.body = r]
  OBVIOUS
<1>7. d.body = r /\ d.name = src[s].name /\ d.args = src[s].args /\ d.vars = src[s].vars
  BY <1>1, <1>6 DEF Definition
<1>8. src2 = [src EXCEPT ![s] = d]
  BY <1>2, <1>3, <1>6, Zenon
<1>9. src2[s] = d
  <2>1. src \in Seq(Definition) /\ s \in 1 .. Len(src)
    OBVIOUS
  <2>2. s \in DOMAIN src
    BY <2>1, LenProperties
  <2> QED BY <1>8, <2>2
<1> QED BY <1>2, <1>5, <1>7, <1>9 DEF Continues

\* A statement is read; the open prototype means it if it is one of the module.
LEMMA SaidMeaning ==
  ASSUME NEW a, NEW cs, NEW src, Sound(a, cs, src), cs # <<>>, Meaning(a, cs, src),
         NEW st \in Said, NEW b, NEW code, Works(a, b, code), NEW c, Likewise(Last(cs), c),
         \A d, e : Draft(OpenText(a), Last(cs), d) /\ Continues(d, st, e)
                     => Draft(OpenText(b), c, e),
         NEW cs2, cs2 = Append(Front(cs), c),
         NEW src2, src2 = [src EXCEPT ![Slot(a)].body = Append(@, st)]
  PROVE  Meaning(b, cs2, src2)
<1>1. /\ Slot(a) \in 1 .. Len(src) /\ Len(cs) \in Nat \ {0} /\ Last(cs) = cs[Len(cs)]
      /\ Len(src) \in Nat
  BY OpenDefinition
<1>2. /\ Len(cs2) = Len(cs) /\ cs2[Len(cs)] = c
      /\ \A i \in 1 .. Len(cs) - 1 : cs2[i] = cs[i]
  <2>1. cs \in Seq(Context) /\ c \in Context
    BY DEF Sound, Likewise
  <2>2. cs # <<>> /\ cs2 = Append(Front(cs), c)
    OBVIOUS
  <2>3. IsReplaced(Context, cs, c, cs2)
    BY ONLY <2>1, <2>2, LastReplaced, Zenon
  <2> QED BY <2>3 DEF IsReplaced
<1>3. cs2[1].sym = cs[1].sym /\ cs2 # <<>>
  BY <1>1, <1>2 DEF Likewise
<1>4. Held(cs2) <=> Held(cs)
  BY <1>3 DEF Held
<1>5. Remembers(src, Slot(a), st, src2) /\ Continues(src[Slot(a)], st, src2[Slot(a)])
  BY <1>1, BodyOn, ContinuesOn DEF Sound
<1>6. Good(a) /\ Only(a, b) /\ Slot(b) = Slot(a) /\ Len(a.slots) = Len(src) + 1
  BY DEF Sound, Usable, Works, Only, Goes, Steady, Slot
<1>7. \A s \in 1 .. Len(a.slots) - 1 : s # Slot(a) => src2[s] = src[s]
  BY <1>1, <1>5, <1>6 DEF Remembers
<1>8. DoneRight(b, src2) /\ DeepAreNone(b) /\ (InSequence(a) => InSequence(b))
  BY <1>6, <1>7, OnlyRight DEF Meaning
<1>9. ASSUME Len(cs2) = 1, ~Held(cs2)
      PROVE  Draft(OpenText(b), cs2[1], src2[Slot(b)])
  <2>1. Draft(OpenText(a), Last(cs), src[Slot(a)])
    BY <1>1, <1>2, <1>4, <1>9 DEF Meaning
  <2>2. Draft(OpenText(b), c, src2[Slot(a)])
    BY <1>5, <2>1
  <2> QED BY <1>2, <1>6, <1>9, <2>2
<1> QED BY <1>4, <1>8, <1>9 DEF Meaning

\* An instruction is emitted for a statement.
LEMMA EmitsMeaning ==
  ASSUME Compiling(self, ctxs, source), ctxs # <<>>, Meaning(self, ctxs, source),
         NEW a, Works(self, a, aasm_prototype(self).code),
         NEW ins \in AnyCode, NEW c, Likewise(pctx, c), NEW st \in Said, st.op # "label",
         \A d : Draft(OpenText(self), pctx, d)
                  => Drafting(OpenText(self), pctx, d, OpenText(a), c, ins, st),
         Emits(a, ins, c, st)
  PROVE  Meaning(self', ctxs', source')
<1>1. Usable(self) /\ Usable(a) /\ Sound(self, ctxs, source)
  BY WorksUsable DEF Compiling, Sound
<1>2. PICK b : b = aasm_emit(a, ins)
  OBVIOUS
<1>3. Works(a, b, Append(aasm_prototype(a).code, ins))
  BY <1>1, <1>2, EmitWorks
<1>4. PICK code : Works(self, b, code)
  BY <1>3, WorksOn
<1>5. /\ self' = b /\ ctxs' = Append(Front(ctxs), c)
      /\ source' = [source EXCEPT ![Slot(self)].body = Append(@, st)]
  BY <1>2 DEF Emits
<1>6. EmittedOn(OpenText(a), ins, OpenText(b))
  <2>1. PICK w : w = OpenText(a)
    OBVIOUS
  <2>2. PICK v : v = OpenText(b)
    OBVIOUS
  <2>3. OneMoreItem(w, "code", ins, v)
    BY <1>1, <1>2, <2>1, <2>2, EmitShows
  <2>4. v.code = Append(w.code, ins) /\ v.consts = w.consts /\ v.imports = w.imports
    BY <2>3 DEF OneMoreItem
  <2>5. PICK q : q = w.code
    OBVIOUS
  <2>6. q \in Seq(AnyCode)
    BY <1>1, <2>1, <2>5, OpenTextIs
  <2>7. /\ Len(q) \in Nat /\ Len(Append(q, ins)) = Len(q) + 1
        /\ Append(q, ins)[Len(q) + 1] = ins
        /\ \A i \in 1 .. Len(q) : Append(q, ins)[i] = q[i]
    BY <2>6
  <2> QED BY <2>1, <2>2, <2>4, <2>5, <2>7 DEF EmittedOn
<1>7. ASSUME NEW d, NEW e, Draft(OpenText(self), Last(ctxs), d), Continues(d, st, e)
      PROVE  Draft(OpenText(b), c, e)
  <2>1. Drafting(OpenText(self), pctx, d, OpenText(a), c, ins, st)
    BY <1>7 DEF pctx
  <2> QED BY <1>6, <1>7, <2>1, DraftOn DEF pctx
<1>8. Likewise(Last(ctxs), c)
  BY DEF pctx
<1>9. Meaning(b, ctxs', source')
  BY <1>1, <1>4, <1>5, <1>7, <1>8, SaidMeaning
<1> QED BY <1>5, <1>9

-----------------------------------------------------------------------------
\* What is written: each statement adds its instruction to the open definition.

\* A context that differs in no pool that instructions refer to.
SamePools(c, k) ==
  /\ k.num_arguments = c.num_arguments /\ k.num_variables = c.num_variables
  /\ k.locals = c.locals /\ k.constants = c.constants /\ k.imports = c.imports
  /\ k.label_addresses = c.label_addresses /\ k.pseudo_jumps = c.pseudo_jumps

\* A statement that adds to no pool and is no jump.
LEMMA SameDrafting ==
  ASSUME NEW u, NEW c, NEW d, Draft(u, c, d), NEW k, SamePools(c, k), NEW t, t.op # "jmp",
         NEW ins, Drafted(u, k, d, ins, t)
  PROVE  Drafting(u, c, d, u, k, ins, t)
<1>1. /\ Prefix(u.consts, u.consts) /\ Prefix(u.imports, u.imports)
      /\ Prefix(c.label_addresses, k.label_addresses)
  BY PrefixSelf DEF SamePools
<1>2. JumpsOn(c, k, t, Len(u.code))
  BY DEF JumpsOn, SamePools
<1> QED BY <1>1, <1>2 DEF Drafting, Draft, Pools, SamePools

\* One pool of the context is another one.
LEMMA PoolsWith ==
  ASSUME NEW c \in Context, NEW q \in Pool, NEW k
  PROVE  /\ k = [c EXCEPT !.pseudo_nesteds = q] => SamePools(c, k)
         /\ k = [c EXCEPT !.constants = q] =>
              k.constants = q /\ SamePools(c, [k EXCEPT !.constants = c.constants])
         /\ k = [c EXCEPT !.imports = q] =>
              k.imports = q /\ SamePools(c, [k EXCEPT !.imports = c.imports])
BY DEF Context, SamePools

\* A statement that is one instruction.
LEMMA PlainlyMeans ==
  ASSUME Compiling(self, ctxs, source), ctxs # <<>>, Meaning(self, ctxs, source),
         NEW i \in Codes, Plainly(i)
  PROVE  Meaning(self', ctxs', source')
<1>1. i \in AnyCode
  BY HostsOwn
<1>2. PICK st : st = [op |-> "plain"]
  OBVIOUS
<1>3. st \in Said /\ st.op = "plain"
  BY <1>2 DEF Said
<1>4. pctx \in Context /\ Works(self, self, aasm_prototype(self).code) /\ Likewise(pctx, pctx)
  BY ContextIs DEF Likewise
<1>5. Emits(self, i, pctx, st)
  BY <1>2 DEF Plainly
<1>6. ASSUME NEW d, Draft(OpenText(self), pctx, d)
      PROVE  Drafting(OpenText(self), pctx, d, OpenText(self), pctx, i, st)
  <2>1. Drafted(OpenText(self), pctx, d, i, st)
    BY <1>3 DEF Drafted
  <2> QED BY <1>3, <1>6, <2>1, SameDrafting DEF SamePools
<1> QED BY <1>1, <1>3, <1>4, <1>5, <1>6, EmitsMeaning

\* A load of a local variable that has been declared.
LEMMA LocalMeans ==
  ASSUME Compiling(self, ctxs, source), ctxs # <<>>, Meaning(self, ctxs, source),
         NEW x \in Symbols, Has(pctx.locals, x), Local(x)
  PROVE  Meaning(self', ctxs', source')
<1>1. pctx \in Context /\ Works(self, self, aasm_prototype(self).code) /\ Likewise(pctx, pctx)
  BY ContextIs DEF Likewise
<1>2. PICK n : n = IdxOf(pctx.locals, x)
  OBVIOUS
<1>3. pctx.locals \in Pool
  BY <1>1 DEF Context
<1>4. n \in Int
  BY <1>2, <1>3, IdxIs
<1>5. PICK st : st = [op |-> "llv", name |-> x]
  OBVIOUS
<1>6. PICK ins : ins = [op |-> "llv", idx |-> n]
  OBVIOUS
<1>7. Emits(self, ins, pctx, st)
  BY <1>2, <1>5, <1>6, Zenon DEF Local
<1>8. st \in Said /\ st.op = "llv" /\ st.name = x
  BY <1>5 DEF Said
<1>9. ins \in AnyCode
  BY <1>4, <1>6, InstructionIs
<1>10. ASSUME NEW d, Draft(OpenText(self), pctx, d)
       PROVE  Drafting(OpenText(self), pctx, d, OpenText(self), pctx, ins, st)
  <2>1. PICK i \in DOMAIN pctx.locals : pctx.locals[i].literal = x /\ n = pctx.locals[i].idx
    BY <1>2, <1>3, IdxAt
  <2>2. IsLabel(d, x) \/ LocalIs(d, x, n)
    BY <1>10, <2>1 DEF Draft, Pools, LocalsMean
  <2>3. ins.op = "llv" /\ ins.idx = n
    BY <1>6
  <2>4. Drafted(OpenText(self), pctx, d, ins, st)
    BY <1>8, <2>2, <2>3 DEF Drafted
  <2> QED BY <1>8, <1>10, <2>4, SameDrafting DEF SamePools
<1> QED BY <1>1, <1>7, <1>8, <1>9, <1>10, EmitsMeaning

\* A closure: the instruction names the entry of the pool of nested definitions.
LEMMA ClosureMeans ==
  ASSUME Compiling(self, ctxs, source), ctxs # <<>>, Meaning(self, ctxs, source),
         NEW s \in DOMAIN SymbolOf, Closure(s[1], s[2])
  PROVE  Meaning(self', ctxs', source')
<1>1. /\ pctx \in Context /\ Distinct(pctx.locals) /\ Works(self, self, aasm_prototype(self).code)
  BY ContextIs
<1>2. PICK name : name = SymbolOf[<<s[1], s[2]>>]
  OBVIOUS
<1>3. name \in Strings /\ name \in Literal
  <2>1. s = <<s[1], s[2]>>
    BY CompilerAssumption
  <2>2. name = SymbolOf[s]
    BY <1>2, <2>1, Zenon
  <2> QED BY <2>2, CompilerAssumption DEF Literal
<1>4. PICK pool : pool = pool_push(pctx.pseudo_nesteds, name, Len(pctx.pseudo_nesteds))
  OBVIOUS
<1>5. pctx.pseudo_nesteds \in Pool /\ Len(pctx.pseudo_nesteds) \in Int
  BY <1>1 DEF Context, Pool
<1>6. PICK n : n = IdxOf(pool, name)
  OBVIOUS
<1>7. pool \in Pool /\ n \in Int
  BY <1>3, <1>4, <1>5, <1>6, PushedIs
<1>8. PICK c : c = [pctx EXCEPT !.pseudo_nesteds = pool]
  OBVIOUS
<1>9. PICK st : st = [op |-> "cls", name |-> name]
  OBVIOUS
<1>10. PICK ins : ins = [op |-> "cls", idx |-> n]
  OBVIOUS
<1>11. Emits(self, ins, c, st)
  BY <1>2, <1>4, <1>6, <1>8, <1>9, <1>10, Zenon DEF Closure
<1>12. st \in Said /\ st.op = "cls"
  BY <1>3, <1>9 DEF Said
<1>13. ins \in AnyCode
  BY <1>7, <1>10, InstructionIs
<1>14. Likewise(pctx, c) /\ SamePools(pctx, c)
  BY <1>1, <1>7, <1>8, ContextWith, PoolsWith
<1>15. ASSUME NEW d, Draft(OpenText(self), pctx, d)
       PROVE  Drafting(OpenText(self), pctx, d, OpenText(self), c, ins, st)
  <2>1. Drafted(OpenText(self), c, d, ins, st)
    BY <1>12 DEF Drafted
  <2> QED BY <1>12, <1>14, <1>15, <2>1, SameDrafting
<1> QED BY <1>1, <1>11, <1>12, <1>13, <1>14, <1>15, EmitsMeaning

\* A jump: its label has a place in the pool of labels.
LEMMA JumpMeans ==
  ASSUME Compiling(self, ctxs, source), ctxs # <<>>, Meaning(self, ctxs, source),
         NEW x \in Symbols, Jump(x)
  PROVE  Meaning(self', ctxs', source')
<1>1. /\ pctx \in Context /\ Works(self, self, aasm_prototype(self).code) /\ Usable(self)
  BY ContextIs
<1>2. PICK ls : ls = pctx.label_addresses
  OBVIOUS
<1>3. PICK pool : pool = pool_push(ls, x, Len(ls))
  OBVIOUS
<1>4. x \in Literal /\ ls \in Pool /\ Len(ls) \in Int
  BY <1>1, <1>2 DEF Context, Literal, Pool
<1>5. PICK n : n = IdxOf(pool, x)
  OBVIOUS
<1>6. pool \in Pool /\ n \in Int /\ Has(pool, x)
  BY <1>3, <1>4, <1>5, PushedIs
<1>7. PICK off : off = NumInstructions
  OBVIOUS
<1>8. PICK js : js = pctx.pseudo_jumps
  OBVIOUS
<1>9. PICK j : j = Append(js, off)
  OBVIOUS
<1>10. js \in Seq(Nat) /\ off \in Nat /\ off = Len(OpenText(self).code)
  BY <1>1, <1>7, <1>8, OpenHolds, OpenTextIs DEF Context, NumInstructions
<1>11. j \in Seq(Nat) /\ Range(j) = Range(js) \cup {off}
  <2>1. j \in Seq(Nat) /\ Len(js) \in Nat /\ DOMAIN js = 1 .. Len(js)
        /\ DOMAIN j = 1 .. Len(js) + 1 /\ j[Len(js) + 1] = off
        /\ \A i \in 1 .. Len(js) : j[i] = js[i]
    BY <1>9, <1>10
  <2>2. \A y : y \in Range(j) <=> y \in Range(js) \/ y = off
    BY <2>1 DEF Range
  <2> QED BY <2>1, <2>2
<1>12. PICK c : c = [pctx EXCEPT !.label_addresses = pool, !.pseudo_jumps = j]
  OBVIOUS
<1>13. PICK st : st = [op |-> "jmp", label |-> x]
  OBVIOUS
<1>14. PICK ins : ins = [op |-> "jmp", idx |-> n]
  OBVIOUS
<1>15. Emits(self, ins, c, st)
  <2>1. Jump(x)
    OBVIOUS
  <2>2. LET p == pool_push(pctx.label_addresses, x, Len(pctx.label_addresses))
        IN  Emits(self, [op |-> "jmp", idx |-> IdxOf(p, x)],
                  [pctx EXCEPT !.label_addresses = p,
                               !.pseudo_jumps = Append(@, NumInstructions)],
                  [op |-> "jmp", label |-> x])
    BY <2>1, Zenon DEF Jump
  <2>3. Emits(self, [op |-> "jmp", idx |-> IdxOf(pool, x)],
              [pctx EXCEPT !.label_addresses = pool,
                           !.pseudo_jumps = Append(@, NumInstructions)],
              [op |-> "jmp", label |-> x])
    BY <1>2, <1>3, <2>2, Zenon
  <2>4. c = [pctx EXCEPT !.label_addresses = pool,
                         !.pseudo_jumps = Append(@, NumInstructions)]
    BY <1>7, <1>8, <1>9, <1>12
  <2> QED BY <1>5, <1>13, <1>14, <2>3, <2>4, Zenon
<1>16. st \in Said /\ st.op = "jmp" /\ st.label = x
  BY <1>13 DEF Said
<1>17. ins \in AnyCode
  BY <1>6, <1>14, InstructionIs
<1>18. /\ c \in Context /\ c.sym = pctx.sym /\ c.nesteds = pctx.nesteds
       /\ c.label_addresses = pool /\ c.pseudo_jumps = j
       /\ c.num_arguments = pctx.num_arguments /\ c.num_variables = pctx.num_variables
       /\ c.locals = pctx.locals /\ c.constants = pctx.constants /\ c.imports = pctx.imports
  BY <1>1, <1>6, <1>11, <1>12 DEF Context
<1>19. ASSUME NEW d, Draft(OpenText(self), pctx, d)
       PROVE  Drafting(OpenText(self), pctx, d, OpenText(self), c, ins, st)
  <2>1. PICK u : u = OpenText(self)
    OBVIOUS
  <2>2. Draft(u, pctx, d)
    BY <1>19, <2>1
  <2>3. Numbered(ls)
    BY <1>2, <2>2 DEF Draft, Pools
  <2>4. Numbered(pool) /\ Prefix(ls, pool)
    BY <1>3, <1>4, <2>3, NumberedPushed
  <2>5. PICK i \in DOMAIN pool : pool[i].literal = x /\ n = pool[i].idx
    BY <1>5, <1>6, IdxAt
  <2>6. ins = [op |-> "jmp", idx |-> i - 1]
    BY <1>14, <2>4, <2>5 DEF Numbered
  <2>7. Drafted(u, c, d, ins, st)
    BY <1>16, <1>18, <2>5, <2>6 DEF Drafted
  <2>8. JumpsOn(pctx, c, st, Len(u.code))
    BY <1>8, <1>10, <1>11, <1>16, <1>18, <2>1 DEF JumpsOn
  <2>9. Prefix(u.consts, u.consts) /\ Prefix(u.imports, u.imports)
    BY PrefixSelf
  <2>10. ConstsNamed(u.consts, c.constants) /\ ImportsNamed(u.imports, c.imports)
    BY <1>18, <2>2 DEF Draft, Pools
  <2> QED BY <1>2, <1>18, <2>1, <2>4, <2>7, <2>8, <2>9, <2>10 DEF Drafting
<1> QED BY <1>1, <1>15, <1>16, <1>17, <1>18, <1>19, EmitsMeaning DEF Likewise

\* A constant: one that is known is where it was put, another one is added.
LEMMA LoadConstantMeans ==
  ASSUME Compiling(self, ctxs, source), ctxs # <<>>, Meaning(self, ctxs, source),
         NEW l \in Literals, LoadConstant(l)
  PROVE  Meaning(self', ctxs', source')
<1> DEFINE known == Known(pctx.constants, l.text)
<1>1. PICK idx : idx = IF known THEN IdxOf(pctx.constants, l.text)
                       ELSE Len(aasm_prototype(self).consts)
  OBVIOUS
<1>2. PICK a : a = IF known THEN self
                   ELSE IF l \in Plain THEN aasm_add_constant(self, l)
                   ELSE AddString(self, l.text)
  OBVIOUS
<1>3. PICK q : q = pool_push(pctx.constants, l.text, idx)
  OBVIOUS
<1>4. PICK c : c = [pctx EXCEPT !.constants = q]
  OBVIOUS
<1>5. PICK st : st = [op |-> "ldk", text |-> l.text]
  OBVIOUS
<1>6. PICK ins : ins = [op |-> "ldk", idx |-> idx]
  OBVIOUS
<1>7. Emits(a, ins, c, st)
  BY <1>1, <1>2, <1>3, <1>4, <1>5, <1>6, Zenon DEF LoadConstant
<1>8. pctx \in Context /\ Usable(self) /\ Distinct(pctx.locals)
  BY ContextIs
<1>9. pctx.constants \in Pool /\ l.text \in Literal
  BY <1>8 DEF Context, Literal
<1>10. idx \in Int
  BY <1>1, <1>8, <1>9, IdxIs, OpenHolds DEF Known
<1>11. Works(self, a, aasm_prototype(self).code)
  <2>1. CASE known
    BY <1>2, <1>8, <2>1, WorksSelf
  <2>2. CASE ~known /\ l \in Plain
    BY <1>2, <1>8, <2>2, ConstantWorks
  <2>3. CASE ~known /\ l \notin Plain
    <3>1. l.text \in Words
      BY <2>3, CompilerAssumption DEF Words
    <3> QED BY <1>2, <1>8, <2>3, <3>1, StringWorks
  <2> QED BY <2>1, <2>2, <2>3
<1>12. q \in Pool
  BY <1>3, <1>9, <1>10, PushedIs
<1>13. Likewise(pctx, c)
  BY <1>4, <1>8, <1>12, ContextWith
<1>14. c.constants = q /\ SamePools(pctx, [c EXCEPT !.constants = pctx.constants])
  BY <1>4, <1>8, <1>12, PoolsWith
<1>15. /\ c.num_arguments = pctx.num_arguments /\ c.num_variables = pctx.num_variables
       /\ c.locals = pctx.locals /\ c.imports = pctx.imports
       /\ c.label_addresses = pctx.label_addresses /\ c.pseudo_jumps = pctx.pseudo_jumps
  BY <1>4, <1>8 DEF Context
<1>16. st \in Said /\ st.op = "ldk" /\ st.text = l.text
  BY <1>5, <1>9 DEF Said
<1>17. ins \in AnyCode
  BY <1>6, <1>10, InstructionIs
<1>18. ASSUME NEW d, Draft(OpenText(self), pctx, d)
       PROVE  Drafting(OpenText(self), pctx, d, OpenText(a), c, ins, st)
  <2>1. PICK u : u = OpenText(self)
    OBVIOUS
  <2>2. PICK w : w = OpenText(a)
    OBVIOUS
  <2>3. PICK ks : ks = pctx.constants
    OBVIOUS
  <2>4. ks \in Pool /\ ConstsNamed(u.consts, ks) /\ ImportsNamed(u.imports, pctx.imports)
    BY <1>9, <1>18, <2>1, <2>3 DEF Draft, Pools
  <2>5. /\ w.code = u.code /\ w.imports = u.imports /\ Prefix(u.consts, w.consts)
        /\ idx + 1 \in DOMAIN w.consts /\ TextOf(w.consts[idx + 1]) = l.text
    <3>1. CASE known
      <4>1. w = u
        BY <1>2, <2>1, <2>2, <3>1
      <4>2. PICK i \in DOMAIN ks : ks[i].literal = l.text /\ idx = ks[i].idx
        BY <1>1, <2>3, <2>4, <3>1, IdxAt DEF Known
      <4>3. idx + 1 \in DOMAIN u.consts /\ TextOf(u.consts[idx + 1]) = l.text
        BY <2>4, <4>2 DEF ConstsNamed
      <4> QED BY <4>1, <4>3, PrefixSelf
    <3>2. CASE ~known
      <4>1. a = IF l \in Plain THEN aasm_add_constant(self, l) ELSE AddString(self, l.text)
        BY <1>2, <3>2
      <4>2. PICK y : TextOf(y) = l.text /\ OneMoreItem(u, "consts", y, w)
        BY <1>8, <2>1, <2>2, <4>1, ConstantShows
      <4>3. /\ w.code = u.code /\ w.imports = u.imports /\ w.consts = Append(u.consts, y)
        BY <4>2 DEF OneMoreItem
      <4>4. u.consts \in Seq(Plain \cup [string : Words])
            /\ Len(u.consts) = Len(aasm_prototype(self).consts)
        BY <1>8, <2>1, OpenTextIs
      <4>5. PICK n : n = Len(u.consts)
        OBVIOUS
      <4>6. Prefix(u.consts, w.consts) /\ n + 1 \in DOMAIN w.consts /\ w.consts[n + 1] = y
        BY <4>3, <4>4, <4>5, PrefixAppend
      <4>7. idx = n
        BY <1>1, <3>2, <4>4, <4>5
      <4> QED BY <4>2, <4>3, <4>6, <4>7
    <3> QED BY <3>1, <3>2
  <2>6. ConstsNamed(w.consts, c.constants)
    BY <1>3, <1>9, <1>10, <1>14, <2>3, <2>4, <2>5, ConstsPushed
  <2>7. ImportsNamed(w.imports, c.imports)
    BY <1>15, <2>4, <2>5
  <2>8. Drafted(w, c, d, ins, st)
    <3>1. ins.op = "ldk" /\ ins.idx = idx
      BY <1>6
    <3> QED BY <1>16, <2>5, <3>1 DEF Drafted
  <2>9. Numbered(c.label_addresses)
    BY <1>15, <1>18 DEF Draft, Pools
  <2>10. JumpsOn(pctx, c, st, Len(u.code))
    BY <1>15, <1>16 DEF JumpsOn
  <2>11. /\ Prefix(u.imports, w.imports) /\ Prefix(pctx.label_addresses, c.label_addresses)
    BY <1>15, <2>5, PrefixSelf
  <2> QED BY <1>15, <2>1, <2>2, <2>5, <2>6, <2>7, <2>8, <2>9, <2>10, <2>11 DEF Drafting
<1> QED BY <1>7, <1>11, <1>13, <1>16, <1>17, <1>18, EmitsMeaning

\* An import likewise.
LEMMA ImportMeans ==
  ASSUME Compiling(self, ctxs, source), ctxs # <<>>, Meaning(self, ctxs, source),
         NEW x \in Externals, Import(x[1], x[2])
  PROVE  Meaning(self', ctxs', source')
<1>1. PICK m : m = x[1]
  OBVIOUS
<1>2. PICK n : n = x[2]
  OBVIOUS
<1>3. x = <<m, n>> /\ m \in Strings /\ n \in Strings /\ <<m, n>> \in Literal
  BY <1>1, <1>2, AssemblerAssumption DEF Literal
<1> DEFINE known == Known(pctx.imports, <<m, n>>)
<1>4. PICK idx : idx = IF known THEN IdxOf(pctx.imports, <<m, n>>)
                       ELSE Len(aasm_prototype(self).imports)
  OBVIOUS
<1>5. PICK a : a = IF known THEN self ELSE aasm_add_import(self, m, n)
  OBVIOUS
<1>6. PICK q : q = pool_push(pctx.imports, <<m, n>>, idx)
  OBVIOUS
<1>7. PICK c : c = [pctx EXCEPT !.imports = q]
  OBVIOUS
<1>8. PICK st : st = [op |-> "imp", module |-> m, name |-> n]
  OBVIOUS
<1>9. PICK ins : ins = [op |-> "imp", idx |-> idx]
  OBVIOUS
<1>10. Import(m, n)
  BY <1>1, <1>2
<1>11. Emits(a, ins, c, st)
  BY <1>4, <1>5, <1>6, <1>7, <1>8, <1>9, <1>10, Zenon DEF Import
<1>12. pctx \in Context /\ Usable(self) /\ Distinct(pctx.locals)
  BY ContextIs
<1>13. pctx.imports \in Pool
  BY <1>12 DEF Context
<1>14. idx \in Int
  BY <1>4, <1>12, <1>13, IdxIs, OpenHolds DEF Known
<1>15. Works(self, a, aasm_prototype(self).code)
  BY <1>3, <1>5, <1>12, WorksSelf, ImportWorks DEF Words
<1>16. q \in Pool
  BY <1>3, <1>6, <1>13, <1>14, PushedIs
<1>17. Likewise(pctx, c)
  BY <1>7, <1>12, <1>16, ContextWith
<1>18. /\ c.imports = q
       /\ c.num_arguments = pctx.num_arguments /\ c.num_variables = pctx.num_variables
       /\ c.locals = pctx.locals /\ c.constants = pctx.constants
       /\ c.label_addresses = pctx.label_addresses /\ c.pseudo_jumps = pctx.pseudo_jumps
  BY <1>7, <1>12 DEF Context
<1>19. st \in Said /\ st.op = "imp" /\ st.module = m /\ st.name = n
  BY <1>3, <1>8 DEF Said
<1>20. ins \in AnyCode
  BY <1>9, <1>14, InstructionIs
<1>21. ASSUME NEW d, Draft(OpenText(self), pctx, d)
       PROVE  Drafting(OpenText(self), pctx, d, OpenText(a), c, ins, st)
  <2>1. PICK u : u = OpenText(self)
    OBVIOUS
  <2>2. PICK w : w = OpenText(a)
    OBVIOUS
  <2>3. PICK is : is = pctx.imports
    OBVIOUS
  <2>4. is \in Pool /\ ConstsNamed(u.consts, pctx.constants) /\ ImportsNamed(u.imports, is)
    BY <1>13, <1>21, <2>1, <2>3 DEF Draft, Pools
  <2>5. u.imports \in Seq([module : Words, name : Words])
        /\ Len(u.imports) = Len(aasm_prototype(self).imports)
    BY <1>12, <2>1, OpenTextIs
  <2>6. /\ w.code = u.code /\ w.consts = u.consts /\ Prefix(u.imports, w.imports)
        /\ idx + 1 \in DOMAIN w.imports
        /\ w.imports[idx + 1] = [module |-> m, name |-> n]
    <3>1. CASE known
      <4>1. w = u
        BY <1>5, <2>1, <2>2, <3>1
      <4>2. PICK i \in DOMAIN is : is[i].literal = <<m, n>> /\ idx = is[i].idx
        BY <1>4, <2>3, <2>4, <3>1, IdxAt DEF Known
      <4>3. /\ idx + 1 \in DOMAIN u.imports
            /\ <<u.imports[idx + 1].module, u.imports[idx + 1].name>> = <<m, n>>
        BY <2>4, <4>2 DEF ImportsNamed
      <4>4. u.imports[idx + 1] \in [module : Words, name : Words]
        <5>1. PICK r : r = u.imports
          OBVIOUS
        <5>2. PICK S : S = [module : Words, name : Words]
          OBVIOUS
        <5>3. PICK i2 : i2 = idx + 1
          OBVIOUS
        <5>4. r \in Seq(S) /\ i2 \in DOMAIN r
          BY <2>5, <4>3, <5>1, <5>2, <5>3
        <5>5. r[i2] \in S
          BY <5>4, LenProperties, ElementOfSeq
        <5> QED BY <5>1, <5>2, <5>3, <5>5
      <4>5. u.imports[idx + 1] = [module |-> m, name |-> n]
        BY <4>3, <4>4
      <4> QED BY <4>1, <4>3, <4>5, PrefixSelf
    <3>2. CASE ~known
      <4>1. a = aasm_add_import(self, m, n) /\ m \in Words /\ n \in Words
        BY <1>3, <1>5, <3>2 DEF Words
      <4>2. PICK y : y = [module |-> m, name |-> n]
        OBVIOUS
      <4>3. OneMoreItem(u, "imports", y, w)
        BY <1>12, <2>1, <2>2, <4>1, <4>2, ImportShows
      <4>4. /\ w.code = u.code /\ w.consts = u.consts /\ w.imports = Append(u.imports, y)
        BY <4>3 DEF OneMoreItem
      <4>5. PICK k : k = Len(u.imports)
        OBVIOUS
      <4>6. Prefix(u.imports, w.imports) /\ k + 1 \in DOMAIN w.imports /\ w.imports[k + 1] = y
        BY <2>5, <4>4, <4>5, PrefixAppend
      <4>7. idx = k
        BY <1>4, <2>5, <3>2, <4>5
      <4> QED BY <4>2, <4>4, <4>6, <4>7
    <3> QED BY <3>1, <3>2
  <2>7. ImportsNamed(w.imports, c.imports)
    <3>1. <<w.imports[idx + 1].module, w.imports[idx + 1].name>> = <<m, n>>
      BY <2>6
    <3> QED BY <1>3, <1>6, <1>14, <1>18, <2>3, <2>4, <2>6, <3>1, ImportsPushed
  <2>8. ConstsNamed(w.consts, c.constants)
    BY <1>18, <2>4, <2>6
  <2>9. Drafted(w, c, d, ins, st)
    <3>1. ins.op = "imp" /\ ins.idx = idx
      BY <1>9
    <3> QED BY <1>19, <2>6, <3>1 DEF Drafted
  <2>10. Numbered(c.label_addresses)
    BY <1>18, <1>21 DEF Draft, Pools
  <2>11. JumpsOn(pctx, c, st, Len(u.code))
    BY <1>18, <1>19 DEF JumpsOn
  <2>12. /\ Prefix(u.consts, w.consts) /\ Prefix(pctx.label_addresses, c.label_addresses)
    BY <1>18, <2>6, PrefixSelf
  <2> QED BY <1>18, <2>1, <2>2, <2>6, <2>7, <2>8, <2>9, <2>10, <2>11, <2>12 DEF Drafting
<1> QED BY <1>11, <1>15, <1>17, <1>19, <1>20, <1>21, EmitsMeaning

\* A label: its address is how many instructions there are so far.
LEMMA LabelMeans ==
  ASSUME Compiling(self, ctxs, source), ctxs # <<>>, Meaning(self, ctxs, source),
         NEW x \in Symbols, ~IsTaken(x), Label(x)
  PROVE  Meaning(self', ctxs', source')
<1>1. /\ pctx \in Context /\ Distinct(pctx.locals) /\ Works(self, self, aasm_prototype(self).code)
      /\ Usable(self)
  BY ContextIs
<1>2. PICK n : n = NumInstructions
  OBVIOUS
<1>3. PICK ls : ls = pctx.locals
  OBVIOUS
<1>4. PICK v : v = [literal |-> x, idx |-> n]
  OBVIOUS
<1>5. PICK q : q = Append(ls, v)
  OBVIOUS
<1>6. PICK c : c = [pctx EXCEPT !.locals = q]
  OBVIOUS
<1>7. PICK st : st = [op |-> "label", name |-> x]
  OBVIOUS
<1>8. /\ ctxs' = Append(Front(ctxs), c) /\ self' = self
      /\ source' = [source EXCEPT ![Slot(self)].body = Append(@, st)]
  BY <1>2, <1>3, <1>4, <1>5, <1>6, <1>7 DEF Label
<1>9. ls \in Pool /\ ~Has(ls, x) /\ n \in Nat /\ n = Len(OpenText(self).code)
  BY <1>1, <1>2, <1>3, OpenHolds, OpenTextIs DEF NumInstructions, IsTaken, Context
<1>10. /\ q \in Pool /\ Len(ls) \in Nat /\ DOMAIN ls = 1 .. Len(ls)
       /\ DOMAIN q = 1 .. Len(ls) + 1 /\ q[Len(ls) + 1] = v
       /\ \A i \in 1 .. Len(ls) : q[i] = ls[i]
  <2>1. PICK T : T = [literal : Literal, idx : Int]
    OBVIOUS
  <2>2. v \in T /\ ls \in Seq(T)
    BY <1>4, <1>9, <2>1 DEF Pool, Literal
  <2>3. /\ q \in Seq(T) /\ Len(ls) \in Nat /\ DOMAIN ls = 1 .. Len(ls)
        /\ DOMAIN q = 1 .. Len(ls) + 1 /\ q[Len(ls) + 1] = v
        /\ \A i \in 1 .. Len(ls) : q[i] = ls[i]
    BY <1>5, <2>2
  <2> QED BY <2>1, <2>3 DEF Pool
<1>11. /\ c \in Context /\ c.sym = pctx.sym /\ c.nesteds = pctx.nesteds /\ c.locals = q
       /\ c.num_arguments = pctx.num_arguments /\ c.num_variables = pctx.num_variables
       /\ c.constants = pctx.constants /\ c.imports = pctx.imports
       /\ c.label_addresses = pctx.label_addresses /\ c.pseudo_jumps = pctx.pseudo_jumps
  BY <1>1, <1>6, <1>10 DEF Context
<1>12. Labelling(pctx, c, x, n)
  BY <1>3, <1>4, <1>10, <1>11 DEF Labelling
<1>13. st \in Said
  BY <1>7 DEF Said
<1>14. ASSUME NEW d, NEW e, Draft(OpenText(self), Last(ctxs), d), Continues(d, st, e)
       PROVE  Draft(OpenText(self), c, e)
  <2>1. PICK u : u = OpenText(self)
    OBVIOUS
  <2>2. Draft(u, pctx, d) /\ Labelling(pctx, c, x, Len(u.code)) /\ ~Has(pctx.locals, x)
    BY <1>3, <1>9, <1>12, <1>14, <2>1 DEF pctx
  <2>3. Draft(u, c, e)
    BY <1>7, <1>14, <2>2, DraftLabel
  <2> QED BY <2>1, <2>3
<1>15. Likewise(Last(ctxs), c) /\ Sound(self, ctxs, source)
  BY <1>11 DEF Likewise, pctx, Compiling
<1>16. Meaning(self, ctxs', source')
  BY <1>1, <1>8, <1>13, <1>14, <1>15, SaidMeaning
<1> QED BY <1>8, <1>16

-----------------------------------------------------------------------------
\* What is written: the end of a definition replaces its pseudo instructions.

\* The text of a definition that gets its final code.
LEMMA CodeShows ==
  ASSUME NEW a, Usable(a), NEW c \in Seq(AnyCode), Len(c) = Len(aasm_prototype(a).code),
         NEW n \in Nat, NEW b, b = WithPrototype(a, WithCode(aasm_prototype(a), c, n))
  PROVE  /\ OpenText(b).code = c /\ OpenText(b).locals = n
         /\ OpenText(b).consts = OpenText(a).consts
         /\ OpenText(b).imports = OpenText(a).imports
<1>1. PICK q : q = aasm_prototype(a)
  OBVIOUS
<1>2. PICK p : p = WithCode(q, c, n)
  OBVIOUS
<1>3. Good(a) /\ q \in Protos(DOMAIN a.st.text, Len(a.slots)) /\ InRoom(q)
  BY <1>1, OpenOK DEF Usable
<1>4. IsRecoded(DOMAIN a.st.text, Len(a.slots), q, c, p)
  BY <1>1, <1>2, <1>3, CodeReplaced
<1>5. b = WithPrototype(a, p)
  BY <1>1, <1>2
<1>6. aasm_prototype(b) = p
  BY <1>1, <1>3, <1>4, <1>5, SetAlone DEF IsRecoded
<1>7. b.st = a.st
  BY <1>3, <1>5 DEF WithPrototype, Good
<1>8. q.consts = p.consts /\ q.imports = p.imports /\ p.locals = n /\ p.code = c
  <2>1. DOMAIN q = {"source", "symbol", "locals", "code", "consts", "imports", "nesteds", "max"}
    BY <1>3 DEF Protos
  <2> QED BY <1>2, <2>1 DEF WithCode
<1>9. Shown(b, p) = Shown(a, p)
  BY <1>7, ShownSt
<1>10. Shown(a, p) = Shows(a, p) /\ Shown(a, q) = Shows(a, q)
  BY ShownIs
<1> QED BY <1>1, <1>6, <1>8, <1>9, <1>10 DEF OpenText, Shows

\* The text of a definition that gets its symbol.
LEMMA SymbolShows ==
  ASSUME NEW a, Usable(a), NEW s \in Words, NEW b, b = SetName(a, "symbol", s)
  PROVE  /\ OpenText(b).symbol = s /\ OpenText(b).locals = OpenText(a).locals
         /\ OpenText(b).code = OpenText(a).code /\ OpenText(b).consts = OpenText(a).consts
         /\ OpenText(b).imports = OpenText(a).imports
<1>1. PICK c : c = aasm_string_to_ref(a, s)
  OBVIOUS
<1>2. Works(a, c, aasm_prototype(a).code) /\ HasText(c.st, s) /\ OpenText(c) = OpenText(a)
  BY <1>1, InternWorks, InternShows
<1>3. Good(c)
  BY <1>2, WorksUsable DEF Usable
<1>4. b = WithName(c, "symbol", s)
  BY <1>1 DEF SetName
<1>5. OpenText(b) = [OpenText(c) EXCEPT !["symbol"] = s]
  BY <1>2, <1>3, <1>4, WithNameAlone DEF OpenText
<1>6. IsShown(OpenText(c))
  BY ShownMembers DEF OpenText
<1> QED BY <1>2, <1>5, <1>6 DEF IsShown

\* An instruction that waits for nothing stays as it is.
LEMMA ResolvedSame ==
  ASSUME NEW k \in Nat, ~IsPseudoJump(k - 1), aasm_prototype(self).code[k].op # "cls"
  PROVE  Resolved(k - 1) = aasm_prototype(self).code[k]
<1>1. (k - 1) + 1 = k
  OBVIOUS
<1>2. PICK off : off = k - 1
  OBVIOUS
<1> QED BY <1>1, <1>2 DEF Resolved

\* A jump gets its displacement.
LEMMA ResolvedJump ==
  ASSUME NEW k \in Nat, IsPseudoJump(k - 1), aasm_prototype(self).code[k].op # "cls",
         NEW n, n = Displacement(k - 1)
  PROVE  Resolved(k - 1) = [aasm_prototype(self).code[k] EXCEPT !.idx = n]
<1>1. (k - 1) + 1 = k
  OBVIOUS
<1>2. PICK off : off = k - 1
  OBVIOUS
<1> QED BY <1>1, <1>2 DEF Resolved

\* The address of a label is what the locals say of it.
LEMMA AddressIs ==
  ASSUME NEW pool \in Pool, Distinct(pool), NEW d, LabelsKept(pool, d), NEW x, IsLabel(d, x),
         Has(pool, x)
  PROVE  AddressOf(d, x) = IdxOf(pool, x)
<1>1. PICK i \in DOMAIN pool : pool[i].literal = x /\ IdxOf(pool, x) = pool[i].idx
  BY IdxAt
<1>2. PICK j : j = CHOOSE k \in DOMAIN d.body : d.body[k].op = "label" /\ d.body[k].name = x
  OBVIOUS
<1>3. j \in DOMAIN d.body /\ d.body[j].op = "label" /\ d.body[j].name = x
  BY <1>2 DEF IsLabel
<1>4. InPool(pool, x, Instructions(d, j))
  BY <1>3 DEF LabelsKept
<1>5. PICK m \in DOMAIN pool : pool[m].literal = x /\ pool[m].idx = Instructions(d, j)
  BY <1>4 DEF InPool
<1>6. m = i
  BY <1>1, <1>5 DEF Distinct, IsInjective
<1>7. AddressOf(d, x) = Instructions(d, j)
  BY <1>2 DEF AddressOf
<1> QED BY <1>1, <1>5, <1>6, <1>7

\* The text of a definition that has ended, against the one while it was open.
EndedText(u, w) ==
  /\ w.code = ResolvedCode /\ w.locals = pctx.num_variables
  /\ w.consts = u.consts /\ w.imports = u.imports

\* One that has ended has an instruction for each statement that means it.
LEMMA EndedMeans ==
  ASSUME Usable(self), pctx \in Context, Distinct(pctx.locals), Resolvable,
         ~Closes(aasm_prototype(self).code),
         NEW d \in Definition, Draft(OpenText(self), pctx, d),
         NEW w, EndedText(OpenText(self), w),
         NEW j \in DOMAIN d.body, d.body[j].op # "label"
  PROVE  Means(w, d, Instructions(d, j), d.body[j])
<1>1. PICK q : q = aasm_prototype(self).code
  OBVIOUS
<1>2. /\ q \in Seq(AnyCode) /\ q = OpenText(self).code /\ DOMAIN q = 1 .. Len(q)
      /\ Len(q) \in Nat /\ NumInstructions = Len(q)
  BY <1>1, OpenTextIs, OpenHolds, LenProperties DEF NumInstructions
<1>3. PICK k : k = Instructions(d, j)
  OBVIOUS
<1>4. k \in 1 .. Len(q)
  <2>1. PICK body : body = d.body
    OBVIOUS
  <2>2. body \in Seq(Said)
    BY <2>1 DEF Definition
  <2>3. DOMAIN body = 1 .. Len(body) /\ Len(body) \in Nat
    BY <2>2, LenProperties
  <2>4. j \in 1 .. Len(d.body) /\ Len(d.body) \in Nat
    BY <2>1, <2>3
  <2>5. Len(q) = Instructions(d, Len(d.body))
    BY <1>2 DEF Draft, Drafts
  <2> QED BY <1>3, <2>4, <2>5, EmittedIs
<1>5. PICK ins : ins = q[k]
  OBVIOUS
<1>6. PICK t : t = d.body[j]
  OBVIOUS
<1>7. ins.op # "cls" /\ k \in Nat
  BY <1>1, <1>2, <1>4, <1>5 DEF Closes
<1>8. Drafted(OpenText(self), pctx, d, ins, t) /\ (IsPseudoJump(k - 1) <=> t.op = "jmp")
  <2>1. DraftedAt(OpenText(self), pctx, d, j)
    BY DEF Draft, Drafts
  <2> QED BY <1>2, <1>3, <1>5, <1>6, <2>1 DEF DraftedAt, IsPseudoJump
<1>9. w.code[k] = Resolved(k - 1)
  BY <1>1, <1>2, <1>4 DEF EndedText, ResolvedCode
<1>10. CASE t.op # "jmp"
  <2>1. w.code[k] = ins
    BY <1>1, <1>5, <1>7, <1>8, <1>9, <1>10, ResolvedSame
  <2>2. CASE t.op = "plain"
    BY <1>3, <1>6, <1>8, <2>1, <2>2 DEF Means, Drafted
  <2>3. CASE t.op = "llv"
    BY <1>3, <1>6, <1>8, <2>1, <2>3 DEF Means, Drafted, LocalIs
  <2>4. CASE t.op = "imp"
    BY <1>3, <1>6, <1>8, <2>1, <2>4 DEF Means, Drafted, EndedText
  <2>5. CASE t.op = "ldk"
    BY <1>3, <1>6, <1>8, <2>1, <2>5 DEF Means, Drafted, EndedText, TextOf
  <2>6. CASE t.op \notin {"plain", "llv", "imp", "ldk"}
    BY <1>3, <1>6, <1>10, <2>6 DEF Means
  <2> QED BY <2>2, <2>3, <2>4, <2>5, <2>6
<1>11. CASE t.op = "jmp" /\ ~IsLabel(d, t.label)
  BY <1>3, <1>6, <1>11 DEF Means
<1>12. CASE t.op = "jmp" /\ IsLabel(d, t.label)
  <2>1. PICK ls : ls = pctx.label_addresses
    OBVIOUS
  <2>2. PICK x : x = t.label
    OBVIOUS
  <2>3. PICK i \in DOMAIN ls : ins = [op |-> "jmp", idx |-> i - 1] /\ ls[i].literal = x
    BY <1>8, <1>12, <2>1, <2>2 DEF Drafted
  <2>4. ls \in Pool /\ Numbered(ls)
    BY <2>1 DEF Context, Draft, Pools
  <2>5. PICK off : off = k - 1
    OBVIOUS
  <2>6. off + 1 = k /\ off \in 0 .. NumInstructions - 1 /\ IsPseudoJump(off)
    BY <1>2, <1>4, <1>8, <1>12, <2>5
  <2>7. LabelAt(off) = x
    <3>1. LabelAt(off) = LiteralAt(ls, ins.idx)
      BY <1>1, <1>5, <2>1, <2>6 DEF LabelAt
    <3>2. ins.idx = i - 1
      BY <2>3
    <3> QED BY <2>3, <2>4, <3>1, <3>2, NumberedAt
  <2>8. PICK pool : pool = pctx.locals
    OBVIOUS
  <2>9. Has(pool, x)
    BY <2>6, <2>7, <2>8 DEF Resolvable
  <2>10. PICK addr : addr = IdxOf(pool, x)
    OBVIOUS
  <2>11. pool \in Pool /\ LabelsKept(pool, d) /\ Distinct(pool)
    BY <2>8 DEF Context, Draft, Pools
  <2>12. addr = AddressOf(d, x) /\ addr \in Int
    BY <1>12, <2>2, <2>9, <2>10, <2>11, AddressIs, IdxIs
  <2>13. PICK n : n = Displacement(off)
    OBVIOUS
  <2>14. n = addr - off - 1
    BY <2>7, <2>8, <2>10, <2>13 DEF Displacement
  <2>15. k + n = addr
    BY <1>7, <2>5, <2>12, <2>14
  <2>16. w.code[k] = [ins EXCEPT !.idx = n]
    BY <1>1, <1>5, <1>7, <1>9, <2>5, <2>6, <2>13, ResolvedJump
  <2>17. w.code[k].op = "jmp" /\ w.code[k].idx = n
    BY <2>3, <2>16
  <2> QED BY <1>3, <1>6, <1>12, <2>2, <2>12, <2>15, <2>17 DEF Means
<1> QED BY <1>10, <1>11, <1>12

\* It means what was written when it has its symbol.
LEMMA EndedRight ==
  ASSUME Usable(self), pctx \in Context, Distinct(pctx.locals), Resolvable,
         ~Closes(aasm_prototype(self).code),
         NEW d \in Definition, Draft(OpenText(self), pctx, d),
         NEW w, EndedText(OpenText(self), w),
         w.symbol = SymbolOf[<<d.name, pctx.num_arguments>>]
  PROVE  Right(w, d)
<1>1. w.symbol = SymbolOf[<<d.name, Len(d.args)>>] /\ w.locals = Len(d.vars)
  BY DEF Draft, Pools, EndedText
<1>2. Len(w.code) = Instructions(d, Len(d.body))
  <2>1. Len(w.code) = Len(aasm_prototype(self).code)
    BY ResolvedCodeOn DEF EndedText
  <2>2. OpenText(self).code = aasm_prototype(self).code
    BY OpenTextIs
  <2> QED BY <2>1, <2>2 DEF Draft, Drafts
<1>3. \A j \in DOMAIN d.body : d.body[j].op # "label" => Means(w, d, Instructions(d, j), d.body[j])
  BY EndedMeans
<1> QED BY <1>1, <1>2, <1>3 DEF Right

\* The open prototype is closed: it alone may be done now that was not.
PopsTo(a, b, c) ==
  /\ \A s \in SlotsIn(c) : Shown(c, At(c, s)) = Shown(b, At(b, s))
  /\ Shown(c, At(c, Slot(a))) = OpenText(b)
  /\ \A s : IsDone(c, s) /\ s # Slot(a) => IsDone(b, s)
  /\ SlotsIn(c) = SlotsIn(b)
  /\ Len(a.context) > 2 => ~IsDone(c, Slot(a))
  /\ DeepAreNone(c) /\ (InSequence(a) => InSequence(c))

\* aasm_pop changes what is shown of no prototype.
LEMMA PopShows ==
  ASSUME NEW a, Usable(a), Len(a.context) > 1, DeepAreNone(a),
         NEW b, NEW code, Works(a, b, code), NEW c, c = aasm_pop(b)
  PROVE  PopsTo(a, b, c)
<1>1. /\ Usable(b) /\ b.context = a.context /\ Slot(b) = Slot(a) /\ Only(a, b)
      /\ Len(b.slots) = Len(a.slots)
  BY WorksUsable DEF Works, Only, Goes, Steady, Slot
<1>2. Len(a.context) \in Nat /\ DOMAIN a.context = 1 .. Len(a.context)
  <2>1. PICK q : q = a.context
    OBVIOUS
  <2>2. PICK S : S = [slot : SlotsIn(a), idx : Nat]
    OBVIOUS
  <2>3. q \in Seq(S)
    BY <2>1, <2>2 DEF Usable, Good, Opened
  <2> QED BY <2>1, <2>3, LenProperties
<1>3. PICK L : L = Len(b.context) - 1
  OBVIOUS
<1>4. L \in 1 .. Len(b.context) /\ L = Len(a.context) - 1
  BY <1>1, <1>2, <1>3
<1>5. c = ClosedTo(b, L)
  BY <1>3 DEF aasm_pop, ClosedTo, Front
<1>6. /\ Good(c) /\ c.slots = b.slots /\ c.buff = b.buff /\ c.st = b.st
      /\ Len(c.context) = L /\ \A i \in 1 .. L : c.context[i] = b.context[i]
  BY <1>1, <1>4, <1>5, ClosedIs DEF Usable
<1>7. DOMAIN c.context = 1 .. L
  <2>1. PICK q : q = c.context
    OBVIOUS
  <2>2. PICK S : S = [slot : SlotsIn(c), idx : Nat]
    OBVIOUS
  <2>3. q \in Seq(S)
    BY <1>6, <2>1, <2>2 DEF Good, Opened
  <2> QED BY <1>6, <2>1, <2>3, LenProperties
<1>8. SlotsIn(c) = SlotsIn(b) /\ \A s : At(c, s) = At(b, s)
  BY <1>6 DEF SlotsIn, At
<1>9. \A s : Shown(c, At(c, s)) = Shown(b, At(b, s))
  BY <1>6, <1>8, ShownSt
<1>10. \A s : IsChild(c, s) <=> IsChild(b, s)
  BY <1>8 DEF IsChild, Kids
<1>11. ASSUME NEW s, IsDone(c, s), s # Slot(a)
       PROVE  IsDone(b, s)
  <2>1. ASSUME NEW i \in DOMAIN b.context
        PROVE  b.context[i].slot # s
    <3>1. i \in 1 .. L \/ i = Len(a.context)
      BY <1>1, <1>2, <1>4, <2>1
    <3>2. CASE i \in 1 .. L
      BY <1>6, <1>7, <1>11, <3>2 DEF IsDone
    <3>3. CASE i = Len(a.context)
      BY <1>1, <1>11, <3>3 DEF Slot
    <3> QED BY <3>1, <3>2, <3>3
  <2> QED BY <1>10, <1>11, <2>1 DEF IsDone
<1>12. DeepAreNone(b) /\ (InSequence(a) => InSequence(b)) /\ \A s : IsDone(b, s) => IsDone(a, s)
  <2>1. PICK src : src = <<>>
    OBVIOUS
  <2> QED BY <1>1, <2>1, OnlyRight DEF Usable
<1>13. DeepAreNone(c)
  <2>1. ASSUME NEW i \in DOMAIN c.context, i > 2
        PROVE  ~IsChild(c, c.context[i].slot)
    <3>1. i \in 1 .. L /\ i \in DOMAIN b.context /\ c.context[i] = b.context[i]
      BY <1>1, <1>2, <1>4, <1>6, <1>7, <2>1
    <3> QED BY <1>10, <1>12, <2>1, <3>1 DEF DeepAreNone
  <2> QED BY <2>1 DEF DeepAreNone
<1>14. InSequence(a) => InSequence(c)
  BY <1>6, <1>8, <1>12 DEF InSequence, Kids
<1>15. ASSUME Len(a.context) > 2
       PROVE  ~IsDone(c, Slot(a))
  <2>1. Len(a.context) \in DOMAIN b.context /\ Slot(a) = b.context[Len(a.context)].slot
    BY <1>1, <1>2, <1>15 DEF Slot
  <2>2. ~IsChild(b, Slot(a))
    BY <1>12, <1>15, <2>1 DEF DeepAreNone
  <2> QED BY <1>10, <2>2 DEF IsDone
<1>16. Shown(c, At(c, Slot(a))) = OpenText(b)
  BY <1>1, <1>9 DEF OpenText, aasm_prototype
<1> QED BY <1>8, <1>9, <1>11, <1>13, <1>14, <1>15, <1>16 DEF PopsTo

\* Everything that was done still is as it was, and what was closed is right.
LEMMA PopRight ==
  ASSUME NEW a, Usable(a), Len(a.context) > 1, NEW src, DoneRight(a, src), DeepAreNone(a),
         NEW b, NEW code, Works(a, b, code), NEW c, c = aasm_pop(b),
         Len(a.context) > 2 \/ Right(OpenText(b), src[Slot(a)])
  PROVE  DoneRight(c, src) /\ DeepAreNone(c) /\ (InSequence(a) => InSequence(c))
<1>1. PopsTo(a, b, c)
  BY PopShows
<1>2. DoneRight(b, src)
  BY OnlyRight DEF Works, Usable
<1>3. ASSUME NEW s \in SlotsIn(c), IsDone(c, s)
      PROVE  Right(Shown(c, At(c, s)), src[s])
  <2>1. CASE s = Slot(a)
    BY <1>1, <1>3, <2>1 DEF PopsTo
  <2>2. CASE s # Slot(a)
    BY <1>1, <1>2, <1>3, <2>2 DEF PopsTo, DoneRight
  <2> QED BY <2>1, <2>2
<1> QED BY <1>1, <1>3 DEF PopsTo, DoneRight

\* A definition of the module ends.
LEMMA EndModuleMeans ==
  ASSUME Compiling(self, ctxs, source), Meaning(self, ctxs, source), Reading, Resolvable,
         Len(ctxs) = 1, EndModule, UNCHANGED source
  PROVE  Meaning(self', ctxs', source')
<1>1. ctxs # <<>> /\ pctx.sym = "statement" /\ Sound(self, ctxs, source)
  BY DEF Reading, Compiling
<1>2. pctx \in Context /\ Usable(self) /\ Distinct(pctx.locals)
  BY <1>1, ContextIs
<1>3. /\ Slot(self) \in 1 .. Len(source) /\ source[Slot(self)] \in Definition
      /\ pctx = ctxs[1] /\ Len(source) \in Nat
  BY <1>1, OpenDefinition DEF pctx
<1>4. ~Held(ctxs)
  BY <1>1, <1>3 DEF Held
<1>5. pctx.nesteds = <<>>
  BY <1>1, <1>3, <1>4 DEF Compiling, IsFlat
<1>6. Works(self, Finished, ResolvedCode) /\ ~Closes(aasm_prototype(self).code)
  BY <1>1, <1>5, FinishedOn
<1>7. PICK d : d = source[Slot(self)]
  OBVIOUS
<1>8. PICK name : name = SymbolOf[<<d.name, pctx.num_arguments>>]
  OBVIOUS
<1>9. name \in Words
  <2>1. d.name \in Functions /\ pctx.num_arguments \in ArgCounts
    BY <1>2, <1>3, <1>7 DEF Definition, Context
  <2> QED BY <1>8, <2>1, CompilerAssumption DEF ArgCounts, Words
<1>10. PICK x : x = Finished
  OBVIOUS
<1>11. Usable(x) /\ aasm_prototype(x).code = ResolvedCode
  BY <1>6, <1>10, WorksUsable DEF Works
<1>12. PICK b : b = SetName(x, "symbol", name)
  OBVIOUS
<1>13. Works(x, b, ResolvedCode)
  BY <1>9, <1>11, <1>12, NameWorks
<1>14. Works(self, b, ResolvedCode)
  BY <1>6, <1>10, <1>13, WorksOn
<1>15. PICK c : c = aasm_pop(b)
  OBVIOUS
<1>16. self' = c /\ ctxs' = <<>> /\ source' = source
  BY <1>7, <1>8, <1>10, <1>12, <1>15 DEF EndModule
<1>17. EndedText(OpenText(self), OpenText(x))
  <2>1. PICK n : n = pctx.num_variables
    OBVIOUS
  <2>2. n \in Nat
    BY <1>2, <2>1 DEF Context
  <2>3. PICK code : code = ResolvedCode
    OBVIOUS
  <2>4. code \in Seq(AnyCode) /\ Len(code) = Len(aasm_prototype(self).code)
    BY <1>2, <2>3, ResolvedCodeOn
  <2>5. x = WithPrototype(self, WithCode(aasm_prototype(self), code, n))
    BY <1>10, <2>1, <2>3, Zenon DEF Finished, WithCode, ResolvedCode
  <2> QED BY <1>2, <2>1, <2>2, <2>3, <2>4, <2>5, CodeShows DEF EndedText
<1>18. EndedText(OpenText(self), OpenText(b)) /\ OpenText(b).symbol = name
  BY <1>9, <1>11, <1>12, <1>17, SymbolShows DEF EndedText
<1>19. Draft(OpenText(self), pctx, d)
  BY <1>3, <1>4, <1>7 DEF Meaning
<1>20. Right(OpenText(b), d)
  BY <1>2, <1>3, <1>6, <1>7, <1>8, <1>18, <1>19, EndedRight
<1>21. Len(self.context) > 1
  BY <1>1 DEF Sound
<1>22. DoneRight(c, source) /\ DeepAreNone(c) /\ InSequence(c)
  BY <1>2, <1>4, <1>7, <1>14, <1>15, <1>20, <1>21, PopRight DEF Meaning
<1> QED BY <1>16, <1>22 DEF Meaning

\* A definition inside another one ends: it was held, and is none of the module.
LEMMA EndNestedMeans ==
  ASSUME Compiling(self, ctxs, source), Meaning(self, ctxs, source), Reading, Resolvable,
         Len(ctxs) # 1, EndNested, UNCHANGED source
  PROVE  Meaning(self', ctxs', source')
<1>1. ctxs # <<>> /\ Sound(self, ctxs, source) /\ ctxs \in Seq(Context)
  BY DEF Reading, Compiling, Sound
<1>2. Len(ctxs) \in Nat \ {0} /\ Usable(self)
  BY <1>1, OpenDefinition, ContextIs
<1>3. PICK K : K = Len(ctxs) - 2
  OBVIOUS
<1>4. K \in Nat /\ Len(ctxs) > 1 /\ Len(ctxs) - 1 = K + 1 /\ K + 1 \in 1 .. Len(ctxs)
      /\ K \in 0 .. Len(ctxs)
  BY <1>2, <1>3
<1>5. PICK o : o = ctxs[K + 1]
  OBVIOUS
<1>6. PICK q : q = Renamed(o.nesteds, source[Slot(self)].name, pctx.num_arguments)
  OBVIOUS
<1>7. PICK d : d = WithNesteds(o, q)
  OBVIOUS
<1>8. PICK u : u = SubSeq(ctxs, 1, K)
  OBVIOUS
<1>9. PICK b : b = Finished
  OBVIOUS
<1>10. PICK c : c = aasm_pop(b)
  OBVIOUS
<1>11. self' = c /\ ctxs' = Append(u, d) /\ source' = source
  BY <1>3, <1>4, <1>5, <1>6, <1>7, <1>8, <1>9, <1>10, Zenon DEF EndNested, WithNesteds
<1>12. o \in Context /\ d.sym = o.sym
  <2>1. o \in Context
    BY <1>1, <1>4, <1>5, ElementOfSeq
  <2> QED BY <1>7, <2>1 DEF WithNesteds, Context
<1>13. u \in Seq(Context) /\ Len(u) = K /\ \A i \in 1 .. K : u[i] = ctxs[i]
  BY <1>1, <1>4, <1>8
<1>14. /\ \A i \in 1 .. K : Append(u, d)[i] = ctxs[i]
       /\ Append(u, d)[K + 1] = d /\ Append(u, d) # <<>>
  BY <1>4, <1>13
<1>15. ctxs[1].sym = "def"
  BY <1>4 DEF Compiling, Held
<1>16. Held(Append(u, d))
  <2>1. CASE K = 0
    BY <1>5, <1>12, <1>14, <1>15, <2>1 DEF Held
  <2>2. CASE K # 0
    <3>1. 1 \in 1 .. K
      BY <1>4, <2>2
    <3> QED BY <1>14, <1>15, <3>1 DEF Held
  <2> QED BY <2>1, <2>2
<1>17. Works(self, b, ResolvedCode)
  BY <1>1, <1>9, FinishedOn
<1>18. Len(self.context) > 2
  BY <1>1, <1>4 DEF Sound
<1>19. DoneRight(c, source) /\ DeepAreNone(c)
  BY <1>2, <1>10, <1>17, <1>18, PopRight DEF Meaning
<1> QED BY <1>11, <1>16, <1>19 DEF Meaning

-----------------------------------------------------------------------------
\* What is written: a definition begins.

\* The arguments and variables of a definition that begins.
LEMMA SignedMeans ==
  ASSUME NEW g \in Signatures, NEW d, d.args = g.args, d.vars = g.vars
  PROVE  LocalsMean(Signed(g), d)
<1> DEFINE T == [literal : Literal, idx : Int]
<1>1. PICK x : x = g.args
  OBVIOUS
<1>2. PICK y : y = g.vars
  OBVIOUS
<1>3. x \in Seq(Symbols) /\ y \in Seq(Symbols)
  BY <1>1, <1>2, CompilerAssumption
<1>4. /\ Len(x) \in Nat /\ DOMAIN x = 1 .. Len(x) /\ \A i \in 1 .. Len(x) : x[i] \in Literal
      /\ Len(y) \in Nat /\ DOMAIN y = 1 .. Len(y) /\ \A i \in 1 .. Len(y) : y[i] \in Literal
  BY <1>3, LenProperties, ElementOfSeq DEF Literal
<1>5. PICK u : u = [i \in 1 .. Len(x) |-> [literal |-> x[i], idx |-> -i]]
  OBVIOUS
<1>6. PICK w : w = [i \in 1 .. Len(y) |-> [literal |-> y[i], idx |-> i - 1]]
  OBVIOUS
<1>7. u \in [1 .. Len(x) -> T] /\ w \in [1 .. Len(y) -> T]
  BY <1>4, <1>5, <1>6
<1>8. /\ \A i \in 1 .. Len(x) : u[i].literal = x[i] /\ u[i].idx = -i
      /\ \A i \in 1 .. Len(y) : w[i].literal = y[i] /\ w[i].idx = i - 1
  BY <1>5, <1>6
<1>9. Signed(g) = u \o w
  BY <1>1, <1>2, <1>4, <1>5, <1>6, Zenon DEF Signed
<1> HIDE DEF T
<1>10. u \in Seq(T) /\ Len(u) = Len(x) /\ w \in Seq(T) /\ Len(w) = Len(y)
  BY <1>4, <1>7, FunctionIsSeq
<1>11. PICK r : r = u \o w
  OBVIOUS
<1>12. IsJoined(T, u, w, r, Len(x), Len(y))
  BY <1>4, <1>10, <1>11, Joined
<1>13. ASSUME NEW i \in 1 .. Len(x)
       PROVE  LocalIs(d, u[i].literal, u[i].idx)
  <2>1. PICK n : n = -i
    OBVIOUS
  <2>2. n < 0 /\ -n = i
    BY <1>4, <2>1
  <2> QED BY <1>1, <1>8, <2>1, <2>2 DEF LocalIs
<1>14. ASSUME NEW i \in 1 .. Len(y)
       PROVE  LocalIs(d, w[i].literal, w[i].idx)
  <2>1. PICK n : n = i - 1
    OBVIOUS
  <2>2. ~(n < 0) /\ n + 1 = i
    BY <1>4, <2>1
  <2> QED BY <1>2, <1>8, <2>1, <2>2 DEF LocalIs
<1>15. ASSUME NEW i \in DOMAIN r
       PROVE  LocalIs(d, r[i].literal, r[i].idx)
  <2>1. i \in 1 .. Len(x) + Len(y)
    BY <1>12 DEF IsJoined
  <2>2. CASE i <= Len(x)
    <3>1. i \in 1 .. Len(x) /\ r[i] = u[i]
      BY <1>4, <1>12, <2>1, <2>2 DEF IsJoined
    <3> QED BY <1>13, <3>1
  <2>3. CASE ~(i <= Len(x))
    <3>1. PICK k : k = i - Len(x)
      OBVIOUS
    <3>2. k \in 1 .. Len(y) /\ r[i] = w[k]
      BY <1>12, <2>1, <2>3, <3>1 DEF IsJoined
    <3> QED BY <1>14, <3>2
  <2> QED BY <2>2, <2>3
<1> QED BY <1>9, <1>11, <1>15 DEF LocalsMean

\* Nothing has been written of a definition that begins.
LEMMA BegunDraft ==
  ASSUME NEW g \in Signatures, NEW f, NEW c, c = Begun(g), NEW d, d = Defined(f, g),
         NEW u, u.code = <<>>
  PROVE  Draft(u, c, d)
<1>1. /\ c.num_arguments = Len(g.args) /\ c.num_variables = Len(g.vars)
      /\ c.locals = Signed(g) /\ c.constants = <<>> /\ c.imports = <<>>
      /\ c.label_addresses = <<>> /\ c.pseudo_jumps = <<>>
  BY DEF Begun, NoContext
<1>2. d.args = g.args /\ d.vars = g.vars /\ d.body = <<>>
  BY DEF Defined
<1>3. LocalsMean(c.locals, d)
  BY <1>1, <1>2, SignedMeans
<1>4. PICK e : e = <<>>
  OBVIOUS
<1>5. DOMAIN e = {} /\ Len(e) = 0
  BY <1>4
<1>6. Pools(u, c, d)
  BY <1>1, <1>2, <1>3, <1>4, <1>5 DEF Pools, ConstsNamed, ImportsNamed, Numbered, LabelsKept
<1>7. Instructions(d, 0) = 0
  BY InstructionsIs
<1>8. Len(u.code) = Instructions(d, Len(d.body))
  BY <1>2, <1>4, <1>5, <1>7
<1>9. \A off : off \notin Range(c.pseudo_jumps)
  BY <1>1, <1>4, <1>5 DEF Range
<1>10. \A j \in DOMAIN d.body : FALSE
  BY <1>2, <1>4, <1>5
<1>11. Drafts(u, c, d)
  BY <1>8, <1>9, <1>10 DEF Drafts
<1> QED BY <1>6, <1>11 DEF Draft

\* What is open and what is nested in the root when a prototype is opened.
OpensTo(a, f) ==
  /\ \A s : IsDone(f, s) => IsDone(a, s)
  /\ DeepAreNone(a) => DeepAreNone(f)
  /\ (Slot(a) = 0 /\ InSequence(a)) => InSequence(f)

\* aasm_push adds one prototype and changes what is shown of no other.
LEMMA OpensShows ==
  ASSUME NEW a, Usable(a), NEW f, Opens(a, f), Slot(a) = 0 => Len(a.context) = 1
  PROVE  OpensTo(a, f)
<1>1. PICK N : N = Len(a.slots)
  OBVIOUS
<1>2. N \in Nat \ {0} /\ 0 \in SlotsIn(a) /\ Slot(a) \in SlotsIn(a)
      /\ Kids(a, 0) \in Seq(SlotsIn(a))
  BY <1>1, SlotOK DEF Usable, Good, Tidy, Counts, Tree, SlotsIn
<1>3. PICK L : L = Len(a.context)
  OBVIOUS
<1>4. /\ L \in Nat \ {0} /\ Len(f.context) = L + 1 /\ f.context[L + 1].slot = N
      /\ \A i \in 1 .. L : f.context[i] = a.context[i]
  BY <1>1, <1>3, OpenedLast
<1>5. DOMAIN a.context = 1 .. L /\ DOMAIN f.context = 1 .. L + 1
  <2>1. PICK q : q = a.context
    OBVIOUS
  <2>2. PICK S : S = [slot : SlotsIn(a), idx : Nat]
    OBVIOUS
  <2>3. q \in Seq(S)
    BY <2>1, <2>2 DEF Usable, Good, Opened
  <2>4. PICK r : r = f.context
    OBVIOUS
  <2>5. PICK R : R = [slot : SlotsIn(f), idx : Nat]
    OBVIOUS
  <2>6. r \in Seq(R)
    BY <2>4, <2>5 DEF Opens, Usable, Good, Opened
  <2>7. DOMAIN q = 1 .. Len(q) /\ DOMAIN r = 1 .. Len(r)
    BY <2>3, <2>6, LenProperties
  <2> QED BY <1>3, <1>4, <2>1, <2>4, <2>7
<1>6. ASSUME NEW s, IsChild(f, s)
      PROVE  IsChild(a, s) \/ (s = N /\ Slot(a) = 0)
  <2>1. CASE Slot(a) = 0
    <3>1. PICK q : q = Kids(a, 0)
      OBVIOUS
    <3>2. q \in Seq(SlotsIn(a)) /\ Kids(f, 0) = Append(q, N)
      BY <1>1, <1>2, <2>1, <3>1 DEF Opens
    <3>3. PICK k \in DOMAIN Kids(f, 0) : Kids(f, 0)[k] = s
      BY <1>6 DEF IsChild
    <3>4. /\ DOMAIN Append(q, N) = 1 .. Len(q) + 1 /\ Append(q, N)[Len(q) + 1] = N
          /\ Len(q) \in Nat /\ DOMAIN q = 1 .. Len(q)
          /\ \A i \in 1 .. Len(q) : Append(q, N)[i] = q[i]
      BY <3>2
    <3>5. k \in 1 .. Len(q) \/ k = Len(q) + 1
      BY <3>2, <3>3, <3>4
    <3>6. k \in 1 .. Len(q) => IsChild(a, s)
      BY <3>1, <3>2, <3>3, <3>4 DEF IsChild
    <3> QED BY <2>1, <3>2, <3>3, <3>4, <3>5, <3>6
  <2>2. CASE Slot(a) # 0
    <3>1. Kids(f, 0) = Kids(a, 0)
      BY <1>2, <2>2 DEF Opens, Kids
    <3> QED BY <1>6, <3>1 DEF IsChild
  <2> QED BY <2>1, <2>2
<1>7. ASSUME NEW s, IsDone(f, s)
      PROVE  IsDone(a, s)
  <2>1. s # N
    <3>1. L + 1 \in DOMAIN f.context
      BY <1>4, <1>5
    <3> QED BY <1>4, <1>7, <3>1 DEF IsDone
  <2>2. IsChild(a, s)
    BY <1>6, <1>7, <2>1 DEF IsDone
  <2>3. \A i \in 1 .. L : i \in DOMAIN f.context
    BY <1>4, <1>5
  <2> QED BY <1>4, <1>5, <1>7, <2>2, <2>3 DEF IsDone
<1>8. ASSUME DeepAreNone(a), NEW i \in DOMAIN f.context, i > 2
      PROVE  ~IsChild(f, f.context[i].slot)
  <2>1. L # 1
    BY <1>4, <1>5, <1>8
  <2>2. Slot(a) # 0
    BY <1>3, <2>1
  <2>3. i \in 1 .. L \/ i = L + 1
    BY <1>4, <1>5
  <2>4. CASE i \in 1 .. L
    <3>1. ~IsChild(a, a.context[i].slot) /\ f.context[i] = a.context[i]
      BY <1>4, <1>5, <1>8, <2>4 DEF DeepAreNone
    <3> QED BY <1>6, <2>2, <3>1
  <2>5. CASE i = L + 1
    <3>1. ~IsChild(a, N)
      <4>1. Good(a) /\ N \notin 1 .. N - 1
        BY <1>2 DEF Usable
      <4> QED BY <1>1, <4>1, ChildIs
    <3> QED BY <1>4, <1>6, <2>2, <2>5, <3>1
  <2> QED BY <2>3, <2>4, <2>5
<1>9. ASSUME Slot(a) = 0, InSequence(a)
      PROVE  InSequence(f)
  <2>1. PICK q : q = Kids(a, 0)
    OBVIOUS
  <2>2. q \in Seq(SlotsIn(a)) /\ Kids(f, 0) = Append(q, N) /\ Len(f.slots) = N + 1
    BY <1>1, <1>2, <1>9, <2>1 DEF Opens
  <2>3. Len(q) = N - 1 /\ \A k \in 1 .. N - 1 : q[k] = k
    BY <1>1, <1>9, <2>1 DEF InSequence
  <2>4. PICK r : r = Append(q, N)
    OBVIOUS
  <2>5. Len(r) = Len(q) + 1 /\ r[Len(q) + 1] = N /\ \A k \in 1 .. Len(q) : r[k] = q[k]
    BY <2>2, <2>4
  <2>6. Len(r) = N /\ r[N] = N /\ \A k \in 1 .. N - 1 : r[k] = k
    BY <1>2, <2>3, <2>5
  <2>7. \A k \in 1 .. N : r[k] = k
    <3>1. \A k \in 1 .. N : k = N \/ k \in 1 .. N - 1
      BY <1>2
    <3> QED BY <2>6, <3>1
  <2>8. Len(f.slots) - 1 = N
    BY <1>2, <2>2
  <2> QED BY <2>2, <2>4, <2>6, <2>7, <2>8 DEF InSequence
<1>10. DeepAreNone(a) => DeepAreNone(f)
  BY <1>8 DEF DeepAreNone
<1> QED BY <1>7, <1>9, <1>10 DEF OpensTo

\* What was done is as it was.
LEMMA OpensRight ==
  ASSUME NEW a, Usable(a), NEW f, Opens(a, f), OpensTo(a, f),
         NEW src \in Seq(Definition), Len(a.slots) = Len(src) + 1, DoneRight(a, src),
         NEW d \in Definition, NEW src2, src2 = Append(src, d)
  PROVE  DoneRight(f, src2) /\ Len(src2) = Len(src) + 1 /\ src2[Len(src) + 1] = d
<1>1. /\ Len(src2) = Len(src) + 1 /\ src2[Len(src) + 1] = d
      /\ \A s \in 1 .. Len(src) : src2[s] = src[s]
  OBVIOUS
<1>2. ASSUME NEW s \in SlotsIn(f), IsDone(f, s)
      PROVE  Right(Shown(f, At(f, s)), src2[s])
  <2>1. IsDone(a, s)
    BY <1>2 DEF OpensTo
  <2>2. s \in 1 .. Len(a.slots) - 1 /\ s \in SlotsIn(a) /\ s # Slot(a)
    BY <2>1, DoneIs DEF Usable
  <2>3. s \in 1 .. Len(src)
    <3>1. Len(src) \in Nat
      BY LenProperties
    <3> QED BY <2>2, <3>1
  <2>4. At(f, s) = At(a, s) /\ Extends(a.st, f.st)
    BY <2>2 DEF Opens
  <2>5. At(a, s) \in Protos(DOMAIN a.st.text, Len(a.slots))
    BY <2>2, AtOK DEF Usable, Good
  <2>6. Shown(f, At(a, s)) = Shown(a, At(a, s))
    BY <2>4, <2>5, ShownOn
  <2>7. Right(Shown(a, At(a, s)), src[s])
    BY <2>1, <2>2 DEF DoneRight
  <2> QED BY <1>1, <2>3, <2>4, <2>6, <2>7
<1> QED BY <1>1, <1>2 DEF DoneRight

\* A definition of the module begins.
LEMMA DefModuleMeans ==
  ASSUME Compiling(self, ctxs, source), Meaning(self, ctxs, source),
         NEW f \in Functions, NEW g \in Signatures, ~Duplicated(g), DefModule(f, g)
  PROVE  Meaning(self', ctxs', source')
<1>1. PICK a : a = aasm_module_push(self, f)
  OBVIOUS
<1>2. PICK c : c = Begun(g)
  OBVIOUS
<1>3. PICK d : d = Defined(f, g)
  OBVIOUS
<1>4. PICK src : src = Append(source, d)
  OBVIOUS
<1>5. self' = a /\ ctxs' = <<c>> /\ source' = src /\ ctxs = <<>>
  BY <1>1, <1>2, <1>3, <1>4 DEF DefModule
<1>6. Sound(self, ctxs, source) /\ Usable(self) /\ f \in Strings
  BY CompilerAssumption DEF Compiling, Sound
<1>7. Opens(self, a)
  BY <1>1, <1>6, ModuleOpens
<1>8. Len(self.context) = 1 /\ Slot(self) = 0
  <2>1. PICK cs : cs = <<>>
    OBVIOUS
  <2>2. Len(cs) = 0
    BY <2>1
  <2>3. Len(self.context) = 1
    BY <1>5, <1>6, <2>1, <2>2 DEF Sound
  <2> QED BY <1>6, <2>3 DEF Sound, Slot
<1>9. OpensTo(self, a)
  BY <1>6, <1>7, <1>8, OpensShows
<1>10. InSequence(self) /\ DeepAreNone(self) /\ DoneRight(self, source)
  <2>1. ~Held(ctxs)
    BY <1>5 DEF Held
  <2> QED BY <2>1 DEF Meaning
<1>11. source \in Seq(Definition) /\ Len(self.slots) = Len(source) + 1
  BY <1>6 DEF Sound
<1>12. d \in Definition
  BY <1>3, DefinedIs
<1>13. DoneRight(a, src) /\ src[Len(source) + 1] = d
  BY <1>4, <1>6, <1>7, <1>9, <1>10, <1>11, <1>12, OpensRight
<1>14. OpenText(a).code = <<>> /\ Slot(a) = Len(source) + 1
  <2>1. Usable(a) /\ Slot(a) = Len(self.slots) /\ At(a, Len(self.slots)).code = <<>>
    BY <1>6, <1>7, OpenedLast DEF Opens
  <2>2. aasm_prototype(a).code = <<>>
    BY <2>1 DEF aasm_prototype
  <2> QED BY <1>11, <2>1, <2>2, OpenTextIs
<1>15. Draft(OpenText(a), c, src[Slot(a)])
  BY <1>2, <1>3, <1>13, <1>14, BegunDraft
<1>16. PICK cs : cs = <<c>>
  OBVIOUS
<1>17. cs[1] = c
  BY <1>16
<1> QED BY <1>5, <1>8, <1>9, <1>10, <1>13, <1>15, <1>16, <1>17 DEF Meaning, OpensTo

\* A definition begins in another one, which is held from then on.
LEMMA DefNestedMeans ==
  ASSUME Compiling(self, ctxs, source), Meaning(self, ctxs, source), ctxs # <<>>,
         Compiling(self', ctxs', source'), self' = aasm_push(self),
         NEW d \in Definition, source' = Append(source, d)
  PROVE  Meaning(self', ctxs', source')
<1>1. PICK a : a = aasm_push(self)
  OBVIOUS
<1>2. Sound(self, ctxs, source) /\ Usable(self)
  BY DEF Compiling, Sound
<1>3. Opens(self, a)
  BY <1>1, <1>2, PushOpens
<1>4. Slot(self) # 0 /\ Len(self.context) = Len(ctxs) + 1 /\ Len(ctxs) \in Nat \ {0}
  <2>1. Slot(self) \in 1 .. Len(source) /\ Len(ctxs) \in Nat \ {0} /\ Len(source) \in Nat
    BY <1>2, OpenDefinition
  <2>2. Len(self.context) = Len(ctxs) + 1
    BY <1>2 DEF Sound
  <2> QED BY <2>1, <2>2
<1>5. OpensTo(self, a)
  BY <1>2, <1>3, <1>4, OpensShows
<1>6. DeepAreNone(self) /\ DoneRight(self, source)
  BY DEF Meaning
<1>7. source \in Seq(Definition) /\ Len(self.slots) = Len(source) + 1
  BY <1>2 DEF Sound
<1>8. DoneRight(a, source')
  BY <1>2, <1>3, <1>5, <1>6, <1>7, OpensRight
<1>9. Len(ctxs') > 1
  <2>1. Len(a.context) = Len(self.context) + 1
    BY <1>2, <1>3, OpenedLast
  <2>2. Len(a.context) = Len(ctxs') + 1 /\ ctxs' \in Seq(Context)
    BY <1>1 DEF Compiling, Sound
  <2>3. Len(ctxs') \in Nat
    BY <2>2, LenProperties
  <2>4. PICK m : m = Len(ctxs')
    OBVIOUS
  <2>5. PICK n : n = Len(ctxs)
    OBVIOUS
  <2>6. m \in Nat /\ n \in Nat \ {0} /\ m + 1 = n + 1 + 1
    BY <1>4, <2>1, <2>2, <2>3, <2>4, <2>5
  <2>7. m > 1
    BY <2>6
  <2> QED BY <2>4, <2>7
<1>10. Held(ctxs')
  BY <1>9 DEF Compiling
<1> QED BY <1>1, <1>5, <1>6, <1>8, <1>10 DEF Meaning, OpensTo

\* Nothing is nested in the root in the beginning.
LEMMA InitMeans ==
  ASSUME CInit
  PROVE  Meaning(self, ctxs, source)
<1>1. PICK z : z = Started
  OBVIOUS
<1>2. /\ Good(z) /\ Len(z.context) = 1 /\ z.asserts /\ Len(z.slots) = 1
      /\ aasm_prototype(z) = Zeroed(DefaultRoom)
  BY <1>1, StartedOK
<1>3. Slot(z) = 0 /\ SlotsIn(z) = {0}
  <2>1. Slot(z) \in SlotsIn(z)
    BY <1>2, SlotOK DEF Good
  <2>2. SlotsIn(z) = {0}
    BY <1>2 DEF SlotsIn
  <2> QED BY <2>1, <2>2
<1>4. Roomy(z)
  <2>1. At(z, 0).max = DefaultRoom
    BY <1>2, <1>3 DEF aasm_prototype, Zeroed
  <2> QED BY <1>3, <2>1, CompilerAssumption DEF Roomy
<1>5. Usable(z) /\ File \in Words
  BY <1>2, <1>4, CompilerAssumption DEF Usable, Words
<1>6. PICK q : q = aasm_prototype(z).code
  OBVIOUS
<1>7. PICK y : y = SetName(z, "source", File)
  OBVIOUS
<1>8. Works(z, y, q)
  BY <1>5, <1>6, <1>7, NameWorks
<1>9. Usable(y) /\ aasm_prototype(y).code = q
  BY <1>8, WorksUsable DEF Works
<1>10. PICK x : x = SetName(y, "symbol", File)
  OBVIOUS
<1>11. Works(y, x, q)
  BY <1>5, <1>9, <1>10, NameWorks
<1>12. Works(z, x, q)
  BY <1>8, <1>11, WorksOn
<1>13. PICK e : e = <<>>
  OBVIOUS
<1>14. Kids(z, 0) = e /\ DOMAIN e = {} /\ Len(e) = 0
  BY <1>2, <1>3, <1>13 DEF Kids, aasm_prototype, Zeroed
<1>15. DoneRight(z, e)
  BY <1>14 DEF DoneRight, IsDone, IsChild
<1>16. DeepAreNone(z) /\ InSequence(z)
  BY <1>2, <1>14 DEF DeepAreNone, IsChild, InSequence
<1>17. DoneRight(x, e) /\ DeepAreNone(x) /\ InSequence(x)
  BY <1>2, <1>12, <1>15, <1>16, OnlyRight DEF Works
<1>18. self = x /\ ctxs = e /\ source = e
  BY <1>1, <1>7, <1>10, <1>13 DEF CInit
<1> QED BY <1>14, <1>17, <1>18 DEF Meaning

\* What the open prototype is drafted as is no matter when none is open.
LEMMA MeaningEnd ==
  ASSUME NEW a, NEW src, Meaning(a, <<>>, src)
  PROVE  DoneRight(a, src) /\ InSequence(a)
<1>1. ~Held(<<>>)
  BY DEF Held
<1> QED BY <1>1 DEF Meaning

-----------------------------------------------------------------------------
\* What is written: the saved chunk, and what is loaded from it.

\* The walk of a module without nested definitions: one behind the other.
WalksOn(a, w, i) ==
  i # 0 =>
    /\ Len(w.todo) = Len(a.slots) - i
    /\ \A j \in 1 .. Len(a.slots) - i : w.todo[j].slot = i - 1 + j
    /\ w.seen[i].slot = i - 1

\* One step of the walk goes on to the next prototype.
LEMMA FlatStep ==
  ASSUME NEW a, Tree(a), InSequence(a), \A s \in 1 .. Len(a.slots) - 1 : Kids(a, s) = <<>>,
         NEW G, WalkIs(a, G), NEW i \in 1 .. Len(a.slots), WalksOn(a, G[i - 1], i - 1)
  PROVE  WalksOn(a, G[i], i)
<1>1. PICK N : N = Len(a.slots)
  OBVIOUS
<1>2. N \in Nat \ {0} /\ i \in Nat \ {0} /\ i <= N /\ i \in 1 .. N /\ i - 1 \in 0 .. N
  BY <1>1 DEF Tree
<1>3. PICK w : w = G[i - 1]
  OBVIOUS
<1>4. PICK n : n = G[i]
  OBVIOUS
<1>5. Walked(a, w) /\ w.todo # <<>> /\ n = Further(a, w) /\ Len(w.seen) = i - 1
  BY <1>1, <1>2, <1>3, <1>4 DEF WalkIs
<1>6. PICK v : IsFurther(a, w, v, n)
  BY <1>5, FurtherStep, Zenon
<1>7. /\ v = w.todo[1] /\ n.seen[i] = v
      /\ Len(n.todo) = Len(Kids(a, v.slot)) + Len(w.todo) - 1
      /\ \A j \in 1 .. Len(Kids(a, v.slot)) :
           n.todo[j] = [slot |-> Kids(a, v.slot)[j], level |-> v.level + 1]
      /\ \A j \in Len(Kids(a, v.slot)) + 1 .. Len(n.todo) :
           n.todo[j] = w.todo[j - Len(Kids(a, v.slot)) + 1]
  <2>1. PICK m : m = i - 1
    OBVIOUS
  <2>2. m + 1 = i /\ Len(w.seen) = m
    BY <1>2, <1>5, <2>1
  <2> QED BY <1>6, <2>2 DEF IsFurther
<1>8. CASE i = 1
  <2>1. w.todo = <<[slot |-> 0, level |-> 0]>>
    <3>1. G[0] = [seen |-> <<>>, todo |-> <<[slot |-> 0, level |-> 0]>>]
      BY DEF WalkIs
    <3> QED BY <1>3, <1>8, <3>1
  <2>2. v.slot = 0 /\ Len(w.todo) = 1
    BY <1>7, <2>1
  <2>3. Len(Kids(a, 0)) = N - 1 /\ \A j \in 1 .. N - 1 : Kids(a, 0)[j] = j
    BY <1>1 DEF InSequence
  <2>4. Len(n.todo) = N - 1
    BY <1>2, <1>7, <2>2, <2>3
  <2>5. ASSUME NEW j \in 1 .. N - 1
        PROVE  n.todo[j].slot = j
    <3>1. PICK e : e = Kids(a, 0)
      OBVIOUS
    <3>2. Len(e) = N - 1 /\ e[j] = j
      BY <2>3, <3>1
    <3>3. n.todo[j] = [slot |-> e[j], level |-> v.level + 1]
      BY <1>7, <2>2, <3>1, <3>2
    <3> QED BY <3>2, <3>3
  <2>6. \A j \in 1 .. N - 1 : n.todo[j].slot = i - 1 + j
    BY <1>2, <1>8, <2>5
  <2> QED BY <1>1, <1>2, <1>4, <1>7, <1>8, <2>2, <2>4, <2>6 DEF WalksOn
<1>9. CASE i # 1
  <2>1. PICK k : k = i - 1
    OBVIOUS
  <2>2. k \in 1 .. N - 1 /\ k # 0 /\ i = k + 1 /\ k \in Nat
    BY <1>2, <1>9, <2>1
  <2>3. /\ Len(w.todo) = N - k /\ \A j \in 1 .. N - k : w.todo[j].slot = k - 1 + j
    BY <1>1, <1>3, <2>1, <2>2 DEF WalksOn
  <2>4. 1 \in 1 .. N - k /\ k - 1 + 1 = k
    BY <1>2, <2>2
  <2>5. v.slot = k
    BY <1>7, <2>3, <2>4
  <2>6. Kids(a, v.slot) = <<>>
    BY <1>1, <2>2, <2>5
  <2>7. PICK e : e = Kids(a, v.slot)
    OBVIOUS
  <2>8. Len(e) = 0
    BY <2>6, <2>7
  <2>9. Len(n.todo) = N - i
    <3>1. Len(n.todo) = 0 + (N - k) - 1
      BY <1>7, <2>3, <2>7, <2>8
    <3> QED BY <1>2, <2>2, <3>1
  <2>10. ASSUME NEW j \in 1 .. N - i
         PROVE  n.todo[j].slot = i - 1 + j
    <3>1. j \in 0 + 1 .. Len(n.todo) /\ j + 1 \in 1 .. N - k /\ j - 0 + 1 = j + 1
      BY <1>2, <2>2, <2>9
    <3>2. n.todo[j] = w.todo[j + 1]
      BY <1>7, <2>7, <2>8, <3>1
    <3>3. w.todo[j + 1].slot = k - 1 + (j + 1)
      BY <2>3, <3>1
    <3>4. k - 1 + (j + 1) = i - 1 + j
      BY <1>2, <2>2
    <3> QED BY <3>2, <3>3, <3>4
  <2>11. i - 1 = k
    BY <2>2
  <2> QED BY <1>1, <1>4, <1>7, <2>5, <2>9, <2>10, <2>11 DEF WalksOn
<1> QED BY <1>8, <1>9

\* So the slots are in the chunk in their own order.
LEMMA FlatOrder ==
  ASSUME NEW a, Tree(a), InSequence(a), \A s \in 1 .. Len(a.slots) - 1 : Kids(a, s) = <<>>
  PROVE  \A s \in SlotsIn(a) : Order(a)[s + 1] = s
<1>1. PICK N : N = Len(a.slots)
  OBVIOUS
<1>2. N \in Nat \ {0}
  BY <1>1 DEF Tree
<1>3. PICK G : WalkIs(a, G)
  BY WalkSees
<1>4. \A i \in 0 .. N : WalksOn(a, G[i], i)
  <2> DEFINE S == {i \in 0 .. N : WalksOn(a, G[i], i)}
  <2>1. 0 \in S
    BY <1>2 DEF WalksOn
  <2>2. \A i \in 0 .. N : i # 0 /\ i - 1 \in S => i \in S
    <3> TAKE i \in 0 .. N
    <3> HAVE i # 0 /\ i - 1 \in S
    <3>1. i \in 1 .. Len(a.slots)
      BY <1>1, <1>2
    <3> QED BY <1>3, <3>1, FlatStep
  <2> HIDE DEF S
  <2>3. \A i \in 0 .. N : i \in S
    BY <1>2, <2>1, <2>2, StepByStep
  <2> QED BY <2>3 DEF S
<1>5. PICK q : q = Visit(a)
  OBVIOUS
<1>6. q \in Seq(Visits(a)) /\ Len(q) = N
  BY <1>1, <1>5, VisitIs
<1>7. DOMAIN q = 1 .. N
  BY <1>6, LenProperties
<1>8. ASSUME NEW s \in SlotsIn(a)
      PROVE  Order(a)[s + 1] = s
  <2>1. PICK i : i = s + 1
    OBVIOUS
  <2>2. i \in 1 .. N /\ i \in 0 .. N /\ i # 0 /\ i - 1 = s
    BY <1>1, <1>2, <2>1 DEF SlotsIn
  <2>3. G[i].seen[i].slot = i - 1
    BY <1>4, <2>2 DEF WalksOn
  <2>4. G[i].seen[i] = q[i]
    <3>1. i \in 1 .. i
      BY <1>2, <2>2
    <3> QED BY <1>1, <1>3, <1>5, <2>2, <3>1 DEF WalkIs
  <2>5. Order(a)[i] = q[i].slot
    BY <1>5, <1>7, <2>2 DEF Order, SlotsOf
  <2> QED BY <2>1, <2>2, <2>3, <2>4, <2>5
<1> QED BY <1>8

\* What a definition means is in its symbol, room for variables, code, constants and imports.
SameText(u, w) ==
  /\ w.symbol = u.symbol /\ w.locals = u.locals /\ w.code = u.code
  /\ w.consts = u.consts /\ w.imports = u.imports

\* Such a prototype means the same definition.
LEMMA SameTextRight ==
  ASSUME NEW u, NEW w, SameText(u, w), NEW d, Right(u, d)
  PROVE  Right(w, d)
<1>1. \A k, t : Means(u, d, k, t) = Means(w, d, k, t)
  BY Zenon DEF SameText, Means
<1> QED BY <1>1 DEF Right, SameText

\* A copy has the same text, and so does what is written to the chunk.
LEMMA CopyText ==
  ASSUME NEW a, NEW b, NEW p, NEW q, Bare(b, q) = Bare(a, p)
  PROVE  SameText(Shown(a, p), Shown(b, q))
<1>1. Shown(a, p) = Shows(a, p) /\ Shown(b, q) = Shows(b, q)
  BY ShownIs
<1>2. /\ Text(b, q.symbol) = Text(a, p.symbol) /\ q.locals = p.locals /\ q.code = p.code
      /\ ConstsOf(b, q.consts) = ConstsOf(a, p.consts)
      /\ ImportsOf(b, q.imports) = ImportsOf(a, p.imports)
  BY DEF Bare, Rec
<1> QED BY <1>1, <1>2 DEF Shows, SameText

\* What is written of a prototype has the text that is shown of it.
LEMMA WrittenText ==
  ASSUME NEW a, NEW p
  PROVE  SameText(Shown(a, p), Written(a, p))
BY DEF Shown, Written, SameText

\* Everything that was compiled is done.
LEMMA AllDone ==
  ASSUME NEW a, NEW src, Compiling(a, <<>>, src), Meaning(a, <<>>, src), NEW s \in 1 .. Len(src)
  PROVE  Right(Shown(a, At(a, s)), src[s])
<1>1. PICK cs : cs = <<>>
  OBVIOUS
<1>2. Len(cs) = 0 /\ Sound(a, cs, src)
  BY <1>1 DEF Compiling
<1>3. /\ Len(a.slots) = Len(src) + 1 /\ Len(src) \in Nat /\ Len(a.context) = 1
      /\ a.context[1].slot = 0
  BY <1>2, LenProperties DEF Sound
<1>4. InSequence(a) /\ DoneRight(a, src)
  BY MeaningEnd
<1>5. s \in 1 .. Len(a.slots) - 1 /\ s \in SlotsIn(a) /\ s # 0
  BY <1>3 DEF SlotsIn
<1>6. s \in DOMAIN Kids(a, 0) /\ Kids(a, 0)[s] = s
  <2>1. PICK q : q = Kids(a, 0)
    OBVIOUS
  <2>2. q \in Seq(SlotsIn(a)) /\ Len(q) = Len(a.slots) - 1 /\ q[s] = s
    BY <1>2, <1>3, <1>4, <1>5, <2>1 DEF Sound, Usable, Good, Tree, SlotsIn, InSequence
  <2>3. DOMAIN q = 1 .. Len(q)
    BY <2>2, LenProperties
  <2> QED BY <1>5, <2>1, <2>2, <2>3
<1>7. \A i \in DOMAIN a.context : a.context[i].slot = 0
  <2>1. PICK q : q = a.context
    OBVIOUS
  <2>2. PICK S : S = [slot : SlotsIn(a), idx : Nat]
    OBVIOUS
  <2>3. q \in Seq(S)
    BY <1>2, <2>1, <2>2 DEF Sound, Usable, Good, Opened
  <2>4. DOMAIN q = 1 .. Len(q)
    BY <2>3, LenProperties
  <2>5. DOMAIN q = {1}
    BY <1>3, <2>1, <2>4
  <2> QED BY <1>3, <2>1, <2>5
<1>8. IsDone(a, s)
  BY <1>5, <1>6, <1>7 DEF IsDone, IsChild
<1> QED BY <1>4, <1>5, <1>8 DEF DoneRight

\* What is loaded from the chunk means it, too.
LoadedRight(a, src) ==
  /\ Good(a) /\ Len(a.slots) = Len(src) + 1
  /\ \A s \in 1 .. Len(src) : Right(Shown(a, At(a, s)), src[s])

\* What is loaded from the saved chunk means the definitions that were compiled.
LEMMA LoadMeans ==
  ASSUME NEW a, NEW src, Compiling(a, <<>>, src), Meaning(a, <<>>, src),
         NEW b, b = load_chunk(Started, save_chunk(a))
  PROVE  LoadedRight(b, src)
<1>1. AllFlat(a, src) /\ Good(a) /\ InSequence(a)
  BY CompiledIsFlat, MeaningEnd DEF Compiling, Sound, Usable
<1>2. PICK N : N = Len(a.slots)
  OBVIOUS
<1>3. N \in Nat \ {0} /\ Len(src) \in Nat /\ N = Len(src) + 1 /\ Tree(a)
  BY <1>1, <1>2, LenProperties DEF Good, Tidy, Counts, AllFlat
<1>4. PICK c : c = Loading(Started, save_chunk(a))[N]
  OBVIOUS
<1>5. Reloads(a, c)
  BY <1>1, <1>2, <1>4, LoadReloads
<1>6. Len(save_chunk(a)) = N
  BY <1>1, <1>2, SavedLen
<1>7. b = ClosedTo(c, 1)
  BY <1>4, <1>6 DEF load_chunk
<1>8. Good(c) /\ Len(c.slots) = N
  BY <1>2, <1>5 DEF Reloads
<1>9. 1 \in 1 .. Len(c.context)
  <2>1. Len(c.context) \in Nat \ {0}
    BY <1>8, EmptySeq, LenProperties DEF Good, Opened
  <2> QED BY <2>1
<1>10. Good(b) /\ b.slots = c.slots /\ b.buff = c.buff /\ b.st = c.st
  BY <1>7, <1>8, <1>9, ClosedIs
<1>11. \A s \in 1 .. Len(a.slots) - 1 : Kids(a, s) = <<>>
  <2>1. Len(a.slots) - 1 = Len(src)
    BY <1>2, <1>3
  <2> QED BY <1>1, <2>1 DEF AllFlat
<1>12. ASSUME NEW s \in 1 .. Len(src)
       PROVE  Right(Shown(b, At(b, s)), src[s])
  <2>1. s \in SlotsIn(c) /\ s \in SlotsIn(a)
    BY <1>2, <1>3, <1>8 DEF SlotsIn
  <2>2. Order(a)[s + 1] = s
    BY <1>1, <1>3, <1>11, <2>1, FlatOrder
  <2>3. Bare(c, At(c, s)) = Bare(a, At(a, s))
    BY <1>5, <2>1, <2>2 DEF Reloads
  <2>4. SameText(Shown(a, At(a, s)), Shown(c, At(c, s)))
    BY <2>3, CopyText
  <2>5. Right(Shown(c, At(c, s)), src[s])
    BY <1>12, <2>4, AllDone, SameTextRight
  <2>6. At(b, s) = At(c, s) /\ Shown(b, At(c, s)) = Shown(c, At(c, s))
    BY <1>10, ShownSt DEF At
  <2> QED BY <2>5, <2>6
<1> QED BY <1>3, <1>8, <1>10, <1>12 DEF LoadedRight

-----------------------------------------------------------------------------
\* What is written: the invariant, and what it says of the compiled modules.

\* The invariant: what was read so far is meant by what was compiled so far.
MeaningInv ==
  /\ CompilerInv
  /\ outcome = "failed" => self = Fresh
  /\ outcome \in {"reading", "compiled"} => Meaning(self, ctxs, source)
  /\ outcome = "loaded" => LoadedRight(self, source)

\* What fails means nothing.
LEMMA FailMeans ==
  ASSUME Fail
  PROVE  MeaningInv'
BY FailKeeps DEF Fail, MeaningInv

\* A step after which the compiler still reads.
LEMMA ReadingMeans ==
  ASSUME CompilerInv', outcome' = "reading", Meaning(self', ctxs', source')
  PROVE  MeaningInv'
BY DEF MeaningInv

\* A statement is read.
LEMMA StatementMeans ==
  ASSUME MeaningInv, Statement
  PROVE  MeaningInv'
<1>1. outcome = "reading" /\ ctxs # <<>> /\ CompilerInv'
  BY StatementKeeps DEF Statement, Reading, MeaningInv
<1>2. Compiling(self, ctxs, source) /\ Meaning(self, ctxs, source)
  BY <1>1 DEF CompilerInv, MeaningInv
<1>3. ASSUME NEW i \in Codes, Plainly(i) PROVE MeaningInv'
  BY <1>1, <1>2, <1>3, PlainlyOn, PlainlyMeans, ReadingMeans DEF GoesOnReading
<1>4. ASSUME NEW l \in Literals, LoadConstant(l) PROVE MeaningInv'
  BY <1>1, <1>2, <1>4, LoadConstantOn, LoadConstantMeans, ReadingMeans DEF GoesOnReading
<1>5. ASSUME NEW x \in Externals, Import(x[1], x[2]) PROVE MeaningInv'
  BY <1>1, <1>2, <1>5, ImportOn, ImportMeans, ReadingMeans DEF GoesOnReading
<1>6. ASSUME NEW x \in Symbols, Local(x) PROVE MeaningInv'
  <2>1. CASE Has(pctx.locals, x)
    BY <1>1, <1>2, <1>6, <2>1, LocalOn, LocalMeans, ReadingMeans DEF GoesOnReading
  <2>2. CASE ~Has(pctx.locals, x)
    BY <1>6, <2>2, FailMeans DEF Local
  <2> QED BY <2>1, <2>2
<1>7. ASSUME NEW x \in Symbols, Jump(x) PROVE MeaningInv'
  BY <1>1, <1>2, <1>7, JumpOn, JumpMeans, ReadingMeans DEF GoesOnReading
<1>8. ASSUME NEW x \in Symbols, Label(x) PROVE MeaningInv'
  <2>1. CASE IsTaken(x)
    BY <1>8, <2>1, FailMeans DEF Label
  <2>2. CASE ~IsTaken(x)
    BY <1>1, <1>2, <1>8, <2>2, LabelOn, LabelMeans, ReadingMeans DEF GoesOnReading
  <2> QED BY <2>1, <2>2
<1>9. ASSUME NEW s \in DOMAIN SymbolOf, Closure(s[1], s[2]) PROVE MeaningInv'
  BY <1>1, <1>2, <1>9, ClosureOn, ClosureMeans, ReadingMeans DEF GoesOnReading
<1> QED BY <1>3, <1>4, <1>5, <1>6, <1>7, <1>8, <1>9 DEF Statement

\* A definition begins.
LEMMA BeginMeans ==
  ASSUME MeaningInv, NEW f \in Functions, NEW g \in Signatures,
         DefModule(f, g) \/ DefNested(f, g)
  PROVE  MeaningInv'
<1>1. outcome = "reading" /\ CompilerInv'
  BY BeginKeeps DEF DefModule, DefNested, MeaningInv
<1>2. Compiling(self, ctxs, source) /\ Meaning(self, ctxs, source)
  BY <1>1 DEF CompilerInv, MeaningInv
<1>3. CASE Duplicated(g) \/ (DefNested(f, g) /\ TooDeep)
  BY <1>3, FailMeans DEF DefModule, DefNested
<1>4. CASE ~Duplicated(g) /\ DefModule(f, g)
  BY <1>1, <1>2, <1>4, DefModuleOn, DefModuleMeans, ReadingMeans DEF GoesOnReading
<1>5. CASE ~Duplicated(g) /\ ~TooDeep /\ DefNested(f, g)
  <2>1. Compiling(self', ctxs', source') /\ outcome' = "reading"
    BY <1>1, <1>2, <1>5, DefNestedOn DEF GoesOnReading
  <2>2. PICK d : d = Defined(f, g)
    OBVIOUS
  <2>3. d \in Definition
    BY <2>2, DefinedIs
  <2>4. self' = aasm_push(self) /\ source' = Append(source, d) /\ ctxs # <<>>
    BY <1>5, <2>2 DEF DefNested
  <2> QED BY <1>1, <1>2, <2>1, <2>3, <2>4, DefNestedMeans, ReadingMeans
<1> QED BY <1>3, <1>4, <1>5

\* A definition ends.
LEMMA EndMeans ==
  ASSUME MeaningInv, End
  PROVE  MeaningInv'
<1>1. Reading /\ outcome = "reading" /\ CompilerInv'
  BY EndKeeps DEF End, Reading, MeaningInv
<1>2. Compiling(self, ctxs, source) /\ Meaning(self, ctxs, source)
  BY <1>1 DEF CompilerInv, MeaningInv
<1>3. CASE ~Resolvable
  BY <1>3, FailMeans DEF End
<1>4. CASE Resolvable
  <2>1. UNCHANGED <<outcome, source>> /\ UNCHANGED source
    BY <1>4 DEF End
  <2>2. CASE Len(ctxs) = 1
    BY <1>1, <1>2, <1>4, <2>1, <2>2, EndModuleMeans, ReadingMeans DEF End
  <2>3. CASE Len(ctxs) # 1
    BY <1>1, <1>2, <1>4, <2>1, <2>3, EndNestedMeans, ReadingMeans DEF End
  <2> QED BY <2>2, <2>3
<1> QED BY <1>3, <1>4

\* The chunk is saved and loaded.
LEMMA LoadingMeans ==
  ASSUME MeaningInv, Load
  PROVE  MeaningInv'
<1>1. /\ outcome = "compiled" /\ outcome' = "loaded" /\ ctxs' = ctxs /\ source' = source
      /\ self' = load_chunk(Started, save_chunk(self))
  BY DEF Load
<1>2. Compiling(self, <<>>, source) /\ Meaning(self, <<>>, source) /\ CompilerInv'
  BY <1>1, LoadKeeps DEF CompilerInv, MeaningInv
<1>3. PICK b : b = load_chunk(Started, save_chunk(self))
  OBVIOUS
<1>4. LoadedRight(b, source)
  BY <1>2, <1>3, LoadMeans
<1> QED BY <1>1, <1>2, <1>3, <1>4 DEF MeaningInv

\* Every step.
LEMMA MeaningStep ==
  ASSUME MeaningInv, [CNext]_cvars
  PROVE  MeaningInv'
<1>1. CompilerInv'
  BY CompilerStep DEF MeaningInv
<1>2. CASE UNCHANGED cvars
  BY <1>1, <1>2 DEF cvars, MeaningInv
<1>3. ASSUME EndOfFile PROVE MeaningInv'
  BY <1>1, <1>3 DEF EndOfFile, MeaningInv
<1>4. ASSUME SyntaxError PROVE MeaningInv'
  BY <1>4, FailMeans DEF SyntaxError
<1> QED BY <1>2, <1>3, <1>4, StatementMeans, BeginMeans, EndMeans, LoadingMeans DEF CNext

\* The slots that have ended are those that are done.
LEMMA EndedIs ==
  ASSUME Good(self), NEW s \in Ended
  PROVE  IsDone(self, s) /\ s \in SlotsIn(self) /\ s \in 1 .. Len(self.slots) - 1
<1>1. self.slots # <<>>
  <2>1. PICK e : e = <<>>
    OBVIOUS
  <2>2. Len(e) = 0
    BY <2>1
  <2>3. Len(self.slots) # 0
    BY DEF Good, Tree
  <2> QED BY <2>1, <2>2, <2>3
<1>2. s \in Range(Kids(self, 0)) /\ \A k \in DOMAIN self.context : self.context[k].slot # s
  BY <1>1 DEF Ended, Kids
<1>3. IsDone(self, s)
  BY <1>2 DEF Range, IsDone, IsChild
<1> QED BY <1>3, ChildIs DEF IsDone

\* What the invariant says of the definitions that have ended.
LEMMA InvMeans ==
  ASSUME MeaningInv
  PROVE  CodeMeansSource
<1>1. ASSUME NEW s \in Ended
      PROVE  Right(Shown(self, At(self, s)), source[s])
  <2>1. CASE outcome = "failed"
    BY <1>1, <2>1 DEF MeaningInv, Ended, Fresh
  <2>2. CASE outcome \in {"reading", "compiled"}
    <3>1. Good(self) /\ DoneRight(self, source)
      BY <2>2 DEF MeaningInv, CompilerInv, Compiling, Sound, Usable, Meaning
    <3> QED BY <1>1, <3>1, EndedIs DEF DoneRight
  <2>3. CASE outcome = "loaded"
    <3>1. LoadedRight(self, source) /\ AllFlat(self, source)
      BY <2>3 DEF MeaningInv, CompilerInv
    <3>2. Len(source) \in Nat
      BY <3>1, LenProperties DEF AllFlat
    <3>3. s \in 1 .. Len(source)
      BY <1>1, <3>1, <3>2, EndedIs DEF LoadedRight
    <3> QED BY <3>1, <3>3 DEF LoadedRight
  <2> QED BY <2>1, <2>2, <2>3 DEF MeaningInv, CompilerInv
<1>2. ASSUME NEW s \in Ended
      PROVE  Right(Written(self, At(self, s)), source[s])
  BY <1>1, <1>2, WrittenText, SameTextRight
<1> QED BY <1>2 DEF CodeMeansSource, Right

\* Every definition of the module that has ended, and every one that is loaded from the saved
\* chunk, is what was written.
THEOREM CodeMeansWhatIsWritten == CSpec => []CodeMeansSource
<1>1. CInit => MeaningInv
  <2>1. ASSUME CInit PROVE MeaningInv
    BY <2>1, CompilerInit, InitMeans DEF CInit, MeaningInv
  <2> QED BY <2>1
<1>2. MeaningInv /\ [CNext]_cvars => MeaningInv'
  BY MeaningStep
<1>3. MeaningInv => CodeMeansSource
  BY InvMeans
<1> QED BY <1>1, <1>2, <1>3, PTL DEF CSpec
=============================================================================
