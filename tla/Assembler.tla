------------------------------ MODULE Assembler ------------------------------
(***************************************************************************)
(* The byte code assembler.  Prototypes lie one behind the other in a      *)
(* buffer; a slot holds the offset of each and is what refers to it.  A    *)
(* prototype that is full is copied to the end of the buffer with twice    *)
(* the room, a buffer that is full is copied to a larger one, without the  *)
(* prototypes that no slot refers to any more.  A stack of contexts says   *)
(* which prototype is open.  The program can be saved as a chunk and a     *)
(* chunk can be loaded.                                                    *)
(*                                                                         *)
(* Every operator that models a function of the library takes the          *)
(* assembler it is called with and gives the assembler it leaves.          *)
(***************************************************************************)
EXTENDS StringTable

CONSTANTS
  Codes,           \* instructions the host emits
  Plain,           \* constants that are not strings
  DefaultRoom,     \* DEFAULT_PROTO_SZ
  INIT_SLOT_COUNT,
  MaxNested,       \* ANY_ASM_MAX_NESTED_LEVEL
  Names,           \* names of sources and symbols
  Externals,       \* imports the host adds, as <<module, name>>
  Rooms,           \* what the host reserves
  LocalVars,       \* numbers of local variables the host sets
  MaxItems         \* bound: items and prototypes in the assembler

ASSUME AssemblerAssumption ==
  /\ INIT_SLOT_COUNT \in Nat \ {0}
  /\ Rooms \cup {DefaultRoom}
       \subseteq [code : Nat, consts : Nat, imports : Nat, nesteds : Nat]
  /\ Names \subseteq Strings /\ Externals \subseteq Strings \X Strings
  /\ \A c \in Plain : c \notin [string : Nat \cup Strings \cup {EMPTY}]

VARIABLE
  self    \* aasm_t

vars == <<self>>

GROW_FACTOR == 2
Sections == {"code", "consts", "imports", "nesteds"}

\* required_size: a header and one unit per item there is room for.
required_size(room) == 1 + room.code + room.consts + room.imports + room.nesteds

Zeroed(room) ==
  [source |-> 0, symbol |-> 0, locals |-> 0, code |-> <<>>, consts |-> <<>>,
   imports |-> <<>>, nesteds |-> <<>>, max |-> room]

\* What aasm_init and aasm_cleanup leave.  asserts turns FALSE when an
\* assertion fails: the program ends.
Fresh ==
  [buff |-> [o \in {} |-> 0], size |-> 0, capacity |-> 0,
   slots |-> <<>>, max_slots |-> 0, context |-> <<>>,
   st |-> astring_table_init(128, 16), asserts |-> TRUE]

\* aasm_prototype_at; slots are counted from 0.
At(a, slot) == a.buff[a.slots[slot + 1]]
Slot(a) == a.context[Len(a.context)].slot
aasm_prototype(a) == At(a, Slot(a))
WithPrototype(a, p) == [a EXCEPT !.buff[a.slots[Slot(a) + 1]] = p]
-----------------------------------------------------------------------------
(***************************************************************************)
(* Room: the buffer and the slots.                                         *)
(***************************************************************************)

\* Recursion over nested prototypes, as gc and save_chunk do it: each slot
\* before those nested in it, with its level.  Walk(a)[n] is the state of the
\* recursion after n prototypes.
Within(a, v) == LET ns == At(a, v.slot).nesteds
                IN  [i \in DOMAIN ns |-> [slot |-> ns[i], level |-> v.level + 1]]
Further(a, w) ==
  IF w.todo = <<>> THEN w
  ELSE [seen |-> Append(w.seen, Head(w.todo)),
        todo |-> Within(a, Head(w.todo)) \o Tail(w.todo)]
Walk(a) ==
  LET walk[n \in 0 .. Len(a.slots)] ==
        IF n = 0 THEN [seen |-> <<>>, todo |-> <<[slot |-> 0, level |-> 0]>>]
        ELSE Further(a, walk[n - 1])
  IN  walk
Visit(a) == Walk(a)[Len(a.slots)].seen
SlotsOf(vs) == [k \in DOMAIN vs |-> vs[k].slot]
Order(a) == SlotsOf(Visit(a))

SizeAt(a, slot) == required_size(At(a, slot).max)

\* Fault: the offset advances by what a prototype of default size takes.
Offsets_default(a, order) ==
  [k \in 1 .. Len(order) + 1 |-> (k - 1) * required_size(DefaultRoom)]

\* Where the prototypes of these slots begin, and the end.
Offsets(a, order) ==
  LET off[k \in 1 .. Len(order) + 1] ==
        IF k = 1 THEN 0 ELSE off[k - 1] + SizeAt(a, order[k - 1])
  IN  off

MovedTo(a, order, off) ==
  [a EXCEPT
    !.buff = [o \in {off[k] : k \in DOMAIN order} |->
                At(a, order[CHOOSE k \in DOMAIN order : off[k] = o])],
    !.slots = [i \in DOMAIN @ |->
                 off[CHOOSE k \in DOMAIN order : order[k] = i - 1]],
    !.size = off[Len(order) + 1]]

Compacted(a, order) == MovedTo(a, order, Offsets(a, order))

\* What is reachable is copied, its slots follow it.
gc(a) == Compacted(a, Order(a))

\* Fault: the capacity is doubled once, whatever is asked for.
Doubled_once(capacity, need) == GROW_FACTOR * capacity

Doubled(capacity, need) ==
  LET Grown_[c \in Nat \ {0}] == IF c >= need THEN c ELSE Grown_[GROW_FACTOR * c]
  IN  Grown_[capacity]

grow_buff(a, request) ==
  IF a.size + request <= a.capacity THEN a
  ELSE [gc(a) EXCEPT !.capacity = Doubled(a.capacity, a.size + request)]

\* A prototype at the end of the buffer, which begins at NewOffset.
Reserved(a, room) ==
  [a EXCEPT
    !.buff = [o \in DOMAIN @ \cup {a.size} |->
                IF o = a.size THEN Zeroed(room) ELSE @[o]],
    !.size = @ + required_size(room),
    !.max_slots = IF Len(a.slots) = @ THEN GROW_FACTOR * @ ELSE @]
new_prototype(a, room) == Reserved(grow_buff(a, required_size(room)), room)
NewOffset(a, room) == a.size - required_size(room)

\* Fault: the constants are not copied.
Enlarged_drops_consts(p, room) ==
  [p EXCEPT !.max = room, !.locals = 0, !.consts = <<>>]

\* A copy with more room.  The number of local variables is not among the
\* members that are copied.
Enlarged(p, room) == [p EXCEPT !.max = room, !.locals = 0]

\* The open prototype is replaced by its copy at off.
Replaced(a, room, off) ==
  [a EXCEPT !.buff[off] = Enlarged(aasm_prototype(a), room),
            !.slots = [i \in DOMAIN @ |-> IF i = Slot(a) + 1 THEN off ELSE @[i]]]
ReplacedByLast(a, room) == Replaced(a, room, NewOffset(a, room))

aasm_reserve(a, room) ==
  IF \A s \in Sections : aasm_prototype(a).max[s] >= room[s] THEN a
  ELSE ReplacedByLast(new_prototype(a, room), room)

\* Room for one more item in a section of the open prototype.
Grown(a, s) ==
  LET p == aasm_prototype(a)
  IN  IF Len(p[s]) = p.max[s]
      THEN aasm_reserve(a, [p.max EXCEPT ![s] = GROW_FACTOR * @]) ELSE a

\* The assertion that each function makes before it stores an item.
HasRoom(a, s) == Len(aasm_prototype(a)[s]) < aasm_prototype(a).max[s]
-----------------------------------------------------------------------------
(***************************************************************************)
(* The functions of the library.                                           *)
(***************************************************************************)

\* aasm_emit with a source line, aasm_add_constant, the end of
\* aasm_add_import.
Stored(a, s, item) ==
  IF HasRoom(a, s)
  THEN WithPrototype(a, [aasm_prototype(a) EXCEPT ![s] = Append(@, item)])
  ELSE [a EXCEPT !.asserts = FALSE]
Add(a, s, item) == Stored(Grown(a, s), s, item)

aasm_string_to_ref(a, s) == [a EXCEPT !.st = AsmTable(@, s)]
RefOf(a, s) == astring_table_to_ref(a.st, s)

aasm_emit(a, instruction) == Add(a, "code", instruction)
aasm_add_constant(a, constant) == Add(a, "consts", constant)

AddRef(a, s) == aasm_add_constant(a, [string |-> RefOf(a, s)])
AddString(a, s) == AddRef(aasm_string_to_ref(a, s), s)

AddRefs(a, m, n) ==
  Add(a, "imports", [module |-> RefOf(a, m), name |-> RefOf(a, n)])
aasm_add_import(a, m, n) ==
  AddRefs(aasm_string_to_ref(aasm_string_to_ref(a, m), n), m, n)

\* The slot of the prototype that new_prototype has just made, as the last
\* nested one of the open prototype.
Nested(a, np) ==
  IF HasRoom(a, "nesteds")
  THEN [WithPrototype(a, [aasm_prototype(a) EXCEPT !.nesteds = Append(@, np)])
          EXCEPT !.context = Append(@,
            [slot |-> np, idx |-> Len(aasm_prototype(a).nesteds)])]
  ELSE [a EXCEPT !.asserts = FALSE]
WithSlot(a) ==
  [a EXCEPT !.slots = Append(@, NewOffset(a, DefaultRoom))]

\* The new prototype is created before the open one is looked up again.
push_unsafe(a) == Nested(WithSlot(new_prototype(a, DefaultRoom)), Len(a.slots))

aasm_push(a) == push_unsafe(Grown(a, "nesteds"))

WithName(a, field, s) ==
  WithPrototype(a, [aasm_prototype(a) EXCEPT ![field] = RefOf(a, s)])
SetName(a, field, s) == WithName(aasm_string_to_ref(a, s), field, s)

NamedIf(a, s) == IF a.asserts THEN WithName(a, "symbol", s) ELSE a
aasm_module_push(a, name) ==
  NamedIf(aasm_push(aasm_string_to_ref(a, name)), name)

aasm_open(a, idx) ==
  [a EXCEPT !.context =
     Append(@, [slot |-> aasm_prototype(a).nesteds[idx + 1], idx |-> idx])]

aasm_pop(a) == [a EXCEPT !.context = Front(@)]
-----------------------------------------------------------------------------
(***************************************************************************)
(* Chunks: a tree of prototypes with their strings, written one behind the *)
(* other.  How many are nested in each is their levels.                    *)
(***************************************************************************)
Text(a, r) == astring_table_to_string(a.st, r)

ConstantOf(a, c) == IF c \in Plain THEN c ELSE [string |-> Text(a, c.string)]

\* set_headers and copy_prototype: strings take the place of references.
Written(a, p) ==
  [source |-> Text(a, p.source), symbol |-> Text(a, p.symbol),
   locals |-> p.locals, code |-> p.code,
   consts |-> [i \in DOMAIN p.consts |-> ConstantOf(a, p.consts[i])],
   imports |-> [i \in DOMAIN p.imports |->
                  [module |-> Text(a, p.imports[i].module),
                   name |-> Text(a, p.imports[i].name)]],
   nesteds |-> p.nesteds]

\* The header has the number of nested prototypes.
Saved(a, v) == [level |-> v.level,
                proto |-> [Written(a, At(a, v.slot)) EXCEPT !.nesteds = Len(@)]]
WrittenAll(a, vs) == [k \in DOMAIN vs |-> Saved(a, vs[k])]
save_chunk(a) == WrittenAll(a, Visit(a))

AddWritten(a, c) == IF c \in Plain THEN aasm_add_constant(a, c)
                    ELSE AddString(a, c.string)

Headed(a, t) ==
  SetName(SetName(a, "source", t.source), "symbol", t.symbol)
Filled(a, t) ==
  WithPrototype(a, [aasm_prototype(a) EXCEPT !.locals = t.locals, !.code = t.code])
AddConsts(a, consts) ==
  LET upTo[n \in 0 .. Len(consts)] ==
        IF n = 0 THEN a ELSE AddWritten(upTo[n - 1], consts[n])
  IN  upTo[Len(consts)]
AddImports(a, imports) ==
  LET upTo[n \in 0 .. Len(imports)] ==
        IF n = 0 THEN a
        ELSE aasm_add_import(upTo[n - 1], imports[n].module, imports[n].name)
  IN  upTo[Len(imports)]

\* The open prototype gets exactly the room it needs, unless it has more in
\* every section, and then what the chunk says.
Needed(t) == [code |-> Len(t.code), consts |-> Len(t.consts),
              imports |-> Len(t.imports), nesteds |-> t.nesteds]
ReadInto(a, t) ==
  AddImports(AddConsts(Filled(Headed(aasm_reserve(a, Needed(t)), t), t),
                       t.consts), t.imports)

\* Prototypes are closed until as many are open as the level says.
ClosedTo(a, level) == [a EXCEPT !.context = SubSeq(@, 1, level)]

\* The next prototype is nested in the one that is open at its level.
Pushed(a, c) == aasm_push(ClosedTo(a, c.level))
ReadPushed(b, c) == IF b.asserts THEN ReadInto(b, c.proto) ELSE b
ReadNested(a, c) == IF a.asserts THEN ReadPushed(Pushed(a, c), c) ELSE a

\* Into a with its root; the k-th step reads the k-th prototype.
Loading(a, chunk) ==
  LET load[k \in 1 .. Len(chunk)] ==
        IF k = 1 THEN ReadInto(a, chunk[1].proto)
        ELSE ReadNested(load[k - 1], chunk[k])
  IN  load
load_chunk(a, chunk) == ClosedTo(Loading(a, chunk)[Len(chunk)], 1)

\* aasm_load up to the root prototype.
WithRoot(a) ==
  [a EXCEPT !.slots = <<0>>, !.context = <<[slot |-> 0, idx |-> 0]>>]
Started ==
  WithRoot(new_prototype(
    [Fresh EXCEPT
       !.max_slots = INIT_SLOT_COUNT,
       !.capacity = INIT_SLOT_COUNT * required_size(DefaultRoom)],
    DefaultRoom))
-----------------------------------------------------------------------------
(***************************************************************************)
(* What the host calls.                                                    *)
(***************************************************************************)
Ready == self.slots # <<>> /\ self.asserts
Items(a) ==
  FoldLeft(LAMBDA n, p : n + Len(p.code) + Len(p.consts) + Len(p.imports),
           Len(a.slots), [i \in DOMAIN a.slots |-> At(a, i - 1)])
MayAdd == Ready /\ Items(self) < MaxItems

Init ==
  /\ self = Fresh

Emit(i) ==
  MayAdd /\ self' = aasm_emit(self, i)

AddConstant(c) ==
  MayAdd /\ self' = aasm_add_constant(self, c)

AddStringConstant(s) ==
  MayAdd /\ self' = AddString(self, s)

AddImport(m, n) ==
  MayAdd /\ self' = aasm_add_import(self, m, n)

Push ==
  /\ MayAdd
  /\ Len(self.context) <= MaxNested
  /\ self' = aasm_push(self)

ModulePush(s) ==
  /\ MayAdd
  /\ Len(self.context) = 1
  /\ self' = aasm_module_push(self, s)

Open ==
  /\ Ready
  /\ Len(self.context) <= MaxNested
  /\ \E idx \in 0 .. Len(aasm_prototype(self).nesteds) - 1 :
       self' = aasm_open(self, idx)

Pop ==
  /\ Ready
  /\ Len(self.context) > 1
  /\ self' = aasm_pop(self)

\* The host sets a member of the open prototype: its source, the number of its
\* local variables.  Bound: it does so in the root.
SetSource(s) ==
  /\ Ready
  /\ Len(self.context) = 1
  /\ self' = SetName(self, "source", s)

SetLocals(n) ==
  /\ Ready
  /\ Len(self.context) = 1
  /\ self' = WithPrototype(self, [aasm_prototype(self) EXCEPT !.locals = n])

\* aasm_reserve called by the host, with room for what is there.
Reserve(room) ==
  /\ Ready
  /\ \A s \in Sections : Len(aasm_prototype(self)[s]) <= room[s]
  /\ self' = aasm_reserve(self, room)

\* The host packs the string table to save memory.
Pack ==
  /\ Ready
  /\ self' = [self EXCEPT !.st = astring_table_pack(@)]

LoadNothing ==
  /\ self.asserts
  /\ self' = Started

\* The host saves the program, copies the chunk and loads the copy: the next
\* pass over the byte code.  What aasm_cleanup does to the memory of the chunk
\* itself is not modelled.
SaveAndLoad ==
  /\ Ready
  /\ self' = load_chunk(Started, save_chunk(self))

Cleanup ==
  /\ self.asserts
  /\ self' = Fresh

Next ==
  \/ \E i \in Codes : Emit(i)
  \/ \E c \in Plain : AddConstant(c)
  \/ \E s \in Strings : AddStringConstant(s)
  \/ \E s \in Names : SetSource(s) \/ ModulePush(s)
  \/ \E x \in Externals : AddImport(x[1], x[2])
  \/ Push \/ Open \/ Pop \/ Pack
  \/ \E n \in LocalVars : SetLocals(n)
  \/ \E room \in Rooms : Reserve(room)
  \/ LoadNothing \/ SaveAndLoad \/ Cleanup

Spec == Init /\ [][Next]_vars
=============================================================================
