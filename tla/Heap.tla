-------------------------------- MODULE Heap ---------------------------------
(***************************************************************************)
(* The heap of one actor and its copying collector, as the value stack,    *)
(* the mailbox and the container libraries use them.                       *)
(*                                                                         *)
(* The current half is the sequence cur of its objects in the order of     *)
(* their addresses; a heap index is a place in that sequence, and the      *)
(* bytes in use are counted apart in heap_sz.  A value is a record of the  *)
(* index it holds (0 when it is not collectable) and, as a history, of the *)
(* identity of the object it was made for.  The collector runs to its end  *)
(* inside one call of the library; its steps are actions here so that its  *)
(* loop invariant can be stated.                                           *)
(***************************************************************************)
EXTENDS HeapSizes, Sequences, Functions

CONSTANTS
  Lengths,    \* bytes of the strings, with their header structure, and buffers
  Counts,     \* elements of tuples, and capacities and sizes asked of containers
  Pairs,      \* capacities of new tables
  Kinds,      \* the containers that the program makes
  InitGrow,   \* INIT_GROW: first capacity of a container that grows from 0
  InitCap,    \* INIT_HEAP_SZ
  MaxCap,     \* bound: larger heaps are refused by the allocator
  MaxObjects, \* bound: objects created
  MaxRoots,   \* bound: values on the stack
  MaxMail     \* bound: messages in the mailbox

ASSUME HeapAssumption ==
  /\ Lengths \subseteq Nat
  /\ Counts \subseteq Nat /\ Pairs \subseteq Nat
  /\ Kinds \subseteq {"array", "buffer", "table"}
  /\ InitGrow \in Nat \ {0}
  /\ InitCap \in Nat \ {0} /\ InitCap % Word = 0
  /\ MaxCap \in Nat /\ MaxObjects \in Nat /\ MaxRoots \in Nat /\ MaxMail \in Nat

VARIABLES
  cur,       \* objects of the current half (from-space while collecting)
  heap_sz,   \* bytes in use in the half that objects are put into
  heap_cap,  \* bytes of a half
  stack,     \* the value stack of the actor
  msbox,     \* its mailbox
  phase,     \* where aactor_heap_reserve and agc_collect are
  req,       \* what the reservation is for
  to,        \* objects of the new half
  fwd,       \* agc_header_t.forwared of the objects of cur; 0 is NOT_FORWARED
  pos,       \* next root to copy
  scan,      \* next object of the new half to scan
  child,     \* next value of it to copy
  made       \* history: objects created

mutator == <<stack, msbox, made>>
gc == <<to, fwd, pos, scan, child>>
vars == <<cur, heap_sz, heap_cap, mutator, phase, req, gc>>

Nil == [at |-> 0, id |-> 0]
Junk == [at |-> 0, id |-> -1]    \* memory that was never written
Ref(at, id) == [at |-> at, id |-> id]

NoReq == [op |-> "none"]

\* Objects.  A FIXED_BUFFER is the block behind an array, a buffer or a table.
String(id, n) == [kind |-> "string", id |-> id, sz |-> ObjectSz(n), vals |-> <<>>]
Tuple(id, n) ==
  [kind |-> "tuple", id |-> id, sz |-> ObjectSz(TupleSz + n * ValueSz),
   vals |-> [k \in 1 .. n |-> Nil]]
Fixed(id, bytes, vals) ==
  [kind |-> "fixed", id |-> id, sz |-> ObjectSz(bytes), vals |-> vals]
Container(kind, id, cap, buff) ==
  [kind |-> kind, id |-> id, sz |-> ObjectSz(ArraySz), n |-> 0, cap |-> cap,
   buff |-> buff]

\* Values per element: a table has a key and a value.  A block for cap elements
\* in bytes, and its cells before they are set.
Width(kind) == CASE kind = "array" -> 1 [] kind = "table" -> 2 [] OTHER -> 0
BlockSz(kind, cap) == IF kind = "buffer" THEN cap ELSE Width(kind) * cap * ValueSz
Blank(kind, cap) == [k \in 1 .. Width(kind) * cap |-> Junk]
IsContainer(o) == o.kind \in {"array", "buffer", "table"}

At(i) == cur[stack[i].at]
IsA(i, kind) == stack[i].at # 0 /\ At(i).kind = kind
-----------------------------------------------------------------------------
Init ==
  /\ cur = <<>>
  /\ heap_sz = 0
  /\ heap_cap = InitCap
  /\ stack = <<>>
  /\ msbox = <<>>
  /\ phase = "run"
  /\ req = NoReq
  /\ to = <<>>
  /\ fwd = <<>>
  /\ pos = 1
  /\ scan = 1
  /\ child = 1
  /\ made = 0
-----------------------------------------------------------------------------
(***************************************************************************)
(* Requests of the libraries.                                              *)
(***************************************************************************)
Running == phase = "run"
Room == Len(stack) < MaxRoots /\ made < MaxObjects

Ask(r) ==
  /\ req' = r
  /\ phase' = "reserve"
  /\ UNCHANGED <<cur, heap_sz, heap_cap, mutator, gc>>

\* any_push_string; any_mbox_send of a string to this actor.
AskString(n) == Running /\ Room /\ Ask([op |-> "string", more |-> n, n |-> 1])
AskMessage(n) ==
  /\ Running
  /\ Len(msbox) < MaxMail /\ made < MaxObjects
  /\ Ask([op |-> "message", from |-> "outside", more |-> n, n |-> 1])

\* any_mbox_send of a string to oneself: it is popped first and read through a
\* pointer into the own heap when the new string is written.
AskMessageToSelf(n) ==
  /\ Running
  /\ Len(msbox) < MaxMail /\ made < MaxObjects
  /\ stack # <<>> /\ IsA(Len(stack), "string") /\ At(Len(stack)).sz = ObjectSz(n)
  /\ req' = [op |-> "message", from |-> "heap", more |-> n, n |-> 1]
  /\ phase' = "reserve"
  /\ stack' = SubSeq(stack, 1, Len(stack) - 1)
  /\ UNCHANGED <<cur, heap_sz, heap_cap, msbox, made, gc>>

\* agc_tuple_new
AskTuple(n) ==
  /\ Running /\ Room
  /\ Ask([op |-> "tuple", size |-> n, more |-> TupleSz + n * ValueSz, n |-> 1])

\* agc_array_new, agc_buffer_new and agc_table_new: the container and its block.
AskContainer(kind, cap) ==
  /\ kind \in Kinds
  /\ Running /\ Room /\ made + 2 <= MaxObjects
  /\ Ask([op |-> "container", kind |-> kind, cap |-> cap,
          more |-> ArraySz + BlockSz(kind, cap), n |-> 2])

\* set_capacity of the container at i, whose size becomes sz afterwards; src
\* are the places on the stack of what is stored behind the old size.
AskCapacity(i, cap, sz, src) ==
  /\ made < MaxObjects
  /\ Ask([op |-> "capacity", i |-> i, cap |-> cap, size |-> sz, src |-> src,
          more |-> BlockSz(At(i).kind, cap), n |-> 1])

\* A capacity doubles until it suffices.
Doubled(base, need) ==
  LET Grown[c \in Nat \ {0}] == IF c >= need THEN c ELSE Grown[2 * c]
  IN  Grown[base]
GrownCap(cap, need) == Doubled(IF cap = 0 THEN InitGrow ELSE cap, need)

Containers == {i \in DOMAIN stack : IsA(i, "array") \/ IsA(i, "buffer")}

AskReserve(i, cap) ==
  /\ Running
  /\ i \in Containers /\ At(i).cap < cap
  /\ AskCapacity(i, cap, At(i).n, <<>>)

AskShrink(i) ==
  /\ Running
  /\ i \in Containers
  /\ AskCapacity(i, At(i).n, At(i).n, <<>>)

AskResize(i, sz) ==
  /\ Running
  /\ i \in Containers /\ At(i).cap < sz
  /\ AskCapacity(i, GrownCap(At(i).cap, sz), sz, <<>>)

\* push of std-array when the array is full.
AskPush(i, j) ==
  /\ Running
  /\ Room
  /\ IsA(i, "array") /\ At(i).n + 1 > At(i).cap
  /\ AskCapacity(i, GrownCap(At(i).cap, At(i).n + 1), At(i).n + 1, <<j>>)

\* A key of a table is a string or in the value itself.
IsKey(k) == stack[k].at = 0 \/ IsA(k, "string")

\* set of std-table for a key that is new, when the table is full.
AskPut(i, k, j) ==
  /\ Running
  /\ Room
  /\ IsA(i, "table") /\ IsKey(k) /\ At(i).n = At(i).cap
  /\ AskCapacity(i, GrownCap(At(i).cap, At(i).n + 1), At(i).n + 1, <<k, j>>)
-----------------------------------------------------------------------------
(***************************************************************************)
(* aactor_heap_reserve.                                                    *)
(***************************************************************************)
Fits == heap_sz + Need(req.more, req.n) <= heap_cap

\* agc_check, before and after a collection.
Check ==
  /\ phase \in {"reserve", "again"}
  /\ Fits
  /\ phase' = "alloc"
  /\ UNCHANGED <<cur, heap_sz, heap_cap, mutator, req, gc>>

\* agc_reserve: the capacity doubles until the request fits, the objects stay
\* where they are.
GrownHeap == Doubled(heap_cap, heap_sz + Need(req.more, req.n))

\* The old halves are given back, with what the request still points to.
Released ==
  IF req.op = "message" /\ req.from = "heap"
  THEN [req EXCEPT !.from = "released"] ELSE req

\* Fault: the heap grows before a collection was tried.
Reserve_without_collect ==
  /\ phase \in {"reserve", "again"}
  /\ ~Fits
  /\ GrownHeap <= MaxCap
  /\ heap_cap' = GrownHeap
  /\ req' = Released
  /\ phase' = "alloc"
  /\ UNCHANGED <<cur, heap_sz, mutator, gc>>

Reserve ==
  /\ phase = "again"
  /\ ~Fits
  /\ GrownHeap <= MaxCap
  /\ heap_cap' = GrownHeap
  /\ req' = Released
  /\ phase' = "alloc"
  /\ UNCHANGED <<cur, heap_sz, mutator, gc>>

\* No memory: the caller raises an error, or drops the message.
ReserveFails ==
  /\ phase = "again"
  /\ ~Fits
  /\ GrownHeap > MaxCap
  /\ phase' = "run"
  /\ req' = NoReq
  /\ UNCHANGED <<cur, heap_sz, heap_cap, mutator, gc>>
-----------------------------------------------------------------------------
(***************************************************************************)
(* agc_alloc, and what the caller does with the new objects.               *)
(***************************************************************************)
next == Len(cur) + 1

Allocated ==
  /\ phase' = "run"
  /\ req' = NoReq
  /\ UNCHANGED <<heap_cap, gc>>

AllocString ==
  /\ phase = "alloc" /\ req.op \in {"string", "message"}
  /\ cur' = Append(cur, String(made + 1, req.more))
  /\ heap_sz' = heap_sz + ObjectSz(req.more)
  /\ made' = made + 1
  /\ IF req.op = "string"
     THEN stack' = Append(stack, Ref(next, made + 1)) /\ UNCHANGED msbox
     ELSE msbox' = Append(msbox, Ref(next, made + 1)) /\ UNCHANGED stack
  /\ Allocated

AllocTuple ==
  /\ phase = "alloc" /\ req.op = "tuple"
  /\ cur' = Append(cur, Tuple(made + 1, req.size))
  /\ heap_sz' = heap_sz + ObjectSz(req.more)
  /\ made' = made + 1
  /\ stack' = Append(stack, Ref(next, made + 1))
  /\ UNCHANGED msbox
  /\ Allocated

AllocContainer ==
  /\ phase = "alloc" /\ req.op = "container"
  /\ LET bytes == BlockSz(req.kind, req.cap)
     IN  /\ cur' = cur \o
              <<Container(req.kind, made + 1, req.cap, Ref(next + 1, made + 2)),
                Fixed(made + 2, bytes, Blank(req.kind, req.cap))>>
         /\ heap_sz' = heap_sz + ObjectSz(ArraySz) + ObjectSz(bytes)
  /\ made' = made + 2
  /\ stack' = Append(stack, Ref(next, made + 1))
  /\ UNCHANGED msbox
  /\ Allocated

\* The elements of a block after the first n of old were copied and the rest
\* up to size set to nil.
Refilled(old, n, size, cap) ==
  [k \in 1 .. cap |->
     IF k <= n THEN old[k] ELSE IF k <= size THEN Nil ELSE Junk]

\* The cells that set_capacity copies.
Copied(o) == Width(o.kind) * o.n

\* set_capacity, the rest of resize, and the store of push and of set, which
\* return a number or nil on the stack.  The container is looked up after the collection.
AllocCapacity ==
  /\ phase = "alloc" /\ req.op = "capacity"
  /\ LET o == At(req.i)
         w == Width(o.kind)
         nils == IF o.kind = "array" THEN req.size ELSE 0
         filled == Refilled(cur[o.buff.at].vals, Copied(o), nils, w * req.cap)
         vals == [k \in DOMAIN filled |->
                    IF k - w * o.n \in DOMAIN req.src THEN stack[req.src[k - w * o.n]]
                    ELSE filled[k]]
     IN  cur' = Append(
           [cur EXCEPT ![stack[req.i].at] =
              [@ EXCEPT !.cap = req.cap, !.n = req.size,
                        !.buff = Ref(next, made + 1)]],
           Fixed(made + 1, req.more, vals))
  /\ heap_sz' = heap_sz + ObjectSz(req.more)
  /\ made' = made + 1
  /\ stack' = IF req.src = <<>> THEN stack ELSE Append(stack, Nil)
  /\ UNCHANGED msbox
  /\ Allocated
-----------------------------------------------------------------------------
(***************************************************************************)
(* Operations that allocate nothing.                                       *)
(***************************************************************************)
Quiet == UNCHANGED <<heap_sz, heap_cap, phase, req, gc, made>>

Pop ==
  /\ Running /\ stack # <<>>
  /\ stack' = SubSeq(stack, 1, Len(stack) - 1)
  /\ UNCHANGED <<cur, msbox>> /\ Quiet

\* any_push_index
PushIndex(i) ==
  /\ Running /\ Len(stack) < MaxRoots
  /\ stack' = Append(stack, stack[i])
  /\ UNCHANGED <<cur, msbox>> /\ Quiet

\* The cells that a program may read and write; in a table those of the values,
\* each of which is found by some key (module Table).
Cells(i) ==
  CASE IsA(i, "tuple") -> {<<stack[i].at, k>> : k \in DOMAIN At(i).vals}
    [] IsA(i, "array") -> {<<At(i).buff.at, k>> : k \in 1 .. At(i).n}
    [] IsA(i, "table") -> {<<At(i).buff.at, 2 * k>> : k \in 1 .. At(i).n}
    [] OTHER -> {}

Get(i) ==
  /\ Running /\ Len(stack) < MaxRoots
  /\ \/ \E c \in Cells(i) : stack' = Append(stack, cur[c[1]].vals[c[2]])
     \/ IsA(i, "table") /\ stack' = Append(stack, Nil)
  /\ UNCHANGED <<cur, msbox>> /\ Quiet

\* set returns what it stored for an array and nil for a tuple or a table.
Set(i, j) ==
  /\ Running /\ Len(stack) < MaxRoots
  /\ \E c \in Cells(i) : cur' = [cur EXCEPT ![c[1]].vals[c[2]] = stack[j]]
  /\ stack' = Append(stack, IF IsA(i, "array") THEN stack[j] ELSE Nil)
  /\ UNCHANGED msbox /\ Quiet

\* resize within the capacity; the cells that are given up keep their values.
Resize(i, sz) ==
  /\ Running
  /\ i \in Containers /\ At(i).cap >= sz /\ At(i).n # sz
  /\ LET o == At(i)
         c == [cur EXCEPT ![stack[i].at].n = sz]
     IN  cur' = IF o.kind = "buffer" THEN c
                ELSE [c EXCEPT ![o.buff.at].vals =
                        [k \in DOMAIN @ |-> IF k > o.n /\ k <= sz THEN Nil ELSE @[k]]]
  /\ UNCHANGED <<stack, msbox>> /\ Quiet

\* push of std-array with capacity left: the value is stored behind the last
\* element, the size is not changed.
PushInPlace(i, j) ==
  /\ Running /\ Len(stack) < MaxRoots
  /\ IsA(i, "array") /\ At(i).n + 1 <= At(i).cap
  /\ cur' = [cur EXCEPT ![At(i).buff.at].vals[At(i).n + 1] = stack[j]]
  /\ stack' = Append(stack, Nil)
  /\ UNCHANGED msbox /\ Quiet

\* set of std-table for a key that is new, with capacity left.
PutInPlace(i, k, j) ==
  /\ Running /\ Len(stack) < MaxRoots
  /\ IsA(i, "table") /\ IsKey(k) /\ At(i).n < At(i).cap
  /\ cur' = [cur EXCEPT ![stack[i].at].n = @ + 1,
                         ![At(i).buff.at].vals[2 * At(i).n + 1] = stack[k],
                         ![At(i).buff.at].vals[2 * At(i).n + 2] = stack[j]]
  /\ stack' = Append(stack, Nil)
  /\ UNCHANGED msbox /\ Quiet

\* any_mbox_recv of the message at the peek position, which module Scheduler
\* keeps and is any place here: it replaces the stack top and stays in the
\* mailbox until any_mbox_remove.
Receive(k) ==
  /\ Running /\ stack # <<>>
  /\ stack' = [stack EXCEPT ![Len(stack)] = msbox[k]]
  /\ UNCHANGED <<cur, msbox>> /\ Quiet

RemoveMessage(k) ==
  /\ Running
  /\ msbox' = SubSeq(msbox, 1, k - 1) \o SubSeq(msbox, k + 1, Len(msbox))
  /\ UNCHANGED <<cur, stack>> /\ Quiet
-----------------------------------------------------------------------------
(***************************************************************************)
(* agc_collect.                                                            *)
(***************************************************************************)

\* aactor_gc, when a reservation does not fit or when it is forced.
Collect ==
  /\ \/ Running
     \/ phase = "reserve" /\ ~Fits
  /\ phase' = "roots"
  /\ heap_sz' = 0
  /\ to' = <<>>
  /\ fwd' = [k \in DOMAIN cur |-> 0]
  /\ pos' = 1
  /\ scan' = 1
  /\ child' = 1
  /\ UNCHANGED <<cur, heap_cap, mutator, req>>

\* copy: an object is moved when it is met first; the value follows it.
Moves(v) == v.at # 0 /\ fwd[v.at] = 0
Forwarded(v) ==
  IF v.at = 0 THEN v
  ELSE IF fwd[v.at] = 0 THEN [v EXCEPT !.at = Len(to) + 1]
  ELSE [v EXCEPT !.at = fwd[v.at]]
Moved(v, t) == IF Moves(v) THEN Append(t, cur[v.at]) ELSE t

\* Fault: the forwarding index is not written.
copy_forgets(v) ==
  /\ fwd' = fwd
  /\ heap_sz' = IF Moves(v) THEN heap_sz + cur[v.at].sz ELSE heap_sz

copy(v) ==
  /\ fwd' = IF Moves(v) THEN [fwd EXCEPT ![v.at] = Len(to) + 1] ELSE fwd
  /\ heap_sz' = IF Moves(v) THEN heap_sz + cur[v.at].sz ELSE heap_sz

\* Fault: the mailbox is not a root.
Roots_stack_only == stack

\* The roots are the stack, then the mailbox.
Roots == stack \o msbox

CopyRoot ==
  /\ phase = "roots"
  /\ pos <= Len(Roots)
  /\ copy(Roots[pos])
  /\ to' = Moved(Roots[pos], to)
  /\ IF pos <= Len(stack)
     THEN stack' = [stack EXCEPT ![pos] = Forwarded(@)] /\ UNCHANGED msbox
     ELSE /\ msbox' = [msbox EXCEPT ![pos - Len(stack)] = Forwarded(@)]
          /\ UNCHANGED stack
  /\ pos' = pos + 1
  /\ UNCHANGED <<cur, heap_cap, phase, req, scan, child, made>>

RootsDone ==
  /\ phase = "roots"
  /\ pos > Len(Roots)
  /\ phase' = "scan"
  /\ UNCHANGED <<cur, heap_sz, heap_cap, mutator, req, gc>>

\* scan: the values of a tuple are in the new half; the elements of an array and
\* the keys and values of a table are updated in the old block, which is copied
\* afterwards.
Elements_none(o) == 0  \* Fault: only the block of an array is copied.
Elements(o) == Width(o.kind) * o.n
ValuesOf(o) ==
  CASE o.kind = "tuple" -> Len(o.vals)
    [] IsContainer(o) -> Elements(o) + 1
    [] OTHER -> 0

Scanning == phase = "scan" /\ scan <= Len(to)

ScanTuple ==
  /\ Scanning
  /\ to[scan].kind = "tuple" /\ child <= ValuesOf(to[scan])
  /\ LET v == to[scan].vals[child]
     IN  /\ copy(v)
         /\ to' = Moved(v, [to EXCEPT ![scan].vals[child] = Forwarded(v)])
  /\ child' = child + 1
  /\ UNCHANGED <<cur, heap_cap, mutator, phase, req, pos, scan>>

ScanElement ==
  /\ Scanning
  /\ IsContainer(to[scan]) /\ child <= Elements(to[scan])
  /\ LET b == to[scan].buff.at
         v == cur[b].vals[child]
     IN  /\ copy(v)
         /\ to' = Moved(v, to)
         /\ cur' = [cur EXCEPT ![b].vals[child] = Forwarded(v)]
  /\ child' = child + 1
  /\ UNCHANGED <<heap_cap, mutator, phase, req, pos, scan>>

ScanBlock ==
  /\ Scanning
  /\ IsContainer(to[scan]) /\ child = ValuesOf(to[scan])
  /\ LET v == to[scan].buff
     IN  /\ copy(v)
         /\ to' = Moved(v, [to EXCEPT ![scan].buff = Forwarded(v)])
  /\ child' = child + 1
  /\ UNCHANGED <<cur, heap_cap, mutator, phase, req, pos, scan>>

\* Fault: the scan pointer does not move.
ScanNext_stays ==
  /\ Scanning
  /\ child > ValuesOf(to[scan])
  /\ UNCHANGED vars

ScanNext ==
  /\ Scanning
  /\ child > ValuesOf(to[scan])
  /\ scan' = scan + 1
  /\ child' = 1
  /\ UNCHANGED <<cur, heap_sz, heap_cap, mutator, phase, req, to, fwd, pos>>

\* swap; the reservation goes on where it was.
Swap ==
  /\ phase = "scan"
  /\ scan > Len(to)
  /\ cur' = to
  /\ to' = <<>>
  /\ fwd' = <<>>
  /\ pos' = 1 /\ scan' = 1 /\ child' = 1
  /\ phase' = IF req = NoReq THEN "run" ELSE "again"
  /\ UNCHANGED <<heap_sz, heap_cap, mutator, req>>
-----------------------------------------------------------------------------
Requests ==
  \/ \E n \in Lengths :
       \/ AskString(n)
       \/ AskMessage(n)
       \/ AskMessageToSelf(n)
       \/ AskContainer("buffer", n)
  \/ \E n \in Counts : AskTuple(n) \/ AskContainer("array", n)
  \/ \E n \in Pairs : AskContainer("table", n)
  \/ \E i \in DOMAIN stack :
       \/ AskShrink(i)
       \/ \E n \in Counts : AskReserve(i, n) \/ AskResize(i, n)
       \/ \E j \in DOMAIN stack : AskPush(i, j) \/ \E k \in DOMAIN stack : AskPut(i, k, j)

Allocation ==
  Check \/ Reserve \/ ReserveFails
  \/ AllocString \/ AllocTuple \/ AllocContainer \/ AllocCapacity

Mutation ==
  \/ Pop
  \/ \E k \in DOMAIN msbox : Receive(k) \/ RemoveMessage(k)
  \/ \E i \in DOMAIN stack :
       \/ PushIndex(i)
       \/ Get(i)
       \/ \E n \in Counts : Resize(i, n)
       \/ \E j \in DOMAIN stack :
            \/ Set(i, j)
            \/ PushInPlace(i, j)
            \/ \E k \in DOMAIN stack : PutInPlace(i, k, j)

Collection ==
  CopyRoot \/ RootsDone \/ ScanTuple \/ ScanElement \/ ScanBlock \/ ScanNext \/ Swap

Next == Requests \/ Allocation \/ Mutation \/ Collect \/ Collection

Spec == Init /\ [][Next]_vars

\* A call of the library that has begun goes on to its end.
FairSpec == Spec /\ WF_vars(Allocation \/ Collection)
=============================================================================
