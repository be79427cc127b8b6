# A verification development for any-vm

any-vm is a small virtual machine with an Erlang flavour: actors with private
heaps run byte code or native functions, a cooperative scheduler switches
between them, and a loader replaces modules while they run. An assembler
makes the byte code, a compiler reads it from text, and a web server lets clients
add and link modules in a running program. This directory models all of these in
TLA+, checks small instances with TLC and proves properties of them with TLAPS.
`PROJECT.json` lists components, runs, mutants, findings, hazards and theorems, and
says for every definition which lines it stands for.

Paths below are relative to the repository (`src/private/x.c`,
`src/inc/any/x.h`).

## 1. The system

Everything runs on one thread of the host program. The host fills a loader,
links it, creates actors in a scheduler and calls `ascheduler_run_once` again
and again. An actor has a C stack of its own (`atask_t`); it keeps the thread
until it calls into the scheduler (yield, sleep, wait, exit). There is no
preemption and no lock: what is hard is the *order* in which library calls of
different actors, the timer and the host follow each other, and state that is
read before such a switch, or before a reservation of memory, and used after.

| Component | State | Operations | Interacts with | Hard | Correct when |
|---|---|---|---|---|---|
| Process identifiers (`rt_types.h`) | index and generation in 32 bits | pack, unpack | process table | few generation bits; they come round | the parts can be read back; a stale pid finds nobody |
| Intrusive lists (`list.h`) | circular lists of nodes | insert, erase | scheduler, loader | a node erased from whatever list it is in | each object in one list, once |
| Scheduler (`scheduler.c`, `scheduler.h`) | process table, `pendings`, `runnings`, `waitings`, timer, wake flags | init, cleanup, new actor, start, run once, yield, sleep, wait, wake on message | actors, tasks, timer | every interleaving of the above; failures half-way | lists partition the processes, no wake-up is lost, waits take their time, exited slots are freed once |
| Actors and mailboxes (`actor.c`, `actor.h`) | value stack, frames, mailbox and peek position, catch chain | send, receive, remove, rewind, spawn, call, try, throw | scheduler, heap, loader | selective receive against arriving messages and timeouts | a mailbox is a queue with selective receive |
| Loader (`loader.c`) | `pendings`, `runnings`, `garbages`, libraries, import tables | add, link (safe or not), sweep, retain, find, cleanup | dispatcher, actors that still run old code | links that fail half-way, versions that displace each other | after a link all imports are current, nothing freed is reachable, a safe link that fails changes nothing |
| Copying collector (`gc.c`) | two halves, size, capacity, scan pointer, forwarding indices | reserve, alloc, collect, grow | value stack, mailbox, containers | references moved under operations in progress; rounding; cycles | the graph of objects is kept, garbage goes before the heap grows, a collection ends |
| Containers (`std_array.c`, `std_buffer.c`, `std_table.c`, `std_tuple.c`, `std_string.c`) | size, capacity and block | new, reserve, shrink, resize, get, set, push | heap | cells not written yet; look-ups before and after a reservation | a sequence, or a map |
| Value stack (`stack.c`) | growing array | push, pop, reserve | collector (roots) | moves while a pointer into it is held | every live value is a root |
| Dispatcher (`dispatcher.c`) | instruction pointer, frames | byte code instructions | stack, scheduler, loader | errors across native and byte code frames | stack discipline of calls and errors |
| Assembler (`asm.c`) | buffer of prototypes, slots, stack of open prototypes | open, close, add, reserve, save, load | string table, loader (makes chunks) | prototypes that are replaced and moved while they are in use | what was added is in the chunk, in its order |
| String table (`string_table.c`) | open hash table and strings in one block | intern, grow, pack | assembler | collisions, growth, a table without an empty slot | one reference per string, and every search ends |
| Compiler `amlc` (`compiler.cpp`) | pools of names per definition, place holders | statements, nested definitions, errors | assembler | names used before they are defined; definitions inside others | the code means the text |
| Debug server (`db.c`) | handlers, attached scheduler, subscribers | HTTP requests, pushes | loader, scheduler, web server | callbacks of the loader while a request is served | every link is told to every subscriber |
| Web server (`wby.h`) | slots with buffers and flags | accept, read, dispatch, upgrade, close | debug server, sockets | requests in pieces, clients that leave, slots that move | each request belongs to the client that is answered |
| Tasks (`task_*.c`), timer, platform, `std.c`, `std_io.c`, `std_buffer_bits.c`, vendored `jsmn` | | | | | outside the models (section 8) |

## 2. Modules

| Module | Models | Built on |
|---|---|---|
| `Pid` | layout of a pid | |
| `Lists` | erase and filter on sequences of distinct nodes | |
| `Scheduler` | process table, lists, timer, mailboxes, one action per library call | `Pid`, `Lists` |
| `SchedulerProperties` | its safety and liveness properties | `Scheduler` |
| `Actors` | what the scheduler promises, without lists, timers or pids | |
| `SchedulerRefinement` | the mapping by which `Scheduler` implements `Actors` | `Scheduler`, `Actors` |
| `ListsProofs`, `SchedulerProofs` | theorems of the above, of pids and of the refinement | TLAPS |
| `Loader`, `LoaderProperties`, `LoaderProofs` | the loader, its properties and their proofs, with those of the debug server that links through it | `Lists`, `ListsProofs` |
| `HeapSizes` | sizes and rounding | |
| `Heap`, `HeapProperties` | heap of one actor, collector, operations of tuples, arrays, buffers, tables and strings | `HeapSizes` |
| `HeapProofs` | what reserving guarantees, and the collector's properties proved | `ListsProofs` |
| `Table`, `TableProperties`, `TableProofs` | searching, setting and growing one table; its properties and their proofs | `ListsProofs` |
| `Map` | what a table promises, for keys that may be too near to be told apart | |
| `Calls`, `CallsProperties`, `CallsProofs` | frames, catch points and the value stack of one actor, under any sequence of instructions and native calls; its properties and their proofs | `ListsProofs` |
| `StringTable` | interning, probing, growth and packing, as operators on a table | |
| `Assembler`, `AssemblerProperties`, `AssemblerProofs` | prototypes, their buffer and slots, saving and loading; properties of these and of the table, and their proofs | `StringTable`, `ListsProofs` |
| `Program` | what the assembler promises: a tree of prototypes that only grows | |
| `ProgramProofs` | that the assembler implements `Program`; what the compiler does with it | `AssemblerProofs`, `CompilerProperties` |
| `Compiler`, `CompilerProperties` | the compiler, statement by statement | `Assembler` |
| `WebServer` | slots, one call of `wby_update`, and the clients | |
| `DebugServer`, `DebugServerProperties` | requests and pushes; the host; proofs in `LoaderProofs` | `Loader`, `WebServer` |
| `MCScheduler`, `MCLoader`, `MCHeap`, `MCTable`, `MCCalls`, `MCAssembler`, `MCCompiler`, `MCServer` | instances for TLC | |

Definitions marked *Fault* are not used by any specification. Each is a
plausible bug of the code (a flag not reset, a list not relinked, a root
forgotten); put in the place of the definition that follows it, TLC finds the
property that guards against it violated. They document what each property is
sensitive to.

### Scheduler

`cur` is the task that owns the thread. An action is one library call up to the
context switch it ends in; what the code does after the switch is the next
action of the resumed task (`RecvWait`, then the message or `RecvTimeout`).
Processes are slots of the table; the lists are sequences of slots with the
root task, always last in `runnings`, left out. A pass begins with `RunOnce`
(timer, freeing of exited actors, switch to the first process) and ends when
the switch of some process finds the root next.

`lag` is the distance of the clock from the scheduler's timer, so that time
needs no unbounded counter. The history variables `lives`, `issued` and `nap`
are read by properties only. Failures of allocation are actions of their own:
`SpawnNoTask` (the slot is taken and never comes back), `SpawnStuck` (an
argument that cannot be passed: the actor stays in `pendings`), `SendDropped`.

Calls that change nothing in the model are left out: a spawn with a full table
(`AERR_FULL`), a receive with `ADONT_WAIT` and nothing to read. The C stack of
a task is not modelled; `ascheduler_cleanup` forgets the processes, as the code
does.

### Actors, the abstract specification

Actors are `idle`, `ready`, `asleep`, `receiving` or `done`. A pass runs each
ready actor once, those that become ready in it included; a message makes its
receiver ready at once; a mailbox is the pair of messages seen and not yet seen
by the current selective receive. `SchedulerRefinement` maps the processes
linked behind the running one to the actors that are still due: that the circular
list with insertions before the root is exactly "each ready actor once" is what
the refinement shows.

### Loader

Chunks are model values with a module, exported names and a sequence of
imports. The three lists are sequences, as the order decides which version is
found. Linking is one action in the code, and three here by its outcome:
`LinkFailsOnPending`, `LinkFailsOnRunning` and `LinkSucceeds`; each takes the
`safe` flag and performs the displacement, the resolution in the code's order
and the rollback as written, the node at which the rollback starts included. Parsing a chunk is abstracted
to its exports and imports (a malformed chunk is refused and changes nothing);
the callback after linking is in `DebugServer`; left out is the backup buffer that a safe
link leaks when it fails, as it is memory nobody refers to.

### Heap

The current half is the sequence of its objects in address order. A heap index
is a place in that sequence, so an index kept over a collection becomes wrong
in the model exactly when it becomes wrong in the code. The bytes in use are
counted apart, with the sizes of `HeapSizes`. Each value carries the identity
of the object it was made for, as a history: properties compare it with the
object the index now leads to. A value that is no reference is `Nil`, whatever
its type; memory that was never written is `Junk`.

A request of a library (`AskString`, `AskPush`, ...) goes through
`aactor_heap_reserve` (`Check`, `Collect`, `Check`, `Reserve` or
`ReserveFails`) to the action that allocates and does the rest of the library
function (`AllocCapacity` includes the nil-filling of `resize` and the store of
`push`). A collection is not atomic in the model, though nothing interleaves
with it in the code: its steps are one copied value each, so that the loop
invariant (`Tricolor`) can be stated. It may also be forced at any time
(`aactor_gc`).

The position of a peek is a matter of `Scheduler`; here a receive takes any
message of the mailbox. Arguments of library functions are not popped by the
model; `Pop` may do so in any later step. Type checks are guards: an argument
of the wrong type raises an error and changes nothing (`push/2` of std-array
has no such check; it is modelled for arrays). The program makes the containers
in `Kinds`: the finding needs no tables. A table has two cells for each pair; a program can reach the values
of all pairs, by some key each.

### Table

What `search_for` and `lset` do to the pairs of one table, without their places in the
heap (those are in `Heap`). Strings are compared as what they say: equal hash values
of different strings are told apart by `strcmp`. Reals are integers in units that are fine
enough for the precision of `afuzzy_equals`; `Coarse` are those so large that adding
or subtracting it changes nothing, as in floating point from 2^37 on. Reals that are
`Coarse` are further than the precision from every other, and do not equal themselves. `get` and `set` with a key
of the wrong type, and a table that gets no memory, answer `Error`.

`Map` has neither pairs nor capacities. As equality of reals is not transitive, a
`set` may also be a `set` of other keys: which ones depends on the order in which
they came. `Map` allows any of those less than twice the precision away, and nothing
else; the keys in `Lost`, which are the `Coarse` ones, may be set and are never found.

### Calls

`cstack` holds the activations of `any_call` and `any_try` on the C stack of the
actor, innermost last; `frame` and `error_jmp` are places in it, so that a pointer
into an activation that `longjmp` has left can be told from a live one. `v` is
the array behind the value stack, kept above `sp` as far as a catch point may
bring it back: what an error restores is what is still in the array, which a
collection may have passed over in the meantime ("stale").

There is no program: any instruction, or any call of native code, may be next
(`CodeStep`, `NativeStep`). An instruction is modelled by what it takes, what it
leaves and where it may fail; the checks that the code makes first, on stack
depth above all, are kept, in their order (`any_pop` lowers `sp` first and checks
then). Native code is free as well, but removes operands only, and its `any_try`
runs a body in the same frame. `ProtectedCall` and `Begin` are the two halves of
`any_protected_call`; its error path is part of `Throw`.

The histories `loose` and `under` record two things that code may do and the
library does not prevent: native code taking values from under its own catch
point, and a pop of more values than the function has, refused only afterwards.
Jumps, the instruction pointer, numbers, panics and hooks of the host are left
out, and so is the growth of the array.

### String table and assembler

The operators of `StringTable` and `Assembler` are the functions of the two
libraries: each takes a table or an assembler and gives the one it leaves, in the
order of the code, so that the functions that call each other (`aasm_add_import`
interns two strings, looks the prototype up, grows it and stores) are compositions.
The actions are what a host may call in any order.

The buffer is a function from offsets to prototypes; an offset that was kept over
`gc` leads nowhere or to the wrong prototype, as in the code. Sizes count items
instead of bytes. A replaced prototype stays in the buffer until a collection drops
it. The table keeps its hash slots, its free space and the bytes of each string, as
all three reasons to be full depend on them; lengths and hash values are constants, and the
instance makes them collide. `asserts` turns false where the code's assertion fails
and ends the behaviour, because nothing defined happens after it.

A chunk is the sequence of its prototypes, each before those nested in it, with the
level at which it is nested (`save_chunk`, `load_chunk`); its bytes are not modelled.
The code's recursion over nested prototypes is a list of what is still to be visited
(`Walk`), a function of how many steps it has taken. Source lines go with their
instructions. `Program` knows only the tree and which prototypes are open; after
loading, the prototypes may be numbered in another order, and a slot that `push_unsafe`
took before its assertion failed is not of the program (`Linked`). The one thing that
making room may change there is the number of local variables, which `aasm_reserve` does
not copy; `amlc` sets it at the end of a definition, after all growth.

### Compiler

One action per statement, one per begin and end of a definition. The text is chosen
as it is read, and the history `source` keeps it for the properties. The pools, the
place holders for labels and closures, and the shared pool of arguments, variables
and labels are those of the code; an error throws everything away, as the exception
does. `AfterNested` is the control flow after a nested definition as it is: the
loop continues without reading the next symbol. Definitions nested deeper than
`MaxNested` end the compiler at the assertion of `push_unsafe` (`TooDeep`).

### Web server and debug server

`wby_update` is one call in the code. In the model it is a sequence of steps (accept,
serve slot by slot, close slot by slot), because clients send and leave
between any two of them. A request is two parts, the end of its header being the
second, and a body a third; a part remembers whose it was, in the buffer it was read
into. Slots move as `memmove` moves them: with their buffers' addresses, and the last
one stays behind as a copy, in which the next client is accepted. The two flags are those
that the code's order of assignments makes delicate: the web socket, and the mark of a
subscriber in `user_data`, which a reset keeps for web sockets only. The history `alone`
of a slot tells whether its connection has had its buffer to itself since it was accepted;
it moves with the slot. A response ends with the next request or, for a client that asks
for it, with the connection (`Respond`). A read that fails in a handler (`BodyLost`)
leaves a connection that is not alive in the handler, which reads on for ever.

`DebugServer` composes this with `Loader`: requests add chunks and link, the host
does the same between two calls of `adb_run_once`, and a successful link calls back
into the server, which pushes to all marked slots. `told` remembers who has heard of
the last link. Listings, actors that a request starts and wrong requests are `Look`,
which changes nothing here. The host does not link a loader whose server was cleaned
up (section 6).

## 3. Runs

| Run | Instance | Shows |
|---|---|---|
| `scheduler_lifecycle` | 2 slots of 3 lives, 2 generations, 2 messages, mailboxes of 2, periods infinite, 0, 2, lag 1 | the type invariant and five safety properties of the scheduler, and that it implements `Actors` |
| `scheduler_liveness` | 2 slots of 2 lives, mailbox of 1, lag 1, fair | finite waits end, exited slots come back, runnable processes run |
| `loader_linking` | 2 versions of 2 modules that import each other, 2 native libraries, one of which shadows a module | imports agree with `aloader_find` after a link, nothing freed is reachable, a link leaves other modules alone |
| `server_push` | 2 clients, 2 slots, 1 chunk that the host adds or a client posts | subscribers are told, slots keep apart until two share a buffer, complete requests are answered |
| `heap_collect` | 4 objects, 3 values on the stack, 1 message, arrays and tuples of 2 cells, tables that begin with room for 0 or 1 pair, odd strings, halves of 8 and 16 bytes | the five invariants of the heap, no growth before garbage is gone, collections end |
| `tables_map` | reals 0, 1, 2 where the precision is 2 and one that is `Coarse`, an integer, a boolean, 2 values, capacity 0 or 1, growing to 4 | `Table` implements `Map`, keys are apart |
| `calls_nested` | 5 activations, 5 values, calls with 0 or 1 arguments, 0 or 1 local variables | types, live pointers, frames apart, callers' values kept, nothing stale |
| `assembler_program` | 3 strings of colliding hashes, 4 items and prototypes, room for one of each to begin with, buffer of one prototype | memory apart, searches end, strings found again, `Assembler` implements `Program` |
| `compiler_module` | 4 statements in 2 definitions, one name for a variable, an argument and a label, room for one item | the code means the text, before and after it was saved and loaded; only errors are rejected |
| `loader_rollback` | as `loader_linking` | finding: a safe link that fails is not rolled back |
| `heap_selfsend` | as `heap_collect` without tables, tuples and blocks of one cell, 2 values on the stack, 2 messages | finding: a string sent to oneself is copied from memory already given back |
| `calls_protected` | as `calls_nested` | finding: a protected call that fails takes all of its caller's operands |

States found: `scheduler_lifecycle` 748 600, `scheduler_liveness` 25 674,
`loader_linking` 79 434, `heap_collect` 950 915, `calls_nested` 791 604,
`tables_map` 26 942,
`assembler_program` 149 305, `compiler_module` 994 072, `server_push` 1 271 762.

`scheduler_lifecycle` treats its two messages as alike. This is sound: no
definition of `Scheduler` or `Actors` names a message, and the properties of the run
are invariants and a specification without fairness, which speak of single states
and steps.

Why the bounds are enough:

* Scheduler: `MaxLives` 3 with two generations lets each slot's pids come round
  once, the smallest case in which a stale pid finds a wrong process. Two slots
  give a running and another process, before or behind it in the list; what a
  third would add (an order among those behind) is covered by the proofs, which
  hold for any number. A lag of 1 with a period of 2 lets a wait begin late, be
  looked at twice and end late. Mailboxes of 2 have a peeked and an unpeeked
  message, the older of which is the wrong one to remove.
* Loader: with two versions of each of two modules that import each other there
  is something to displace on either side of a failing link; each chunk can be
  added, displaced, retained and swept in any order.
* Heap: sizes are in words of 2 instead of 8 bytes, and a string of odd size
  shows rounding. With four objects there are a container, its block, an
  element and one more reference to it, cycles through tuples and arrays, and
  heaps that are full of garbage, full of live objects, and too small even when
  grown.
* Tables: of three reals in a row the middle one equals both others, which differ; the
  `Coarse` real does not equal itself and is added by every `set`; the integer and the
  boolean equal none of them. From capacity 0 the table grows three times, each of
  which may be refused. In the heap a table grows from nothing and is filled in place;
  a block moves with elements already in it for arrays.
* Calls: five activations are the entry with its catch point, a function, a catch
  point in it and a function called from there; five values are enough for an
  operand under each function and an error message above all of them.
* Assembler: with room for one item, the second of a kind replaces a prototype
  and the third collects the buffer; four items include a prototype in a
  prototype while its parent grows. The table of 128 bytes begins with 5
  hash slots, in which the three strings collide; it is rebuilt larger by the long string
  and made full by packing.
* Compiler: two definitions one inside the other or in sequence; a name that is
  argument, variable and label in one definition and in two; a jump before and
  behind its label; two constants written alike. `MaxNested` 2 is the depth of a definition
  in a definition of the module; one more is too deep.
* Server: with two clients and two slots there are a subscriber and another, in
  either order, one that leaves before the other and one that comes again in a
  slot that was used: the first connection that is closed before the other leaves two slots
  with one buffer, and the next client gets it. The chunk imports what nobody has, so that a
  link can fail.

Deadlock is not checked: the host may shut the system down, the bounds end
behaviours, and an actor or a host that makes no call is legal.

## 4. What the properties say

Scheduler: `ListsPartitionProcesses` (each process with a stack is linked once,
in the list its state calls for), `OnlyWaitersWait` (the assertion in `wait_for`,
and that a message moves only those who wait), `NoLostWakeup` (who is suspended
in a receive has peeked all of its mailbox), `StalePidFindsNobodyElse`,
`TimerAccountsForEveryTick` (what is left of a wait, however
many passes it has seen), `KeepsPromise` (every step is one of `Actors` or changes
nothing there), and the liveness properties `TimeoutsFire`, `ExitedAreFreed`,
`RunnableRuns`. `CountsTakenSlots` (`num_procs` counts the slots taken,
lost ones included) is proved and not part of a run.

Loader: `ImportsAgreeWithFind` (after a successful link a running chunk's import is
what `aloader_find` returns), `NothingFreedIsReachable` (no chunk that can run
holds a function of a chunk that was freed), `LinkKeepsUntouchedModules`.

Heap: `NoStaleReference`, `NoObjectTwice`, `HeapWithinCapacity` (the assertion in
`agc_alloc`, and that a collection never writes past the half), `Tricolor`,
`GrowsOnlyWhenFull` (reachable objects and the request together do not fit),
`CollectionEnds`.

Tables: `KeysAreApart` (one pair for each key, though near keys meet), `KeepsMap`
(it implements `Map`, which may lose a key that is a large real).

Calls: `PointersLive` (the frame and catch pointers lead to the innermost
activations that still run; the assertion in `any_throw`), `FramesAreApart`,
`CallersOperandsKept` (unless a pop of too many values was refused),
`NothingStaleOnStack` (after errors too, unless `loose` or `under`). Neither
exception can be left out: `any_pop` (`actor.h:154`) lowers `sp` below the caller's
values, and the message of the error it then raises overwrites them.

Assembler: `PrototypesAreApart` (no two prototypes overlap, none has more than its
room), `LookupsEnd` (a hash slot stays empty), `InternedAreFound` (each string has one
reference, for ever), `KeepsProgram` (it implements `Program`; saving and loading is
a step of it that keeps the tree).

Compiler: `CodeMeansSource` (jumps land behind their labels, names lead to what they
named, symbols carry the number of arguments, for every definition of the module that
has ended and for the chunk that was loaded). A definition with another one inside never
ends, a defect of the code (section 6), so nothing is claimed of modules with one.
`OnlyErrorsAreRejected` is the other direction: the pools know exactly the names of the
definition that is read, nested ones included, and its end is accepted when its labels are
there; without it a compiler that rejects everything would do.

Server: `SubscribersAreTold`, `SlotsKeepApart`, `AnswersCome`. The first connection that is
closed before the last slot leaves a slot with the buffers of another for good (section 6), so
`SlotsKeepApart` speaks of the connections that have not met another one in their buffer,
moved ones and those in slots with old flags and marks included: what was read is their own
client's, and they have the mark of a subscriber exactly if they are web sockets. In
`AnswersCome` a complete request is answered unless its connection comes to share its buffer.

## 5. Fairness

The scheduler has none to offer on its own: it is cooperative. `FairSpec` of
`Scheduler` assumes that the host keeps calling `ascheduler_run_once` (that is its
contract), that the clock advances, and that an actor with the thread goes on
with its next library call. Every liveness property further assumes
`PassesEnd`, that the host gets the thread again and again, because that does not
follow: two actors that wake each other keep the host away for ever although
neither keeps the thread (`scheduler.c:204` puts a woken receiver into the same pass).

`FairSpec` of `Heap` assumes only that a call of the library that has begun goes
on: nothing can interrupt it. `FairDSpec` of `DebugServer` assumes that the host
goes on calling `adb_run_once` and that a call goes on where it can; it does not
assume that clients send, and a handler that waits for a body waits as long as the
client likes. `AnswersCome` therefore also assumes that calls end.

## 6. Findings

1. `loader.c:353`: a safe link that fails is not rolled back (`loader_rollback`).
   The rollback begins at what was the last garbage before the link; with none,
   it moves nothing back and the running version of a module is lost; else it
   also revives the old garbage. The import backup restarts at its first value
   for every chunk.
2. `actor.c:193`: a string sent to oneself is copied through a pointer into a heap
   that the reservation for the copy may collect, grow and give back
   (`heap_selfsend`).
3. `actor.c:160`: a protected call that fails pops the whole frame instead of the
   error, the arguments and the function (`calls_protected`).

Seen while modelling, without a run of their own:

* `scheduler.c:79`: a sleep is measured from when the scheduler last looked at the
  clock, so it can end before its period has passed.
* `scheduler.c:204`: a woken receiver runs in the same pass; two that answer each
  other keep every other list, the timer and the host waiting.
* `actor.h:154`: the overwriting by `any_pop` above. `AOC_RCV` leaves the timeout on
  the stack when it jumps, where `rt_types.h:288` has it popped. The nil of a
  successful `any_try` has no collectable flag (`actor.c:291`).
* `asm.c:628`: a section that a loaded chunk leaves empty has no room at all when
  another section needs more than the default; twice none is none, and the
  assertion before the store fails. `Assembler` reaches this state and ends there.
* `std.h:21`: a real of 2^37 or more does not equal itself. As a key of a table it is
  added again by every `set` and never found by `get`; `Table` does so, and `Map` has
  to allow it (`Lost`).
* `actor.h:221`: `any_push_index`, and so `AOC_LLV`, hands on a pointer into the stack
  that is read after the stack may have moved. `std_array.c:126` does the same.
* `actor.c:324`: `any_error` pushes its message before it throws; without memory for
  the message it calls itself until the C stack ends.
* `asm.c:763`: making room loses the number of local variables. `asm.c:595`:
  `aasm_cleanup` keeps the address of the chunk it releases.
* `compiler.cpp:785`: after a nested definition the loop that reads statements continues
  with the symbol `def`, so that what follows is read as one more nested definition and an
  outer definition never ends. Nested definitions and closures, which
  `match_nested_prototype` and `resolve_pseudo_nesteds` are written for, never compile.
* `compiler.cpp:100`: an integer and a string written alike share one constant; a
  label can be loaded like a local, and a local jumped to.
* `wby.h:2005`: closing a slot that is not the last leaves two slots with one pair of
  buffers; a request that arrives in pieces can then be overwritten by another
  client's. `Owned` without its condition `con[i].alone` is violated in the instance of
  `server_push`.
* `wby.h:1339`: a body is read with a blocking `recv` inside `wby_update`, and its 0 counts as
  progress: a client that does not send the body it announced, or leaves in the middle
  of it, keeps the host for ever. `phase = "dispatch" ~> phase # "dispatch"` is violated in
  the instance of `server_push`.
* `wby.h:1045`: a client that is accepted in the slot that a move left behind may get the
  mark of the subscriber whose copy it is.
* `db.c:241`: a POST without a content type is compared by `strcmp` all the same.
* `db.c:433`: `detach` leaves `handle_linked` with the loader; a link after
  `adb_cleanup` pushes through memory that was released. `db.c:334`: every
  new subscriber makes all others hear of a link that did not happen. `db.c:186`: a
  chunk that the loader refuses is never released.

## 7. Proofs

Proved by TLAPS, for every value of the constants that meets the assumptions:

| Theorem | Statement |
|---|---|
| `SchedulerProofs!TypeCorrect` ... `TimerCorrect` | `Spec => []P` for `TypeOK`, `ListsPartitionProcesses`, `OnlyWaitersWait`, `NoLostWakeup`, `CountsTakenSlots`, `StalePidFindsNobodyElse`, `TimerAccountsForEveryTick` |
| `LoaderProofs!LoaderTypes`, `ListsAreApart`, `ImportsAgree`, `FreedIsUnreachable` | `Spec => []P` for `LoaderTypeOK`, `ListsApart`, `ImportsAgreeWithFind`, `NothingFreedIsReachable` |
| `SchedulerProofs!ImplementsActors` | `Spec => KeepsPromise`: `Scheduler` implements `Actors` |
| `LoaderProofs!UntouchedModulesStay` | `Spec => LinkKeepsUntouchedModules` |
| `HeapProofs!HeapTypes`, `NothingIsStale`, `ObjectsStayApart`, `TricolorHolds`, `HeapStaysWithinCapacity` | `Spec => []P` for `HeapTypeOK`, `NoStaleReference`, `NoObjectTwice`, `Tricolor`, `HeapWithinCapacity` |
| `HeapProofs!HeapGrowsOnlyWhenFull` | `Spec => GrowsOnlyWhenFull` |
| `LoaderProofs!SubscribersKnow`, `ConnectionsKeepApart` | `DSpec => []P` for `SubscribersAreTold`, `SlotsKeepApart` |
| `CallsProofs!CallsTypeCorrect`, `PointersStayLive`, `FramesStayApart`, `OperandsAreKept`, `NothingStaysStale` | `Spec => []P` for `CallsTypeOK`, `PointersLive`, `FramesAreApart`, `CallersOperandsKept`, `NothingStaleOnStack` |
| `TableProofs!TableTypeCorrect`, `KeysStayApart` | `Spec => []P` for `TableTypeOK`, `KeysAreApart` |
| `TableProofs!ImplementsMap` | `Spec => KeepsMap` |
| `AssemblerProofs!AssemblerTypes`, `PrototypesStayApart`, `EachLookupEnds`, `StringsAreFound` | `Spec => []P` for `AssemblerTypeOK`, `PrototypesAreApart`, `LookupsEnd`, `InternedAreFound` |
| `ProgramProofs!ImplementsProgram` | `Spec => KeepsProgram`: `Assembler` implements `Program`, saving and loading included |
| `ProgramProofs!CompilerTypes`, `CodeMeansWhatIsWritten` | `CSpec => []P` for `CompilerTypeOK`, `CodeMeansSource` |
| `SchedulerProofs!PidRoundTrip` | index and generation are recovered from a pid |
| `ListsProofs!FilterProperties`, `EraseProperties` | filtering and erasing keep exactly the wanted nodes, once each |
| `HeapProofs!OneObjectFits`, `ContainerFits` | what `agc_check` or `agc_reserve` has accepted still fits after each object is rounded up |

Assumptions: `PidAssumption` (widths of the fields), `SchedulerAssumption` (types of
the bounds), `LoaderAssumption` (imports are sequences, and the three markers are no
chunks), `WebServerAssumption` (a number of slots), `CallsAssumption` (arguments fit on
the stack), `SizesAssumption` (structures are made of whole words),
`HeapAssumption` (types of the bounds; a heap begins with a whole number of words, not none),
`TableAssumption` (keys that are compared have numbers, reals next to each other differ by more than
the precision where it is lost), `StringTableAssumption` (lengths and hash values are natural
numbers, and the empty string is none of the others), `AssemblerAssumption` (rooms are
natural numbers, the first number of slots is not 0, names and imports are strings, and a
plain constant is none that refers to a string, which `aconstant_t` tells by its type),
`CompilerAssumption` (`DEFAULT_PROTO_SZ` has room for an item of each kind, names are strings,
and `f/n` is one for each definition and number of arguments). No finiteness beyond that of the process table is used.

The argument for the scheduler. `TypeOK` alone is not inductive: who runs next is
read from the links of the list, so the type of `cur` rests on the lists, and
which list a process is in rests on `pc`. `Struct == TypeOK /\
ListsPartitionProcesses` is inductive; it has one lemma per action
(`SchedulerProofs`), each on the lemmas that say what unlinking, appending and filtering
do to a list without duplicates (`ListsProofs`). `IInv == Struct /\
OnlyWaitersWait` adds that no process outside `waitings` has a period or a wake
flag, without which a message could move a process that is not waiting. On it rest,
separately:

* `NoLostWakeup`, inductive relative to `IInv`;
* `CountsTakenSlots`, with the cardinality theorems of the library;
* `StalePidFindsNobodyElse`, from `PidsCountLives`: the generation in a slot is
  the number of its lives, modulo the number of generations, and every issued pid
  has that of its life. Two lives with the same pid then differ by a multiple of
  the number of generations (`SchedulerProofs!SameGeneration`);
* `TimerAccountsForEveryTick`, from `TimerInv`, which adds that nobody waits before
  the first pass: that pass sets the timer without looking at `waitings`.

The argument for the refinement of `Actors`. Steps are mapped under
`IInv /\ NoLostWakeup /\ DeadMail`; the last says that a slot nobody lives in has no
mail, and without it freeing a slot could not be told from losing messages. The
status of an actor is read from its `pc` and its list (`StatusFacts`). What "still
due in this pass" means is a matter of order in the circular list: the lemmas on
`Before` and on the task behind the running one say which processes an insertion before
the root, an erasure or a switch changes it for, and those are exactly the ones
that `Actors` makes or no longer keeps ready. A mailbox is cut at its peek position,
and each operation on it is one on the two parts.

The argument for the loader. That imports agree with `aloader_find` is not inductive: a
link resolves imports against lists that it then rearranges, so the lists must be
known to hold each chunk once (`Apart`), and a chunk that waits to be linked must not
yet have an import set (`NewOnesUnlinked`), or a link would keep it. `IInv` is the conjunction. A
link finds each function in the chunks that stay and then in the new ones; after it
the new ones stand behind those that stay; that both orders find the same provider
is `FirstOfUnique`, with the filters of `ListsProofs`. Nothing is claimed after a link that failed,
except that the lists are apart: the rollback does not keep more. From `IInv` nothing freed is
reachable, because what `aloader_find` returns is loaded and `Apart` has loaded and
freed chunks disjoint.

The types of the loader also need that the backup of a failed link has an import for every
slot. The library flattens the sequences of imports by a function defined recursively; `Joined` shows
that there is such a function, so that the `CHOOSE` it stands for has its values.
Where a proof needs induction on a number, here and for the heap, it takes
the least counterexample (`ListsProofs!Least`).

The argument for the server. Who has heard of a link is a matter of slots while the push is
sent and of clients afterwards. `DInv` therefore says that slots in use belong to different
clients (`Users`), that every web socket is marked (`Marks`), and that the loader's callback
is set while the server is on. `Clean` has three parts: a connection that is `alone` has
read only what is its client's and is marked as it should be (`Owned`); no other slot in use
has its buffer (`OneAlone`); and a slot beyond those in use with the flag of a web socket
left over, the one kind that may keep a mark, follows a slot whose buffer it has (`Copies`),
so that whoever is accepted into it is not alone. The steps of the web server are looked at
once (`WebStep`), for the types, users and marks, and again for the subscribers: only an
upgrade makes one, and the same step tells it.

The argument for the calls. `CallsInv` speaks of the whole C stack, not of its top, since
an error may cut it anywhere. `Linked` says that each saved pointer leads to the last
activation of its kind below; `Banded` that each frame's part of the value stack is over
those of its callers, and each catch point's top within its frame's part. What an error
leaves untouched is the `Level` of its catch point: the saved top for `any_try`, where the
frame begins for a protected call. When nothing was taken from under a catch point, levels
rise with the C stack and stay under the top (`Tidy`); then a throw brings back only values
that were on the stack at every collection. A step leaves the C stack alone, cuts it, or
puts a frame or a catch point on it; there is a lemma for each of these (`StaysOnCStack`,
`CutsCStack`, `PutsFrame`, `PutsCatch`), and each action is an instance of one. Native code
never runs directly in the frame of `actor_entry`; if it did, it could pop the whole stack.

The argument for tables. `Inv` is the type with the capacity and `KeysAreApart`; a key is
added only when no pair is found for it, and whether two keys are the same does not depend on
which of them is searched for (`SameKeySymmetric`): that is where large reals need the
assumption. What a key's value is after a step (`LookupAfterReplace`, `LookupAfterAdd`)
is the value it had, unless the pair that was written is the one found for it, and
then it is near (`SameKeysAreNear`). The mapping takes every key to the value of the first
pair found. A key that was set is found since it equals itself (`SameAsItself`), unless it is
`Coarse`, and then no search finds it, whatever was set (`LostIsNotFound`).

The argument for reservations. Rounding up to whole words is the least multiple
that is large enough; the room left in a heap is itself a number of words; so an
object that fits before rounding fits after. A constructor allocates two objects
on one reservation: the structure has no rounding, the block takes the rest.

The argument for the heap. None of its properties is inductive, because most steps are
steps inside a collection, where half of the values lead into either half. `IInv` is the
invariant of the collector's loops. A root leads into the new half once the
loop over the roots has passed it (`RootHalf`), a cell once the scan pointer or the
scan inside the object has (`CellHalf`); each is read from positions that the loops
keep, and all the others lead into the old half. An object and its copy are the same
but for the cells scanned since (`CopiedTuples`, `CopiedContainers`, `CopiedBlocks`), and
`Forwards` says that forwarding indices go to the object of the same identity, and to no two.
The elements of a container are scanned through its block while that is still in the
OLD half, and the block is moved last. That is right only if no
other container has moved it: `OwnBlocks` is needed, and says that no two containers share
a block; no other value may lead to one (`Plain`). Cells behind the last element are not
scanned; the invariant leaves them out, and nothing reads them. A request that waits for
its memory holds a container and an index of it that must still fit when the container has
moved, which is part of the invariant too. Outside a collection all this comes to `Settled`:
every value leads into the one half there is.

The bytes (`Accounted`): those in use are the sum of the sizes of the objects; while
collecting, that sum for the new half together with what was not copied yet is the
sum for the old half, so it never exceeds the capacity. Sums are a recursive function
over places; what appending, resizing or swapping does to one goes by the least place where it fails.

The garbage (`OnlyReached`): each object of the new half was put there because a root or
a cell that was followed leads to it, and that cell is in an object before it. After the
swap take any set that is closed under references and suppose that some object is not in it: the
one at the least place has a root or an object before it that leads to it, which is in the set,
a contradiction. So after a collection everything is reachable, and the second
check of `aactor_heap_reserve` compares the reachable bytes with the capacity.

The argument for the string table (`TableOK`). A search from the hash of a string passes only
slots that are in use as far as the string's own slot (`Placed`): that is what putting a
string into the first empty slot keeps, for the strings that are there already as well. Rebuilding
is that, string by string; packing and growing are rebuilding with another number of slots.
`Spacious` has fewer strings than slots, so a slot is empty, and a block that holds slots and
strings. That a larger block has room for the slots it is given follows from the estimate:
`SlotsFor` divides the bytes so that two slots and five bytes for each string
leave room for the strings' bytes. That `aasm_string_to_ref` ends with the string in the table
needs a bound on how often it doubles: after so many doublings the block is
a multiple of what strings and slots needed that grows with the length of the string, and
such a block has a slot to spare and room for it (`SlotsEnough`, `GrownEnough`, `EnlargedAnswers`).

The argument for the assembler. Its invariant is `Fine`: offsets, extents, sizes and contexts
(`Tidy`, `Opened`), and that every slot but the root is nested exactly once, in one that
was made before it (`Tree`). From `Tree` the walk over nested prototypes reaches every slot and none
twice (`VisitIs`; each state of the walk keeps that what is nested in a visited slot is visited or to
be visited), so `gc` loses nothing. What it copies fits, because the
extents in the old buffer are disjoint sets of places below its end, and the sum of
the sizes is the cardinality of their union (`OffsetsFit`). Growing the buffer, replacing a
prototype by a larger copy, adding an item and interning a string are steps that keep tree, contexts
and the meaning of references (`Goes`), so that compositions of them do
(`AddImportOK`, `ReadIntoOK`). A saved chunk has the root first and no prototype more than one
level below the one before it (`SavedOK`), so that loading it always finds a prototype open to
nest the next one in (`LoadedOK`). `Tree` is claimed only while no assertion has
failed: `push_unsafe` takes a slot first and asserts that there is room for it afterwards.

The argument for the refinement of `Program`. The invariant is the one above; it says that each
slot is of the program unless an assertion failed. A call is mapped in two steps. First, which
part of the state it may change: the open prototype only, strings that are added, nothing of the
contexts (`Only`, `Alone`); growing, collecting, enlarging and interning compose such steps, and
what is shown of the other prototypes cannot depend on them because a reference that had
a text keeps it (`ShownOn`). Then, what is shown of the open prototype afterwards:
one item more at the end of a section, another name, another number of local variables, or as before
(`SeesItem`, `SeesSet`, `Alike`); an enlarged prototype shows no local variables, which is
`MakeRoom`. Each function of the assembler is put together of these (`AddsMap`, `SetsMap`,
`PushMap`, `ReserveMap`, ...).

Saving and loading take the longest part. Saving is a walk, one slot at each step (`WalkIs`), and
loading creates one prototype for each that is read. Both go by the same list, so they are put
side by side: after as many steps the loaded program is in the relation `Copies` to the
walk. A copy shows what its original does, apart from the nested ones, and has
room for as many of them (`Copied`), so `push_unsafe` never lacks room; the k-th prototype
nested in a copy is the copy of the k-th one nested in the original (`Ranked`). The prototype that is open at the level of what the walk
has still to see is the copy of its parent (`Parents`), and what has no copy yet will be seen after
those that precede it (`InTurn`): this is what makes the order of the stack of the walk
the order in which prototypes nest. When the walk has ended each slot was seen once, so the places of
the slots in it are the renaming that `Reload` asks for (`Position`).

The argument for the compiler. It never meets the assertion that there is room: each prototype
has room for an item of each kind (`Roomy`), since the default has and growing doubles it
(`GrownHasRoom`), and a compiler never loads a chunk to go on from, the case in which the assembler
fails. So every call it makes adds the item or the name to the open prototype and does nothing
else (`Works`), or opens one (`Opens`). `Compiling` relates its contexts to the assembler: as
many as there are prototypes open below the module, the definitions of the text one for each slot but the
first. To be flat is not inductive, because a text may well have a definition inside another, and a
closure of it. Two things are: a context whose symbol is `def` stays the first one for ever
(`Held`), as nobody reads statements there any more; and as long as there is none, no
prototype of a definition has one nested, and only the open one may have a closure
in its code, which nothing can resolve (`IsFlat`). The end of the text needs all contexts closed, so it comes
only to flat modules; this is what the defect at `compiler.cpp:785` leaves of the language, and the proof for
the loaded chunk rests on it. That the loaded chunk is flat too follows from what loading keeps
(`LoadReloads`): the root is the first of both, so the others are copies of definitions.

That the code means the text is said of a definition as long as it is open, too (`Draft`): its
instructions are those of the statements read so far, a load, an import or a constant already has its
index, but a jump has the place of its label's name in the pool, and what the compiler remembers
tells which instructions those are. The pools of the context must therefore name exactly what is
in the prototype and in the text (`ConstsNamed`, `ImportsNamed`, `LocalsMean`), every label that
was read is in the pool with the number of instructions before it (`LabelsKept`), and the places of
place holders are numbered (`Numbered`). A statement adds to one pool and one instruction
(`DraftOn`), or a label and none (`DraftLabel`); the end of a definition replaces the place
holders, and then the definition is `Right` (`EndedRight`). `Draft` is claimed for the one definition of the
module that is read while no context is `Held`: afterwards no definition of the module ends, and the
pools of the held ones are of no consequence. What has ended stays right, because calls change what is
shown of the open prototype only. For the loaded chunk the order matters as well: the definition in slot `s`
must be the `s`-th again. That is so because the root's nested ones were made in sequence (`InSequence`)
and nothing is nested in them, so the walk of `save_chunk` sees one behind the other
(`FlatOrder`), and the copies have the text of their originals (`CopyText`).

Only model-checked: `OnlyErrorsAreRejected`, and liveness (`TimeoutsFire`, `ExitedAreFreed`,
`RunnableRuns`, `CollectionEnds`, `AnswersCome`), which is out of the prover's reach.

## 8. Not modelled

* The contents of buffers and strings, printing, comparison and conversion
  (`std.c`, `std_io.c`, `std_buffer_bits.c`), arithmetic of single
  instructions: sequential code that the repository's unit tests cover closely.
* `any_remove` of an argument (`actor.h:325`; only operands are removed), and `aasm_reserve`
  for less than what is there (`asm.c:748` does not check it).
* Growth of the value stack, and the hazard of a pointer into it (`actor.h:221`).
* Context switches (`task_*.c`; a switch is the end of an action) and the C stacks
  that the scheduler's cleanup does not delete.
* The bytes of a chunk, and malformed ones; the lexer of `amlc`.
* Parsing of HTTP headers, chunked answers, frames that clients send, partial
  writes, a socket that cannot be configured when it is accepted (`wby.h:1714`), a missing
  content type (`db.c:241`), and `jsmn`, which nothing uses. The slots are looked at in
  turn and not as `select` saw all of them before: what arrives in between is read one call
  earlier, which no other slot can tell. On Windows the server and the scheduler
  run in a timer callback on another thread; the models are of the loop that the other
  platforms have.

About two thirds of the repository's lines are its unit tests and the test framework;
no definition stands for those.

## 9. Plan

Done: scheduler, mailboxes and their abstract specification; loader; heap and
collector; calls and errors; assembler, string table and the abstract program;
compiler; web and debug server composed with the loader; tables and the abstract map;
safety of all of them proved, that scheduler, table and assembler implement their abstract
specifications, and that compiled and loaded code means the text.

Next, in this order: the growth of the value stack; partial writes and chunked
answers of the web server.
