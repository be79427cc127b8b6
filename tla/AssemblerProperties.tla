------------------------- MODULE AssemblerProperties -------------------------
(***************************************************************************)
(* What the assembler and its string table must guarantee, and that the    *)
(* assembler implements Program.                                           *)
(***************************************************************************)
EXTENDS Assembler

Slots == 0 .. Len(self.slots) - 1
Extent(s) == self.slots[s + 1] .. self.slots[s + 1] + SizeAt(self, s) - 1

\* Type invariant, with the sizes: the prototypes are in the buffer, and the
\* hash slots and strings in the block of the table, after every growth
\* (recompute_num_hash_slots before the bytes are moved behind the slots).
AssemblerTypeOK ==
  /\ HEADER + self.st.n * SLOT + self.st.used <= self.st.bytes
  /\ self.size <= self.capacity \/ self.slots = <<>>
  /\ Len(self.slots) <= self.max_slots
  /\ \A k \in DOMAIN self.context : self.context[k].slot \in Slots
  /\ \A s \in Slots : self.slots[s + 1] \in DOMAIN self.buff

\* However often the buffer was moved and prototypes were replaced by larger
\* ones, each slot leads to a prototype of its own: no two overlap, none
\* reaches behind the end of the buffer, and none holds more than it has room
\* for (gc, grow_buff, new_prototype and aasm_reserve of asm.c).
PrototypesAreApart ==
  \A s \in Slots :
    /\ Extent(s) \subseteq 0 .. self.size - 1
    /\ \A t \in Slots \ {s} : Extent(s) \cap Extent(t) = {}
    /\ \A x \in Sections : Len(At(self, s)[x]) <= At(self, s).max[x]

\* The loops that look for a string or for a place have an empty slot to stop
\* at, after any growth and after packing (to_ref, rebuild_hash_table).
LookupsEnd == \A s \in Strings : \E i \in 0 .. self.st.n - 1 :
                self.st.slots[i] = 0

\* A string that was interned is found again under the reference it got,
\* whatever collided with it and however often the table was rebuilt: two
\* references never mean the same string.
InternedAreFound ==
  \A r \in DOMAIN self.st.text \ {0} :
    astring_table_to_ref(self.st, self.st.text[r]) = r
-----------------------------------------------------------------------------
\* push_unsafe takes a slot before its assertion can fail: that slot is not of
\* the program.
Orphan(a) ==
  /\ ~a.asserts /\ Len(a.slots) > 1
  /\ \A s \in 0 .. Len(a.slots) - 1 : Len(a.slots) - 1 \notin Range(At(a, s).nesteds)
Linked(a) == IF Orphan(a) THEN Front(a.slots) ELSE a.slots

\* What the host sees of a prototype, of the program and of what is open.
Shown(a, p) == [Written(a, p) EXCEPT !.nesteds = [k \in DOMAIN @ |-> @[k] + 1]]
ProgramOf(a) == [i \in DOMAIN Linked(a) |-> Shown(a, At(a, i - 1))]
OpenIn(a) == [k \in DOMAIN a.context |-> a.context[k].slot + 1]

Promise == INSTANCE Program WITH
  Code <- Codes,
  Const <- Plain \cup [string : Strings],
  Import <- {[module |-> x[1], name |-> x[2]] : x \in Externals},
  Name <- Names,
  NoName <- EMPTY,
  Local <- LocalVars,
  protos <- ProgramOf(self),
  where <- OpenIn(self)

\* Every behaviour of the assembler is one of Program: making room, moving
\* prototypes and strings, packing and collecting is never seen by the host,
\* each item goes to the end of the open prototype, and loading a chunk gives
\* the program that was saved.  The one thing that making room may change is
\* the number of local variables of the open prototype.
KeepsProgram == Promise!PSpec
=============================================================================
