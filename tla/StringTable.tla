----------------------------- MODULE StringTable -----------------------------
(***************************************************************************)
(* The table that interns the strings of an assembler: one block of memory *)
(* holds a header, a hash table with linear probing and the bytes of the   *)
(* strings.  The reference of a string is the offset of its bytes; 0 is    *)
(* the empty string and marks an empty slot of the hash table.  Nothing is *)
(* ever removed; a table that is full is moved to a larger block.          *)
(*                                                                         *)
(* A table is a record: bytes is the size of the block, n the number of    *)
(* hash slots, slots the hash table, text the string at each reference and *)
(* used the bytes that strings take.                                       *)
(***************************************************************************)
EXTENDS Integers, FiniteSets, SequencesExt

CONSTANTS
  Strings,      \* strings that are not empty
  EMPTY,        \* the empty string
  StrLen,       \* StrLen[s]: strlen
  HashOf        \* HashOf[s]: ahash_and_length

ASSUME StringTableAssumption ==
  /\ EMPTY \notin Strings
  /\ StrLen \in [Strings -> Nat] /\ HashOf \in [Strings -> Nat]

HEADER == 32      \* sizeof(astring_table_t)
SLOT == 8         \* sizeof(hash_slot_t)
ENTRY == 5        \* bytes of a string besides its characters: hash, final 0
HASH_FACTOR == 2

MaxOf(a, b) == IF a >= b THEN a ELSE b
-----------------------------------------------------------------------------
\* The first empty slot of the probe sequence that begins at hash h.
FirstEmpty(slots, n, h) ==
  CHOOSE i \in 0 .. n - 1 :
    /\ slots[i] = 0
    /\ \A j \in 0 .. n - 1 : slots[j] = 0 => (i - h) % n <= (j - h) % n

\* Fault, for the mutation runs: a string goes to the slot of its hash.
Put_no_probe(slots, n, r, s) == [slots EXCEPT ![HashOf[s] % n] = r]

\* The reference r of the string s gets a slot of its own.
Put(slots, n, r, s) == [slots EXCEPT ![FirstEmpty(slots, n, HashOf[s])] = r]

\* All strings, in the order of their bytes, are hashed again: upTo[b] holds
\* those that begin before byte b.
rebuild_hash_table(t, n) ==
  LET upTo[b \in 0 .. t.used] ==
        IF b = 0 THEN [i \in 0 .. n - 1 |-> 0]
        ELSE IF b - 1 \in DOMAIN t.text \ {0}
             THEN Put(upTo[b - 1], n, b - 1, t.text[b - 1])
             ELSE upTo[b - 1]
  IN  upTo[t.used]

count(t) == Cardinality(DOMAIN t.text) - 1

\* The floating point estimate, as one division of integers: strings of
\* average length, each with HASH_FACTOR slots.
SlotsFor(bytes, total, strings) ==
  (HASH_FACTOR * (bytes - HEADER) * strings)
    \div (total + strings * (ENTRY + SLOT * HASH_FACTOR))

astring_table_init(bytes, average) ==
  LET n == MaxOf(1, SlotsFor(bytes, average, 1))
  IN  [bytes |-> bytes, n |-> n, slots |-> [i \in 0 .. n - 1 |-> 0],
       text |-> [r \in {0} |-> EMPTY], used |-> ENTRY]

\* The hash table never shrinks when the block grows.
recompute_num_hash_slots(t, bytes) ==
  MaxOf(t.n, IF count(t) > 0 THEN SlotsFor(bytes, t.used, count(t))
             ELSE SlotsFor(bytes, 15, 1))

\* The table in a block of another size, with n slots.
Rehashed(t, bytes, n) ==
  [t EXCEPT !.bytes = bytes, !.n = n, !.slots = rebuild_hash_table(t, n)]

astring_table_grow(t, bytes) ==
  Rehashed(t, bytes, recompute_num_hash_slots(t, bytes))

\* Fault: as many slots as strings.
PackedSlots_no_hole(t) == MaxOf(1, count(t))

PackedSlots(t) == MaxOf(count(t) * HASH_FACTOR, count(t) + 1)

\* As few slots as lookups can do with, and not a byte that is not needed.
astring_table_pack(t) ==
  LET n == PackedSlots(t)
  IN  Rehashed(t, HEADER + n * SLOT + t.used, n)
-----------------------------------------------------------------------------
\* Where the loop of a lookup stops: at the string or at an empty slot.
Stops(t, s) == {i \in 0 .. t.n - 1 : t.slots[i] = 0 \/ t.text[t.slots[i]] = s}
Probe(t, s) ==
  CHOOSE i \in Stops(t, s) :
    \A j \in Stops(t, s) :
      (i - HashOf[s]) % t.n <= (j - HashOf[s]) % t.n

Interned(t, s) == s = EMPTY \/ t.slots[Probe(t, s)] # 0

\* Fault: the length is not looked at.
IsFull_short(t, s) ==
  \/ count(t) + 1 >= t.n
  \/ t.n < HASH_FACTOR * (count(t) + 1)
  \/ t.used + ENTRY > t.bytes - HEADER - t.n * SLOT

\* When astring_table_to_ref answers AERR_FULL for a string that is new.
IsFull(t, s) ==
  \/ count(t) + 1 >= t.n
  \/ t.n < HASH_FACTOR * (count(t) + 1)
  \/ t.used + ENTRY + StrLen[s] > t.bytes - HEADER - t.n * SLOT

\* The string goes behind the others and into the slot its lookup stopped at.
Inserted(t, s) ==
  [t EXCEPT !.slots[Probe(t, s)] = t.used,
            !.text = [r \in DOMAIN t.text \cup {t.used} |->
                        IF r = t.used THEN s ELSE t.text[r]],
            !.used = @ + ENTRY + StrLen[s]]

\* The loop of aasm_string_to_ref: the block is doubled until the string is in
\* it or fits.  Bound: as often as suffices for every table (eight bytes
\* more never need two doublings more).
Doublings(s) == IF s = EMPTY THEN 0 ELSE StrLen[s] \div 8 + 6
Answers(t, s) == Interned(t, s) \/ ~IsFull(t, s)
Twice(t, s) == IF Answers(t, s) THEN t ELSE astring_table_grow(t, 2 * t.bytes)
Enlarging(t, s) ==
  LET table[d \in 0 .. Doublings(s)] ==
        IF d = 0 THEN t ELSE Twice(table[d - 1], s)
  IN  table
RoomFor(t, s) == Enlarging(t, s)[Doublings(s)]

\* astring_table_to_ref of a string that fits or is there.
WithString(t, s) == IF Interned(t, s) THEN t ELSE Inserted(t, s)

AsmTable(t, s) == WithString(RoomFor(t, s), s)

\* The reference of a string that is in the table.
astring_table_to_ref(t, s) == IF s = EMPTY THEN 0 ELSE t.slots[Probe(t, s)]

astring_table_to_string(t, r) == t.text[r]
=============================================================================
