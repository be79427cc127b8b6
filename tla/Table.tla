-------------------------------- MODULE Table ---------------------------------
(***************************************************************************)
(* A table of std-table: pairs of a key and a value in the order in which  *)
(* the keys were set first, searched from the beginning.  One action is    *)
(* one call of the library by the actor that has the table; where the      *)
(* pairs are in the heap is in module Heap.                                *)
(***************************************************************************)
EXTENDS Integers, Sequences

CONSTANTS
  Keys,       \* values used as keys, with their types
  Values,     \* values stored, nil among them
  Nil,
  Coarse,     \* keys that are reals too large to be changed by Precision
  Precision,  \* 0.00001
  Capacities, \* capacities asked for
  InitGrow,   \* INIT_GROW
  MaxCap      \* bound: larger tables are refused by the allocator

KeyTypes == {"pid", "integer", "real", "string"}  \* VALID_KEYS

\* Reals next to each other are further apart than the precision where it is
\* lost in rounding.
ASSUME TableAssumption ==
  /\ \A k \in Keys : k.type \in KeyTypes => k.v \in Int
  /\ Nil \in Values
  /\ Coarse \subseteq {k \in Keys : k.type = "real"}
  /\ \A c \in Coarse, k \in Keys \ Coarse :
       k.type = "real" => c.v - k.v \notin -Precision .. Precision
  /\ Precision \in Nat \ {0}
  /\ Capacities \subseteq Nat
  /\ InitGrow \in Nat \ {0}
  /\ MaxCap \in Nat

VARIABLES
  entries,  \* the pairs in the buffer of the table
  cap,      \* how many it has room for
  answer    \* the last call and what it returned

vars == <<entries, cap, answer>>

Error == [error |-> TRUE]

Answer(call, r) == answer' = [call |-> call, result |-> r]
-----------------------------------------------------------------------------
\* a - precision and a + precision in floating point.
Margin(a) == IF a \in Coarse THEN 0 ELSE Precision

afuzzy_equals(a, b) == a.v - Margin(a) < b.v /\ a.v + Margin(a) > b.v

\* The comparison of search_for; strings are compared as what they say.
SameKey(p, k) ==
  /\ p.type = k.type
  /\ IF p.type = "real" THEN afuzzy_equals(p, k) ELSE p.v = k.v

\* Fault: the last pair is not looked at.
Found_short(k) == {i \in 1 .. Len(entries) - 1 : SameKey(entries[i].key, k)}

Found(k) == {i \in 1 .. Len(entries) : SameKey(entries[i].key, k)}

\* search_for
First(k) == CHOOSE i \in Found(k) : \A j \in Found(k) : i <= j

Valid(k) == k.type \in KeyTypes  \* check_key
-----------------------------------------------------------------------------
\* agc_table_new
Init ==
  /\ entries = <<>>
  /\ cap \in Capacities
  /\ answer = [call |-> <<"new">>, result |-> Nil]

Lookup(k) == IF Found(k) = {} THEN Nil ELSE entries[First(k)].val

Get(k) ==
  /\ Answer(<<"get", k>>, IF Valid(k) THEN Lookup(k) ELSE Error)
  /\ UNCHANGED <<entries, cap>>

SetBadKey(k, v) ==
  /\ ~Valid(k)
  /\ Answer(<<"set", k, v>>, Error)
  /\ UNCHANGED <<entries, cap>>

Replace(k, v) ==
  /\ Valid(k) /\ Found(k) # {}
  /\ entries' = [entries EXCEPT ![First(k)].val = v]
  /\ Answer(<<"set", k, v>>, Nil)
  /\ UNCHANGED cap

GrownCap == IF cap = 0 THEN InitGrow ELSE 2 * cap

\* Fault: the pairs are not copied to the larger buffer.
Add_loses(k, v) ==
  /\ Valid(k) /\ Found(k) = {}
  /\ Len(entries) = cap /\ GrownCap <= MaxCap /\ cap' = GrownCap
  /\ entries' = <<[key |-> k, val |-> v]>>
  /\ Answer(<<"set", k, v>>, Nil)

\* Fault: the buffer grows after one pair too many.
Add_late(k, v) ==
  /\ Valid(k) /\ Found(k) = {}
  /\ \/ Len(entries) <= cap /\ cap' = cap
     \/ Len(entries) > cap /\ GrownCap <= MaxCap /\ cap' = GrownCap
  /\ entries' = Append(entries, [key |-> k, val |-> v])
  /\ Answer(<<"set", k, v>>, Nil)

\* With set_capacity when the buffer is full, which copies all pairs.
Add(k, v) ==
  /\ Valid(k) /\ Found(k) = {}
  /\ \/ Len(entries) < cap /\ cap' = cap
     \/ Len(entries) = cap /\ GrownCap <= MaxCap /\ cap' = GrownCap
  /\ entries' = Append(entries, [key |-> k, val |-> v])
  /\ Answer(<<"set", k, v>>, Nil)

\* No memory for the larger buffer.
AddFails(k, v) ==
  /\ Valid(k) /\ Found(k) = {}
  /\ Len(entries) = cap
  /\ Answer(<<"set", k, v>>, Error)
  /\ UNCHANGED <<entries, cap>>
-----------------------------------------------------------------------------
Set(k, v) == SetBadKey(k, v) \/ Replace(k, v) \/ Add(k, v) \/ AddFails(k, v)

Next == \E k \in Keys : Get(k) \/ \E v \in Values : Set(k, v)

Spec == Init /\ [][Next]_vars
=============================================================================
