--------------------------------- MODULE Map ----------------------------------
(***************************************************************************)
(* What std-table promises: every key has a value, nil before it was set.  *)
(* No entries, capacities or growth.  Keys may be so near to each other    *)
(* that a program cannot rely on their being different: a set of one of    *)
(* them may be a set of the others too; what is set for some keys is lost. *)
(* Table implements this specification.                                    *)
(***************************************************************************)
CONSTANTS
  Key,    \* values that may be keys
  Other,  \* values that may not
  Value,  \* what a table may hold
  None,   \* nil
  Lost,   \* keys that a table never finds
  Near    \* pairs of keys that may be taken for each other

VARIABLES
  map,    \* the value of every key
  answer  \* the last call and what it returned

mvars == <<map, answer>>

Error == [error |-> TRUE]

Answer(call, r) == answer' = [call |-> call, result |-> r]

MInit ==
  /\ map = [k \in Key |-> None]
  /\ answer = [call |-> <<"new">>, result |-> None]

Read(k) ==
  /\ k \in Key
  /\ Answer(<<"get", k>>, map[k])
  /\ UNCHANGED map

WriteLost(k, v) ==
  /\ k \in Lost
  /\ Answer(<<"set", k, v>>, None)
  /\ UNCHANGED map

\* The key has the value afterwards, and keys near to it may have got it too.
Write(k, v) ==
  /\ k \in Key \ Lost
  /\ Answer(<<"set", k, v>>, None)
  /\ \E S \in SUBSET {x \in Key : <<x, k>> \in Near} :
       map' = [x \in Key |-> IF x = k \/ x \in S THEN v ELSE map[x]]

\* No memory for a key that is new.
WriteFails(k, v) ==
  /\ k \in Key
  /\ map[k] = None
  /\ Answer(<<"set", k, v>>, Error)
  /\ UNCHANGED map

Refuse(k) ==
  /\ k \in Other
  /\ \/ Answer(<<"get", k>>, Error)
     \/ \E v \in Value : Answer(<<"set", k, v>>, Error)
  /\ UNCHANGED map

MNext ==
  \/ \E k \in Key :
       \/ Read(k)
       \/ \E v \in Value : Write(k, v) \/ WriteLost(k, v) \/ WriteFails(k, v)
  \/ \E k \in Other : Refuse(k)

MSpec == MInit /\ [][MNext]_mvars
=============================================================================
