------------------------------- MODULE Program -------------------------------
(***************************************************************************)
(* What the assembler promises to its host: a tree of prototypes that only *)
(* grows, one of them open at a time, and that is the same after it was    *)
(* saved and loaded.  No buffers, capacities, offsets or references of     *)
(* strings.  Assembler implements this specification.                      *)
(***************************************************************************)
EXTENDS Integers, Sequences

CONSTANTS
  Code,     \* instructions
  Const,    \* constants
  Import,   \* imports
  Name,     \* names of sources and symbols
  NoName,   \* the name of what has none
  Local     \* numbers of local variables

VARIABLES
  protos,   \* the prototypes in the order they were created
  where     \* the prototypes that are open, the root first

pvars == <<protos, where>>

Blank == [source |-> NoName, symbol |-> NoName, locals |-> 0, code |-> <<>>,
          consts |-> <<>>, imports |-> <<>>, nesteds |-> <<>>]

Here == where[Len(where)]
Loaded == protos # <<>>

PInit == protos = <<>> /\ where = <<>>
-----------------------------------------------------------------------------
\* Making room forgets how many local variables the open prototype has.
Kept == {protos[Here].locals, 0}

AddTo(field, item) ==
  /\ Loaded
  /\ \E n \in Kept :
       protos' = [protos EXCEPT ![Here][field] = Append(@, item),
                                ![Here].locals = n]
  /\ UNCHANGED where

SetLocals(n) ==
  /\ Loaded
  /\ protos' = [protos EXCEPT ![Here].locals = n]
  /\ UNCHANGED where

MakeRoom == SetLocals(0)

NameIt(field, name) ==
  /\ Loaded
  /\ protos' = [protos EXCEPT ![Here][field] = name]
  /\ UNCHANGED where

\* A nested prototype is added to the open one and is open then.
Nest(name) ==
  /\ Loaded
  /\ LET new == Len(protos) + 1
     IN  /\ \E n \in Kept :
              protos' = Append([protos EXCEPT ![Here].nesteds = Append(@, new),
                                              ![Here].locals = n],
                               [Blank EXCEPT !.symbol = name])
         /\ where' = Append(where, new)

Reopen ==
  /\ Loaded
  /\ \E i \in DOMAIN protos[Here].nesteds :
       where' = Append(where, protos[Here].nesteds[i])
  /\ UNCHANGED protos

Close ==
  /\ Len(where) > 1
  /\ where' = SubSeq(where, 1, Len(where) - 1)
  /\ UNCHANGED protos

\* Saved and loaded: the prototypes are created again, in another order; the
\* tree is the same.
Renamed(p, f) == [p EXCEPT !.nesteds = [k \in DOMAIN @ |-> f[@[k]]]]
Reload ==
  /\ Loaded
  /\ \E f \in [DOMAIN protos -> DOMAIN protos] :
       /\ f[1] = 1
       /\ \A i, j \in DOMAIN protos : f[i] = f[j] => i = j
       /\ DOMAIN protos' = DOMAIN protos
       /\ \A i \in DOMAIN protos : protos'[f[i]] = Renamed(protos[i], f)
  /\ where' = <<1>>

StartAnew ==
  /\ protos' \in {<<>>, <<Blank>>}
  /\ where' = IF protos' = <<>> THEN <<>> ELSE <<1>>

PNext ==
  \/ \E c \in Code : AddTo("code", c)
  \/ \E c \in Const : AddTo("consts", c)
  \/ \E i \in Import : AddTo("imports", i)
  \/ \E f \in {"source", "symbol"}, n \in Name : NameIt(f, n)
  \/ \E n \in Name \cup {NoName} : Nest(n)
  \/ \E n \in Local : SetLocals(n)
  \/ MakeRoom \/ Reopen \/ Close \/ Reload \/ StartAnew

PSpec == PInit /\ [][PNext]_pvars
=============================================================================
