------------------------------ MODULE MCServer -------------------------------
(***************************************************************************)
(* Instance of DebugServer for TLC: two clients, two slots and one chunk,  *)
(* added by the host or posted.  It imports what nobody provides: a link   *)
(* fails while it is pending, and a safe one throws it away.               *)
(***************************************************************************)
EXTENDS DebugServerProperties

CONSTANTS a1, c1, c2

OneChunk == {a1}
Modules == [c \in OneChunk |-> "A"]
Functions == [c \in OneChunk |-> {"f"}]
Needs == [c \in OneChunk |-> <<[module |-> "B", name |-> "h"]>>]

SomeAsks ==
  {Plain("look"), Plain("link"), Plain("push"), [op |-> "add", chunk |-> a1]}
=============================================================================
