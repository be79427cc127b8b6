----------------------------- MODULE WebServer -------------------------------
(***************************************************************************)
(* The connections of the single threaded web server (inc/any/wby.h) that  *)
(* the debug server runs on: an array of slots of which the first          *)
(* con_count are in use, and one call of wby_update, which accepts, serves *)
(* each slot in turn and closes the gaps.                                  *)
(*                                                                         *)
(* A request is two parts, so that it can arrive in two pieces: all of its *)
(* header that matters, and the end of the header; a request with a body   *)
(* has a third.  A client sends a request when it has the answer to the    *)
(* one before.  A socket that is closed by the client reads as closed at   *)
(* once, which drops what was not read yet.                                *)
(*                                                                         *)
(* Left out: a socket that the server fails to configure when it accepts   *)
(* it.  A slot is looked at in its turn, not as select saw all of them     *)
(* before the first: what arrives in between is read a call earlier.       *)
(***************************************************************************)
EXTENDS Integers, FiniteSets

CONSTANTS
  Clients,
  ConnectionMax,
  Asks,          \* the requests
  HasBody(_),    \* whether a request has a body
  NOBODY         \* the client of a slot never used, and the ask of an idle client

ASSUME WebServerAssumption == ConnectionMax \in Nat /\ NOBODY \notin Clients

VARIABLES
  con,           \* con[i]: the slot i
  con_count,     \* slots in use
  header_data,   \* header_data[b]: the parts last written to header buffer b
  phase,         \* what wby_update is doing; "host" outside of it
  turn,          \* the slot it looks at
  client         \* client[c]: the other end

web == <<con, con_count, header_data, phase, turn, client>>

Slots == 1 .. ConnectionMax
Active == 1 .. con_count
Parts(ask) == IF HasBody(ask) THEN 3 ELSE 2

Idle == [at |-> "away", ask |-> NOBODY, sent |-> 0]

\* wby_start: every slot gets a buffer of its own, all memory is zero.
\* alone is a history: no other slot in use has had the buffer of this one
\* since its connection was accepted.
Unused ==
  [i \in Slots |->
     [who |-> NOBODY, alive |-> FALSE, websocket |-> FALSE, push |-> FALSE,
      head |-> i, used |-> 0, alone |-> TRUE]]
Nothing == [from |-> NOBODY, ask |-> NOBODY]
Zero == [b \in Slots |-> [k \in 1 .. 2 |-> Nothing]]

\* Bytes that no slot has counted as read are never looked at: the model
\* forgets them.
StillRead(d, slots, n) ==
  [b \in Slots |-> [k \in 1 .. 2 |->
     IF \E i \in 1 .. n : slots[i].head = b /\ slots[i].used >= k
     THEN d[b][k] ELSE Nothing]]
Forget == header_data' = StillRead(header_data, con', con_count')

WInit ==
  /\ con = Unused
  /\ con_count = 0
  /\ header_data = Zero
  /\ phase = "host"
  /\ turn = 1
  /\ client = [c \in Clients |-> Idle]

wby_start ==
  /\ con' = Unused
  /\ con_count' = 0
  /\ header_data' = Zero
  /\ UNCHANGED <<phase, turn, client>>

\* wby_connection_reset: user_data survives on a web socket only.
wby_connection_reset(s) ==
  [s EXCEPT !.push = @ /\ s.websocket, !.used = 0]
-----------------------------------------------------------------------------
(***************************************************************************)
(* The clients.                                                            *)
(***************************************************************************)

\* c connects; the socket waits to be accepted.
Call(c) ==
  /\ client[c].at = "away"
  /\ client' = [client EXCEPT ![c].at = "calling"]
  /\ UNCHANGED <<con, con_count, header_data, phase, turn>>

\* c sends the first part of a request.
Ask(c, ask) ==
  /\ client[c].at = "served"
  /\ client[c].sent = 0
  /\ client' = [client EXCEPT ![c].ask = ask, ![c].sent = 1]
  /\ UNCHANGED <<con, con_count, header_data, phase, turn>>

\* c sends the next part.
SendMore(c) ==
  /\ client[c].at = "served"
  /\ client[c].sent > 0
  /\ client[c].sent < Parts(client[c].ask)
  /\ client' = [client EXCEPT ![c].sent = @ + 1]
  /\ UNCHANGED <<con, con_count, header_data, phase, turn>>

\* c closes its end.
Leave(c) ==
  /\ client[c].at \in {"served", "subscribed"}
  /\ client' = [client EXCEPT ![c] = [Idle EXCEPT !.at = "left"]]
  /\ UNCHANGED <<con, con_count, header_data, phase, turn>>
-----------------------------------------------------------------------------
(***************************************************************************)
(* wby_update.                                                             *)
(***************************************************************************)

UpdateBegins ==
  /\ phase = "host"
  /\ phase' = "accept"
  /\ UNCHANGED <<con, con_count, header_data, turn, client>>

\* Two slots with one buffer.
Share(i, j) == i # j /\ con[i].head = con[j].head

\* The history when the slot new comes into use.
StillAlone(new) ==
  [k \in Slots |->
     IF k = new THEN \A i \in Active : ~Share(i, new)
     ELSE con[k].alone /\ ~Share(k, new)]

\* wby_on_incoming: the slot is reset with the flags of its last use.
wby_on_incoming(c) ==
  /\ phase = "accept"
  /\ con_count < ConnectionMax
  /\ client[c].at = "calling"
  /\ con_count' = con_count + 1
  /\ LET new   == con_count + 1
         fresh == [wby_connection_reset(con[new]) EXCEPT
                     !.who = c, !.alive = TRUE, !.websocket = FALSE]
     IN  con' = [k \in Slots |->
           [(IF k = new THEN fresh ELSE con[k]) EXCEPT !.alone = StillAlone(new)[k]]]
  /\ client' = [client EXCEPT ![c].at = "served"]
  /\ UNCHANGED <<header_data, phase, turn>>

AcceptEnds ==
  /\ phase = "accept"
  /\ con_count = ConnectionMax \/ \A c \in Clients : client[c].at # "calling"
  /\ phase' = "serve"
  /\ turn' = 1
  /\ UNCHANGED <<con, con_count, header_data, client>>

\* wby_socket_recv: what has arrived goes behind what is in the buffer.
wby_socket_recv(s, d, n) == [d EXCEPT ![s.head] =
  [k \in 1 .. 2 |->
     IF s.used < k /\ k <= n THEN [from |-> s.who, ask |-> client[s.who].ask] ELSE @[k]]]

\* wby_update_connection: a socket that is closed ends it, as do a header too
\* large for the buffer and one that cannot be parsed.
ReadClosed(i) ==
  /\ phase = "serve" /\ turn = i /\ i \in Active
  /\ client[con[i].who].at = "left"
  /\ con' = [con EXCEPT ![i].alive = FALSE]
  /\ turn' = i + 1
  /\ UNCHANGED <<con_count, header_data, phase, client>>

Unread(i) ==
  IF con[i].websocket THEN FALSE ELSE client[con[i].who].sent > con[i].used

\* Nothing to read: the next slot.
ReadNothing(i) ==
  /\ phase = "serve" /\ turn = i /\ i \in Active
  /\ client[con[i].who].at # "left"
  /\ ~Unread(i)
  /\ turn' = i + 1
  /\ UNCHANGED <<con, con_count, header_data, phase, client>>

\* Some of a request, or all of it, which is then served, after the line that
\* tells a client to continue when it waits for that.
ReadParts(i) ==
  /\ phase = "serve" /\ turn = i /\ i \in Active
  /\ client[con[i].who].at # "left"
  /\ Unread(i)
  /\ LET n == IF client[con[i].who].sent = 1 THEN 1 ELSE 2
     IN  /\ header_data' = wby_socket_recv(con[i], header_data, n)
         /\ con' = [con EXCEPT ![i].used = n]
         /\ IF n = 2
            THEN phase' = "dispatch" /\ UNCHANGED turn
            ELSE turn' = i + 1 /\ UNCHANGED phase
  /\ UNCHANGED <<con_count, client>>

\* Fault: the loop ends before the last slot.
ServeEnds_short ==
  /\ phase = "serve"
  /\ turn >= con_count
  /\ phase' = "compact"
  /\ turn' = 1
  /\ UNCHANGED <<con, con_count, header_data, client>>

ServeEnds ==
  /\ phase = "serve"
  /\ turn > con_count
  /\ phase' = "compact"
  /\ turn' = 1
  /\ UNCHANGED <<con, con_count, header_data, client>>

\* Fault: the flags of a closed slot stay.
Closed_keeps_flags(i) ==
  [k \in Slots |-> IF k \in i .. con_count - 1 THEN con[k + 1] ELSE con[k]]

\* wby_connection_close, and the slots behind are moved down: their buffers
\* move with them, and the last one stays behind as a copy.
Closed(i) ==
  [k \in Slots |-> IF k \in i .. con_count - 1 THEN con[k + 1]
     ELSE IF k = i THEN [con[k] EXCEPT !.alive = FALSE, !.websocket = FALSE]
     ELSE con[k]]

Compact(i) ==
  /\ phase = "compact" /\ turn = i /\ i \in Active
  /\ IF con[i].alive
     THEN turn' = i + 1 /\ UNCHANGED <<con, con_count, client>>
     ELSE /\ con' = Closed(i)
          /\ con_count' = con_count - 1
          /\ client' = [client EXCEPT ![con[i].who] = Idle]
          /\ UNCHANGED turn
  /\ Forget
  /\ UNCHANGED phase

UpdateEnds ==
  /\ phase = "compact"
  /\ turn > con_count
  /\ phase' = "host"
  /\ turn' = 1
  /\ UNCHANGED <<con, con_count, header_data, client>>
-----------------------------------------------------------------------------
(***************************************************************************)
(* What a handler of the request in slot turn uses.                        *)
(***************************************************************************)

\* The request line and the header, whoever wrote them.
Request == header_data[con[turn].head][1].ask

\* The body comes from the socket of the slot, and reading it blocks.  When
\* the client closes instead it never ends (wby_read takes 0 for progress).
BodyHere == client[con[turn].who].sent = 3

\* The read of a body fails.  The handler goes on, but its response waits for
\* the body too and fails: the connection is in the handler again, and in the
\* next read for ever.
BodyLost ==
  /\ client[con[turn].who].at = "left"
  /\ con[turn].alive
  /\ con' = [con EXCEPT ![turn].alive = FALSE]
  /\ UNCHANGED <<con_count, header_data, phase, turn, client>>

\* wby_response_begin .. wby_response_end, then the next request, or the end
\* of the connection for a client that wants it closed.
Respond ==
  /\ \/ con' = [con EXCEPT ![turn] = wby_connection_reset(@)] /\ UNCHANGED turn
     \/ con' = [con EXCEPT ![turn].alive = FALSE] /\ turn' = turn + 1
  /\ client' = [client EXCEPT ![con[turn].who] =
       IF @.at = "served" THEN [Idle EXCEPT !.at = "served"] ELSE @]
  /\ phase' = "serve"
  /\ UNCHANGED con_count
  /\ Forget

\* Fault: the upgrade is reset like any other request.
Upgrade_reset ==
  /\ con' = [con EXCEPT ![turn] =
       [wby_connection_reset([@ EXCEPT !.push = TRUE]) EXCEPT !.websocket = TRUE]]
  /\ client' = [client EXCEPT ![con[turn].who] =
       IF @.at = "served" THEN [Idle EXCEPT !.at = "subscribed"] ELSE @]
  /\ phase' = "serve"
  /\ UNCHANGED <<con_count, turn>>
  /\ Forget

\* The upgrade to a web socket, with user_data set by ws_connected.
Upgrade ==
  /\ con' = [con EXCEPT ![turn] =
       wby_connection_reset([@ EXCEPT !.websocket = TRUE, !.push = TRUE])]
  /\ client' = [client EXCEPT ![con[turn].who] =
       IF @.at = "served" THEN [Idle EXCEPT !.at = "subscribed"] ELSE @]
  /\ phase' = "serve"
  /\ UNCHANGED <<con_count, turn>>
  /\ Forget

\* wby_stop; the memory of the slots is released after it.
wby_stop ==
  /\ con' = Unused
  /\ con_count' = 0
  /\ header_data' = Zero
  /\ client' = [c \in Clients |-> Idle]
  /\ UNCHANGED <<phase, turn>>
=============================================================================
