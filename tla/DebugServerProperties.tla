------------------------ MODULE DebugServerProperties ------------------------
(* What the debug server promises its clients.                             *)
EXTENDS DebugServer

\* A subscriber has heard of the last successful link, whoever asked for it,
\* also when slots have moved, other clients have left and the chunk that was
\* linked came from a third (handle_linked, push, the flags and user_data that
\* wby_connection_reset keeps).
SubscribersAreTold ==
  db = "on" => \A i \in Active : con[i].websocket => con[i].who \in told

\* However slots are closed, moved down and used again, with the flags, marks
\* and buffers left in them: a connection that has not met another one with
\* its buffer has read of a request only what its own client sent, and has the
\* mark of a subscriber exactly if it is a web socket.  Two connections that do
\* meet, which the copy left behind by a move makes possible, can write into
\* each other's requests, a defect of the code (wby_update, memmove).
SlotsKeepApart ==
  db = "on" => \A i \in {j \in Active : con[j].alone} :
    /\ con[i].push <=> con[i].websocket
    /\ \A k \in 1 .. con[i].used : header_data[con[i].head][k].from = con[i].who

\* c is served on a connection that never met another one with its buffer.
Alone(c) == \E i \in Active : con[i].who = c /\ con[i].alone

\* When calls of wby_update end (they need not: a handler waits for a body as
\* long as the client likes, and a client that asks again at once is served
\* again at once), a request that is complete is answered, unless the buffer it
\* is in becomes another's too.
AnswersCome ==
  []<>(phase = "host") =>
    \A c \in Clients :
      (client[c].at = "served" /\ client[c].ask # NOBODY
         /\ client[c].sent = Parts(client[c].ask) /\ Alone(c))
        ~> (client[c].sent = 0 \/ client[c].at # "served" \/ ~Alone(c))
=============================================================================
