---------------------------- MODULE DebugServer ------------------------------
(***************************************************************************)
(* The debug server (db.c): requests of clients become operations of the   *)
(* loader, and every successful link is told to the subscribers.  The host *)
(* is the loop of amlc's execute: between two calls of adb_run_once it may *)
(* add chunks and link safely itself; it never sweeps.                     *)
(*                                                                         *)
(* Requests are taken for what they do; wrong methods, URIs and content    *)
(* types are answered with an error and nothing else.  A POST without a    *)
(* content type, whose name db.c compares all the same, is left out.  The  *)
(* actor that a request starts belongs to Scheduler.                       *)
(***************************************************************************)
EXTENDS Loader, WebServer

CONSTANT BAD   \* a chunk that aloader_add_chunk refuses

VARIABLES
  db,       \* "off" or "on"
  hooked,   \* the loader calls handle_linked
  told      \* history: the clients that have heard of the last link

allvars == <<vars, web, db, hooked, told>>
serverside == <<db, hooked, told>>

Plain(op) == [op |-> op, chunk |-> BAD]
Requests ==
  {Plain(op) : op \in {"look", "link", "push"}}
    \cup [op : {"add"}, chunk : Chunks \cup {BAD}]
PostsChunk(ask) == ask.op = "add"

\* push: every connection with the mark; on a web socket it is a message.
Marked == {con[i].who : i \in {j \in Active : con[j].push /\ con[j].websocket}}

\* handle_linked, when the loader calls it.
handle_linked == told' = IF hooked THEN Marked ELSE {}

\* A link, with the handler at its end.
LinkAndTell(safe) ==
  \/ LinkSucceeds /\ handle_linked
  \/ (LinkFailsOnPending(safe) \/ LinkFailsOnRunning(safe)) /\ UNCHANGED told
-----------------------------------------------------------------------------
DInit ==
  /\ Init
  /\ WInit
  /\ db = "off"
  /\ hooked = FALSE
  /\ told = {}

\* adb_init that succeeds; one that fails leaves nothing behind.
adb_init ==
  /\ phase = "host"
  /\ db = "off"
  /\ db' = "on"
  /\ wby_start
  /\ hooked' = TRUE
  /\ told' = {}
  /\ UNCHANGED vars

\* adb_cleanup: detach leaves the handler with the loader.
adb_cleanup ==
  /\ phase = "host"
  /\ db = "on"
  /\ db' = "off"
  /\ wby_stop
  /\ UNCHANGED <<vars, hooked, told>>

\* adb_run_once, up to the first connection.
adb_run_once == db = "on" /\ UpdateBegins /\ UNCHANGED <<vars, serverside>>

\* The host.  It does not link a loader that would call a released server.
Host ==
  /\ phase = "host"
  /\ \/ (\E c \in Chunks : AddChunk(c)) /\ UNCHANGED told
     \/ ~(hooked /\ db = "off") /\ LinkAndTell(TRUE)
  /\ UNCHANGED <<web, db, hooked>>
-----------------------------------------------------------------------------
\* A client's bytes are new each time: two clients never post one chunk, and
\* what is posted was not added before.
Fresh(ask) ==
  ask.op = "add" /\ ask.chunk # BAD =>
    /\ ask.chunk \notin Loaded \cup freed
    /\ \A c \in Clients : client[c].ask # ask

ClientStep ==
  /\ db = "on"
  /\ \E c \in Clients :
       \/ Call(c) \/ SendMore(c) \/ Leave(c)
       \/ \E ask \in Asks : Fresh(ask) /\ Ask(c, ask)
  /\ UNCHANGED <<vars, serverside>>

\* wby_update but for the handlers.  A client that is gone has heard nothing.
ServerStep ==
  /\ \/ \E c \in Clients : wby_on_incoming(c)
     \/ AcceptEnds
     \/ \E i \in Slots : ReadClosed(i) \/ ReadNothing(i) \/ ReadParts(i) \/ Compact(i)
     \/ ServeEnds \/ UpdateEnds
  /\ told' = {c \in told : client'[c].at # "away"}
  /\ UNCHANGED <<vars, db, hooked>>

Serving(op) == phase = "dispatch" /\ Request.op = op

\* What changes nothing here: handle_modules, GET; post_actor, with or without
\* room for the actor; requests that are refused.
Look == Serving("look") /\ Respond /\ UNCHANGED <<vars, serverside>>

\* post_chunk: without memory, and a chunk that is refused, nothing is added.
post_chunk ==
  /\ Serving("add")
  /\ BodyHere
  /\ LET posted == client[con[turn].who].ask.chunk
     IN  \/ UNCHANGED vars
         \/ posted \in Chunks /\ AddChunk(posted)
  /\ Respond
  /\ UNCHANGED serverside

\* post_chunk, whose body is lost: what malloc left in the rest of the memory
\* is refused, or taken for a chunk.
post_chunk_lost ==
  /\ Serving("add")
  /\ BodyLost
  /\ UNCHANGED vars \/ \E c \in Chunks : AddChunk(c)
  /\ UNCHANGED serverside

handle_modules_link ==
  /\ Serving("link")
  /\ LinkAndTell(TRUE)
  /\ Respond
  /\ UNCHANGED <<db, hooked>>

\* websocket_connect, websocket_connected: all subscribers are told.
Subscribe ==
  /\ Serving("push")
  /\ Upgrade
  /\ told' = told \cup {con'[i].who : i \in {j \in Active : con'[j].push /\ con'[j].websocket}}
  /\ UNCHANGED <<vars, db, hooked>>

Handler ==
  Look \/ post_chunk \/ handle_modules_link \/ Subscribe
-----------------------------------------------------------------------------
DNext ==
  \/ adb_init \/ adb_cleanup \/ adb_run_once \/ Host
  \/ ClientStep \/ ServerStep \/ Handler \/ post_chunk_lost

DSpec == DInit /\ [][DNext]_allvars

\* The host calls adb_run_once again and again, and a call makes progress.
FairDSpec ==
  DSpec /\ WF_allvars(adb_run_once) /\ WF_allvars(ServerStep) /\ WF_allvars(Handler)
=============================================================================
