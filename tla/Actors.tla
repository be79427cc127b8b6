------------------------------- MODULE Actors --------------------------------
(***************************************************************************)
(* What the scheduler promises to the actors, without lists, timers or     *)
(* pids: a pass of the host gives the thread once to every ready actor,    *)
(* those that become ready during the pass included; an actor waiting for  *)
(* a message is ready as soon as one is there; a mailbox is a queue with   *)
(* selective receive; only exited actors disappear while the host runs.    *)
(* Scheduler implements this specification (SchedulerRefinement).          *)
(***************************************************************************)
EXTENDS Integers, Sequences

CONSTANTS
  Actor,  \* places for actors
  Msg,    \* values of messages
  Host,   \* the host program
  Off     \* the host program, after the system was shut down

VARIABLES
  status,  \* "free", "lost", "idle", "ready", "asleep", "receiving", "done"
  active,  \* who has the thread
  due,     \* the ready actors that have yet to run in this pass
  seen,    \* messages peeked since the last removal or rewind
  unseen   \* messages that the next receives will find, oldest first

avars == <<status, active, due, seen, unseen>>

AInit ==
  /\ status = [a \in Actor |-> "free"]
  /\ active = Host
  /\ due = {}
  /\ seen = [a \in Actor |-> <<>>]
  /\ unseen = [a \in Actor |-> <<>>]

\* A new actor is idle until it is started, except one that an actor spawns,
\* which is ready at once and runs in this pass.  A failed creation may cost
\* a place for ever.
Create(a, s) ==
  /\ active # Off
  /\ status[a] = "free"
  /\ s \in {"idle", "lost"} \/ (s = "ready" /\ active # Host)
  /\ status' = [status EXCEPT ![a] = s]
  /\ due' = IF s = "ready" THEN due \cup {a} ELSE due
  /\ UNCHANGED <<active, seen, unseen>>

Start(a) ==
  /\ active = Host
  /\ status[a] = "idle"
  /\ status' = [status EXCEPT ![a] = "ready"]
  /\ UNCHANGED <<active, due, seen, unseen>>

\* The thread goes to an actor that is due, to the host when none is left.
PassOn(D) ==
  IF D = {} THEN active' = Host /\ due' = {}
  ELSE \E a \in D : active' = a /\ due' = D \ {a}

\* The active actor gives up the thread; it waits for a message only when it
\* has seen all of them.
GiveUp(s) ==
  /\ active \in Actor
  /\ s \in {"ready", "asleep", "receiving", "done"}
  /\ s = "receiving" => unseen[active] = <<>>
  /\ status' = [status EXCEPT ![active] = s]
  /\ PassOn(due)
  /\ UNCHANGED <<seen, unseen>>

\* A message goes to whoever has the place: one that is lost never reads it.
Deliver(a, m) ==
  /\ active \in Actor
  /\ status[a] # "free"
  /\ unseen' = [unseen EXCEPT ![a] = Append(@, m)]
  /\ IF status[a] = "receiving"
     THEN /\ status' = [status EXCEPT ![a] = "ready"]
          /\ due' = due \cup {a}
     ELSE UNCHANGED <<status, due>>
  /\ UNCHANGED <<active, seen>>

\* A receive sees the oldest unseen message and leaves it in the mailbox.
See ==
  /\ active \in Actor
  /\ unseen[active] # <<>>
  /\ seen' = [seen EXCEPT ![active] = Append(@, Head(unseen[active]))]
  /\ unseen' = [unseen EXCEPT ![active] = Tail(@)]
  /\ UNCHANGED <<status, active, due>>

\* The last seen message is removed; all others, in the order they arrived,
\* are unseen again.
Drop ==
  /\ active \in Actor
  /\ seen[active] # <<>>
  /\ LET s == seen[active]
     IN  unseen' = [unseen EXCEPT ![active] = SubSeq(s, 1, Len(s) - 1) \o @]
  /\ seen' = [seen EXCEPT ![active] = <<>>]
  /\ UNCHANGED <<status, active, due>>

SeeAgain ==
  /\ active \in Actor
  /\ unseen' = [unseen EXCEPT ![active] = seen[active] \o @]
  /\ seen' = [seen EXCEPT ![active] = <<>>]
  /\ UNCHANGED <<status, active, due>>

\* Emptied places keep no message.
Free(G) ==
  /\ seen' = [a \in Actor |-> IF a \in G THEN <<>> ELSE seen[a]]
  /\ unseen' = [a \in Actor |-> IF a \in G THEN <<>> ELSE unseen[a]]

\* The host starts a pass: all exited actors are freed, some that wait stop
\* waiting, and every ready actor is due.
HostPass ==
  /\ active = Host
  /\ LET gone == {a \in Actor : status[a] = "done"}
     IN  \E woken \in SUBSET {a \in Actor : status[a] \in {"asleep", "receiving"}} :
           /\ status' = [a \in Actor |->
                CASE a \in gone -> "free" [] a \in woken -> "ready"
                  [] OTHER -> status[a]]
           /\ Free(gone)
           /\ PassOn({a \in Actor : status'[a] = "ready"})

Stop ==
  /\ active = Host
  /\ active' = Off
  /\ status' = [a \in Actor |-> IF status[a] = "lost" THEN "lost" ELSE "free"]
  /\ Free({a \in Actor : status[a] # "lost"})
  /\ UNCHANGED due

ANext ==
  \/ \E a \in Actor, s \in {"idle", "ready", "lost"} : Create(a, s)
  \/ \E a \in Actor : Start(a)
  \/ \E s \in {"ready", "asleep", "receiving", "done"} : GiveUp(s)
  \/ \E a \in Actor, m \in Msg : Deliver(a, m)
  \/ See \/ Drop \/ SeeAgain
  \/ HostPass
  \/ Stop

ASpec == AInit /\ [][ANext]_avars
=============================================================================
