------------------------------ MODULE Scheduler ------------------------------
(***************************************************************************)
(* The cooperative scheduler and the mailbox of its actors: the process    *)
(* table with its generation-tagged pids, the lists pendings, runnings and *)
(* waitings, the timer, and what an actor does between two context         *)
(* switches (yield, sleep, receive, send, spawn, exit).                    *)
(*                                                                         *)
(* One C thread runs everything.  cur is the task that owns it: Root, the  *)
(* host between two calls of the library, or a process.  Every action is   *)
(* one library call, up to the context switch it ends in; the code after   *)
(* the switch belongs to the next action of the resumed task.  The root    *)
(* task is always the last node of the circular list runnings and is left  *)
(* out of the sequence.                                                    *)
(***************************************************************************)
EXTENDS Pid, Lists

CONSTANTS
  Msgs,      \* values a message may have
  Periods,   \* microseconds given to sleep and receive; -1 is AINFINITE
  MaxLag,    \* bound: how far the clock may run ahead of the timer
  MaxMbox,   \* bound: messages in one mailbox
  MaxLives   \* bound: processes created in one slot

ASSUME SchedulerAssumption ==
  /\ Periods \subseteq Int
  /\ MaxLag \in Nat
  /\ MaxMbox \in Nat
  /\ MaxLives \in Nat

Procs == 0 .. NumProcs - 1
Root == -1
AINFINITE == -1
ADONT_WAIT == 0

VARIABLES
  up,           \* FALSE once ascheduler_cleanup has run
  cur,          \* the task that owns the thread
  dead,         \* aprocess_t.dead
  pid,          \* aprocess_t.pid
  wait_for,     \* aprocess_t.wait_for
  wake_on_msg,  \* aprocess_t.wake_on_msg
  next_idx,     \* where ascheduler_alloc starts its scan
  num_procs,    \* number of slots taken
  first_run,    \* TRUE until the first ascheduler_run_once
  pendings,     \* created, not started
  runnings,     \* runnable, in the order they will run; Root follows the last
  waitings,     \* suspended
  lag,          \* atimer_usecs() - ascheduler_t.timer
  pc,           \* what each process is doing
  msbox,        \* mailbox of each actor, 1 .. msbox.sp
  msg_pp        \* how many messages of the mailbox were peeked

(***************************************************************************)
(* History variables: they are read by properties only.                    *)
(***************************************************************************)
VARIABLES
  lives,        \* how many processes each slot has held
  issued,       \* pids handed out, with the slot and the life they mean
  nap           \* per slot: the period asked for, the time spent waiting,
                \* and how late the timer was when the wait began

table == <<dead, pid, next_idx, num_procs, lives, issued>>
lists == <<pendings, runnings, waitings>>
waits == <<wait_for, wake_on_msg, nap>>
mail  == <<msbox, msg_pp>>
time  == <<lag, first_run>>
vars  == <<up, cur, pc, table, lists, waits, mail, time>>

(***************************************************************************)
(* pc[p] of a slot:                                                        *)
(*   none   the slot has no C stack and is in no list                      *)
(*   new    created by the host, waiting for ascheduler_start              *)
(*   stuck  in pendings with nobody left who could start it                *)
(*   run    inside the actor's own code                                    *)
(*   recv   inside any_mbox_recv, suspended in ascheduler_wait             *)
(*   done   APF_EXIT is set: in the final yield loop of actor_entry        *)
(***************************************************************************)
Pcs == {"none", "new", "stuck", "run", "recv", "done"}

NoNap == [usecs |-> AINFINITE, slept |-> 0, credit |-> 0]
-----------------------------------------------------------------------------
\* Fault, for the mutation runs: a task switches back to the root.
NextTask_root(p) == Root

\* node.next of a process in runnings; after the last one comes the root.
NextTask(p) ==
  LET i == CHOOSE i \in 1 .. Len(runnings) : runnings[i] = p
  IN  IF i < Len(runnings) THEN runnings[i + 1] ELSE Root

\* Fault: the node is linked into runnings without being unlinked first.
add_to_runnings_linked_twice(p) ==
  /\ runnings' = Append(Erase(runnings, p), p)
  /\ UNCHANGED <<pendings, waitings>>

\* The node is unlinked from whatever list it is in and linked before root.
add_to_runnings(p) ==
  /\ pendings' = Erase(pendings, p)
  /\ waitings' = Erase(waitings, p)
  /\ runnings' = Append(Erase(runnings, p), p)

\* The slot a pid refers to: a set of at most one process.
ascheduler_actor(q) ==
  {p \in Procs : p = apid_idx(q) /\ pid[p] = q /\ ~dead[p]}
-----------------------------------------------------------------------------
Init ==
  /\ up = TRUE
  /\ cur = Root
  /\ dead = [p \in Procs |-> TRUE]
  /\ pid = [p \in Procs |-> 0]
  /\ wait_for = [p \in Procs |-> 0]
  /\ wake_on_msg = [p \in Procs |-> FALSE]
  /\ next_idx = 0
  /\ num_procs = 0
  /\ first_run = TRUE
  /\ pendings = <<>>
  /\ runnings = <<>>
  /\ waitings = <<>>
  /\ lag = 0
  /\ pc = [p \in Procs |-> "none"]
  /\ msbox = [p \in Procs |-> <<>>]
  /\ msg_pp = [p \in Procs |-> 0]
  /\ lives = [p \in Procs |-> 0]
  /\ issued = {}
  /\ nap = [p \in Procs |-> NoNap]
-----------------------------------------------------------------------------
(***************************************************************************)
(* Creating processes.                                                     *)
(***************************************************************************)

\* How many slots the scan looks at before it reaches p.
ScanDist(p) == (p - next_idx) % NumProcs

\* Fault: the generation of the slot is not advanced.
NextGen_same(p) == apid_gen(pid[p])

\* The generation that the next process of the slot gets.
NextGen(p) == (apid_gen(pid[p]) + 1) % NumGens

\* The first dead slot from next_idx on is taken and gets a fresh pid.
ascheduler_alloc(p) ==
  /\ dead[p]
  /\ \A q \in Procs : dead[q] => ScanDist(p) <= ScanDist(q)
  /\ lives[p] < MaxLives
  /\ next_idx' = (p + 1) % NumProcs
  /\ pid' = [pid EXCEPT ![p] = apid_from(p, NextGen(p))]
  /\ dead' = [dead EXCEPT ![p] = FALSE]
  /\ wait_for' = [wait_for EXCEPT ![p] = 0]
  /\ wake_on_msg' = [wake_on_msg EXCEPT ![p] = FALSE]
  /\ num_procs' = num_procs + 1
  /\ lives' = [lives EXCEPT ![p] = @ + 1]
  /\ nap' = nap

\* aactor_init: a zeroed actor with an empty mailbox.
aactor_init(p) ==
  /\ msbox' = [msbox EXCEPT ![p] = <<>>]
  /\ msg_pp' = [msg_pp EXCEPT ![p] = 0]

\* The pid is given to the creator, who may pass it on.
Issue(p) ==
  issued' = issued \cup {[pid |-> pid'[p], proc |-> p, life |-> lives'[p]]}

\* The task that may call into the library now.
HostCalls == up /\ cur = Root
ActorCalls == up /\ cur # Root /\ pc[cur] = "run"

\* ascheduler_new_actor called by the host: the process waits in pendings.
HostNewActor ==
  /\ HostCalls
  /\ \E p \in Procs :
       /\ ascheduler_alloc(p)
       /\ aactor_init(p)
       /\ Issue(p)
       /\ pc' = [pc EXCEPT ![p] = "new"]
       /\ pendings' = Append(pendings, p)
  /\ UNCHANGED <<up, cur, runnings, waitings, time>>

\* ascheduler_start on a process the host has created.
HostStart(p) ==
  /\ HostCalls
  /\ pc[p] = "new"
  /\ pc' = [pc EXCEPT ![p] = "run"]
  /\ add_to_runnings(p)
  /\ UNCHANGED <<up, cur, table, waits, mail, time>>

\* any_spawn by the running actor: created and started in one call.
SpawnStarted ==
  /\ ActorCalls
  /\ \E p \in Procs :
       /\ ascheduler_alloc(p)
       /\ aactor_init(p)
       /\ Issue(p)
       /\ pc' = [pc EXCEPT ![p] = "run"]
       /\ runnings' = Append(runnings, p)
  /\ UNCHANGED <<up, cur, pendings, waitings, time>>

\* Two failures after the slot was taken leave a process in pendings that
\* nobody can start: aactor_init fails (ascheduler_new_actor links it and
\* returns the error), or an argument of any_spawn has a type that cannot be
\* passed (the error is raised before ascheduler_start).
SpawnStuck ==
  /\ HostCalls \/ ActorCalls
  /\ \E p \in Procs :
       /\ ascheduler_alloc(p)
       /\ aactor_init(p)
       /\ pc' = [pc EXCEPT ![p] = "stuck"]
       /\ pendings' = Append(pendings, p)
  /\ UNCHANGED <<up, cur, runnings, waitings, issued, time>>

\* atask_create fails: ascheduler_new_actor returns with the slot taken and
\* the process in no list.
SpawnNoTask ==
  /\ HostCalls \/ ActorCalls
  /\ \E p \in Procs : ascheduler_alloc(p)
  /\ UNCHANGED <<up, cur, pc, lists, issued, mail, time>>
-----------------------------------------------------------------------------
(***************************************************************************)
(* What the running actor calls.                                           *)
(***************************************************************************)

\* The caller leaves runnings and the next task in the list gets the thread.
\* Its successor is read before it is unlinked.
wait_for_(p, usecs, on_msg) ==
  /\ cur' = NextTask(p)
  /\ runnings' = Erase(runnings, p)
  /\ waitings' = Append(waitings, p)
  /\ wait_for' = [wait_for EXCEPT ![p] = usecs]
  /\ wake_on_msg' = [wake_on_msg EXCEPT ![p] = on_msg]
  /\ nap' = [nap EXCEPT ![p] =
       IF usecs < 0 THEN NoNap
       ELSE [usecs |-> usecs, slept |-> 0, credit |-> lag]]

\* any_yield, and the loop actor_entry ends in.
Yield ==
  /\ up /\ cur # Root
  /\ pc[cur] \in {"run", "done"}
  /\ cur' = NextTask(cur)
  /\ UNCHANGED <<up, pc, table, lists, waits, mail, time>>

Sleep(usecs) ==
  /\ ActorCalls
  /\ wait_for_(cur, usecs, FALSE)
  /\ UNCHANGED <<up, pc, pendings, table, mail, time>>

\* any_mbox_recv finds a message: it is peeked, not removed.
Peek ==
  /\ up /\ cur # Root
  /\ pc[cur] \in {"run", "recv"}
  /\ msg_pp[cur] < Len(msbox[cur])
  /\ msg_pp' = [msg_pp EXCEPT ![cur] = @ + 1]
  /\ pc' = [pc EXCEPT ![cur] = "run"]
  /\ UNCHANGED <<up, cur, table, lists, waits, msbox, time>>

\* any_mbox_recv finds none and waits, once.
RecvWait(usecs) ==
  /\ ActorCalls
  /\ msg_pp[cur] >= Len(msbox[cur])
  /\ usecs # ADONT_WAIT
  /\ wait_for_(cur, usecs, TRUE)
  /\ pc' = [pc EXCEPT ![cur] = "recv"]
  /\ UNCHANGED <<up, pendings, table, mail, time>>

\* Resumed after the wait with still no message: AERR_TIMEOUT.
RecvTimeout ==
  /\ up /\ cur # Root
  /\ pc[cur] = "recv"
  /\ msg_pp[cur] >= Len(msbox[cur])
  /\ pc' = [pc EXCEPT ![cur] = "run"]
  /\ UNCHANGED <<up, cur, table, lists, waits, mail, time>>

\* Faults: the peek position is kept; the oldest message is taken out.
Remove_keeps_pp ==
  /\ ActorCalls
  /\ msg_pp[cur] > 0
  /\ msbox' = [msbox EXCEPT ![cur] =
       SubSeq(@, 1, msg_pp[cur] - 1) \o SubSeq(@, msg_pp[cur] + 1, Len(@))]
  /\ UNCHANGED <<up, cur, pc, table, lists, waits, msg_pp, time>>
Remove_oldest ==
  /\ ActorCalls
  /\ msg_pp[cur] > 0
  /\ msbox' = [msbox EXCEPT ![cur] = Tail(@)]
  /\ msg_pp' = [msg_pp EXCEPT ![cur] = 0]
  /\ UNCHANGED <<up, cur, pc, table, lists, waits, time>>

\* The message last peeked is taken out and the next receive starts at the
\* front again.
Remove ==
  /\ ActorCalls
  /\ msg_pp[cur] > 0
  /\ msbox' = [msbox EXCEPT ![cur] =
       SubSeq(@, 1, msg_pp[cur] - 1) \o SubSeq(@, msg_pp[cur] + 1, Len(@))]
  /\ msg_pp' = [msg_pp EXCEPT ![cur] = 0]
  /\ UNCHANGED <<up, cur, pc, table, lists, waits, time>>

Rewind ==
  /\ ActorCalls
  /\ msg_pp' = [msg_pp EXCEPT ![cur] = 0]
  /\ UNCHANGED <<up, cur, pc, table, lists, waits, msbox, time>>

\* Faults: a message wakes nobody; the receiver is woken with its period.
got_new_message_quiet(p) == UNCHANGED <<waits, lists>>
got_new_message_keeps_period(p) ==
  IF wake_on_msg[p]
  THEN /\ wake_on_msg' = [wake_on_msg EXCEPT ![p] = FALSE]
       /\ add_to_runnings(p)
       /\ UNCHANGED <<wait_for, nap>>
  ELSE UNCHANGED <<waits, lists>>

\* ascheduler_got_new_message.
got_new_message(p) ==
  IF wake_on_msg[p]
  THEN /\ wait_for' = [wait_for EXCEPT ![p] = 0]
       /\ wake_on_msg' = [wake_on_msg EXCEPT ![p] = FALSE]
       /\ nap' = [nap EXCEPT ![p] = NoNap]
       /\ add_to_runnings(p)
  ELSE UNCHANGED <<waits, lists>>

\* any_mbox_send to a process that is still there.
Send(q, m) ==
  /\ ActorCalls
  /\ \E p \in ascheduler_actor(q) :
       /\ Len(msbox[p]) < MaxMbox
       /\ msbox' = [msbox EXCEPT ![p] = Append(@, m)]
       /\ got_new_message(p)
  /\ UNCHANGED <<up, cur, pc, table, msg_pp, time>>

\* any_mbox_send returns without a word when the process has gone, or when
\* the copy of a string does not fit in the receiver's heap.
SendDropped(q, m) ==
  /\ ActorCalls
  /\ UNCHANGED vars

\* The entry function returns or raises an uncaught error: actor_entry sets
\* the flag and yields; the process stays in runnings.
Exit ==
  /\ ActorCalls
  /\ pc' = [pc EXCEPT ![cur] = "done"]
  /\ cur' = NextTask(cur)
  /\ UNCHANGED <<up, table, lists, waits, mail, time>>
-----------------------------------------------------------------------------
(***************************************************************************)
(* The host's turn.                                                        *)
(***************************************************************************)

\* Fault: the count of processes is not taken down.
CountWithout_same(G) == num_procs

\* ascheduler_free of every process of G.
CountWithout(G) == num_procs - Cardinality(G)

\* aactor_cleanup and ascheduler_free for every process of G.  What is left
\* in the memory of a dead actor is not observable: it is reset here.
free_all(G) ==
  /\ dead' = [p \in Procs |-> dead[p] \/ p \in G]
  /\ num_procs' = CountWithout(G)
  /\ pc' = [p \in Procs |-> IF p \in G THEN "none" ELSE pc[p]]
  /\ msbox' = [p \in Procs |-> IF p \in G THEN <<>> ELSE msbox[p]]
  /\ msg_pp' = [p \in Procs |-> IF p \in G THEN 0 ELSE msg_pp[p]]
  /\ UNCHANGED <<pid, next_idx, lives, issued>>

\* Fault: a pass does not look for exited processes.
Exited_ignored == {}

Exited == {p \in Range(runnings) : pc[p] = "done"}

\* Fault: the timer counts passes.
Delta_one == IF first_run THEN 0 ELSE 1

\* How far the timer moves in this pass; not at all in the first one.
Delta == IF first_run THEN 0 ELSE lag

\* Fault: only a wait that ends exactly now ends.
Woken_on_time ==
  {p \in Range(waitings) :
     ~first_run /\ wait_for[p] >= 0 /\ wait_for[p] - Delta = 0}

\* check_waitings: who is woken when the timer moves.
Woken ==
  {p \in Range(waitings) :
     ~first_run /\ wait_for[p] >= 0 /\ wait_for[p] - Delta <= 0}

\* ascheduler_run_once up to the switch to the first process: exited
\* processes are freed, the timer is set to the clock, the processes whose
\* period has elapsed go to the end of runnings, the head of runnings runs.
RunOnce ==
  /\ HostCalls
  /\ free_all(Exited)
  /\ first_run' = FALSE
  /\ lag' = 0
  /\ runnings' = Filter(runnings, Procs \ Exited) \o Filter(waitings, Woken)
  /\ waitings' = Filter(waitings, Procs \ Woken)
  /\ wait_for' = [p \in Procs |->
       CASE p \in Woken -> 0
         [] p \in Range(waitings) \ Woken /\ wait_for[p] >= 0
              -> wait_for[p] - Delta
         [] OTHER -> wait_for[p]]
  /\ wake_on_msg' = [p \in Procs |-> wake_on_msg[p] /\ p \notin Woken]
  /\ nap' = [p \in Procs |-> IF p \in Woken THEN NoNap ELSE nap[p]]
  /\ cur' = IF runnings' = <<>> THEN Root ELSE Head(runnings')
  /\ UNCHANGED <<up, pendings>>

\* ascheduler_cleanup: every process of the three lists is freed.
Shutdown ==
  /\ HostCalls
  /\ up' = FALSE
  /\ free_all(Range(pendings) \cup Range(runnings) \cup Range(waitings))
  /\ pendings' = <<>>
  /\ runnings' = <<>>
  /\ waitings' = <<>>
  /\ UNCHANGED <<cur, waits, time>>

\* The clock moves on, whoever runs.
Tick ==
  /\ up
  /\ lag < MaxLag
  /\ lag' = lag + 1
  /\ nap' = [p \in Procs |->
       IF p \in Range(waitings) /\ wait_for[p] >= 0
       THEN [nap[p] EXCEPT !.slept = @ + 1] ELSE nap[p]]
  /\ UNCHANGED <<up, cur, pc, table, lists, wait_for, wake_on_msg, mail,
                 first_run>>
-----------------------------------------------------------------------------
Pids == {r.pid : r \in issued}

Create == HostNewActor \/ SpawnStarted \/ SpawnStuck \/ SpawnNoTask

Receive == Peek \/ RecvTimeout \/ Remove \/ Rewind
           \/ \E usecs \in Periods : RecvWait(usecs)

ActorStep ==
  \/ Yield
  \/ Exit
  \/ Receive
  \/ \E usecs \in Periods : Sleep(usecs)
  \/ \E q \in Pids, m \in Msgs : Send(q, m) \/ SendDropped(q, m)

Next ==
  \/ Create
  \/ \E p \in Procs : HostStart(p)
  \/ ActorStep
  \/ RunOnce
  \/ Shutdown
  \/ Tick

Spec == Init /\ [][Next]_vars
-----------------------------------------------------------------------------
(***************************************************************************)
(* Fairness: the host calls ascheduler_run_once again and again, the clock *)
(* advances, and the code of an actor runs on to its next library call.    *)
(***************************************************************************)
FairSpec == Spec /\ WF_vars(RunOnce) /\ WF_vars(Tick) /\ WF_vars(ActorStep)
=============================================================================
