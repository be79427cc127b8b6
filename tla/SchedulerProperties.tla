------------------------- MODULE SchedulerProperties -------------------------
(***************************************************************************)
(* What the scheduler must guarantee.  Each property names the behaviour   *)
(* of src/private/scheduler.c or src/private/actor.c it is about.          *)
(***************************************************************************)
EXTENDS Scheduler

TypeTable ==
  /\ dead \in [Procs -> BOOLEAN]
  /\ pid \in [Procs -> Nat]
  /\ next_idx \in Procs
  /\ num_procs \in Int
  /\ lives \in [Procs -> Nat]
  /\ issued \subseteq [pid : Nat, proc : Procs, life : Nat]

TypeLists ==
  /\ pendings \in Seq(Procs)
  /\ runnings \in Seq(Procs)
  /\ waitings \in Seq(Procs)

TypeWaits ==
  /\ wait_for \in [Procs -> Int]
  /\ wake_on_msg \in [Procs -> BOOLEAN]
  /\ nap \in [Procs -> [usecs : Int, slept : Nat, credit : Nat]]

TypeMail ==
  /\ msbox \in [Procs -> Seq(Msgs)]
  /\ msg_pp \in [Procs -> Nat]
  /\ \A p \in Procs : msg_pp[p] <= Len(msbox[p])

TypeControl ==
  /\ up \in BOOLEAN
  /\ cur \in Procs \cup {Root}
  /\ pc \in [Procs -> Pcs]
  /\ first_run \in BOOLEAN
  /\ lag \in Nat

\* Type invariant of the scheduler, its actors and the history variables.
TypeOK == TypeTable /\ TypeLists /\ TypeWaits /\ TypeMail /\ TypeControl
-----------------------------------------------------------------------------
\* Every process with a C stack is linked in exactly one of the three lists
\* and exactly once: created ones in pendings, the running one and the
\* exited ones in runnings; nothing dead is linked (the erase and insert
\* pairs of wait_for, add_to_runnings, check_waitings and cleanup).
ListsPartitionProcesses ==
  /\ NoDup(pendings) /\ NoDup(runnings) /\ NoDup(waitings)
  /\ Range(runnings) \cap Range(waitings) = {}
  /\ \A p \in Procs :
       /\ p \in Range(pendings) <=> pc[p] \in {"new", "stuck"}
       /\ p \in Range(runnings) \cup Range(waitings)
            <=> pc[p] \in {"run", "recv", "done"}
       /\ p \in Range(waitings) => pc[p] # "done"
       /\ dead[p] => pc[p] = "none"
  /\ cur # Root => cur \in Range(runnings)

\* A live process outside waitings has no period left and no wish to be woken:
\* the assertion wait_for == 0 in wait_for() never fails, and a message to
\* a process that is not waiting never moves it (got_new_message moves
\* whoever has wake_on_msg set, whatever list it is in).
OnlyWaitersWait ==
  \A p \in Procs :
    ~dead[p] /\ p \notin Range(waitings) =>
      wait_for[p] = 0 /\ ~wake_on_msg[p]

\* No lost wake-up: a process suspended in any_mbox_recv that has not been
\* woken has peeked all of its mailbox.  The mailbox is looked at before the
\* wait and the message arrives from another task.
NoLostWakeup ==
  \A p \in Procs : ~dead[p] /\ wake_on_msg[p] =>
    /\ pc[p] = "recv"
    /\ p \in Range(waitings)
    /\ msg_pp[p] = Len(msbox[p])

\* The count of processes is the number of slots taken, through creation,
\* failed creation, exit and cleanup.
CountsTakenSlots ==
  num_procs = Cardinality({p \in Procs : ~dead[p]})

\* A pid kept after its process has died finds nobody, or the process it was
\* issued for; it may find a later process of the same slot only after the
\* generation has gone once around.
StalePidFindsNobodyElse ==
  \A r \in issued : \A p \in ascheduler_actor(r.pid) :
    /\ p = r.proc
    /\ r.life = lives[p] \/ lives[p] - r.life >= NumGens

\* What is left of a finite wait is the period asked for, minus the time
\* waited, minus how late the timer was when the wait began, plus how late
\* it is now: no tick is counted twice or forgotten, across any number of
\* passes of check_waitings.
TimerAccountsForEveryTick ==
  \A p \in Range(waitings) : wait_for[p] >= 0 /\ nap[p].usecs >= 0 =>
    wait_for[p] = nap[p].usecs - (nap[p].slept + nap[p].credit - lag)
-----------------------------------------------------------------------------
(***************************************************************************)
(* Liveness.  The scheduler is cooperative: all of it assumes that passes  *)
(* end, which is up to the actors.                                         *)
(***************************************************************************)
PassesEnd == []<>(cur = Root)

\* A sleep or a receive with a finite period ends (check_waitings).
TimeoutsFire == PassesEnd =>
  \A p \in Procs :
    (p \in Range(waitings) /\ wait_for[p] >= 0) ~> (p \notin Range(waitings))

\* The slot of a process that has exited is given back (cleanup).
ExitedAreFreed == PassesEnd =>
  \A p \in Procs : (pc[p] = "done") ~> dead[p]

\* A runnable process gets the thread, however many others are started or
\* woken meanwhile (the circular order of runnings).
RunnableRuns == PassesEnd =>
  \A p \in Procs :
    (p \in Range(runnings) /\ pc[p] # "done") ~> (cur = p \/ ~up)
=============================================================================
