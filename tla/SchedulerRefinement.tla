------------------------- MODULE SchedulerRefinement -------------------------
(* Scheduler implements Actors: the mapping of its state.                  *)
EXTENDS Scheduler

\* The actor the process table, the lists and the wake flag describe.
StatusOf(p) ==
  CASE dead[p] -> "free"
    [] ~dead[p] /\ pc[p] = "none" -> "lost"
    [] pc[p] \in {"new", "stuck"} -> "idle"
    [] pc[p] = "done" -> "done"
    [] p \in Range(waitings) /\ wake_on_msg[p] /\ ~dead[p] -> "receiving"
    [] p \in Range(waitings) /\ ~wake_on_msg[p] /\ ~dead[p] -> "asleep"
    [] OTHER -> "ready"

\* The processes linked behind the running one.
Behind ==
  {p \in Procs : \E i, j \in 1 .. Len(runnings) :
     i < j /\ runnings[i] = cur /\ runnings[j] = p}

\* The state of Actors, read from that of the scheduler: the pids and the timer
\* are left out, a mailbox is split where the next receive looks.
Status == [p \in Procs |-> StatusOf(p)]
Active == IF up THEN cur ELSE -2
Seen == [p \in Procs |-> SubSeq(msbox[p], 1, msg_pp[p])]
Unseen == [p \in Procs |-> SubSeq(msbox[p], msg_pp[p] + 1, Len(msbox[p]))]

Promise == INSTANCE Actors WITH
  Actor <- Procs,
  Msg <- Msgs,
  Host <- Root,
  Off <- -2,
  status <- Status,
  active <- Active,
  due <- Behind,
  seen <- Seen,
  unseen <- Unseen

\* Every behaviour of the scheduler is one of Actors: each pass runs every
\* ready process exactly once, a message wakes its receiver in the same pass,
\* selective receive neither loses nor reorders messages, and only exited
\* processes are freed before ascheduler_cleanup.
KeepsPromise == Promise!ASpec
=============================================================================
