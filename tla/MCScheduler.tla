---------------------------- MODULE MCScheduler -----------------------------
(***************************************************************************)
(* Small instances of Scheduler for TLC; the sizes are in the .cfg files.  *)
(* The messages are alike for every property of the run that uses the      *)
(* symmetry: they are told apart only by their place in a mailbox.         *)
(***************************************************************************)
EXTENDS SchedulerProperties, SchedulerRefinement, TLC

CONSTANTS m1, m2

OneMsg == {m1}
TwoMsgs == {m1, m2}
MessagesAlike == Permutations(Msgs)

\* AINFINITE, "do not wait" and one period.
SomePeriods == {-1, 0, 2}
=============================================================================
