---------------------------- MODULE MCScheduler ----------------------------
(* One fixed job of schedules.yaml and two jobs the owner asked for. *)
EXTENDS Scheduler

CONSTANTS fixed, owners, watched

MCJobs == {fixed, owners, watched}
MCConfig == {fixed}

\* One of the owner's jobs is of any kind, the other waits for a condition.
WatchedIsCondition == job[watched].kind \in {"none", "condition"}
=============================================================================
