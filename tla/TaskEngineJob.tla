---------------------------- MODULE TaskEngineJob ---------------------------
(***************************************************************************)
(* The engine implements CheckpointedJob: the refinement mapping reads a   *)
(* job off a row of the task table.                                        *)
(***************************************************************************)
EXTENDS TaskEngine, FiniteSets

JobStatus(state) == CASE state = "ABSENT"    -> "absent"
                      [] state = "COMPLETED" -> "completed"
                      [] state = "FAILED"    -> "failed"
                      [] state = "CANCELLED" -> "cancelled"
                      [] OTHER               -> "open"

Job == INSTANCE CheckpointedJob WITH
         status  <- [t \in Tasks |-> JobStatus(task[t].state)],
         saved   <- [t \in Tasks |-> Cardinality({s \in Steps : task[t].steps[s] = "DONE"})],
         retries <- [t \in Tasks |-> task[t].retries]

\* Every step of the engine is a step of the job specification or invisible to it: a crash,
\* a pause, an approval or a shutdown never costs a saved step or a retry, and only a
\* fully saved job is completed.
ImplementsJob == Job!Spec
=============================================================================
