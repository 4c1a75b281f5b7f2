----------------------------- MODULE TaskStates -----------------------------
(***************************************************************************)
(* The task state machine of core/queue/states.py: the states a row of the *)
(* tasks table can hold and the table of transitions the store accepts.    *)
(* "ABSENT" stands for a task id that has not been handed out yet.         *)
(***************************************************************************)

Terminal == {"COMPLETED", "FAILED", "CANCELLED"}

\* Picked up by the dispatcher.
Runnable == {"RECEIVED", "RETRYING"}

\* Work is in progress: a coroutine of the engine owns the task.
Active == {"PLANNING", "RUNNING", "VERIFYING"}

\* Parked until something outside the task happens.
Waiting == {"WAITING_APPROVAL", "WAITING_DESKTOP", "WAITING_RESOURCE", "PAUSED"}

TaskState == Runnable \cup Active \cup Waiting \cup Terminal

AnyExit == {"FAILED", "CANCELLED"}

Transitions(src) ==
    CASE src = "RECEIVED"         -> {"PLANNING", "PAUSED"} \cup AnyExit
      [] src = "PLANNING"         -> {"RUNNING", "WAITING_APPROVAL", "WAITING_RESOURCE",
                                      "PAUSED", "RETRYING"} \cup AnyExit
      [] src = "RUNNING"          -> {"VERIFYING", "WAITING_APPROVAL", "WAITING_DESKTOP",
                                      "WAITING_RESOURCE", "PAUSED", "RETRYING"} \cup AnyExit
      [] src \in {"WAITING_APPROVAL", "WAITING_DESKTOP", "WAITING_RESOURCE"}
                                  -> {"RUNNING", "RETRYING", "PAUSED"} \cup AnyExit
      [] src = "VERIFYING"        -> {"COMPLETED", "RETRYING", "PAUSED"} \cup AnyExit
      [] src = "RETRYING"         -> {"RUNNING", "PAUSED"} \cup AnyExit
      [] src = "PAUSED"           -> {"RETRYING"} \cup AnyExit
      [] OTHER                    -> {}

CanTransition(src, dst) == dst \in Transitions(src)
=============================================================================
