----------------------------- MODULE TaskStore ------------------------------
(***************************************************************************)
(* The durable task table (core/queue/store.py): what one row holds and    *)
(* what each store operation does to it.  The store is synchronous         *)
(* SQLAlchemy on the one asyncio loop, so every operation here is atomic;  *)
(* the modules that extend this one decide who calls it and when.          *)
(*                                                                         *)
(* A row keeps the state, the retry counter, the two request flags, the    *)
(* steps and, once the task has ended, the error code that ended it        *)
(* (`why'; the code of a task that has not ended is only displayed).       *)
(***************************************************************************)
EXTENDS Integers, TaskStates

CONSTANTS
    Tasks,       \* the task ids that may be handed out
    Quick,       \* the ids created with priority FAST_PRIORITY
    NSteps,      \* steps in a plan
    MaxRetries   \* task_engine.max_retries

ASSUME StoreAssumption ==
    /\ Tasks \subseteq Nat
    /\ Quick \subseteq Tasks
    /\ NSteps \in Nat \ {0}
    /\ MaxRetries \in Nat

VARIABLES
    task,         \* the rows, by id
    queuePaused   \* the persisted "queue paused" setting

storeVars == <<task, queuePaused>>

Steps == 1 .. NSteps

StepStatus == {"PENDING", "CURRENT", "DONE", "FAILED"}

Reason == {"none", "CANCELLED_BY_USER", "BLOCKED_NEEDS_USER", "PERMISSION_DENIED",
           "STEP_ERROR", "VERIFICATION_FAILED", "ENGINE_ERROR",
           "REJECTED_BY_USER", "APPROVAL_EXPIRED"}

Row == [state   : TaskState \cup {"ABSENT"},
        retries : 0 .. MaxRetries,
        cancel  : BOOLEAN,
        pause   : BOOLEAN,
        why     : Reason,
        planned : BOOLEAN,
        steps   : [Steps -> StepStatus]]

NoRow == [state |-> "ABSENT", retries |-> 0, cancel |-> FALSE, pause |-> FALSE,
          why |-> "none", planned |-> FALSE, steps |-> [s \in Steps |-> "PENDING"]]

StoreInit == /\ task = [t \in Tasks |-> NoRow]
             /\ queuePaused = FALSE

-----------------------------------------------------------------------------
(* Rows *)

Ended(r) == r.state \in Terminal

\* Steps that run_step would still execute.
Open(r) == {s \in Steps : r.steps[s] # "DONE"}

\* Mutant of Moved: a task that stops working forgets what was requested of it.
MovedForgets(r, dst, why) ==
    [r EXCEPT !.state  = dst,
              !.cancel = @ /\ dst \in Active,
              !.pause  = @ /\ dst \in Active,
              !.why    = IF dst \in Terminal THEN why ELSE "none"]

\* The row after store.transition accepted the move to dst.
Moved(r, dst, why) ==
    [r EXCEPT !.state  = dst,
              !.cancel = @ /\ dst \notin Terminal,
              !.pause  = @ /\ dst \notin Terminal \cup {"PAUSED"},
              !.why    = IF dst \in Terminal THEN why ELSE "none"]

\* complete_step, reset_step, fail_step on the step being executed.
Marked(r, status) ==
    [r EXCEPT !.steps = [s \in Steps |-> IF @[s] = "CURRENT" THEN status ELSE @[s]]]

\* start_step on s.
Started(r, s) == [r EXCEPT !.steps[s] = "CURRENT"]

\* reset_step on every step from k on: the verifier asks for the work again.
Redone(r, k) == [r EXCEPT !.steps = [s \in Steps |-> IF s >= k THEN "PENDING" ELSE @[s]]]

\* Mutants of Recovered: a state is forgotten, all steps are reset.
RecoveredNotVerifying(r) ==
    IF r.state \notin {"PLANNING", "RUNNING"} THEN r
    ELSE Moved(Marked(r, "PENDING"), "RETRYING", "none")
RecoveredFromScratch(r) ==
    IF r.state \notin Active THEN r ELSE Moved(Redone(r, 1), "RETRYING", "none")

\* One row of recover_after_restart.
Recovered(r) ==
    IF r.state \notin Active THEN r
    ELSE IF r.cancel THEN Moved(Marked(r, "PENDING"), "CANCELLED", "CANCELLED_BY_USER")
    ELSE Moved(Marked(r, "PENDING"), "RETRYING", "none")

-----------------------------------------------------------------------------
(* The dispatcher's query *)

\* Order of the query: priority first, then id.
Before(t, u) == \/ t \in Quick /\ u \notin Quick
                \/ (t \in Quick <=> u \in Quick) /\ t < u

\* Mutants of Eligible: the fast lane takes retried tasks too, no lane takes them.
EligibleRetriedQuick(fast) == {t \in Tasks : task[t].state \in Runnable /\ (fast => t \in Quick)}
EligibleFresh(fast) == {t \in Tasks : task[t].state = "RECEIVED" /\ (fast => t \in Quick)}

\* The fast lane sees only fresh quick tasks.
Eligible(fast) ==
    {t \in Tasks : /\ task[t].state \in Runnable
                   /\ fast => t \in Quick /\ task[t].state = "RECEIVED"}

NextRunnable(fast, t) ==
    /\ t \in Eligible(fast)
    /\ \A u \in Eligible(fast) \ {t} : Before(t, u)

-----------------------------------------------------------------------------
(* Operations the owner's commands call *)

\* Ids are handed out in order.
Create(t) ==
    /\ task[t].state = "ABSENT"
    /\ \A u \in Tasks : u < t => task[u].state # "ABSENT"
    /\ task' = [task EXCEPT ![t].state = "RECEIVED"]
    /\ UNCHANGED queuePaused

\* request_cancel: a task somebody works on is only flagged.
CancelledRow(r) == IF r.state \in Active THEN [r EXCEPT !.cancel = TRUE]
                                         ELSE Moved(r, "CANCELLED", "CANCELLED_BY_USER")

RequestCancel(t) ==
    /\ task[t].state \notin Terminal \cup {"ABSENT"}
    /\ task' = [task EXCEPT ![t] = CancelledRow(@)]
    /\ UNCHANGED queuePaused

\* pause_queue on one row.
PausedRow(r) == IF r.state \in Active THEN [r EXCEPT !.pause = TRUE] ELSE r

\* What an approval decision can end a parked task with.
DropReason == {"REJECTED_BY_USER", "APPROVAL_EXPIRED"}

\* pause_queue; /lockdown also ends, in the same synchronous handler, the parked
\* tasks whose approvals it rejects (drop[t] = the reason, "none" to keep t).
PauseQueue(drop) ==
    /\ \A t \in Tasks : drop[t] # "none" => task[t].state = "WAITING_APPROVAL"
    /\ queuePaused' = TRUE
    /\ task' = [t \in Tasks |-> IF drop[t] = "none" THEN PausedRow(task[t])
                                ELSE Moved(task[t], "CANCELLED", drop[t])]

DropNothing == [t \in Tasks |-> "none"]

\* resume_queue on one row.
ResumedRow(r) == IF r.state = "PAUSED" THEN Moved([r EXCEPT !.pause = FALSE], "RETRYING", "none")
                                       ELSE [r EXCEPT !.pause = FALSE]

ResumeQueue ==
    /\ queuePaused' = FALSE
    /\ task' = [t \in Tasks |-> ResumedRow(task[t])]
=============================================================================
