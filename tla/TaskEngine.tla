----------------------------- MODULE TaskEngine -----------------------------
(***************************************************************************)
(* The task engine (core/queue/engine.py), the desktop watcher             *)
(* (core/queue/desktop_watch.py) and the owner's commands on the queue.    *)
(*                                                                         *)
(* Two dispatcher coroutines share one asyncio loop: the main lane and the *)
(* fast lane for quick tasks.  Code between two awaits is atomic, so one   *)
(* action here is what a coroutine does from one await to the next:        *)
(*                                                                         *)
(*   idle -> plan        claimed, in the sleep(0) of the checkpoint before *)
(*                       planning                                          *)
(*   checkpoint          in the sleep(0) before the next open step         *)
(*   step                inside the step function                          *)
(*   ask                 inside the step function, an approval was         *)
(*                       requested and its message is being sent           *)
(*   cancelled, paused,  a checkpoint inside the step function raised that,*)
(*   interrupted         the operation it was awaiting is being cancelled  *)
(*   finish              in the sleep(0) of the checkpoint after the steps *)
(*   verify              inside executor.verify                            *)
(*   tell                the row is settled, the owner is being told       *)
(*                                                                         *)
(* Owner commands, approval decisions, the watcher, a shutdown or a crash  *)
(* happen between any two of these.  Approvals are abstract here: a parked *)
(* task may be released or dropped at any time (ApprovalGate says when).   *)
(***************************************************************************)
EXTENDS TaskStore

CONSTANTS
    Short,    \* tasks whose executor may return before its last step
    NoTask    \* no task

ASSUME EngineAssumption == /\ Short \subseteq Tasks
                           /\ NoTask \notin Tasks

VARIABLES
    up,         \* the core process is running
    draining,   \* engine.draining: a shutdown was requested
    pc,         \* where each lane's coroutine is suspended
    cur,        \* the task each lane holds
    watching,   \* the desktop watcher: "idle", "asking" the worker, "releasing"
    watchList   \* the WAITING_DESKTOP tasks it read before asking

laneVars  == <<pc, cur>>
procVars  == <<up, draining>>
watchVars == <<watching, watchList>>
vars      == <<task, queuePaused, up, draining, pc, cur, watching, watchList>>

Lane == {"main", "fast"}

\* Suspension points where the coroutine still has work to do on its task.
Stopping == {"cancelled", "paused", "interrupted"}

Working == {"plan", "checkpoint", "step", "ask", "finish", "verify"} \cup Stopping

PC == Working \cup {"idle", "tell"}

WorksOn(l, t) == pc[l] \in Working /\ cur[l] = t

-----------------------------------------------------------------------------
(* How a segment of _execute ends *)

\* The lane keeps its task and goes on at p with row r.
GoTo(l, p, r) == /\ task' = [task EXCEPT ![cur[l]] = r]
                 /\ pc' = [pc EXCEPT ![l] = p]
                 /\ UNCHANGED cur

\* _execute is over; `told' says whether a message to the owner is awaited first.
Leave(l, r, told) ==
    IF told THEN GoTo(l, "tell", r)
            ELSE /\ task' = [task EXCEPT ![cur[l]] = r]
                 /\ pc' = [pc EXCEPT ![l] = "idle"]
                 /\ cur' = [cur EXCEPT ![l] = NoTask]

\* Mutant of EngineError: fails the task in whatever state it is.
EngineErrorForced(l, r) == Leave(l, Moved(r, "FAILED", "ENGINE_ERROR"), FALSE)

\* An exception escaped _execute: run_once parks the task as FAILED if it can.
EngineError(l, r) ==
    Leave(l, IF CanTransition(r.state, "FAILED") THEN Moved(r, "FAILED", "ENGINE_ERROR") ELSE r,
          FALSE)

\* A handler of _execute moves the task; an InvalidTransition escapes.
Settle(l, r, dst, why, told) ==
    IF CanTransition(r.state, dst) THEN Leave(l, Moved(r, dst, why), told)
                                   ELSE EngineError(l, r)

\* _retry_or_fail; a task that is not retried is always reported.
RetryOrFail(l, r, why, told) ==
    IF r.retries >= MaxRetries THEN Settle(l, r, "FAILED", why, TRUE)
    ELSE IF CanTransition(r.state, "RETRYING")
         THEN Leave(l, [Moved(r, "RETRYING", "none") EXCEPT !.retries = @ + 1], told)
         ELSE EngineError(l, r)

\* What a checkpoint finds, in the order it looks.
Signal(r) == IF r.cancel THEN "cancelled"
             ELSE IF r.pause THEN "paused"
             ELSE IF draining THEN "interrupted"
             ELSE "none"

\* The checkpoint raised TaskCancelled, TaskPaused or TaskInterrupted.
Halt(l, r, signal) ==
    CASE signal = "cancelled"   -> Settle(l, r, "CANCELLED", "CANCELLED_BY_USER", TRUE)
      [] signal = "paused"      -> Settle(l, r, "PAUSED", "none", TRUE)
      [] signal = "interrupted" -> Settle(l, r, "RETRYING", "none", FALSE)

\* Where executor.run suspends next: before the first open step, or, with none
\* left (or an early return after a finished one), in the final checkpoint.
Ahead(t, r) ==
    (IF Open(r) = {} THEN {} ELSE {"checkpoint"})
      \cup (IF Open(r) = {} \/ (t \in Short /\ 1 \notin Open(r)) THEN {"finish"} ELSE {})

\* The task becomes RUNNING and the executor starts.
EnterRun(l, t, r) ==
    \E p \in Ahead(t, r) : GoTo(l, p, Moved(r, "RUNNING", "none"))

-----------------------------------------------------------------------------
(* The lanes *)

\* Mutant of Claim: the paused setting is not looked at.
ClaimWhilePaused(l) ==
    /\ up /\ ~draining /\ pc[l] = "idle"
    /\ \E t \in Tasks :
         /\ NextRunnable(l = "fast", t)
         /\ cur' = [cur EXCEPT ![l] = t]
         /\ pc' = [pc EXCEPT ![l] = "plan"]
         /\ task' = [task EXCEPT ![t] = IF @.state = "RECEIVED" THEN Moved(@, "PLANNING", "none")
                                                               ELSE @]
    /\ UNCHANGED <<queuePaused, procVars, watchVars>>

\* run_once up to its first await.
Claim(l) ==
    /\ up /\ ~draining /\ ~queuePaused
    /\ pc[l] = "idle"
    /\ \E t \in Tasks :
         /\ NextRunnable(l = "fast", t)
         /\ cur' = [cur EXCEPT ![l] = t]
         /\ LET r == IF task[t].state = "RECEIVED" THEN Moved(task[t], "PLANNING", "none")
                                                   ELSE task[t]
            IN  \E p \in (IF r.planned THEN Ahead(t, r) ELSE {"plan"}) :
                  /\ pc' = [pc EXCEPT ![l] = p]
                  /\ task' = [task EXCEPT ![t] = IF r.planned THEN Moved(r, "RUNNING", "none")
                                                              ELSE r]
    /\ UNCHANGED <<queuePaused, procVars, watchVars>>

\* The checkpoint before planning, executor.plan and ensure_plan.
Plan(l) ==
    /\ pc[l] = "plan"
    /\ LET r == task[cur[l]]
           q == [r EXCEPT !.planned = TRUE]
       IN  IF Signal(r) # "none" THEN Halt(l, r, Signal(r))
           ELSE IF CanTransition(q.state, "RUNNING") THEN EnterRun(l, cur[l], q)
           ELSE RetryOrFail(l, q, "STEP_ERROR", FALSE)
    /\ UNCHANGED <<queuePaused, procVars, watchVars>>

\* run_step's checkpoint, then the first open step starts.
StartStep(l) ==
    /\ pc[l] = "checkpoint"
    /\ LET r == task[cur[l]]
       IN  IF Signal(r) # "none" THEN Halt(l, r, Signal(r))
           ELSE \E s \in Open(r) : /\ \A o \in Open(r) : s <= o
                                   /\ GoTo(l, "step", Started(r, s))
    /\ UNCHANGED <<queuePaused, procVars, watchVars>>

\* The step function returned: checkpoint saved, on to the next one.
StepDone(l) ==
    /\ pc[l] = "step"
    /\ LET r == Marked(task[cur[l]], "DONE")
       IN  \E p \in Ahead(cur[l], r) : GoTo(l, p, r)
    /\ UNCHANGED <<queuePaused, procVars, watchVars>>

\* A checkpoint inside the step function (ctx.interruptible) found a request; the
\* operation the step was waiting for is cancelled and awaited first.
StepHalts(l) ==
    /\ pc[l] = "step"
    /\ Signal(task[cur[l]]) # "none"
    /\ GoTo(l, Signal(task[cur[l]]), task[cur[l]])
    /\ UNCHANGED <<queuePaused, procVars, watchVars>>

\* The operation is gone: the exception leaves the step.
Halted(l) ==
    /\ pc[l] \in Stopping
    /\ Halt(l, Marked(task[cur[l]], IF pc[l] = "interrupted" THEN "FAILED" ELSE "PENDING"),
            pc[l])
    /\ UNCHANGED <<queuePaused, procVars, watchVars>>

\* Any other exception in the step.
StepError(l) ==
    /\ pc[l] = "step"
    /\ RetryOrFail(l, Marked(task[cur[l]], "FAILED"), "STEP_ERROR", FALSE)
    /\ UNCHANGED <<queuePaused, procVars, watchVars>>

\* TaskBlocked, PermissionDenied or PolicyDenied: never retried.
Refuse(l, why) ==
    /\ pc[l] = "step"
    /\ Settle(l, Marked(task[cur[l]], "FAILED"), "FAILED", why, TRUE)
    /\ UNCHANGED <<queuePaused, procVars, watchVars>>

StepRefused(l) == \E why \in {"BLOCKED_NEEDS_USER", "PERMISSION_DENIED"} : Refuse(l, why)

\* The desktop worker is locked or gone.
StepNeedsDesktop(l) ==
    /\ pc[l] = "step"
    /\ Settle(l, Marked(task[cur[l]], "PENDING"), "WAITING_DESKTOP", "none", TRUE)
    /\ UNCHANGED <<queuePaused, procVars, watchVars>>

\* require stored an approval request and awaits the message that asks for it.
StepAsks(l) ==
    /\ pc[l] = "step"
    /\ GoTo(l, "ask", task[cur[l]])
    /\ UNCHANGED <<queuePaused, procVars, watchVars>>

\* require raises ApprovalPending: right away when the same request is already
\* pending, else once the message is out.
Park(l) ==
    /\ pc[l] \in {"step", "ask"}
    /\ Settle(l, Marked(task[cur[l]], "PENDING"), "WAITING_APPROVAL", "none", FALSE)
    /\ UNCHANGED <<queuePaused, procVars, watchVars>>

\* The checkpoint after the steps; then the result is verified.
Finish(l) ==
    /\ pc[l] = "finish"
    /\ LET r == task[cur[l]]
       IN  IF Signal(r) # "none" THEN Halt(l, r, Signal(r))
           ELSE IF CanTransition(r.state, "VERIFYING")
                THEN GoTo(l, "verify", Moved(r, "VERIFYING", "none"))
                ELSE RetryOrFail(l, r, "STEP_ERROR", FALSE)
    /\ UNCHANGED <<queuePaused, procVars, watchVars>>

\* PASS, PASS WITH KNOWN LIMITATIONS or UNVERIFIED.
VerifyPasses(l) ==
    /\ pc[l] = "verify"
    /\ Settle(l, task[cur[l]], "COMPLETED", "none", TRUE)
    /\ UNCHANGED <<queuePaused, procVars, watchVars>>

VerifyBlocked(l) ==
    /\ pc[l] = "verify"
    /\ Settle(l, task[cur[l]], "FAILED", "BLOCKED_NEEDS_USER", TRUE)
    /\ UNCHANGED <<queuePaused, procVars, watchVars>>

\* Mutant of VerifyNeedsWork: the steps are reset also when no retry is left.
VerifyNeedsWorkResets(l) ==
    /\ pc[l] = "verify"
    /\ \E k \in 1 .. NSteps + 1 :
         RetryOrFail(l, Redone(task[cur[l]], k), "VERIFICATION_FAILED", TRUE)
    /\ UNCHANGED <<queuePaused, procVars, watchVars>>

\* NEEDS WORK: steps from k on run again if a retry is left (k > NSteps: none).
VerifyNeedsWork(l) ==
    /\ pc[l] = "verify"
    /\ \E k \in 1 .. NSteps + 1 :
         LET r == task[cur[l]]
         IN  RetryOrFail(l, IF r.retries < MaxRetries THEN Redone(r, k) ELSE r,
                         "VERIFICATION_FAILED", TRUE)
    /\ UNCHANGED <<queuePaused, procVars, watchVars>>

VerifyError(l) ==
    /\ pc[l] = "verify"
    /\ RetryOrFail(l, task[cur[l]], "STEP_ERROR", FALSE)
    /\ UNCHANGED <<queuePaused, procVars, watchVars>>

\* The message was sent (or could not be: notify never raises).
Told(l) ==
    /\ pc[l] = "tell"
    /\ pc' = [pc EXCEPT ![l] = "idle"]
    /\ cur' = [cur EXCEPT ![l] = NoTask]
    /\ UNCHANGED <<storeVars, procVars, watchVars>>

LaneStep(l) ==
    \/ Claim(l) \/ Plan(l) \/ StartStep(l) \/ Finish(l) \/ Told(l)
    \/ StepDone(l) \/ StepHalts(l) \/ Halted(l) \/ StepError(l) \/ StepRefused(l)
    \/ StepNeedsDesktop(l) \/ StepAsks(l) \/ Park(l)
    \/ VerifyPasses(l) \/ VerifyBlocked(l) \/ VerifyNeedsWork(l) \/ VerifyError(l)

-----------------------------------------------------------------------------
(* Owner commands and approval decisions *)

OwnerStep ==
    /\ up
    /\ \/ \E t \in Tasks : Create(t) \/ RequestCancel(t)
       \/ PauseQueue(DropNothing)
       \/ ResumeQueue
    /\ UNCHANGED <<laneVars, procVars, watchVars>>

\* A decision on the approval a parked task waits for: run again, or end it.
ReleaseParked(t, dst, why) ==
    /\ task[t].state = "WAITING_APPROVAL"
    /\ task' = [task EXCEPT ![t] = Moved(@, dst, why)]

DecisionStep ==
    /\ up
    /\ \/ /\ \E t \in Tasks : \/ ReleaseParked(t, "RETRYING", "none")
                              \/ \E why \in DropReason : ReleaseParked(t, "CANCELLED", why)
          /\ UNCHANGED queuePaused
       \/ \E drop \in [Tasks -> DropReason \cup {"none"}] : PauseQueue(drop)
    /\ UNCHANGED <<laneVars, procVars, watchVars>>

-----------------------------------------------------------------------------
(* The desktop watcher *)

\* check() reads the waiting tasks and asks the desktop worker.
WatchAsk ==
    /\ up /\ watching = "idle"
    /\ watchList' = {t \in Tasks : task[t].state = "WAITING_DESKTOP"}
    /\ watchList' # {}
    /\ watching' = "asking"
    /\ UNCHANGED <<storeVars, laneVars, procVars>>

\* Still locked, or no answer.
WatchLocked ==
    /\ up /\ watching = "asking"
    /\ watching' = "idle" /\ watchList' = {}
    /\ UNCHANGED <<storeVars, laneVars, procVars>>

\* Unlocked: the next task of the list read before the call is released.  A task
\* that left WAITING_DESKTOP meanwhile raises InvalidTransition, which ends the round.
WatchRelease ==
    /\ up /\ watching \in {"asking", "releasing"}
    /\ \E t \in watchList :
         /\ \A u \in watchList : t <= u
         /\ IF CanTransition(task[t].state, "RETRYING")
            THEN /\ task' = [task EXCEPT ![t] = Moved(@, "RETRYING", "none")]
                 /\ watchList' = watchList \ {t}
            ELSE watchList' = {} /\ UNCHANGED task
    /\ watching' = IF watchList' = {} THEN "idle" ELSE "releasing"
    /\ UNCHANGED <<queuePaused, laneVars, procVars>>

WatchStep == WatchAsk \/ WatchLocked \/ WatchRelease

-----------------------------------------------------------------------------
(* The process *)

\* /restart-agent, /update or a stop signal: no new task starts.
RequestExit ==
    /\ up /\ ~draining
    /\ draining' = TRUE
    /\ UNCHANGED <<storeVars, laneVars, up, watchVars>>

\* The process is gone: it exited after the graceful timeout, was killed or crashed.
\* Its coroutines are lost wherever they were suspended.
Exit ==
    /\ up
    /\ up' = FALSE
    /\ pc' = [l \in Lane |-> "idle"]
    /\ cur' = [l \in Lane |-> NoTask]
    /\ watching' = "idle" /\ watchList' = {}
    /\ UNCHANGED <<storeVars, draining>>

\* The supervisor starts a new process; recover_after_restart runs before the lanes.
Start ==
    /\ ~up
    /\ up' = TRUE /\ draining' = FALSE
    /\ task' = [t \in Tasks |-> Recovered(task[t])]
    /\ UNCHANGED <<queuePaused, laneVars, watchVars>>

-----------------------------------------------------------------------------
Init ==
    /\ StoreInit
    /\ up = TRUE /\ draining = FALSE
    /\ pc = [l \in Lane |-> "idle"]
    /\ cur = [l \in Lane |-> NoTask]
    /\ watching = "idle" /\ watchList = {}

Next ==
    \/ \E l \in Lane : LaneStep(l)
    \/ OwnerStep \/ DecisionStep \/ WatchStep
    \/ RequestExit \/ Exit \/ Start

Spec == Init /\ [][Next]_vars
-----------------------------------------------------------------------------
(* Fairness.  A coroutine whose await completed is resumed by the loop, and the   *)
(* step functions, verifiers and messages are bounded by timeouts; a shutdown     *)
(* ends within the graceful timeout; the supervisor restarts a dead process.      *)
(* Nothing makes the owner or the desktop act.                                    *)
FairSpec ==
    /\ Spec
    /\ \A l \in Lane : WF_vars(LaneStep(l))
    /\ WF_vars(draining /\ Exit)
    /\ WF_vars(Start)

-----------------------------------------------------------------------------
(* Properties *)

TypeOK ==
    /\ task \in [Tasks -> Row]
    /\ queuePaused \in BOOLEAN /\ up \in BOOLEAN /\ draining \in BOOLEAN
    /\ pc \in [Lane -> PC]
    /\ cur \in [Lane -> Tasks \cup {NoTask}]
    /\ watching \in {"idle", "asking", "releasing"}
    /\ watchList \subseteq Tasks

\* The states of a task a coroutine suspended at p works on.  Only a retried task is still
\* RETRYING, and can be cancelled, before its plan is there; the fast lane gets none.
StatesAt(l, p) ==
    CASE p = "plan" /\ l = "fast" -> {"PLANNING"}
      [] p = "plan" /\ l = "main" -> {"PLANNING", "RETRYING", "CANCELLED"}
      [] p = "verify"             -> {"VERIFYING"}
      [] OTHER                    -> {"RUNNING"}

\* Nobody moves a task while a coroutine works on it: not the owner, a decision, the
\* watcher with the list it read before its call, nor the other lane.
LanesMatchRows ==
    \A l \in Lane : pc[l] \in Working => /\ cur[l] \in Tasks
                                        /\ task[cur[l]].state \in StatesAt(l, pc[l])

\* The two lanes never work on the same task, also when a task one of them parked
\* is released while that lane is still sending its message.
OneWorkerPerTask ==
    \A t \in Tasks : \A k, l \in Lane : WorksOn(k, t) /\ WorksOn(l, t) => k = l

\* While the process runs, a task in an ACTIVE state has a coroutine: none is left
\* behind in a state that neither the dispatcher nor recovery looks at.
NoTaskLost ==
    up => \A t \in Tasks : task[t].state \in Active => \E l \in Lane : WorksOn(l, t)

\* A step shown as CURRENT is being executed: every way out of a step, and recovery,
\* puts its status right.
CurrentStepIsExecuting ==
    up => \A t \in Tasks : \A s \in Steps :
            task[t].steps[s] = "CURRENT" =>
                \E l \in Lane : WorksOn(l, t) /\ pc[l] \in {"step", "ask"} \cup Stopping

\* No task ends COMPLETED with a step that was reset, failed or never run (an executor
\* that returns early aside).
CompletedMeansAllDone ==
    \A t \in Tasks \ Short : task[t].state = "COMPLETED" => Open(task[t]) = {}

\* A task that ended never changes its outcome, whatever a lane that still holds it, the
\* watcher's old list or a late decision then does.
TerminalIsFinal ==
    [][\A t \in Tasks : Ended(task[t]) => /\ task'[t].state = task[t].state
                                          /\ task'[t].why = task[t].why]_vars

\* A finished step stays finished over retries, pauses, parking, crashes and restarts;
\* only a failed verification that uses up a retry asks for it again.
CheckpointsSurvive ==
    [][\A t \in Tasks : \A s \in Steps :
         task[t].steps[s] = "DONE" /\ task'[t].steps[s] # "DONE" =>
            /\ \E l \in Lane : cur[l] = t /\ pc[l] = "verify"
            /\ task'[t].retries = task[t].retries + 1]_vars

\* Why a lane may fail its task with row r: the retries are used up, or nobody could retry
\* it; and a shutdown that catches a retried task before it has a plan.
Cause(l, r, why) ==
    \/ why \in {"STEP_ERROR", "VERIFICATION_FAILED"} /\ r.retries = MaxRetries
    \/ why \in {"BLOCKED_NEEDS_USER", "PERMISSION_DENIED"} /\ pc[l] = "step"
    \/ why = "BLOCKED_NEEDS_USER" /\ pc[l] = "verify"
    \/ why = "ENGINE_ERROR" /\ pc[l] = "plan" /\ r.state = "RETRYING" /\ Signal(r) = "interrupted"

\* Only the lane that works on a task fails it, and only for such a cause: no command, late
\* decision, old watch list, parking, pause, crash or recovery ever does.
FailsForCause ==
    [][\A t \in Tasks : task[t].state # "FAILED" /\ task'[t].state = "FAILED" =>
         \E l \in Lane : WorksOn(l, t) /\ Cause(l, task[t], task'[t].why)]_vars

\* A cancel that a task was flagged with is not lost while the task is parked, retried,
\* paused, resumed or recovered: the flag stays, and no result is taken to its verification,
\* until the task is cancelled or failed, or a verification already under way completes it.
CancelIsKept ==
    [][\A t \in Tasks : task[t].cancel =>
         /\ \/ task'[t].cancel
            \/ task'[t].state \in AnyExit
            \/ task[t].state = "VERIFYING" /\ task'[t].state = "COMPLETED"
         /\ task'[t].state = "VERIFYING" => task[t].state = "VERIFYING"]_vars

\* Only the lanes take steps, each from one await to the next, and the supervisor restarts a
\* dead process: the owner, decisions, the watcher and shutdowns move no coroutine.
Undisturbed == up' /\ (~up \/ pc' # pc)

\* If the queue stays open and nothing disturbs the engine any more, every task that can
\* run reaches an end or a state in which it waits for somebody.
EngineProgress ==
    <>[]~queuePaused /\ <>[][Undisturbed]_vars
    => \A t \in Tasks : [](task[t].state \in Runnable \cup Active
                             => <>(task[t].state \in Waiting \cup Terminal))

\* A queue that stays paused brings both lanes to rest.
PauseQuiesces ==
    <>[]queuePaused => <>[](\A l \in Lane : pc[l] = "idle")
=============================================================================
