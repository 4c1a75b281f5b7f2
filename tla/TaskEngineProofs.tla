-------------------------- MODULE TaskEngineProofs --------------------------
(***************************************************************************)
(* The safety of the task engine for every number of tasks, steps and      *)
(* retries.  The inductive invariant Inv says which state a row is in at   *)
(* every suspension point of the coroutine that works on it; the rest is   *)
(* that a lane's step (LaneMove) never touches a row of the other lane.    *)
(* StepsInv adds what the steps of a row say, and from both each action is *)
(* shown to be a step of one job of CheckpointedJob, or of none.           *)
(***************************************************************************)
EXTENDS TaskEngineJob, FiniteSetTheorems, TLAPS

\* The watcher's old list holds parked tasks, or tasks that were cancelled meanwhile.
WatchedAreParked ==
    \A t \in watchList : task[t].state \in {"WAITING_DESKTOP", "CANCELLED"}

\* A dead process has no coroutine.
DownMeansIdle == ~up => \A l \in Lane : pc[l] = "idle"

Inv == /\ TypeOK
       /\ LanesMatchRows
       /\ OneWorkerPerTask
       /\ NoTaskLost
       /\ WatchedAreParked
       /\ DownMeansIdle

-----------------------------------------------------------------------------
(* Rows *)

\* Every store operation keeps the shape of a row.
LEMMA MovedRow ==
    ASSUME NEW r \in Row, NEW dst \in TaskState, NEW why \in Reason
    PROVE  /\ Moved(r, dst, why) \in Row
           /\ Moved(r, dst, why).state = dst
           /\ Moved(r, dst, why).retries = r.retries
<1>1. r.cancel \in BOOLEAN /\ r.pause \in BOOLEAN
  BY DEF Row
<1>2. /\ (r.cancel /\ dst \notin Terminal) \in BOOLEAN
      /\ (r.pause /\ dst \notin Terminal \cup {"PAUSED"}) \in BOOLEAN
      /\ (IF dst \in Terminal THEN why ELSE "none") \in Reason
  BY DEF Reason
<1> QED
  BY <1>1, <1>2 DEF Row, Moved

LEMMA MarkedRow ==
    ASSUME NEW r \in Row, NEW status \in StepStatus
    PROVE  /\ Marked(r, status) \in Row
           /\ Marked(r, status).state = r.state
           /\ Marked(r, status).why = r.why
           /\ Marked(r, status).retries = r.retries
BY DEF Row, Marked

LEMMA RedoneRow ==
    ASSUME NEW r \in Row, NEW k \in Int
    PROVE  /\ Redone(r, k) \in Row
           /\ Redone(r, k).state = r.state
           /\ Redone(r, k).why = r.why
           /\ Redone(r, k).retries = r.retries
BY DEF Row, Redone, StepStatus, Steps

LEMMA StartedRow ==
    ASSUME NEW r \in Row, NEW s \in Steps
    PROVE  /\ Started(r, s) \in Row
           /\ Started(r, s).state = r.state
           /\ Started(r, s).retries = r.retries
BY DEF Row, Started, StepStatus

\* Raising or clearing a request flag.
LEMMA FlaggedRow ==
    ASSUME NEW r \in Row, NEW b \in BOOLEAN
    PROVE  /\ [r EXCEPT !.cancel = b] \in Row /\ [r EXCEPT !.cancel = b].state = r.state
           /\ [r EXCEPT !.pause = b] \in Row /\ [r EXCEPT !.pause = b].state = r.state
BY DEF Row

LEMMA PausedRowType ==
    ASSUME NEW r \in Row
    PROVE  PausedRow(r) \in Row /\ PausedRow(r).state = r.state
BY FlaggedRow DEF PausedRow

LEMMA RecoveredRow ==
    ASSUME NEW r \in Row
    PROVE  /\ Recovered(r) \in Row
           /\ Recovered(r).state \notin Active
           /\ r.state \in {"WAITING_DESKTOP", "CANCELLED"} => Recovered(r).state = r.state
<1>1. Marked(r, "PENDING") \in Row
  BY MarkedRow DEF StepStatus
<1>2. /\ Moved(Marked(r, "PENDING"), "CANCELLED", "CANCELLED_BY_USER") \in Row
      /\ Moved(Marked(r, "PENDING"), "CANCELLED", "CANCELLED_BY_USER").state = "CANCELLED"
      /\ Moved(Marked(r, "PENDING"), "RETRYING", "none") \in Row
      /\ Moved(Marked(r, "PENDING"), "RETRYING", "none").state = "RETRYING"
  BY <1>1, MovedRow DEF TaskState, Runnable, Terminal, Reason
<1> QED
  BY <1>2 DEF Recovered, Active

\* From every state in which a coroutine holds a task it can be failed, unless it ended.
LEMMA HeldCanFail ==
    ASSUME NEW st \in Active \cup {"RETRYING", "CANCELLED"}
    PROVE  /\ st # "CANCELLED" => CanTransition(st, "FAILED")
           /\ st = "CANCELLED" => \A dst : ~CanTransition(st, dst)
BY DEF Active, CanTransition, Transitions, AnyExit

-----------------------------------------------------------------------------
(* What every step of a lane that holds a task amounts to *)

\* The lane gives its row the value r and is then suspended at p, with or without the task.
LaneMove(l, r, p) ==
    /\ r \in Row /\ p \in PC
    /\ task' = [task EXCEPT ![cur[l]] = r]
    /\ pc' = [pc EXCEPT ![l] = p]
    /\ cur' = cur \/ (cur' = [cur EXCEPT ![l] = NoTask] /\ p = "idle")
    /\ IF p \in Working THEN r.state \in StatesAt(l, p) ELSE r.state \notin Active
    /\ Ended(task[cur[l]]) => r.state = task[cur[l]].state /\ r.why = task[cur[l]].why

Moves(l) == \E r \in Row, p \in PC : LaneMove(l, r, p)

\* The row a lane works on.
LEMMA HeldRow ==
    ASSUME TypeOK, LanesMatchRows, NEW l \in Lane, pc[l] \in Working
    PROVE  /\ cur[l] \in Tasks
           /\ task[cur[l]] \in Row
           /\ task[cur[l]].state \in StatesAt(l, pc[l])
           /\ task[cur[l]].state \in Active \cup {"RETRYING", "CANCELLED"}
           /\ pc[l] # "plan" => task[cur[l]].state \in {"RUNNING", "VERIFYING"}
BY DEF TypeOK, LanesMatchRows, StatesAt, Active, Working, Stopping, Lane

\* A lane's own row changes, the rows of the other lane and of the watcher do not.
LEMMA MovesKeepInv ==
    ASSUME EngineAssumption, Inv, NEW l \in Lane, pc[l] \in Working, Moves(l),
           UNCHANGED <<queuePaused, procVars, watchVars>>
    PROVE  Inv'
<1>1. PICK r \in Row, p \in PC : LaneMove(l, r, p)
  BY DEF Moves
<1>2. /\ cur[l] \in Tasks
      /\ task[cur[l]].state \in Active \cup {"RETRYING", "CANCELLED"}
  BY HeldRow DEF Inv
<1>3. up
  BY DEF Inv, DownMeansIdle, Working, Stopping
<1>4. TypeOK'
  BY <1>1, <1>2 DEF Inv, TypeOK, LaneMove, procVars, watchVars
<1>5. /\ \A t \in Tasks : task'[t] = IF t = cur[l] THEN r ELSE task[t]
      /\ \A k \in Lane : pc'[k] = IF k = l THEN p ELSE pc[k]
      /\ \A k \in Lane : k # l => cur'[k] = cur[k]
      /\ p \in Working => cur'[l] = cur[l]
  BY <1>1, <1>2 DEF Inv, TypeOK, LaneMove, Working, Stopping
<1>6. \A k \in Lane : k # l => ~WorksOn(k, cur[l])
  BY <1>2 DEF Inv, OneWorkerPerTask, WorksOn
<1>7. LanesMatchRows'
  <2> SUFFICES ASSUME NEW k \in Lane, pc'[k] \in Working
               PROVE  cur'[k] \in Tasks /\ task'[cur'[k]].state \in StatesAt(k, pc'[k])
    BY DEF LanesMatchRows, StatesAt
  <2>1. CASE k = l
    BY <2>1, <1>1, <1>2, <1>5 DEF LaneMove
  <2>2. CASE k # l
    BY <2>2, <1>5, <1>6 DEF Inv, LanesMatchRows, WorksOn
  <2> QED
    BY <2>1, <2>2
<1>8. OneWorkerPerTask'
  BY <1>2, <1>5, <1>6 DEF Inv, OneWorkerPerTask, WorksOn
<1>9. NoTaskLost'
  <2> SUFFICES ASSUME NEW t \in Tasks, task'[t].state \in Active
               PROVE  \E k \in Lane : pc'[k] \in Working /\ cur'[k] = t
    BY DEF NoTaskLost, WorksOn
  <2>1. CASE t = cur[l]
    BY <2>1, <1>1, <1>5 DEF LaneMove
  <2>2. CASE t # cur[l]
    <3>1. PICK k \in Lane : WorksOn(k, t)
      BY <2>2, <1>3, <1>5 DEF Inv, NoTaskLost
    <3> QED
      BY <3>1, <2>2, <1>5 DEF WorksOn
  <2> QED
    BY <2>1, <2>2
<1>10. WatchedAreParked'
  BY <1>1, <1>2, <1>5 DEF Inv, TypeOK, WatchedAreParked, watchVars, LaneMove, Ended, Terminal, Active
<1>11. DownMeansIdle'
  BY <1>3 DEF DownMeansIdle, procVars
<1> QED
  BY <1>4, <1>7, <1>8, <1>9, <1>10, <1>11 DEF Inv

-----------------------------------------------------------------------------
(* The ways a segment of _execute ends are such moves *)

LEMMA GoToMoves ==
    ASSUME NEW l \in Lane, NEW p \in PC, NEW r \in Row, GoTo(l, p, r),
           IF p \in Working THEN r.state \in StatesAt(l, p) ELSE r.state \notin Active,
           Ended(task[cur[l]]) => r.state = task[cur[l]].state /\ r.why = task[cur[l]].why
    PROVE  Moves(l)
BY DEF GoTo, Moves, LaneMove

LEMMA LeaveMoves ==
    ASSUME NEW l \in Lane, NEW r \in Row, NEW told \in BOOLEAN, Leave(l, r, told),
           r.state \notin Active,
           Ended(task[cur[l]]) => r.state = task[cur[l]].state /\ r.why = task[cur[l]].why
    PROVE  Moves(l)
<1>1. CASE told
  BY <1>1, GoToMoves DEF Leave, PC, Working, Stopping
<1>2. CASE ~told
  BY <1>2 DEF Leave, Moves, LaneMove, PC, Working, Stopping
<1> QED
  BY <1>1, <1>2

\* A row that is still where the lane's task is, its steps aside.
SameTask(l, r) == /\ r \in Row
                  /\ r.state = task[cur[l]].state
                  /\ r.why = task[cur[l]].why

LEMMA EngineErrorMoves ==
    ASSUME TypeOK, LanesMatchRows, NEW l \in Lane, pc[l] \in Working,
           NEW r, SameTask(l, r), EngineError(l, r)
    PROVE  Moves(l)
<1>1. r.state \in Active \cup {"RETRYING", "CANCELLED"}
  BY HeldRow DEF SameTask
<1>2. CASE CanTransition(r.state, "FAILED")
  <2>1. r.state # "CANCELLED"
    BY <1>2, HeldCanFail DEF Active
  <2>2. ~Ended(task[cur[l]])
    BY <1>1, <2>1 DEF SameTask, Ended, Terminal, Active
  <2>3. /\ Moved(r, "FAILED", "ENGINE_ERROR") \in Row
        /\ Moved(r, "FAILED", "ENGINE_ERROR").state = "FAILED"
    BY MovedRow DEF SameTask, TaskState, Terminal, Reason
  <2> QED
    BY <1>2, <2>2, <2>3, LeaveMoves DEF EngineError, Active
<1>3. CASE ~CanTransition(r.state, "FAILED")
  BY <1>1, <1>3, HeldCanFail, LeaveMoves DEF EngineError, SameTask, Active
<1> QED
  BY <1>2, <1>3

\* No transition leads out of a terminal state.
LEMMA AcceptedMoveIsOpen ==
    ASSUME NEW l \in Lane, NEW r, SameTask(l, r), NEW dst, CanTransition(r.state, dst)
    PROVE  ~Ended(task[cur[l]])
BY DEF SameTask, CanTransition, Transitions, Ended, Terminal

LEMMA SettleMoves ==
    ASSUME TypeOK, LanesMatchRows, NEW l \in Lane, pc[l] \in Working,
           NEW r, SameTask(l, r), NEW dst \in TaskState \ Active, NEW why \in Reason,
           NEW told \in BOOLEAN, Settle(l, r, dst, why, told)
    PROVE  Moves(l)
<1>1. CASE CanTransition(r.state, dst)
  <2>1. Moved(r, dst, why) \in Row /\ Moved(r, dst, why).state = dst
    BY MovedRow DEF SameTask
  <2> QED
    BY <1>1, <2>1, AcceptedMoveIsOpen, LeaveMoves DEF Settle
<1>2. CASE ~CanTransition(r.state, dst)
  BY <1>2, EngineErrorMoves DEF Settle
<1> QED
  BY <1>1, <1>2

LEMMA RetryOrFailMoves ==
    ASSUME StoreAssumption, TypeOK, LanesMatchRows, NEW l \in Lane, pc[l] \in Working,
           NEW r, SameTask(l, r), NEW why \in Reason,
           NEW told \in BOOLEAN, RetryOrFail(l, r, why, told)
    PROVE  Moves(l)
<1>1. CASE r.retries >= MaxRetries
  BY <1>1, SettleMoves DEF RetryOrFail, TaskState, Terminal, Active
<1>2. CASE ~(r.retries >= MaxRetries) /\ CanTransition(r.state, "RETRYING")
  <2> DEFINE m == Moved(r, "RETRYING", "none")
             q == [m EXCEPT !.retries = @ + 1]
  <2>1. m \in Row /\ m.state = "RETRYING" /\ m.retries = r.retries
    BY MovedRow DEF SameTask, TaskState, Runnable, Reason
  <2>2. r.retries \in 0 .. MaxRetries
    BY DEF SameTask, Row
  <2>3. q \in Row /\ q.state = "RETRYING"
    <3> HIDE DEF m
    <3> QED
      BY <1>2, <2>1, <2>2 DEF Row, StoreAssumption
  <2>4. Leave(l, q, told)
    BY <1>2 DEF RetryOrFail
  <2> HIDE DEF q
  <2> QED
    BY <1>2, <2>3, <2>4, AcceptedMoveIsOpen, LeaveMoves DEF Active
<1>3. CASE ~(r.retries >= MaxRetries) /\ ~CanTransition(r.state, "RETRYING")
  BY <1>3, EngineErrorMoves DEF RetryOrFail
<1> QED
  BY <1>1, <1>2, <1>3

LEMMA HaltMoves ==
    ASSUME TypeOK, LanesMatchRows, NEW l \in Lane, pc[l] \in Working,
           NEW r, SameTask(l, r), NEW signal \in Stopping, Halt(l, r, signal)
    PROVE  Moves(l)
<1>1. CASE signal = "cancelled"
  BY <1>1, SettleMoves DEF Halt, TaskState, Terminal, Active, Reason
<1>2. CASE signal = "paused"
  BY <1>2, SettleMoves DEF Halt, TaskState, Waiting, Active, Reason
<1>3. CASE signal = "interrupted"
  BY <1>3, SettleMoves DEF Halt, TaskState, Runnable, Active, Reason
<1> QED
  BY <1>1, <1>2, <1>3 DEF Stopping

-----------------------------------------------------------------------------
(* The steps of a lane that holds a task *)

\* Planning, executing a step and verifying, up to the next await.
WorkStep(l) ==
    \/ Plan(l) \/ StartStep(l) \/ Finish(l)
    \/ StepDone(l) \/ StepHalts(l) \/ Halted(l) \/ StepError(l) \/ StepRefused(l)
    \/ StepNeedsDesktop(l) \/ StepAsks(l) \/ Park(l)
    \/ VerifyPasses(l) \/ VerifyBlocked(l) \/ VerifyNeedsWork(l) \/ VerifyError(l)

LEMMA SignalKind ==
    ASSUME NEW r, Signal(r) # "none"
    PROVE  Signal(r) \in Stopping
BY DEF Signal, Stopping

LEMMA AheadKind ==
    ASSUME NEW t, NEW r, NEW p \in Ahead(t, r)
    PROVE  p \in {"checkpoint", "finish"}
BY DEF Ahead

LEMMA PlanMoves ==
    ASSUME StoreAssumption, TypeOK, LanesMatchRows, NEW l \in Lane, Plan(l)
    PROVE  Moves(l)
<1> DEFINE r == task[cur[l]]
           q == [r EXCEPT !.planned = TRUE]
<1>1. pc[l] = "plan" /\ pc[l] \in Working
  BY DEF Plan, Working
<1>2. r \in Row /\ SameTask(l, r)
  BY <1>1, HeldRow DEF SameTask
<1>3. q \in Row /\ q.state = r.state /\ q.why = r.why
  BY <1>2 DEF Row
<1>4. SameTask(l, q)
  BY <1>3 DEF SameTask
<1>5. CASE Signal(r) # "none"
  BY <1>1, <1>2, <1>5, SignalKind, HaltMoves DEF Plan
<1>6. CASE Signal(r) = "none" /\ CanTransition(q.state, "RUNNING")
  <2>1. PICK p \in Ahead(cur[l], q) : GoTo(l, p, Moved(q, "RUNNING", "none"))
    BY <1>1, <1>6 DEF Plan, EnterRun
  <2>2. Moved(q, "RUNNING", "none") \in Row /\ Moved(q, "RUNNING", "none").state = "RUNNING"
    BY <1>3, MovedRow DEF TaskState, Active, Reason
  <2>3. ~Ended(task[cur[l]])
    BY <1>4, <1>6, AcceptedMoveIsOpen
  <2>4. p \in PC /\ p \in Working /\ StatesAt(l, p) = {"RUNNING"}
    BY <2>1, AheadKind DEF PC, Working, StatesAt
  <2> QED
    BY <2>1, <2>2, <2>3, <2>4, GoToMoves
<1>7. CASE Signal(r) = "none" /\ ~CanTransition(q.state, "RUNNING")
  <2>1. RetryOrFail(l, q, "STEP_ERROR", FALSE)
    BY <1>1, <1>7 DEF Plan
  <2> QED
    BY <1>1, <1>4, <2>1, RetryOrFailMoves DEF Reason
<1> QED
  BY <1>5, <1>6, <1>7

LEMMA StartStepMoves ==
    ASSUME StoreAssumption, TypeOK, LanesMatchRows, NEW l \in Lane, StartStep(l)
    PROVE  Moves(l)
<1> DEFINE r == task[cur[l]]
<1>1. pc[l] = "checkpoint" /\ pc[l] \in Working
  BY DEF StartStep, Working
<1>2. r \in Row /\ SameTask(l, r) /\ r.state = "RUNNING"
  BY <1>1, HeldRow DEF SameTask, StatesAt
<1>3. CASE Signal(r) # "none"
  BY <1>1, <1>2, <1>3, SignalKind, HaltMoves DEF StartStep
<1>4. CASE Signal(r) = "none"
  <2>1. PICK s \in Open(r) : GoTo(l, "step", Started(r, s))
    BY <1>4 DEF StartStep
  <2>2. Started(r, s) \in Row /\ Started(r, s).state = "RUNNING"
    BY <1>2, <2>1, StartedRow DEF Open
  <2>3. ~Ended(r)
    BY <1>2 DEF Ended, Terminal
  <2> QED
    BY <2>1, <2>2, <2>3, GoToMoves DEF PC, Working, StatesAt
<1> QED
  BY <1>3, <1>4

LEMMA FinishMoves ==
    ASSUME StoreAssumption, TypeOK, LanesMatchRows, NEW l \in Lane, Finish(l)
    PROVE  Moves(l)
<1> DEFINE r == task[cur[l]]
<1>1. pc[l] = "finish" /\ pc[l] \in Working
  BY DEF Finish, Working
<1>2. r \in Row /\ SameTask(l, r) /\ r.state = "RUNNING"
  BY <1>1, HeldRow DEF SameTask, StatesAt
<1>3. CASE Signal(r) # "none"
  BY <1>1, <1>2, <1>3, SignalKind, HaltMoves DEF Finish
<1>4. CASE Signal(r) = "none"
  <2>1. GoTo(l, "verify", Moved(r, "VERIFYING", "none"))
    BY <1>2, <1>4 DEF Finish, CanTransition, Transitions
  <2>2. /\ Moved(r, "VERIFYING", "none") \in Row
        /\ Moved(r, "VERIFYING", "none").state = "VERIFYING"
    BY <1>2, MovedRow DEF TaskState, Active, Reason
  <2>3. ~Ended(r)
    BY <1>2 DEF Ended, Terminal
  <2> QED
    BY <2>1, <2>2, <2>3, GoToMoves DEF PC, Working, StatesAt
<1> QED
  BY <1>3, <1>4

LEMMA InStepMoves ==
    ASSUME StoreAssumption, TypeOK, LanesMatchRows, NEW l \in Lane,
           \/ StepDone(l) \/ StepHalts(l) \/ Halted(l) \/ StepError(l) \/ StepRefused(l)
           \/ StepNeedsDesktop(l) \/ StepAsks(l) \/ Park(l)
    PROVE  Moves(l)
<1> DEFINE r == task[cur[l]]
<1>1. pc[l] \in {"step", "ask"} \cup Stopping /\ pc[l] \in Working
  BY DEF StepDone, StepHalts, Halted, StepError, StepRefused, Refuse, StepNeedsDesktop,
         StepAsks, Park, Working
<1>2. r \in Row /\ r.state = "RUNNING" /\ ~Ended(r)
  BY <1>1, HeldRow DEF StatesAt, Stopping, Ended, Terminal
<1>3. /\ SameTask(l, Marked(r, "DONE"))
      /\ SameTask(l, Marked(r, "FAILED"))
      /\ SameTask(l, Marked(r, "PENDING"))
  BY <1>2, MarkedRow DEF SameTask, StepStatus
<1>4. ASSUME StepDone(l) PROVE Moves(l)
  <2>1. PICK p \in Ahead(cur[l], Marked(r, "DONE")) : GoTo(l, p, Marked(r, "DONE"))
    BY <1>4 DEF StepDone
  <2>2. p \in PC /\ p \in Working /\ StatesAt(l, p) = {"RUNNING"}
    BY <2>1, AheadKind DEF PC, Working, StatesAt
  <2> QED
    BY <1>2, <1>3, <2>1, <2>2, GoToMoves DEF SameTask
<1>5. ASSUME StepHalts(l) PROVE Moves(l)
  <2>1. Signal(r) \in Stopping /\ GoTo(l, Signal(r), r)
    BY <1>5, SignalKind DEF StepHalts
  <2>2. \A p \in Stopping : p \in PC /\ p \in Working /\ StatesAt(l, p) = {"RUNNING"}
    BY DEF Stopping, PC, Working, StatesAt
  <2> QED
    BY <1>2, <2>1, <2>2, GoToMoves
<1>6. ASSUME Halted(l) PROVE Moves(l)
  <2>1. pc[l] \in Stopping
    BY <1>6 DEF Halted
  <2>2. CASE pc[l] = "interrupted"
    BY <1>1, <1>3, <1>6, <2>1, <2>2, HaltMoves DEF Halted
  <2>3. CASE pc[l] # "interrupted"
    BY <1>1, <1>3, <1>6, <2>1, <2>3, HaltMoves DEF Halted
  <2> QED
    BY <2>2, <2>3
<1>7. ASSUME StepError(l) PROVE Moves(l)
  BY <1>1, <1>3, <1>7, RetryOrFailMoves DEF StepError, Reason
<1>8. ASSUME StepRefused(l) PROVE Moves(l)
  <2>1. PICK why \in {"BLOCKED_NEEDS_USER", "PERMISSION_DENIED"} :
           Settle(l, Marked(r, "FAILED"), "FAILED", why, TRUE)
    BY <1>8 DEF StepRefused, Refuse
  <2> QED
    BY <1>1, <1>3, <2>1, SettleMoves DEF TaskState, Terminal, Active, Reason
<1>9. ASSUME StepNeedsDesktop(l) PROVE Moves(l)
  BY <1>1, <1>3, <1>9, SettleMoves DEF StepNeedsDesktop, TaskState, Waiting, Active, Reason
<1>10. ASSUME StepAsks(l) PROVE Moves(l)
  BY <1>2, <1>10, GoToMoves DEF StepAsks, PC, Working, StatesAt
<1>11. ASSUME Park(l) PROVE Moves(l)
  BY <1>1, <1>3, <1>11, SettleMoves DEF Park, TaskState, Waiting, Active, Reason
<1> QED
  BY <1>4, <1>5, <1>6, <1>7, <1>8, <1>9, <1>10, <1>11

LEMMA VerifyMoves ==
    ASSUME StoreAssumption, TypeOK, LanesMatchRows, NEW l \in Lane,
           VerifyPasses(l) \/ VerifyBlocked(l) \/ VerifyNeedsWork(l) \/ VerifyError(l)
    PROVE  Moves(l)
<1> DEFINE r == task[cur[l]]
<1>1. pc[l] = "verify" /\ pc[l] \in Working
  BY DEF VerifyPasses, VerifyBlocked, VerifyNeedsWork, VerifyError, Working
<1>2. r \in Row /\ SameTask(l, r)
  BY <1>1, HeldRow DEF SameTask
<1>3. ASSUME VerifyPasses(l) PROVE Moves(l)
  BY <1>1, <1>2, <1>3, SettleMoves DEF VerifyPasses, TaskState, Terminal, Active, Reason
<1>4. ASSUME VerifyBlocked(l) PROVE Moves(l)
  BY <1>1, <1>2, <1>4, SettleMoves DEF VerifyBlocked, TaskState, Terminal, Active, Reason
<1>5. ASSUME VerifyNeedsWork(l) PROVE Moves(l)
  <2>1. PICK k \in 1 .. NSteps + 1 :
           RetryOrFail(l, IF r.retries < MaxRetries THEN Redone(r, k) ELSE r,
                       "VERIFICATION_FAILED", TRUE)
    BY <1>5 DEF VerifyNeedsWork
  <2>2. SameTask(l, Redone(r, k))
    BY <1>2, RedoneRow DEF SameTask
  <2>3. SameTask(l, IF r.retries < MaxRetries THEN Redone(r, k) ELSE r)
    BY <1>2, <2>2
  <2> QED
    BY <1>1, <2>1, <2>3, RetryOrFailMoves DEF Reason
<1>6. ASSUME VerifyError(l) PROVE Moves(l)
  BY <1>1, <1>2, <1>6, RetryOrFailMoves DEF VerifyError, Reason
<1> QED
  BY <1>3, <1>4, <1>5, <1>6

\* All of them together.
LEMMA WorkStepMoves ==
    ASSUME StoreAssumption, TypeOK, LanesMatchRows, NEW l \in Lane, WorkStep(l)
    PROVE  /\ pc[l] \in Working
           /\ Moves(l)
           /\ UNCHANGED <<queuePaused, procVars, watchVars>>
<1>1. Moves(l)
  BY PlanMoves, StartStepMoves, FinishMoves, InStepMoves, VerifyMoves DEF WorkStep
<1>2. pc[l] \in Working /\ UNCHANGED <<queuePaused, procVars, watchVars>>
  BY DEF WorkStep, Plan, StartStep, Finish, StepDone, StepHalts, Halted, StepError,
         StepRefused, Refuse, StepNeedsDesktop, StepAsks, Park, VerifyPasses, VerifyBlocked,
         VerifyNeedsWork, VerifyError, Working
<1> QED
  BY <1>1, <1>2

-----------------------------------------------------------------------------
(* The steps of everybody else *)

\* A task nobody works on may be cancelled, or released if it waits; no task becomes ACTIVE.
RowStep(r, q) ==
    \/ q.state = r.state
    \/ /\ r.state \notin Active \cup {"CANCELLED"} /\ q.state \notin Active
       /\ r.state = "RETRYING" => q.state = "CANCELLED"

LEMMA OthersKeepInv ==
    ASSUME EngineAssumption, Inv, UNCHANGED <<up, laneVars>>, TypeOK', WatchedAreParked',
           \A t \in Tasks : RowStep(task[t], task'[t])
    PROVE  Inv'
<1>1. LanesMatchRows'
  <2> SUFFICES ASSUME NEW l \in Lane, pc[l] \in Working
               PROVE  cur[l] \in Tasks /\ task'[cur[l]].state \in StatesAt(l, pc[l])
    BY DEF LanesMatchRows, StatesAt, laneVars
  <2>1. /\ cur[l] \in Tasks
        /\ task[cur[l]].state \in StatesAt(l, pc[l])
        /\ task[cur[l]].state \in Active \cup {"RETRYING", "CANCELLED"}
        /\ pc[l] # "plan" => task[cur[l]].state \in {"RUNNING", "VERIFYING"}
    BY HeldRow DEF Inv
  <2>2. CASE task[cur[l]].state = "RETRYING"
    BY <2>1, <2>2 DEF RowStep, StatesAt, Lane
  <2>3. CASE task[cur[l]].state # "RETRYING"
    BY <2>1, <2>3 DEF RowStep
  <2> QED
    BY <2>2, <2>3
<1>2. OneWorkerPerTask' /\ DownMeansIdle'
  BY DEF Inv, OneWorkerPerTask, DownMeansIdle, WorksOn, laneVars
<1>3. NoTaskLost'
  BY DEF Inv, NoTaskLost, RowStep, WorksOn, laneVars
<1> QED
  BY <1>1, <1>2, <1>3 DEF Inv

LEMMA ClaimKeepsInv ==
    ASSUME EngineAssumption, Inv, NEW l \in Lane, Claim(l)
    PROVE  Inv'
<1> DEFINE q(t) == IF task[t].state = "RECEIVED" THEN Moved(task[t], "PLANNING", "none")
                                                 ELSE task[t]
<1>1. PICK t \in Tasks, p \in {"plan", "checkpoint", "finish"} :
         /\ NextRunnable(l = "fast", t)
         /\ cur' = [cur EXCEPT ![l] = t]
         /\ pc' = [pc EXCEPT ![l] = p]
         /\ p # "plan" <=> q(t).planned
         /\ task' = [task EXCEPT ![t] = IF q(t).planned THEN Moved(q(t), "RUNNING", "none")
                                                       ELSE q(t)]
  BY DEF Claim, Ahead
<1>2. /\ task[t] \in Row
      /\ task[t].state \in Runnable
      /\ l = "fast" => task[t].state = "RECEIVED"
  BY <1>1 DEF Inv, TypeOK, NextRunnable, Eligible
<1>3. /\ q(t) \in Row
      /\ q(t).state \in {"PLANNING", "RETRYING"}
      /\ l = "fast" => q(t).state = "PLANNING"
  <2>1. "PLANNING" \in TaskState /\ "none" \in Reason
    BY DEF TaskState, Active, Reason
  <2>2. /\ Moved(task[t], "PLANNING", "none") \in Row
        /\ Moved(task[t], "PLANNING", "none").state = "PLANNING"
    BY <1>2, <2>1, MovedRow
  <2> QED
    BY <1>2, <2>2 DEF Runnable
<1>4. PICK r \in Row : /\ task' = [task EXCEPT ![t] = r]
                       /\ r.state \in StatesAt(l, p)
  <2> HIDE DEF q
  <2>1. /\ Moved(q(t), "RUNNING", "none") \in Row
        /\ Moved(q(t), "RUNNING", "none").state = "RUNNING"
    BY <1>3, MovedRow DEF TaskState, Active, Reason
  <2>2. CASE q(t).planned
    BY <1>1, <2>1, <2>2 DEF StatesAt
  <2>3. CASE ~q(t).planned
    BY <1>1, <1>3, <2>3 DEF StatesAt, Lane
  <2> QED
    BY <2>2, <2>3
<1>5. /\ up /\ pc[l] = "idle" /\ p \in Working /\ p \in PC
      /\ UNCHANGED <<queuePaused, procVars, watchVars>>
  BY <1>1 DEF Claim, Working, PC
<1>6. /\ \A u \in Tasks : task'[u] = IF u = t THEN r ELSE task[u]
      /\ \A k \in Lane : pc'[k] = IF k = l THEN p ELSE pc[k]
      /\ \A k \in Lane : cur'[k] = IF k = l THEN t ELSE cur[k]
  BY <1>1, <1>4 DEF Inv, TypeOK
<1>7. \A k \in Lane : ~WorksOn(k, t)
  <2> SUFFICES ASSUME NEW k \in Lane, pc[k] \in Working, cur[k] = t
               PROVE  FALSE
    BY DEF WorksOn
  <2>1. task[t].state \in StatesAt(k, pc[k])
    BY HeldRow DEF Inv
  <2>2. task[t].state = "RETRYING"
    BY <1>2, <2>1 DEF StatesAt, Runnable, Lane
  <2>3. k = "main" /\ l = "fast"
    BY <1>5, <2>1, <2>2 DEF StatesAt, Lane, Working, Stopping
  <2> QED
    BY <1>2, <2>2, <2>3
<1>8. TypeOK'
  BY <1>1, <1>4, <1>5 DEF Inv, TypeOK, procVars, watchVars
<1>9. LanesMatchRows'
  <2> SUFFICES ASSUME NEW k \in Lane, pc'[k] \in Working
               PROVE  cur'[k] \in Tasks /\ task'[cur'[k]].state \in StatesAt(k, pc'[k])
    BY DEF LanesMatchRows, StatesAt
  <2>1. CASE k = l
    BY <2>1, <1>4, <1>6
  <2>2. CASE k # l
    BY <2>2, <1>6, <1>7 DEF Inv, LanesMatchRows, WorksOn
  <2> QED
    BY <2>1, <2>2
<1>10. OneWorkerPerTask'
  BY <1>6, <1>7 DEF Inv, OneWorkerPerTask, WorksOn
<1>11. NoTaskLost'
  <2> SUFFICES ASSUME NEW u \in Tasks, task'[u].state \in Active
               PROVE  \E k \in Lane : pc'[k] \in Working /\ cur'[k] = u
    BY DEF NoTaskLost, WorksOn
  <2>1. CASE u = t
    BY <2>1, <1>5, <1>6
  <2>2. CASE u # t
    <3>1. PICK k \in Lane : WorksOn(k, u)
      BY <2>2, <1>5, <1>6 DEF Inv, NoTaskLost
    <3>2. k # l
      BY <3>1, <1>5 DEF WorksOn, Working, Stopping
    <3> QED
      BY <3>1, <3>2, <1>6 DEF WorksOn
  <2> QED
    BY <2>1, <2>2
<1>12. WatchedAreParked'
  BY <1>2, <1>5, <1>6 DEF Inv, TypeOK, WatchedAreParked, watchVars, Runnable
<1>13. DownMeansIdle'
  BY <1>5 DEF DownMeansIdle, procVars
<1> QED
  BY <1>8, <1>9, <1>10, <1>11, <1>12, <1>13 DEF Inv

\* A lane that has told the owner holds no task any more.
LEMMA ToldKeepsInv ==
    ASSUME EngineAssumption, Inv, NEW l \in Lane, Told(l)
    PROVE  Inv'
<1>1. /\ \A k \in Lane : pc'[k] = IF k = l THEN "idle" ELSE pc[k]
      /\ \A k \in Lane : cur'[k] = IF k = l THEN NoTask ELSE cur[k]
      /\ UNCHANGED <<storeVars, procVars, watchVars>>
      /\ pc[l] = "tell"
  BY DEF Told, Inv, TypeOK
<1>2. "idle" \notin Working /\ "tell" \notin Working
  BY DEF Working, Stopping
<1>3. \A t \in Tasks, k \in Lane : WorksOn(k, t)' <=> WorksOn(k, t)
  BY <1>1, <1>2 DEF WorksOn
<1>4. TypeOK'
  BY DEF Told, Inv, TypeOK, storeVars, procVars, watchVars, PC
<1>5. LanesMatchRows'
  BY <1>1, <1>2 DEF Inv, LanesMatchRows, StatesAt, storeVars
<1>6. OneWorkerPerTask' /\ NoTaskLost'
  BY <1>1, <1>3 DEF Inv, OneWorkerPerTask, NoTaskLost, storeVars, procVars
<1>7. WatchedAreParked' /\ DownMeansIdle'
  BY <1>1 DEF Inv, WatchedAreParked, DownMeansIdle, storeVars, procVars, watchVars
<1> QED
  BY <1>4, <1>5, <1>6, <1>7 DEF Inv

LEMMA OwnerKeepsInv ==
    ASSUME EngineAssumption, Inv, OwnerStep
    PROVE  Inv'
<1>1. ASSUME NEW t \in Tasks, Create(t)
      PROVE  /\ task' \in [Tasks -> Row] /\ queuePaused' \in BOOLEAN
             /\ \A u \in Tasks : RowStep(task[u], task'[u])
             /\ WatchedAreParked'
  <2>1. task[t] \in Row /\ task[t].state = "ABSENT"
    BY <1>1 DEF Create, Inv, TypeOK
  <2>2. [task[t] EXCEPT !.state = "RECEIVED"] \in Row
    BY <2>1 DEF Row, TaskState, Runnable
  <2>3. \A u \in Tasks : task'[u] = IF u = t THEN [task[t] EXCEPT !.state = "RECEIVED"] ELSE task[u]
    BY <1>1 DEF Create, Inv, TypeOK
  <2>4. [task[t] EXCEPT !.state = "RECEIVED"].state = "RECEIVED"
    BY <2>1 DEF Row
  <2>5. \A u \in Tasks : RowStep(task[u], task'[u])
    BY <2>1, <2>3, <2>4 DEF RowStep, Active
  <2>6. task' \in [Tasks -> Row] /\ queuePaused' \in BOOLEAN
    BY <1>1, <2>2 DEF Create, Inv, TypeOK
  <2>7. WatchedAreParked'
    BY <2>1, <2>3 DEF OwnerStep, Inv, TypeOK, WatchedAreParked, watchVars
  <2> QED
    BY <2>5, <2>6, <2>7
<1>2. ASSUME NEW t \in Tasks, RequestCancel(t)
      PROVE  /\ task' \in [Tasks -> Row] /\ queuePaused' \in BOOLEAN
             /\ \A u \in Tasks : RowStep(task[u], task'[u])
             /\ WatchedAreParked'
  <2> DEFINE q == CancelledRow(task[t])
  <2>1. task[t] \in Row /\ task[t].state \notin Terminal
    BY <1>2 DEF RequestCancel, Inv, TypeOK
  <2>2. /\ Moved(task[t], "CANCELLED", "CANCELLED_BY_USER") \in Row
        /\ Moved(task[t], "CANCELLED", "CANCELLED_BY_USER").state = "CANCELLED"
    BY <2>1, MovedRow DEF TaskState, Terminal, Reason
  <2>3. /\ [task[t] EXCEPT !.cancel = TRUE] \in Row
        /\ [task[t] EXCEPT !.cancel = TRUE].state = task[t].state
    BY <2>1, FlaggedRow
  <2>4. q \in Row /\ IF task[t].state \in Active THEN q.state = task[t].state
                                                 ELSE q.state = "CANCELLED"
    BY <2>2, <2>3 DEF CancelledRow
  <2> HIDE DEF q
  <2>5. task' = [task EXCEPT ![t] = q] /\ queuePaused' = queuePaused
    BY <1>2 DEF RequestCancel, q
  <2>6. \A u \in Tasks : task'[u] = IF u = t THEN q ELSE task[u]
    BY <2>5 DEF Inv, TypeOK
  <2>7. \A u \in Tasks : RowStep(task[u], task'[u])
    BY <2>1, <2>4, <2>6 DEF RowStep, Active, Terminal
  <2>8. WatchedAreParked'
    BY <2>4, <2>6 DEF OwnerStep, Inv, TypeOK, WatchedAreParked, watchVars, Active
  <2> QED
    BY <2>4, <2>5, <2>7, <2>8 DEF Inv, TypeOK
<1>3. ASSUME PauseQueue(DropNothing)
      PROVE  /\ task' \in [Tasks -> Row] /\ queuePaused' \in BOOLEAN
             /\ \A u \in Tasks : RowStep(task[u], task'[u])
             /\ WatchedAreParked'
  <2>1. task' = [t \in Tasks |-> PausedRow(task[t])] /\ queuePaused' = TRUE
    BY <1>3 DEF PauseQueue, DropNothing
  <2>2. \A t \in Tasks : PausedRow(task[t]) \in Row /\ PausedRow(task[t]).state = task[t].state
    BY PausedRowType DEF Inv, TypeOK
  <2> QED
    BY <2>1, <2>2 DEF OwnerStep, Inv, TypeOK, RowStep, WatchedAreParked, watchVars
<1>4. ASSUME ResumeQueue
      PROVE  /\ task' \in [Tasks -> Row] /\ queuePaused' \in BOOLEAN
             /\ \A u \in Tasks : RowStep(task[u], task'[u])
             /\ WatchedAreParked'
  <2>1. task' = [t \in Tasks |-> ResumedRow(task[t])] /\ queuePaused' = FALSE
    BY <1>4 DEF ResumeQueue
  <2>2. ASSUME NEW t \in Tasks
        PROVE  /\ ResumedRow(task[t]) \in Row
               /\ IF task[t].state = "PAUSED" THEN ResumedRow(task[t]).state = "RETRYING"
                                              ELSE ResumedRow(task[t]).state = task[t].state
    <3>1. /\ [task[t] EXCEPT !.pause = FALSE] \in Row
          /\ [task[t] EXCEPT !.pause = FALSE].state = task[t].state
      BY FlaggedRow DEF Inv, TypeOK
    <3>2. /\ Moved([task[t] EXCEPT !.pause = FALSE], "RETRYING", "none") \in Row
          /\ Moved([task[t] EXCEPT !.pause = FALSE], "RETRYING", "none").state = "RETRYING"
      BY <3>1, MovedRow DEF TaskState, Runnable, Reason
    <3> QED
      BY <3>1, <3>2 DEF ResumedRow
  <2> QED
    BY <2>1, <2>2 DEF OwnerStep, Inv, TypeOK, RowStep, WatchedAreParked, watchVars, Active
<1>5. /\ task' \in [Tasks -> Row] /\ queuePaused' \in BOOLEAN
      /\ \A u \in Tasks : RowStep(task[u], task'[u])
      /\ WatchedAreParked'
  BY <1>1, <1>2, <1>3, <1>4 DEF OwnerStep
<1>6. UNCHANGED <<laneVars, procVars, watchVars>>
  BY DEF OwnerStep
<1>7. TypeOK'
  BY <1>5, <1>6 DEF Inv, TypeOK, laneVars, procVars, watchVars
<1> QED
  BY <1>5, <1>6, <1>7, OthersKeepInv DEF procVars

LEMMA DecisionKeepsInv ==
    ASSUME EngineAssumption, Inv, DecisionStep
    PROVE  Inv'
<1>1. ASSUME NEW t \in Tasks, NEW why \in Reason, NEW dst \in {"RETRYING", "CANCELLED"},
             ReleaseParked(t, dst, why), UNCHANGED queuePaused
      PROVE  /\ task' \in [Tasks -> Row] /\ queuePaused' \in BOOLEAN
             /\ \A u \in Tasks : RowStep(task[u], task'[u])
             /\ WatchedAreParked'
  <2> DEFINE q == Moved(task[t], dst, why)
  <2>1. task[t] \in Row /\ task[t].state = "WAITING_APPROVAL"
    BY <1>1 DEF ReleaseParked, Inv, TypeOK
  <2>2. q \in Row /\ q.state = dst
    BY <2>1, MovedRow DEF TaskState, Terminal, Runnable
  <2> HIDE DEF q
  <2>3. task' = [task EXCEPT ![t] = q]
    BY <1>1 DEF ReleaseParked, q
  <2>4. \A u \in Tasks : task'[u] = IF u = t THEN q ELSE task[u]
    BY <2>3 DEF Inv, TypeOK
  <2>5. \A u \in Tasks : RowStep(task[u], task'[u])
    BY <2>1, <2>2, <2>4 DEF RowStep, Active
  <2>6. WatchedAreParked'
    BY <2>1, <2>4 DEF DecisionStep, Inv, TypeOK, WatchedAreParked, watchVars
  <2> QED
    BY <1>1, <2>2, <2>3, <2>5, <2>6 DEF Inv, TypeOK
<1>2. ASSUME NEW drop \in [Tasks -> DropReason \cup {"none"}], PauseQueue(drop)
      PROVE  /\ task' \in [Tasks -> Row] /\ queuePaused' \in BOOLEAN
             /\ \A u \in Tasks : RowStep(task[u], task'[u])
             /\ WatchedAreParked'
  <2>1. /\ task' = [t \in Tasks |-> IF drop[t] = "none" THEN PausedRow(task[t])
                                    ELSE Moved(task[t], "CANCELLED", drop[t])]
        /\ queuePaused' = TRUE
        /\ \A t \in Tasks : drop[t] # "none" => task[t].state = "WAITING_APPROVAL"
    BY <1>2 DEF PauseQueue
  <2>2. \A t \in Tasks : PausedRow(task[t]) \in Row /\ PausedRow(task[t]).state = task[t].state
    BY PausedRowType DEF Inv, TypeOK
  <2>3. \A t \in Tasks : /\ Moved(task[t], "CANCELLED", drop[t]) \in Row
                         /\ Moved(task[t], "CANCELLED", drop[t]).state = "CANCELLED"
    BY MovedRow DEF Inv, TypeOK, DropReason, Reason, TaskState, Terminal
  <2>4. ASSUME NEW t \in Tasks
        PROVE  /\ task'[t] \in Row
               /\ IF drop[t] = "none" THEN task'[t].state = task[t].state
                                      ELSE task'[t].state = "CANCELLED"
    BY <2>1, <2>2, <2>3
  <2>5. task' \in [Tasks -> Row] /\ queuePaused' \in BOOLEAN
    BY <2>1, <2>4
  <2>6. \A u \in Tasks : RowStep(task[u], task'[u])
    BY <2>1, <2>4 DEF RowStep, Active
  <2>7. WatchedAreParked'
    BY <2>4 DEF DecisionStep, Inv, TypeOK, WatchedAreParked, watchVars
  <2> QED
    BY <2>5, <2>6, <2>7
<1>3. /\ task' \in [Tasks -> Row] /\ queuePaused' \in BOOLEAN
      /\ \A u \in Tasks : RowStep(task[u], task'[u])
      /\ WatchedAreParked'
  <2>1. CASE \E t \in Tasks : ReleaseParked(t, "RETRYING", "none") /\ UNCHANGED queuePaused
    BY <1>1, <2>1 DEF Reason
  <2>2. CASE \E t \in Tasks, why \in DropReason :
               ReleaseParked(t, "CANCELLED", why) /\ UNCHANGED queuePaused
    BY <1>1, <2>2 DEF Reason, DropReason
  <2>3. CASE \E drop \in [Tasks -> DropReason \cup {"none"}] : PauseQueue(drop)
    BY <1>2, <2>3
  <2> QED
    BY <2>1, <2>2, <2>3 DEF DecisionStep
<1>4. UNCHANGED <<laneVars, procVars, watchVars>>
  BY DEF DecisionStep
<1>5. TypeOK'
  BY <1>3, <1>4 DEF Inv, TypeOK, laneVars, procVars, watchVars
<1> QED
  BY <1>3, <1>4, <1>5, OthersKeepInv DEF procVars

LEMMA WatchKeepsInv ==
    ASSUME EngineAssumption, Inv, WatchStep
    PROVE  Inv'
<1>1. UNCHANGED <<queuePaused, laneVars, procVars>>
  BY DEF WatchStep, WatchAsk, WatchLocked, WatchRelease, storeVars
<1>2. ASSUME WatchAsk \/ WatchLocked
      PROVE  TypeOK' /\ WatchedAreParked' /\ \A t \in Tasks : RowStep(task[t], task'[t])
  BY <1>2 DEF WatchAsk, WatchLocked, Inv, TypeOK, WatchedAreParked, RowStep,
              storeVars, laneVars, procVars
<1>3. ASSUME WatchRelease
      PROVE  TypeOK' /\ WatchedAreParked' /\ \A t \in Tasks : RowStep(task[t], task'[t])
  <2>1. PICK t \in watchList :
          IF CanTransition(task[t].state, "RETRYING")
            THEN /\ task' = [task EXCEPT ![t] = Moved(@, "RETRYING", "none")]
                 /\ watchList' = watchList \ {t}
            ELSE watchList' = {} /\ UNCHANGED task
    BY <1>3 DEF WatchRelease
  <2>2. watching' \in {"idle", "asking", "releasing"}
    BY <1>3 DEF WatchRelease
  <2>3. CASE ~CanTransition(task[t].state, "RETRYING")
    BY <1>1, <2>1, <2>2, <2>3
    DEF Inv, TypeOK, WatchedAreParked, RowStep, laneVars, procVars
  <2>4. CASE CanTransition(task[t].state, "RETRYING")
    <3>1. t \in Tasks /\ task[t] \in Row /\ task[t].state = "WAITING_DESKTOP"
      BY <2>4 DEF Inv, TypeOK, WatchedAreParked, CanTransition, Transitions
    <3> DEFINE q == Moved(task[t], "RETRYING", "none")
    <3>2. q \in Row /\ q.state = "RETRYING"
      BY <3>1, MovedRow DEF TaskState, Runnable, Reason
    <3> HIDE DEF q
    <3>3. task' = [task EXCEPT ![t] = q] /\ watchList' = watchList \ {t}
      BY <2>1, <2>4 DEF q
    <3>4. \A u \in Tasks : task'[u] = IF u = t THEN q ELSE task[u]
      BY <3>3 DEF Inv, TypeOK
    <3>5. TypeOK'
      BY <1>1, <2>2, <3>2, <3>3 DEF Inv, TypeOK, laneVars, procVars
    <3>6. WatchedAreParked'
      BY <3>3, <3>4 DEF Inv, TypeOK, WatchedAreParked
    <3>7. \A u \in Tasks : RowStep(task[u], task'[u])
      BY <3>1, <3>2, <3>4 DEF RowStep, Active
    <3> QED
      BY <3>5, <3>6, <3>7
  <2> QED
    BY <2>3, <2>4
<1> QED
  BY <1>1, <1>2, <1>3, OthersKeepInv DEF WatchStep, procVars

LEMMA ProcessKeepsInv ==
    ASSUME EngineAssumption, Inv, RequestExit \/ Exit \/ Start
    PROVE  Inv'
<1>1. ASSUME RequestExit PROVE Inv'
  <2>1. TypeOK' /\ WatchedAreParked' /\ \A t \in Tasks : RowStep(task[t], task'[t])
    BY <1>1 DEF RequestExit, Inv, TypeOK, WatchedAreParked, RowStep, storeVars, laneVars, watchVars
  <2> QED
    BY <1>1, <2>1, OthersKeepInv DEF RequestExit
<1>2. "idle" \notin Working
  BY DEF Working, Stopping
<1>3. ASSUME Exit PROVE Inv'
  <2>1. \A l \in Lane : pc'[l] = "idle"
    BY <1>3 DEF Exit
  <2>2. TypeOK'
    BY <1>3 DEF Exit, Inv, TypeOK, storeVars, PC
  <2> QED
    BY <1>2, <1>3, <2>1, <2>2
    DEF Exit, Inv, LanesMatchRows, OneWorkerPerTask, NoTaskLost, WatchedAreParked,
        DownMeansIdle, WorksOn
<1>4. ASSUME Start PROVE Inv'
  <2>1. /\ up' /\ draining' = FALSE
        /\ task' = [t \in Tasks |-> Recovered(task[t])]
        /\ UNCHANGED <<queuePaused, laneVars, watchVars>>
        /\ \A l \in Lane : pc'[l] \notin Working
    BY <1>2, <1>4 DEF Start, Inv, DownMeansIdle, laneVars
  <2>2. \A t \in Tasks :
          /\ task'[t] \in Row
          /\ task'[t].state \notin Active
          /\ task[t].state \in {"WAITING_DESKTOP", "CANCELLED"} => task'[t].state = task[t].state
    BY <2>1, RecoveredRow DEF Inv, TypeOK
  <2>3. TypeOK'
    BY <1>4, <2>1, <2>2 DEF Start, Inv, TypeOK, laneVars, watchVars
  <2>4. LanesMatchRows' /\ OneWorkerPerTask' /\ NoTaskLost' /\ DownMeansIdle'
    BY <2>1, <2>2 DEF LanesMatchRows, OneWorkerPerTask, NoTaskLost, DownMeansIdle, WorksOn
  <2>5. WatchedAreParked'
    BY <2>1, <2>2 DEF Inv, TypeOK, WatchedAreParked, watchVars
  <2> QED
    BY <2>3, <2>4, <2>5 DEF Inv
<1> QED
  BY <1>1, <1>3, <1>4

-----------------------------------------------------------------------------
(* The inductive invariant *)

LEMMA InitInv == StoreAssumption /\ EngineAssumption /\ Init => Inv
<1> SUFFICES ASSUME StoreAssumption, EngineAssumption, Init
             PROVE  Inv
  OBVIOUS
<1>1. NoRow \in Row /\ NoRow.state = "ABSENT"
  BY DEF StoreAssumption, NoRow, Row, StepStatus, Reason
<1>2. TypeOK
  BY <1>1 DEF Init, StoreInit, TypeOK, PC
<1>3. \A t \in Tasks : task[t].state \notin Active
  BY <1>1 DEF Init, StoreInit, Active
<1>4. \A l \in Lane : pc[l] = "idle" /\ pc[l] \notin Working
  BY DEF Init, Working, Stopping
<1> QED
  BY <1>2, <1>3, <1>4
  DEF Init, Inv, LanesMatchRows, OneWorkerPerTask, NoTaskLost, WatchedAreParked, DownMeansIdle,
      WorksOn

LEMMA LaneKeepsInv ==
    ASSUME StoreAssumption, EngineAssumption, Inv, NEW l \in Lane, LaneStep(l)
    PROVE  Inv'
<1>1. CASE Claim(l)
  BY <1>1, ClaimKeepsInv
<1>2. CASE Told(l)
  BY <1>2, ToldKeepsInv
<1>3. CASE WorkStep(l)
  BY <1>3, WorkStepMoves, MovesKeepInv DEF Inv
<1> QED
  BY <1>1, <1>2, <1>3 DEF LaneStep, WorkStep

LEMMA StutterKeepsInv ==
    ASSUME Inv, UNCHANGED vars
    PROVE  Inv'
BY DEF Inv, TypeOK, LanesMatchRows, OneWorkerPerTask, NoTaskLost, WatchedAreParked,
       DownMeansIdle, WorksOn, StatesAt, vars

LEMMA NextInv == StoreAssumption /\ EngineAssumption /\ Inv /\ [Next]_vars => Inv'
<1> SUFFICES ASSUME StoreAssumption, EngineAssumption, Inv, [Next]_vars
             PROVE  Inv'
  OBVIOUS
<1>1. CASE \E l \in Lane : LaneStep(l)
  BY <1>1, LaneKeepsInv
<1>2. CASE OwnerStep
  BY <1>2, OwnerKeepsInv
<1>3. CASE DecisionStep
  BY <1>3, DecisionKeepsInv
<1>4. CASE WatchStep
  BY <1>4, WatchKeepsInv
<1>5. CASE RequestExit \/ Exit \/ Start
  BY <1>5, ProcessKeepsInv
<1>6. CASE UNCHANGED vars
  BY <1>6, StutterKeepsInv
<1> QED
  BY <1>1, <1>2, <1>3, <1>4, <1>5, <1>6 DEF Next

\* Inv holds in every state the engine can reach.
THEOREM SpecInv == Spec => []Inv
BY InitInv, NextInv, StoreAssumption, EngineAssumption, PTL DEF Spec

\* The rows keep their shape: the retry counter never passes the limit.
THEOREM SpecTypeOK == Spec => []TypeOK
BY SpecInv, PTL DEF Inv

\* Nobody moves a task while a coroutine works on it.
THEOREM SpecLanesMatchRows == Spec => []LanesMatchRows
BY SpecInv, PTL DEF Inv

\* The two lanes never work on the same task.
THEOREM SpecOneWorkerPerTask == Spec => []OneWorkerPerTask
BY SpecInv, PTL DEF Inv

\* No task is left behind in an ACTIVE state while the process runs.
THEOREM SpecNoTaskLost == Spec => []NoTaskLost
BY SpecInv, PTL DEF Inv

-----------------------------------------------------------------------------
(* An outcome is final *)

KeepsOutcome(t) == Ended(task[t]) => /\ task'[t].state = task[t].state
                                     /\ task'[t].why = task[t].why

LEMMA LaneKeepsOutcomes ==
    ASSUME StoreAssumption, Inv, NEW l \in Lane, LaneStep(l), NEW t \in Tasks
    PROVE  KeepsOutcome(t)
<1>1. CASE Claim(l)
  <2>1. PICK u \in Tasks : /\ task[u].state \in Runnable
                           /\ task' = [task EXCEPT ![u] = task'[u]]
    BY <1>1 DEF Claim, NextRunnable, Eligible
  <2>2. ~Ended(task[u])
    BY <2>1 DEF Ended, Terminal, Runnable
  <2> QED
    BY <2>1, <2>2 DEF KeepsOutcome, Inv, TypeOK
<1>2. CASE Told(l)
  BY <1>2 DEF Told, storeVars, KeepsOutcome
<1>3. CASE WorkStep(l)
  <2>1. PICK r \in Row, p \in PC : LaneMove(l, r, p)
    BY <1>3, WorkStepMoves DEF Inv, Moves
  <2> QED
    BY <2>1 DEF LaneMove, KeepsOutcome, Inv, TypeOK
<1> QED
  BY <1>1, <1>2, <1>3 DEF LaneStep, WorkStep

LEMMA OwnerKeepsOutcomes ==
    ASSUME Inv, OwnerStep, NEW t \in Tasks
    PROVE  KeepsOutcome(t)
<1>1. ASSUME NEW u \in Tasks, Create(u) PROVE KeepsOutcome(t)
  BY <1>1 DEF Create, KeepsOutcome, Ended, Terminal, Inv, TypeOK
<1>2. ASSUME NEW u \in Tasks, RequestCancel(u) PROVE KeepsOutcome(t)
  BY <1>2 DEF RequestCancel, KeepsOutcome, Ended, Inv, TypeOK
<1>3. ASSUME PauseQueue(DropNothing) PROVE KeepsOutcome(t)
  BY <1>3 DEF PauseQueue, DropNothing, PausedRow, KeepsOutcome, Ended, Terminal, Active
<1>4. ASSUME ResumeQueue PROVE KeepsOutcome(t)
  <2> SUFFICES ASSUME Ended(task[t])
               PROVE  task'[t].state = task[t].state /\ task'[t].why = task[t].why
    BY DEF KeepsOutcome
  <2>1. task'[t] = [task[t] EXCEPT !.pause = FALSE]
    BY <1>4 DEF ResumeQueue, ResumedRow, Ended, Terminal
  <2>2. task[t] \in Row
    BY DEF Inv, TypeOK
  <2> QED
    BY <2>1, <2>2 DEF Row
<1> QED
  BY <1>1, <1>2, <1>3, <1>4 DEF OwnerStep

LEMMA OthersKeepOutcomes ==
    ASSUME Inv, DecisionStep \/ WatchStep \/ RequestExit \/ Exit \/ Start, NEW t \in Tasks
    PROVE  KeepsOutcome(t)
<1>1. ASSUME NEW u \in Tasks, NEW dst, NEW why, ReleaseParked(u, dst, why)
      PROVE  KeepsOutcome(t)
  BY <1>1 DEF ReleaseParked, KeepsOutcome, Ended, Terminal, Inv, TypeOK
<1>2. ASSUME NEW drop, PauseQueue(drop) PROVE KeepsOutcome(t)
  BY <1>2 DEF PauseQueue, PausedRow, KeepsOutcome, Ended, Terminal, Active
<1>3. ASSUME WatchStep PROVE KeepsOutcome(t)
  BY <1>3 DEF WatchStep, WatchAsk, WatchLocked, WatchRelease, storeVars, KeepsOutcome,
              Ended, Terminal, CanTransition, Transitions, Inv, TypeOK
<1>4. ASSUME Start PROVE KeepsOutcome(t)
  BY <1>4 DEF Start, Recovered, KeepsOutcome, Ended, Terminal, Active
<1>5. ASSUME RequestExit \/ Exit PROVE KeepsOutcome(t)
  BY <1>5 DEF RequestExit, Exit, storeVars, KeepsOutcome
<1> QED
  BY <1>1, <1>2, <1>3, <1>4, <1>5 DEF DecisionStep

\* A task that ended keeps its outcome for ever.
THEOREM SpecTerminalIsFinal == Spec => TerminalIsFinal
<1>1. Inv /\ [Next]_vars =>
        [\A t \in Tasks : Ended(task[t]) => /\ task'[t].state = task[t].state
                                            /\ task'[t].why = task[t].why]_vars
  <2> SUFFICES ASSUME Inv, Next, NEW t \in Tasks
               PROVE  KeepsOutcome(t)
    BY DEF KeepsOutcome
  <2> QED
    BY LaneKeepsOutcomes, OwnerKeepsOutcomes, OthersKeepOutcomes, StoreAssumption DEF Next
<1> QED
  BY <1>1, SpecInv, PTL DEF Spec, TerminalIsFinal

-----------------------------------------------------------------------------
(* What a lane's step does to the steps of its task *)

\* The lane is inside a step function.
InStep == {"step", "ask"} \cup Stopping

\* The executor of t may return with row r.
Ready(t, r) == Open(r) = {} \/ (t \in Short /\ 1 \notin Open(r))

\* The steps stay; the step in execution is marked; the first open step starts, without a
\* request to stop; or a failed verification that uses up a retry resets steps.
Effect(l) ==
    LET r == task[cur[l]]
        q == task'[cur[l]]
    IN  /\ \/ q.steps = r.steps /\ (pc[l] \in InStep <=> pc'[l] \in InStep)
           \/ /\ pc[l] \in InStep /\ pc'[l] \notin InStep
              /\ \/ \E status \in {"PENDING", "FAILED"} : q.steps = Marked(r, status).steps
                 \/ q.steps = Marked(r, "DONE").steps /\ q.state = r.state /\ q.retries = r.retries
           \/ /\ pc[l] = "checkpoint" /\ pc'[l] = "step" /\ Signal(r) = "none"
              /\ \E s \in Open(r) : q.steps = Started(r, s).steps
           \/ /\ pc[l] = "verify" /\ pc'[l] \notin InStep /\ q.retries = r.retries + 1
              /\ \E k \in Int : q.steps = Redone(r, k).steps
        /\ q.state = "COMPLETED" => pc[l] = "verify" /\ q.steps = r.steps
        /\ pc'[l] = "verify" => pc[l] = "finish" /\ q.steps = r.steps
        /\ pc'[l] = "finish" => Ready(cur[l], q)
        /\ \/ q.retries = r.retries
           \/ /\ q.retries = r.retries + 1 /\ r.retries < MaxRetries
              /\ q.state = "RETRYING" /\ r.state \in Active
        /\ q.state # "ABSENT"

\* The row the lane leaves behind.
Left(l, S, states, n) ==
    /\ pc'[l] \in {"idle", "tell"}
    /\ task'[cur[l]].retries = n
    /\ task'[cur[l]].steps = S
    /\ task'[cur[l]].state \in states

LEMMA MovedSteps ==
    ASSUME NEW r \in Row, NEW dst, NEW why
    PROVE  /\ Moved(r, dst, why).steps = r.steps /\ Moved(r, dst, why).state = dst
           /\ Moved(r, dst, why).retries = r.retries
BY DEF Moved, Row

LEMMA GoToRow ==
    ASSUME TypeOK, NEW l \in Lane, cur[l] \in Tasks, NEW p, NEW q, GoTo(l, p, q)
    PROVE  task'[cur[l]] = q /\ pc'[l] = p
BY DEF TypeOK, GoTo

LEMMA LeaveRow ==
    ASSUME TypeOK, NEW l \in Lane, cur[l] \in Tasks, NEW q, NEW told, Leave(l, q, told)
    PROVE  task'[cur[l]] = q /\ pc'[l] \in {"idle", "tell"}
<1>1. CASE told
  BY <1>1, GoToRow DEF Leave
<1>2. CASE ~told
  BY <1>2 DEF Leave, TypeOK
<1> QED
  BY <1>1, <1>2

LEMMA EngineErrorRow ==
    ASSUME TypeOK, NEW l \in Lane, cur[l] \in Tasks, NEW r \in Row, EngineError(l, r)
    PROVE  Left(l, r.steps, {"FAILED", r.state}, r.retries)
<1>1. CASE CanTransition(r.state, "FAILED")
  <2>1. Leave(l, Moved(r, "FAILED", "ENGINE_ERROR"), FALSE)
    BY <1>1 DEF EngineError
  <2>2. task'[cur[l]] = Moved(r, "FAILED", "ENGINE_ERROR") /\ pc'[l] \in {"idle", "tell"}
    BY <2>1, LeaveRow
  <2> QED
    BY <2>2, MovedSteps DEF Left
<1>2. CASE ~CanTransition(r.state, "FAILED")
  <2>1. Leave(l, r, FALSE)
    BY <1>2 DEF EngineError
  <2> QED
    BY <2>1, LeaveRow DEF Left
<1> QED
  BY <1>1, <1>2

LEMMA SettleRow ==
    ASSUME TypeOK, NEW l \in Lane, cur[l] \in Tasks, NEW r \in Row, NEW dst, NEW why, NEW told,
           Settle(l, r, dst, why, told)
    PROVE  Left(l, r.steps, {dst, "FAILED", r.state}, r.retries)
<1>1. CASE CanTransition(r.state, dst)
  <2>1. Leave(l, Moved(r, dst, why), told)
    BY <1>1 DEF Settle
  <2> QED
    BY <2>1, LeaveRow, MovedSteps DEF Left
<1>2. CASE ~CanTransition(r.state, dst)
  <2>1. EngineError(l, r)
    BY <1>2 DEF Settle
  <2> QED
    BY <2>1, EngineErrorRow DEF Left
<1> QED
  BY <1>1, <1>2

LEMMA RetryOrFailRow ==
    ASSUME TypeOK, NEW l \in Lane, cur[l] \in Tasks, NEW r \in Row, NEW why, NEW told,
           RetryOrFail(l, r, why, told)
    PROVE  LET again == r.retries < MaxRetries /\ CanTransition(r.state, "RETRYING")
           IN  /\ again => Left(l, r.steps, {"RETRYING"}, r.retries + 1)
               /\ ~again => Left(l, r.steps, {"FAILED", r.state}, r.retries)
<1>0. MaxRetries \in Nat /\ r.retries \in Nat
  BY StoreAssumption DEF Row
<1>1. CASE r.retries >= MaxRetries
  <2>1. Settle(l, r, "FAILED", why, TRUE)
    BY <1>1 DEF RetryOrFail
  <2>2. Left(l, r.steps, {"FAILED", "FAILED", r.state}, r.retries)
    BY <2>1, SettleRow
  <2>3. ~(r.retries < MaxRetries)
    BY <1>0, <1>1
  <2> QED
    BY <2>2, <2>3 DEF Left
<1>2. CASE ~(r.retries >= MaxRetries) /\ CanTransition(r.state, "RETRYING")
  <2> DEFINE m == Moved(r, "RETRYING", "none")
  <2>1. Leave(l, [m EXCEPT !.retries = @ + 1], told)
    BY <1>2 DEF RetryOrFail
  <2>2. task'[cur[l]] = [m EXCEPT !.retries = @ + 1] /\ pc'[l] \in {"idle", "tell"}
    BY <2>1, LeaveRow
  <2>3. m \in Row /\ m.steps = r.steps /\ m.state = "RETRYING" /\ m.retries = r.retries
    BY MovedRow, MovedSteps DEF TaskState, Runnable, Reason
  <2> HIDE DEF m
  <2>4. /\ [m EXCEPT !.retries = @ + 1].steps = m.steps
        /\ [m EXCEPT !.retries = @ + 1].state = m.state
        /\ [m EXCEPT !.retries = @ + 1].retries = m.retries + 1
    BY <2>3 DEF Row
  <2>5. Left(l, r.steps, {"RETRYING"}, r.retries + 1)
    BY <2>2, <2>3, <2>4 DEF Left
  <2> QED
    BY <1>0, <1>2, <2>5
<1>3. CASE ~(r.retries >= MaxRetries) /\ ~CanTransition(r.state, "RETRYING")
  <2>1. EngineError(l, r)
    BY <1>3 DEF RetryOrFail
  <2> QED
    BY <1>3, <2>1, EngineErrorRow
<1> QED
  BY <1>1, <1>2, <1>3

LEMMA HaltRow ==
    ASSUME TypeOK, NEW l \in Lane, cur[l] \in Tasks, NEW r \in Row, NEW signal \in Stopping,
           Halt(l, r, signal)
    PROVE  Left(l, r.steps, {"CANCELLED", "PAUSED", "RETRYING", "FAILED", r.state}, r.retries)
<1>1. \E dst \in {"CANCELLED", "PAUSED", "RETRYING"}, why \in Reason, told \in BOOLEAN :
         Settle(l, r, dst, why, told)
  BY DEF Halt, Stopping, Reason
<1> QED
  BY <1>1, SettleRow DEF Left

\* A task that is left outside or inside a step.
LEMMA LeftEffect ==
    ASSUME NEW l \in Lane, NEW states, "COMPLETED" \notin states, "ABSENT" \notin states, NEW n,
           \/ n = task[cur[l]].retries
           \/ /\ n = task[cur[l]].retries + 1 /\ task[cur[l]].retries < MaxRetries
              /\ states = {"RETRYING"} /\ task[cur[l]].state \in Active,
           \/ pc[l] \notin InStep /\ Left(l, task[cur[l]].steps, states, n)
           \/ /\ pc[l] \in InStep
              /\ \E status \in {"PENDING", "FAILED"} :
                   Left(l, Marked(task[cur[l]], status).steps, states, n)
    PROVE  Effect(l)
BY DEF Left, Effect, InStep, Stopping

\* A failure on row r, which has the state and the retries of the lane's row.
LEMMA RetryOrFailEffect ==
    ASSUME TypeOK, NEW l \in Lane, cur[l] \in Tasks, NEW r \in Row, NEW why, NEW told,
           RetryOrFail(l, r, why, told),
           r.state = task[cur[l]].state, r.retries = task[cur[l]].retries,
           r.state \in Active \cup {"RETRYING", "CANCELLED"},
           \/ pc[l] \notin InStep /\ r.steps = task[cur[l]].steps
           \/ pc[l] \in InStep /\ r.steps = Marked(task[cur[l]], "FAILED").steps
    PROVE  Effect(l)
<1> DEFINE again == r.retries < MaxRetries /\ CanTransition(r.state, "RETRYING")
<1>1. /\ again => Left(l, r.steps, {"RETRYING"}, r.retries + 1)
      /\ ~again => Left(l, r.steps, {"FAILED", r.state}, r.retries)
  BY RetryOrFailRow
<1>2. CanTransition(r.state, "RETRYING") => r.state \in Active
  BY DEF CanTransition, Transitions, AnyExit, Active
<1>3. CASE again
  BY <1>1, <1>2, <1>3, LeftEffect
<1>4. CASE ~again
  BY <1>1, <1>4, LeftEffect DEF Active
<1> QED
  BY <1>3, <1>4

\* What a lane holds at every suspension point.
LEMMA Holds ==
    ASSUME TypeOK, LanesMatchRows, NEW l \in Lane, WorkStep(l)
    PROVE  /\ cur[l] \in Tasks /\ task[cur[l]] \in Row
           /\ task[cur[l]].state \in Active \cup {"RETRYING", "CANCELLED"}
           /\ task[cur[l]].state # "COMPLETED"
           /\ pc[l] = "verify" => task[cur[l]].state = "VERIFYING"
           /\ pc[l] \in {"checkpoint", "finish"} \cup InStep => task[cur[l]].state = "RUNNING"
<1>1. pc[l] \in Working
  BY DEF WorkStep, Plan, StartStep, Finish, StepDone, StepHalts, Halted, StepError,
         StepRefused, Refuse, StepNeedsDesktop, StepAsks, Park, VerifyPasses, VerifyBlocked,
         VerifyNeedsWork, VerifyError, Working
<1>2. cur[l] \in Tasks /\ task[cur[l]].state \in StatesAt(l, pc[l])
  BY <1>1 DEF LanesMatchRows
<1>3. /\ pc[l] = "verify" => task[cur[l]].state = "VERIFYING"
      /\ pc[l] \in {"checkpoint", "finish"} \cup InStep => task[cur[l]].state = "RUNNING"
  BY <1>2 DEF StatesAt, InStep, Stopping
<1> QED
  BY <1>1, <1>2, <1>3, HeldRow DEF Active

LEMMA PlanEffect ==
    ASSUME TypeOK, LanesMatchRows, NEW l \in Lane, Plan(l)
    PROVE  Effect(l)
<1> DEFINE r == task[cur[l]]
           q == [r EXCEPT !.planned = TRUE]
<1>1. /\ pc[l] = "plan" /\ cur[l] \in Tasks /\ r \in Row
      /\ r.state \in Active \cup {"RETRYING", "CANCELLED"} /\ pc[l] \notin InStep
  BY Holds DEF Plan, WorkStep, InStep, Stopping
<1>2. q \in Row /\ q.steps = r.steps /\ q.state = r.state /\ q.retries = r.retries
  BY <1>1 DEF Row
<1>3. CASE Signal(r) # "none"
  <2>1. Halt(l, r, Signal(r)) /\ Signal(r) \in Stopping
    BY <1>3, SignalKind DEF Plan
  <2>2. Left(l, r.steps, {"CANCELLED", "PAUSED", "RETRYING", "FAILED", r.state}, r.retries)
    BY <1>1, <2>1, HaltRow
  <2> QED
    BY <1>1, <2>2, LeftEffect DEF Active
<1>4. CASE Signal(r) = "none" /\ CanTransition(q.state, "RUNNING")
  <2>1. PICK p \in Ahead(cur[l], q) : GoTo(l, p, Moved(q, "RUNNING", "none"))
    BY <1>4 DEF Plan, EnterRun
  <2>2. task'[cur[l]] = Moved(q, "RUNNING", "none") /\ pc'[l] = p
    BY <1>1, <2>1, GoToRow
  <2>3. /\ task'[cur[l]].steps = r.steps /\ task'[cur[l]].state = "RUNNING"
        /\ task'[cur[l]].retries = r.retries
    <3> HIDE DEF q
    <3>1. /\ Moved(q, "RUNNING", "none").steps = q.steps /\ Moved(q, "RUNNING", "none").state = "RUNNING"
          /\ Moved(q, "RUNNING", "none").retries = q.retries
      BY <1>2, MovedSteps
    <3> QED
      BY <1>2, <2>2, <3>1
  <2>4. p \in {"checkpoint", "finish"} /\ (p = "finish" => Ready(cur[l], r))
    BY <1>2, <2>1 DEF Ahead, Open, Ready
  <2> QED
    BY <1>1, <2>2, <2>3, <2>4 DEF Effect, InStep, Stopping, Open, Ready
<1>5. CASE Signal(r) = "none" /\ ~CanTransition(q.state, "RUNNING")
  <2>1. RetryOrFail(l, q, "STEP_ERROR", FALSE)
    BY <1>5 DEF Plan
  <2> HIDE DEF q
  <2> QED
    BY <1>1, <1>2, <2>1, RetryOrFailEffect
<1> QED
  BY <1>3, <1>4, <1>5

LEMMA StartStepEffect ==
    ASSUME TypeOK, LanesMatchRows, NEW l \in Lane, StartStep(l)
    PROVE  Effect(l)
<1> DEFINE r == task[cur[l]]
<1>1. /\ pc[l] = "checkpoint" /\ cur[l] \in Tasks /\ r \in Row
      /\ r.state = "RUNNING" /\ pc[l] \notin InStep
  BY Holds DEF StartStep, WorkStep, InStep, Stopping
<1>2. CASE Signal(r) # "none"
  <2>1. Halt(l, r, Signal(r)) /\ Signal(r) \in Stopping
    BY <1>2, SignalKind DEF StartStep
  <2>2. Left(l, r.steps, {"CANCELLED", "PAUSED", "RETRYING", "FAILED", r.state}, r.retries)
    BY <1>1, <2>1, HaltRow
  <2> QED
    BY <1>1, <2>2, LeftEffect
<1>3. CASE Signal(r) = "none"
  <2>1. PICK s \in Open(r) : GoTo(l, "step", Started(r, s))
    BY <1>3 DEF StartStep
  <2>2. task'[cur[l]] = Started(r, s) /\ pc'[l] = "step"
    BY <1>1, <2>1, GoToRow
  <2>3. s \in Steps /\ Started(r, s).state = "RUNNING" /\ Started(r, s).retries = r.retries
    BY <1>1, <2>1, StartedRow DEF Open
  <2> QED
    BY <1>1, <1>3, <2>2, <2>3 DEF Effect
<1> QED
  BY <1>2, <1>3

LEMMA FinishEffect ==
    ASSUME TypeOK, LanesMatchRows, NEW l \in Lane, Finish(l)
    PROVE  Effect(l)
<1> DEFINE r == task[cur[l]]
<1>1. /\ pc[l] = "finish" /\ cur[l] \in Tasks /\ r \in Row
      /\ r.state = "RUNNING" /\ pc[l] \notin InStep
  BY Holds DEF Finish, WorkStep, InStep, Stopping
<1>2. CASE Signal(r) # "none"
  <2>1. Halt(l, r, Signal(r)) /\ Signal(r) \in Stopping
    BY <1>2, SignalKind DEF Finish
  <2>2. Left(l, r.steps, {"CANCELLED", "PAUSED", "RETRYING", "FAILED", r.state}, r.retries)
    BY <1>1, <2>1, HaltRow
  <2> QED
    BY <1>1, <2>2, LeftEffect
<1>3. CASE Signal(r) = "none"
  <2>1. GoTo(l, "verify", Moved(r, "VERIFYING", "none"))
    BY <1>1, <1>3 DEF Finish, CanTransition, Transitions
  <2>2. task'[cur[l]] = Moved(r, "VERIFYING", "none") /\ pc'[l] = "verify"
    BY <1>1, <2>1, GoToRow
  <2>3. /\ task'[cur[l]].steps = r.steps /\ task'[cur[l]].state = "VERIFYING"
        /\ task'[cur[l]].retries = r.retries
    BY <1>1, <2>2, MovedSteps
  <2> QED
    BY <1>1, <2>2, <2>3 DEF Effect, InStep, Stopping
<1> QED
  BY <1>2, <1>3

LEMMA InStepEffect ==
    ASSUME TypeOK, LanesMatchRows, NEW l \in Lane,
           \/ StepDone(l) \/ StepHalts(l) \/ Halted(l) \/ StepError(l) \/ StepRefused(l)
           \/ StepNeedsDesktop(l) \/ StepAsks(l) \/ Park(l)
    PROVE  Effect(l)
<1> DEFINE r == task[cur[l]]
<1>1. pc[l] \in InStep /\ cur[l] \in Tasks /\ r \in Row /\ r.state = "RUNNING"
  <2>1. pc[l] \in InStep
    BY DEF StepDone, StepHalts, Halted, StepError, StepRefused, Refuse, StepNeedsDesktop,
           StepAsks, Park, InStep
  <2> QED
    BY <2>1, Holds DEF WorkStep
<1>2. ASSUME NEW status \in StepStatus
      PROVE  /\ Marked(r, status) \in Row /\ Marked(r, status).state = "RUNNING"
             /\ Marked(r, status).retries = r.retries
  BY <1>1, MarkedRow
<1>3. ASSUME NEW status \in {"PENDING", "FAILED"}, NEW dst, dst # "COMPLETED",
             dst # "ABSENT", NEW why, NEW told,
             Settle(l, Marked(r, status), dst, why, told)
      PROVE  Effect(l)
  <2>1. /\ Marked(r, status) \in Row /\ Marked(r, status).state = "RUNNING"
        /\ Marked(r, status).retries = r.retries
    BY <1>2 DEF StepStatus
  <2>2. Left(l, Marked(r, status).steps, {dst, "FAILED", Marked(r, status).state}, r.retries)
    BY <1>1, <1>3, <2>1, SettleRow
  <2> QED
    BY <1>1, <1>3, <2>1, <2>2, LeftEffect
<1>4. CASE StepDone(l)
  <2> DEFINE q == Marked(r, "DONE")
  <2>1. PICK p \in Ahead(cur[l], q) : GoTo(l, p, q)
    BY <1>4 DEF StepDone
  <2>2. task'[cur[l]] = q /\ pc'[l] = p
    BY <1>1, <2>1, GoToRow
  <2>3. p \in {"checkpoint", "finish"} /\ (p = "finish" => Ready(cur[l], q))
    BY <2>1 DEF Ahead, Ready
  <2>4. q.state = "RUNNING" /\ q.retries = r.retries
    BY <1>2 DEF StepStatus
  <2> QED
    BY <1>1, <2>2, <2>3, <2>4 DEF Effect, InStep, Stopping
<1>5. CASE StepHalts(l) \/ StepAsks(l)
  <2>1. PICK p \in {"ask"} \cup Stopping : GoTo(l, p, r)
    BY <1>5, SignalKind DEF StepHalts, StepAsks
  <2>2. task'[cur[l]] = r /\ pc'[l] = p
    BY <1>1, <2>1, GoToRow
  <2> QED
    BY <1>1, <2>1, <2>2 DEF Effect, InStep, Stopping
<1>6. CASE Halted(l)
  <2> DEFINE status == IF pc[l] = "interrupted" THEN "FAILED" ELSE "PENDING"
  <2>1. Halt(l, Marked(r, status), pc[l]) /\ pc[l] \in Stopping
    BY <1>6 DEF Halted
  <2>2. status \in {"PENDING", "FAILED"} /\ status \in StepStatus
    BY DEF StepStatus
  <2>3. /\ Marked(r, status) \in Row /\ Marked(r, status).state = "RUNNING"
        /\ Marked(r, status).retries = r.retries
    BY <1>2, <2>2
  <2> HIDE DEF status
  <2>4. Left(l, Marked(r, status).steps,
             {"CANCELLED", "PAUSED", "RETRYING", "FAILED", Marked(r, status).state}, r.retries)
    BY <1>1, <2>1, <2>3, HaltRow
  <2> QED
    BY <1>1, <2>2, <2>3, <2>4, LeftEffect
<1>7. CASE StepError(l)
  <2>1. RetryOrFail(l, Marked(r, "FAILED"), "STEP_ERROR", FALSE)
    BY <1>7 DEF StepError
  <2>2. /\ Marked(r, "FAILED") \in Row /\ Marked(r, "FAILED").state = "RUNNING"
        /\ Marked(r, "FAILED").retries = r.retries
    BY <1>2 DEF StepStatus
  <2> QED
    BY <1>1, <2>1, <2>2, RetryOrFailEffect DEF Active
<1>8. CASE StepRefused(l)
  <2>1. PICK why : Settle(l, Marked(r, "FAILED"), "FAILED", why, TRUE)
    BY <1>8 DEF StepRefused, Refuse
  <2> QED
    BY <1>3, <2>1
<1>9. CASE StepNeedsDesktop(l)
  BY <1>3, <1>9 DEF StepNeedsDesktop
<1>10. CASE Park(l)
  BY <1>3, <1>10 DEF Park
<1> QED
  BY <1>4, <1>5, <1>6, <1>7, <1>8, <1>9, <1>10

LEMMA VerifyEffect ==
    ASSUME TypeOK, LanesMatchRows, NEW l \in Lane,
           VerifyPasses(l) \/ VerifyBlocked(l) \/ VerifyNeedsWork(l) \/ VerifyError(l)
    PROVE  Effect(l)
<1> DEFINE r == task[cur[l]]
<1>1. /\ pc[l] = "verify" /\ cur[l] \in Tasks /\ r \in Row
      /\ r.state = "VERIFYING" /\ pc[l] \notin InStep
  BY Holds DEF VerifyPasses, VerifyBlocked, VerifyNeedsWork, VerifyError, WorkStep, InStep, Stopping
<1>2. CASE VerifyPasses(l)
  <2>1. Left(l, r.steps, {"COMPLETED", "FAILED", r.state}, r.retries)
    BY <1>1, <1>2, SettleRow DEF VerifyPasses
  <2> QED
    BY <1>1, <2>1 DEF Left, Effect, InStep, Stopping
<1>3. CASE VerifyBlocked(l)
  <2>1. Left(l, r.steps, {"FAILED", "FAILED", r.state}, r.retries)
    BY <1>1, <1>3, SettleRow DEF VerifyBlocked
  <2> QED
    BY <1>1, <2>1, LeftEffect
<1>4. CASE VerifyError(l)
  BY <1>1, <1>4, RetryOrFailEffect DEF VerifyError, Active
<1>5. CASE VerifyNeedsWork(l)
  <2>1. PICK k \in 1 .. NSteps + 1 :
           RetryOrFail(l, IF r.retries < MaxRetries THEN Redone(r, k) ELSE r, "VERIFICATION_FAILED", TRUE)
    BY <1>5 DEF VerifyNeedsWork
  <2>2. k \in Int
    BY StoreAssumption
  <2>3. CASE r.retries < MaxRetries
    <3> DEFINE q == Redone(r, k)
    <3>1. RetryOrFail(l, q, "VERIFICATION_FAILED", TRUE)
      BY <2>1, <2>3
    <3>2. q \in Row /\ q.state = "VERIFYING" /\ q.retries = r.retries
      BY <1>1, <2>2, RedoneRow
    <3>3. CanTransition(q.state, "RETRYING")
      BY <3>2 DEF CanTransition, Transitions
    <3>4. Left(l, q.steps, {"RETRYING"}, r.retries + 1)
      <4> HIDE DEF q
      <4> QED
        BY <1>1, <2>3, <3>1, <3>2, <3>3, RetryOrFailRow
    <3> QED
      BY <1>1, <2>2, <2>3, <3>4 DEF Left, Effect, InStep, Stopping, Active
  <2>4. CASE ~(r.retries < MaxRetries)
    BY <1>1, <2>1, <2>4, RetryOrFailEffect DEF Active
  <2> QED
    BY <2>3, <2>4
<1> QED
  BY <1>2, <1>3, <1>4, <1>5

LEMMA WorkEffect ==
    ASSUME TypeOK, LanesMatchRows, NEW l \in Lane, WorkStep(l)
    PROVE  Effect(l)
BY PlanEffect, StartStepEffect, FinishEffect, InStepEffect, VerifyEffect DEF WorkStep

\* Everything else leaves the steps, and the state of a task that is worked on, alone.
Apart(t) == /\ task'[t].steps = task[t].steps
            /\ task[t].state \in Active => task'[t].state = task[t].state
            /\ task'[t].state \in {"VERIFYING", "COMPLETED"} => task'[t].state = task[t].state
            /\ task'[t].retries = task[t].retries
            /\ \/ JobStatus(task'[t].state) = JobStatus(task[t].state)
               \/ JobStatus(task[t].state) = "open" /\ task'[t].state = "CANCELLED"
               \/ Create(t)

LEMMA RowsApart ==
    ASSUME NEW r \in Row
    PROVE  /\ \A dst, why : /\ Moved(r, dst, why).steps = r.steps
                            /\ Moved(r, dst, why).state = dst
                            /\ Moved(r, dst, why).retries = r.retries
           /\ CancelledRow(r).steps = r.steps /\ CancelledRow(r).retries = r.retries
           /\ r.state \in Active => CancelledRow(r).state = r.state
           /\ r.state \notin Active => CancelledRow(r).state = "CANCELLED"
           /\ PausedRow(r).steps = r.steps /\ PausedRow(r).retries = r.retries
           /\ PausedRow(r).state = r.state
           /\ ResumedRow(r).steps = r.steps /\ ResumedRow(r).retries = r.retries
           /\ r.state # "PAUSED" => ResumedRow(r).state = r.state
           /\ r.state = "PAUSED" => ResumedRow(r).state = "RETRYING"
<1> DEFINE n == [r EXCEPT !.pause = FALSE]
<1>1. \A dst, why : /\ Moved(r, dst, why).steps = r.steps
                    /\ Moved(r, dst, why).state = dst
                    /\ Moved(r, dst, why).retries = r.retries
  BY MovedSteps
<1>2. /\ [r EXCEPT !.cancel = TRUE].steps = r.steps /\ [r EXCEPT !.cancel = TRUE].state = r.state
      /\ [r EXCEPT !.pause = TRUE].steps = r.steps /\ [r EXCEPT !.pause = TRUE].state = r.state
      /\ [r EXCEPT !.cancel = TRUE].retries = r.retries
      /\ [r EXCEPT !.pause = TRUE].retries = r.retries
  BY DEF Row
<1>3. n \in Row /\ n.steps = r.steps /\ n.state = r.state /\ n.retries = r.retries
  BY DEF Row
<1>4. ResumedRow(r) = IF r.state = "PAUSED" THEN Moved(n, "RETRYING", "none") ELSE n
  BY DEF ResumedRow
<1> HIDE DEF n
<1>5. /\ Moved(n, "RETRYING", "none").steps = r.steps /\ Moved(n, "RETRYING", "none").state = "RETRYING"
      /\ Moved(n, "RETRYING", "none").retries = r.retries
  BY <1>3, MovedSteps
<1> QED
  BY <1>1, <1>2, <1>3, <1>4, <1>5 DEF CancelledRow, PausedRow

LEMMA OwnerApart ==
    ASSUME Inv, OwnerStep \/ DecisionStep, NEW t \in Tasks
    PROVE  Apart(t)
<1>1. task \in [Tasks -> Row] /\ task[t] \in Row
  BY DEF Inv, TypeOK
<1>2. ASSUME NEW u \in Tasks, Create(u) PROVE Apart(t)
  <2>1. task' = [task EXCEPT ![u].state = "RECEIVED"] /\ task[u].state = "ABSENT"
    BY <1>2 DEF Create
  <2> QED
    BY <1>1, <1>2, <2>1 DEF Apart, Row, Active
<1>3. ASSUME NEW u \in Tasks, RequestCancel(u) PROVE Apart(t)
  <2>1. /\ task' = [task EXCEPT ![u] = CancelledRow(task[u])]
        /\ JobStatus(task[u].state) = "open"
    BY <1>3 DEF RequestCancel, Terminal, JobStatus
  <2> QED
    BY <1>1, <2>1, RowsApart DEF Apart
<1>4. ASSUME NEW drop, PauseQueue(drop) PROVE Apart(t)
  <2>1. /\ task'[t] = IF drop[t] = "none" THEN PausedRow(task[t]) ELSE Moved(task[t], "CANCELLED", drop[t])
        /\ drop[t] # "none" => task[t].state = "WAITING_APPROVAL"
    BY <1>4 DEF PauseQueue
  <2> QED
    BY <1>1, <2>1, RowsApart DEF Apart, Active, JobStatus
<1>5. ASSUME ResumeQueue PROVE Apart(t)
  <2>1. task'[t] = ResumedRow(task[t])
    BY <1>5 DEF ResumeQueue
  <2> QED
    BY <1>1, <2>1, RowsApart DEF Apart, Active, JobStatus
<1>6. ASSUME NEW u \in Tasks, NEW dst \in {"RETRYING", "CANCELLED"}, NEW why, ReleaseParked(u, dst, why)
      PROVE  Apart(t)
  <2>1. task' = [task EXCEPT ![u] = Moved(task[u], dst, why)] /\ task[u].state = "WAITING_APPROVAL"
    BY <1>6 DEF ReleaseParked
  <2> QED
    BY <1>1, <2>1, RowsApart DEF Apart, Active, JobStatus
<1>7. CASE OwnerStep
  BY <1>2, <1>3, <1>4, <1>5, <1>7 DEF OwnerStep
<1>8. CASE DecisionStep
  BY <1>4, <1>6, <1>8 DEF DecisionStep
<1> QED
  BY <1>7, <1>8

LEMMA RestApart ==
    ASSUME Inv, NEW t \in Tasks,
           \/ WatchStep \/ RequestExit \/ Exit \/ UNCHANGED vars
           \/ \E l \in Lane : Claim(l) \/ Told(l)
    PROVE  Apart(t)
<1>1. task \in [Tasks -> Row] /\ task[t] \in Row
  BY DEF Inv, TypeOK
<1>2. CASE task' = task
  BY <1>2 DEF Apart
<1>3. CASE WatchRelease
  <2>1. PICK u \in watchList :
           IF CanTransition(task[u].state, "RETRYING")
           THEN task' = [task EXCEPT ![u] = Moved(task[u], "RETRYING", "none")]
           ELSE task' = task
    BY <1>3 DEF WatchRelease
  <2>2. task[u].state \in {"WAITING_DESKTOP", "CANCELLED"} /\ u \in Tasks
    BY DEF Inv, WatchedAreParked, TypeOK
  <2>3. CASE task[u].state = "CANCELLED"
    BY <1>2, <2>1, <2>3 DEF CanTransition, Transitions
  <2>4. CASE task[u].state = "WAITING_DESKTOP" /\ CanTransition(task[u].state, "RETRYING")
    BY <1>1, <2>1, <2>2, <2>4, RowsApart DEF Apart, Active, JobStatus
  <2> QED
    BY <1>2, <2>1, <2>2, <2>3, <2>4
<1>4. ASSUME NEW l \in Lane, Claim(l) PROVE Apart(t)
  <2>1. PICK u \in Tasks :
           /\ task[u].state \in Runnable
           /\ LET r == IF task[u].state = "RECEIVED" THEN Moved(task[u], "PLANNING", "none")
                                                     ELSE task[u]
              IN  task' = [task EXCEPT ![u] = IF r.planned THEN Moved(r, "RUNNING", "none") ELSE r]
    BY <1>4 DEF Claim, NextRunnable, Eligible
  <2> DEFINE r == IF task[u].state = "RECEIVED" THEN Moved(task[u], "PLANNING", "none") ELSE task[u]
  <2>2. /\ r \in Row /\ r.steps = task[u].steps /\ r.retries = task[u].retries
        /\ r.state \in {"PLANNING", "RETRYING"}
    <3> DEFINE m == Moved(task[u], "PLANNING", "none")
    <3>1. task[u] \in Row /\ "PLANNING" \in TaskState /\ "none" \in Reason
      BY <1>1 DEF TaskState, Active, Reason
    <3>2. m \in Row /\ m.steps = task[u].steps /\ m.retries = task[u].retries /\ m.state = "PLANNING"
      BY <3>1, MovedRow, RowsApart
    <3> HIDE DEF m
    <3>3. r = IF task[u].state = "RECEIVED" THEN m ELSE task[u]
      BY DEF m
    <3> QED
      BY <2>1, <3>1, <3>2, <3>3 DEF Runnable
  <2>3. task' = [task EXCEPT ![u] = IF r.planned THEN Moved(r, "RUNNING", "none") ELSE r]
    BY <2>1
  <2> HIDE DEF r
  <2>4. CASE u = t
    BY <1>1, <2>1, <2>2, <2>3, <2>4, RowsApart DEF Apart, Runnable, Active, JobStatus
  <2>5. CASE u # t
    BY <1>1, <2>3, <2>5 DEF Apart
  <2> QED
    BY <2>4, <2>5
<1> QED
  BY <1>2, <1>3, <1>4 DEF WatchStep, WatchAsk, WatchLocked, RequestExit, Exit, Told, storeVars, vars

LEMMA RecoveredSteps ==
    ASSUME NEW r \in Row
    PROVE  /\ Recovered(r).retries = r.retries
           /\ r.state \notin Active => Recovered(r) = r
           /\ r.state \in Active => /\ Recovered(r).steps = Marked(r, "PENDING").steps
                                    /\ Recovered(r).state \in {"CANCELLED", "RETRYING"}
<1>1. Marked(r, "PENDING") \in Row /\ Marked(r, "PENDING").retries = r.retries
  BY MarkedRow DEF StepStatus
<1>2. \A dst, why : /\ Moved(Marked(r, "PENDING"), dst, why).steps = Marked(r, "PENDING").steps
                    /\ Moved(Marked(r, "PENDING"), dst, why).state = dst
                    /\ Moved(Marked(r, "PENDING"), dst, why).retries = r.retries
  BY <1>1, MovedSteps
<1> QED
  BY <1>2 DEF Recovered

\* A task no lane works on in this step, and that is not being recovered.
LEMMA StepOf ==
    ASSUME Inv, [Next]_vars, NEW t \in Tasks
    PROVE  \/ Apart(t)
           \/ Start /\ task'[t] = Recovered(task[t])
           \/ \E l \in Lane : WorkStep(l) /\ cur[l] = t /\ Effect(l)
<1>1. CASE OwnerStep \/ DecisionStep
  BY <1>1, OwnerApart
<1>2. CASE WatchStep \/ RequestExit \/ Exit \/ UNCHANGED vars
  BY <1>2, RestApart
<1>3. CASE Start
  BY <1>3 DEF Start
<1>4. ASSUME NEW l \in Lane, LaneStep(l)
      PROVE  Apart(t) \/ (WorkStep(l) /\ cur[l] = t /\ Effect(l))
  <2>1. CASE Claim(l) \/ Told(l)
    BY <2>1, RestApart
  <2>2. CASE WorkStep(l)
    <3>1. PICK r \in Row, p \in PC : LaneMove(l, r, p)
      BY <2>2, WorkStepMoves, StoreAssumption DEF Inv, Moves
    <3>2. CASE cur[l] = t
      BY <2>2, <3>2, WorkEffect DEF Inv
    <3>3. CASE cur[l] # t
      BY <3>1, <3>3 DEF LaneMove, Apart, Inv, TypeOK
    <3> QED
      BY <3>2, <3>3
  <2> QED
    BY <1>4, <2>1, <2>2 DEF LaneStep, WorkStep
<1> QED
  BY <1>1, <1>2, <1>3, <1>4 DEF Next

-----------------------------------------------------------------------------
(* Finished steps stay finished *)

\* A finished step is asked for again only by a failed verification that uses up a retry; no
\* retry, pause, parking, crash or restart does that (recover_after_restart, _apply_verification).
THEOREM SpecCheckpointsSurvive == Spec => CheckpointsSurvive
<1>1. ASSUME Inv, [Next]_vars, NEW t \in Tasks, NEW s \in Steps,
             task[t].steps[s] = "DONE", task'[t].steps[s] # "DONE"
      PROVE  /\ \E l \in Lane : cur[l] = t /\ pc[l] = "verify"
             /\ task'[t].retries = task[t].retries + 1
  <2>1. task[t] \in Row
    BY <1>1 DEF Inv, TypeOK
  <2>2. ~Apart(t)
    BY <1>1 DEF Apart
  <2>3. task'[t] # Recovered(task[t])
    <3>1. \/ Recovered(task[t]).steps = task[t].steps
          \/ Recovered(task[t]).steps = Marked(task[t], "PENDING").steps
      BY <2>1, RecoveredSteps
    <3> QED
      BY <1>1, <2>1, <3>1 DEF Marked, Row
  <2>4. PICK l \in Lane : cur[l] = t /\ Effect(l)
    BY <1>1, <2>2, <2>3, StepOf
  <2>5. pc[l] = "verify" /\ task'[t].retries = task[t].retries + 1
    BY <1>1, <2>1, <2>4 DEF Effect, Marked, Started, Open, Row
  <2> QED
    BY <2>4, <2>5
<1>2. Inv /\ [Next]_vars =>
        [\A t \in Tasks : \A s \in Steps :
           task[t].steps[s] = "DONE" /\ task'[t].steps[s] # "DONE" =>
              /\ \E l \in Lane : cur[l] = t /\ pc[l] = "verify"
              /\ task'[t].retries = task[t].retries + 1]_vars
  BY <1>1
<1> QED
  BY <1>2, SpecInv, PTL DEF Spec, CheckpointsSurvive

-----------------------------------------------------------------------------
(* Tasks fail for a cause, and a cancel is not lost *)

\* What a lane's step may do to the outcome of its task and to a cancel requested of it.
Fate(l) ==
    LET r == task[cur[l]]
        q == task'[cur[l]]
    IN  /\ r.state # "FAILED" /\ q.state = "FAILED" => Cause(l, r, q.why)
        /\ r.cancel => \/ q.cancel
                       \/ q.state \in AnyExit
                       \/ r.state = "VERIFYING" /\ q.state = "COMPLETED"
        /\ r.cancel /\ q.state = "VERIFYING" => r.state = "VERIFYING"

\* A row that differs from the lane's own only in its steps and its plan.
Alike(l, q) == /\ q \in Row /\ q.state = task[cur[l]].state
               /\ q.retries = task[cur[l]].retries /\ q.cancel = task[cur[l]].cancel

LEMMA MovedRequests ==
    ASSUME NEW r \in Row, NEW dst, NEW why
    PROVE  /\ dst \notin Terminal => Moved(r, dst, why).cancel = r.cancel
           /\ dst \in Terminal => Moved(r, dst, why).why = why
           /\ Moved(r, dst, why).state = dst
BY DEF Moved, Row

LEMMA AlikeRows ==
    ASSUME NEW l \in Lane, task[cur[l]] \in Row
    PROVE  /\ Alike(l, task[cur[l]])
           /\ Alike(l, [task[cur[l]] EXCEPT !.planned = TRUE])
           /\ \A status \in StepStatus : Alike(l, Marked(task[cur[l]], status))
           /\ \A k \in Int : Alike(l, Redone(task[cur[l]], k))
           /\ \A s \in Steps : Alike(l, Started(task[cur[l]], s))
<1> DEFINE r == task[cur[l]]
<1>1. ASSUME NEW status \in StepStatus PROVE Alike(l, Marked(r, status))
  <2>1. Marked(r, status).cancel = r.cancel
    BY DEF Marked, Row
  <2> QED  BY <2>1, MarkedRow DEF Alike
<1>2. ASSUME NEW k \in Int PROVE Alike(l, Redone(r, k))
  <2>1. Redone(r, k).cancel = r.cancel
    BY DEF Redone, Row
  <2> QED  BY <2>1, RedoneRow DEF Alike
<1>3. ASSUME NEW s \in Steps PROVE Alike(l, Started(r, s))
  <2>1. Started(r, s).cancel = r.cancel
    BY DEF Started, Row
  <2> QED  BY <2>1, StartedRow DEF Alike
<1>4. Alike(l, r) /\ Alike(l, [r EXCEPT !.planned = TRUE])
  BY DEF Alike, Row
<1> QED  BY <1>1, <1>2, <1>3, <1>4

\* The row keeps its state, or goes on to be executed.
LEMMA StaysFate ==
    ASSUME NEW l \in Lane, NEW q, Alike(l, q), task'[cur[l]] = q
    PROVE  Fate(l)
BY DEF Alike, Fate

LEMMA RunsFate ==
    ASSUME NEW l \in Lane, NEW q, Alike(l, q), task'[cur[l]] = Moved(q, "RUNNING", "none")
    PROVE  Fate(l)
<1>1. /\ Moved(q, "RUNNING", "none").cancel = q.cancel
      /\ Moved(q, "RUNNING", "none").state = "RUNNING"
  BY MovedRequests DEF Alike, Terminal
<1> QED  BY <1>1 DEF Alike, Fate

LEMMA SettleFate ==
    ASSUME TypeOK, NEW l \in Lane, cur[l] \in Tasks, NEW q, Alike(l, q), NEW dst, NEW why, NEW told,
           Settle(l, q, dst, why, told), CanTransition(q.state, dst), dst # "VERIFYING",
           dst = "FAILED" => Cause(l, task[cur[l]], why),
           dst = "COMPLETED" => q.state = "VERIFYING"
    PROVE  Fate(l)
<1>1. task'[cur[l]] = Moved(q, dst, why)
  BY LeaveRow DEF Settle
<1>2. /\ dst \notin Terminal => Moved(q, dst, why).cancel = q.cancel
      /\ dst \in Terminal => Moved(q, dst, why).why = why
      /\ Moved(q, dst, why).state = dst
  BY MovedRequests DEF Alike
<1>3. CASE dst \in Terminal
  BY <1>1, <1>2, <1>3 DEF Alike, Fate, Terminal, AnyExit
<1>4. CASE dst \notin Terminal
  BY <1>1, <1>2, <1>4 DEF Alike, Fate, Terminal
<1> QED  BY <1>3, <1>4

\* A transition the store refuses: the task fails, or it had ended already.
LEMMA RefusedFate ==
    ASSUME TypeOK, NEW l \in Lane, cur[l] \in Tasks, NEW q, Alike(l, q), EngineError(l, q),
           \/ q.state = "CANCELLED"
           \/ Cause(l, task[cur[l]], "ENGINE_ERROR")
    PROVE  Fate(l)
<1>1. CASE CanTransition(q.state, "FAILED")
  <2>1. Settle(l, q, "FAILED", "ENGINE_ERROR", FALSE)
    BY <1>1 DEF EngineError, Settle
  <2>2. q.state # "CANCELLED"
    BY <1>1 DEF CanTransition, Transitions
  <2> QED  BY <1>1, <2>1, <2>2, SettleFate
<1>2. CASE ~CanTransition(q.state, "FAILED")
  <2>1. task'[cur[l]] = q
    BY <1>2, LeaveRow DEF EngineError
  <2> QED  BY <2>1, StaysFate
<1> QED  BY <1>1, <1>2

LEMMA RetryOrFailFate ==
    ASSUME TypeOK, NEW l \in Lane, cur[l] \in Tasks, NEW q, Alike(l, q), NEW told,
           NEW why \in {"STEP_ERROR", "VERIFICATION_FAILED"}, RetryOrFail(l, q, why, told),
           q.state \in {"RUNNING", "VERIFYING", "CANCELLED"}
    PROVE  Fate(l)
<1>1. q \in Row /\ q.retries \in 0 .. MaxRetries /\ MaxRetries \in Nat
  BY StoreAssumption DEF Alike, Row
<1>2. CASE q.state = "CANCELLED"
  <2>1. \A dst : ~CanTransition(q.state, dst)
    BY <1>2, HeldCanFail
  <2>2. EngineError(l, q)
    BY <2>1 DEF RetryOrFail, Settle
  <2> QED  BY <1>2, <2>2, RefusedFate
<1>3. CASE q.state # "CANCELLED" /\ q.retries >= MaxRetries
  <2>1. Settle(l, q, "FAILED", why, TRUE) /\ CanTransition(q.state, "FAILED")
    BY <1>3, HeldCanFail DEF RetryOrFail, Active
  <2>2. Cause(l, task[cur[l]], why)
    BY <1>1, <1>3 DEF Cause, Alike
  <2> QED  BY <2>1, <2>2, SettleFate
<1>4. CASE q.state # "CANCELLED" /\ ~(q.retries >= MaxRetries)
  <2> DEFINE m == Moved(q, "RETRYING", "none")
  <2>1. CanTransition(q.state, "RETRYING")
    BY <1>4 DEF CanTransition, Transitions
  <2>2. task'[cur[l]] = [m EXCEPT !.retries = @ + 1]
    BY <1>4, <2>1, LeaveRow DEF RetryOrFail
  <2>3. m \in Row /\ m.state = "RETRYING" /\ m.cancel = q.cancel
    <3>1. "RETRYING" \in TaskState /\ "none" \in Reason /\ "RETRYING" \notin Terminal
      BY DEF TaskState, Runnable, Reason, Terminal
    <3>2. m \in Row
      BY <1>1, <3>1, MovedRow
    <3> QED  BY <1>1, <3>1, <3>2, MovedRequests
  <2> HIDE DEF m
  <2>4. task'[cur[l]].state = "RETRYING" /\ task'[cur[l]].cancel = q.cancel
    BY <2>2, <2>3 DEF Row
  <2> QED  BY <2>4 DEF Alike, Fate
<1> QED  BY <1>2, <1>3, <1>4

LEMMA HaltFate ==
    ASSUME TypeOK, NEW l \in Lane, cur[l] \in Tasks, NEW q, Alike(l, q), NEW signal \in Stopping,
           Halt(l, q, signal), q.state \in {"PLANNING", "RUNNING", "RETRYING", "CANCELLED"},
           q.state = "RETRYING" => pc[l] = "plan" /\ signal = Signal(task[cur[l]])
    PROVE  Fate(l)
<1>1. PICK dst \in {"CANCELLED", "PAUSED", "RETRYING"}, why \in Reason, told \in BOOLEAN :
         /\ Settle(l, q, dst, why, told)
         /\ dst = "RETRYING" => signal = "interrupted"
  BY DEF Halt, Stopping, Reason
<1>2. CASE CanTransition(q.state, dst)
  BY <1>1, <1>2, SettleFate
<1>3. CASE ~CanTransition(q.state, dst)
  <2>1. EngineError(l, q)
    BY <1>1, <1>3 DEF Settle
  <2>2. q.state = "CANCELLED" \/ (q.state = "RETRYING" /\ dst = "RETRYING")
    BY <1>1, <1>3 DEF CanTransition, Transitions, AnyExit
  <2>3. q.state = "RETRYING" => Cause(l, task[cur[l]], "ENGINE_ERROR")
    BY <1>1, <2>2 DEF Cause, Alike
  <2> QED  BY <2>1, <2>2, <2>3, RefusedFate
<1> QED  BY <1>2, <1>3

LEMMA WorkFate ==
    ASSUME TypeOK, LanesMatchRows, NEW l \in Lane, WorkStep(l)
    PROVE  Fate(l)
<1> DEFINE r == task[cur[l]]
<1>1. /\ pc[l] \in Working /\ cur[l] \in Tasks /\ r \in Row
      /\ pc[l] \in {"checkpoint", "step", "ask", "finish"} \cup Stopping => r.state = "RUNNING"
      /\ pc[l] = "verify" => r.state = "VERIFYING"
      /\ r.state \in Active \cup {"RETRYING", "CANCELLED"}
      /\ pc[l] = "plan" => r.state \in {"PLANNING", "RETRYING", "CANCELLED"}
  <2>1. pc[l] \in Working
    BY DEF WorkStep, Plan, StartStep, Finish, StepDone, StepHalts, Halted, StepError,
           StepRefused, Refuse, StepNeedsDesktop, StepAsks, Park, VerifyPasses, VerifyBlocked,
           VerifyNeedsWork, VerifyError, Working
  <2>2. pc[l] = "plan" => r.state \in {"PLANNING", "RETRYING", "CANCELLED"}
    BY <2>1, HeldRow DEF StatesAt, Lane
  <2> QED  BY <2>1, <2>2, Holds DEF InStep
<1>2. /\ Alike(l, r) /\ Alike(l, [r EXCEPT !.planned = TRUE])
      /\ Alike(l, Marked(r, "DONE")) /\ Alike(l, Marked(r, "FAILED")) /\ Alike(l, Marked(r, "PENDING"))
  BY <1>1, AlikeRows DEF StepStatus
<1>3. ASSUME NEW q, Alike(l, q), NEW p, GoTo(l, p, q) PROVE Fate(l)
  BY <1>1, <1>3, GoToRow, StaysFate
<1>4. CASE Plan(l)
  <2> DEFINE q == [r EXCEPT !.planned = TRUE]
  <2>1. CASE Signal(r) # "none"
    <3>1. Halt(l, r, Signal(r)) /\ Signal(r) \in Stopping /\ pc[l] = "plan"
      BY <1>4, <2>1, SignalKind DEF Plan
    <3> QED  BY <1>1, <1>2, <3>1, HaltFate
  <2>2. CASE Signal(r) = "none" /\ CanTransition(q.state, "RUNNING")
    <3>1. PICK p : GoTo(l, p, Moved(q, "RUNNING", "none"))
      BY <1>4, <2>2 DEF Plan, EnterRun
    <3>2. task'[cur[l]] = Moved(q, "RUNNING", "none")
      BY <1>1, <3>1, GoToRow
    <3> HIDE DEF q
    <3>3. Alike(l, q)
      BY <1>2 DEF q
    <3> QED  BY <3>2, <3>3, RunsFate
  <2>3. CASE Signal(r) = "none" /\ ~CanTransition(q.state, "RUNNING")
    <3>1. RetryOrFail(l, q, "STEP_ERROR", FALSE) /\ pc[l] = "plan"
      BY <1>4, <2>3 DEF Plan
    <3>2. q.state = "CANCELLED"
      <4>1. q.state = r.state
        BY <1>2 DEF Alike
      <4> QED  BY <1>1, <2>3, <3>1, <4>1 DEF CanTransition, Transitions
    <3> HIDE DEF q
    <3>3. Alike(l, q)
      BY <1>2 DEF q
    <3> QED  BY <1>1, <3>1, <3>2, <3>3, RetryOrFailFate
  <2> QED  BY <2>1, <2>2, <2>3
<1>5. CASE StartStep(l)
  <2>1. CASE Signal(r) # "none"
    <3>1. Halt(l, r, Signal(r)) /\ Signal(r) \in Stopping /\ r.state = "RUNNING"
      BY <1>1, <1>5, <2>1, SignalKind DEF StartStep
    <3> QED  BY <1>1, <1>2, <3>1, HaltFate
  <2>2. CASE Signal(r) = "none"
    <3>1. PICK s \in Open(r) : GoTo(l, "step", Started(r, s))
      BY <1>5, <2>2 DEF StartStep
    <3>2. Alike(l, Started(r, s))
      BY <1>1, AlikeRows DEF Open
    <3> QED  BY <1>3, <3>1, <3>2
  <2> QED  BY <2>1, <2>2
<1>6. CASE Finish(l)
  <2>1. CASE Signal(r) # "none"
    <3>1. Halt(l, r, Signal(r)) /\ Signal(r) \in Stopping /\ r.state = "RUNNING"
      BY <1>1, <1>6, <2>1, SignalKind DEF Finish
    <3> QED  BY <1>1, <1>2, <3>1, HaltFate
  <2>2. CASE Signal(r) = "none"
    <3>1. ~r.cancel
      BY <2>2 DEF Signal
    <3>2. r.state = "RUNNING"
      BY <1>1, <1>6 DEF Finish
    <3>3. GoTo(l, "verify", Moved(r, "VERIFYING", "none"))
      BY <1>6, <2>2, <3>2 DEF Finish, CanTransition, Transitions
    <3>4. task'[cur[l]].state = "VERIFYING"
      BY <1>1, <3>3, GoToRow, MovedRequests
    <3> QED  BY <3>1, <3>4 DEF Fate
  <2> QED  BY <2>1, <2>2
<1>7. CASE StepDone(l) \/ StepHalts(l) \/ StepAsks(l)
  <2>1. \E q, p : Alike(l, q) /\ GoTo(l, p, q)
    BY <1>2, <1>7 DEF StepDone, StepHalts, StepAsks
  <2> QED  BY <1>3, <2>1
<1>8. CASE Halted(l)
  <2> DEFINE q == Marked(r, IF pc[l] = "interrupted" THEN "FAILED" ELSE "PENDING")
  <2>1. Halt(l, q, pc[l]) /\ pc[l] \in Stopping
    BY <1>8 DEF Halted
  <2>2. Alike(l, q)
    BY <1>2
  <2> HIDE DEF q
  <2>3. q.state = "RUNNING"
    BY <1>1, <2>1, <2>2 DEF Alike
  <2> QED  BY <1>1, <2>1, <2>2, <2>3, HaltFate
<1>9. CASE StepError(l)
  <2>1. RetryOrFail(l, Marked(r, "FAILED"), "STEP_ERROR", FALSE) /\ r.state = "RUNNING"
    BY <1>1, <1>9 DEF StepError
  <2>2. Marked(r, "FAILED").state = "RUNNING"
    BY <1>2, <2>1 DEF Alike
  <2> QED  BY <1>1, <1>2, <2>1, <2>2, RetryOrFailFate
<1>10. CASE StepRefused(l)
  <2>1. PICK why \in {"BLOCKED_NEEDS_USER", "PERMISSION_DENIED"} :
           Settle(l, Marked(r, "FAILED"), "FAILED", why, TRUE) /\ pc[l] = "step"
    BY <1>10 DEF StepRefused, Refuse
  <2>2. Marked(r, "FAILED").state = "RUNNING"
    BY <1>1, <1>2, <2>1 DEF Alike
  <2>3. CanTransition(Marked(r, "FAILED").state, "FAILED") /\ Cause(l, r, why)
    BY <2>1, <2>2 DEF CanTransition, Transitions, AnyExit, Cause
  <2> QED  BY <1>1, <1>2, <2>1, <2>3, SettleFate
<1>11. CASE StepNeedsDesktop(l) \/ Park(l)
  <2>1. PICK dst \in {"WAITING_DESKTOP", "WAITING_APPROVAL"}, told \in BOOLEAN :
           Settle(l, Marked(r, "PENDING"), dst, "none", told) /\ r.state = "RUNNING"
    BY <1>1, <1>11 DEF StepNeedsDesktop, Park
  <2>2. Marked(r, "PENDING").state = "RUNNING"
    BY <1>2, <2>1 DEF Alike
  <2>3. CanTransition(Marked(r, "PENDING").state, dst)
    BY <2>2 DEF CanTransition, Transitions
  <2> QED  BY <1>1, <1>2, <2>1, <2>3, SettleFate
<1>12. CASE VerifyPasses(l)
  <2>1. Settle(l, r, "COMPLETED", "none", TRUE) /\ r.state = "VERIFYING"
    BY <1>1, <1>12 DEF VerifyPasses
  <2>2. CanTransition(r.state, "COMPLETED")
    BY <2>1 DEF CanTransition, Transitions
  <2> QED  BY <1>1, <1>2, <2>1, <2>2, SettleFate
<1>13. CASE VerifyBlocked(l)
  <2>1. Settle(l, r, "FAILED", "BLOCKED_NEEDS_USER", TRUE) /\ r.state = "VERIFYING"
        /\ Cause(l, r, "BLOCKED_NEEDS_USER")
    BY <1>1, <1>13 DEF VerifyBlocked, Cause
  <2>2. CanTransition(r.state, "FAILED")
    BY <2>1 DEF CanTransition, Transitions, AnyExit
  <2> QED  BY <1>1, <1>2, <2>1, <2>2, SettleFate
<1>14. CASE VerifyNeedsWork(l) \/ VerifyError(l)
  <2>1. PICK q, why, told : /\ RetryOrFail(l, q, why, told) /\ Alike(l, q)
                            /\ why \in {"STEP_ERROR", "VERIFICATION_FAILED"}
                            /\ r.state = "VERIFYING"
    <3>1. CASE VerifyError(l)
      BY <1>1, <1>2, <3>1 DEF VerifyError
    <3>2. CASE VerifyNeedsWork(l)
      <4>1. PICK k \in 1 .. NSteps + 1 :
               RetryOrFail(l, IF r.retries < MaxRetries THEN Redone(r, k) ELSE r,
                           "VERIFICATION_FAILED", TRUE)
        BY <3>2 DEF VerifyNeedsWork
      <4>2. k \in Int
        BY StoreAssumption
      <4>3. Alike(l, IF r.retries < MaxRetries THEN Redone(r, k) ELSE r)
        BY <1>1, <1>2, <4>2, AlikeRows
      <4>4. r.state = "VERIFYING"
        BY <1>1, <3>2 DEF VerifyNeedsWork
      <4> QED  BY <4>1, <4>3, <4>4
    <3> QED  BY <1>14, <3>1, <3>2
  <2>2. q.state = "VERIFYING"
    BY <2>1 DEF Alike
  <2> QED  BY <1>1, <2>1, <2>2, RetryOrFailFate
<1> QED
  BY <1>4, <1>5, <1>6, <1>7, <1>8, <1>9, <1>10, <1>11, <1>12, <1>13, <1>14 DEF WorkStep

\* Nobody but a lane at work fails a task, has it verified or takes back its cancel.
Untouched(t) ==
    /\ task'[t].state \in {"FAILED", "VERIFYING"} => task[t].state = task'[t].state
    /\ task[t].cancel => task'[t].cancel \/ task'[t].state = "CANCELLED"

LEMMA RowsKeepRequests ==
    ASSUME NEW r \in Row
    PROVE  /\ r.cancel => CancelledRow(r).cancel \/ CancelledRow(r).state = "CANCELLED"
           /\ PausedRow(r).cancel = r.cancel
           /\ ResumedRow(r).cancel = r.cancel
           /\ Recovered(r) = r \/ Recovered(r).state \in {"CANCELLED", "RETRYING"}
           /\ r.cancel => Recovered(r).cancel \/ Recovered(r).state = "CANCELLED"
<1> DEFINE n == [r EXCEPT !.pause = FALSE]
           m == Marked(r, "PENDING")
<1>1. n \in Row /\ n.cancel = r.cancel
  BY DEF Row
<1>2. m \in Row
  BY MarkedRow DEF StepStatus
<1>3. ResumedRow(r) = IF r.state = "PAUSED" THEN Moved(n, "RETRYING", "none") ELSE n
  BY DEF ResumedRow
<1>4. Recovered(r) = IF r.state \notin Active THEN r
                     ELSE IF r.cancel THEN Moved(m, "CANCELLED", "CANCELLED_BY_USER")
                     ELSE Moved(m, "RETRYING", "none")
  BY DEF Recovered
<1>5. CancelledRow(r).cancel \/ CancelledRow(r).state = "CANCELLED"
  <2>1. CASE r.state \in Active
    BY <2>1 DEF CancelledRow, Row
  <2>2. CASE r.state \notin Active
    BY <2>2, MovedRequests DEF CancelledRow
  <2> QED  BY <2>1, <2>2
<1>6. PausedRow(r).cancel = r.cancel
  BY DEF PausedRow, Row
<1> HIDE DEF n, m
<1>7. ResumedRow(r).cancel = r.cancel
  <2>1. Moved(n, "RETRYING", "none").cancel = n.cancel
    BY <1>1, MovedRequests DEF Terminal
  <2> QED  BY <1>1, <1>3, <2>1
<1>8. /\ Moved(m, "CANCELLED", "CANCELLED_BY_USER").state = "CANCELLED"
      /\ Moved(m, "RETRYING", "none").state = "RETRYING"
  BY <1>2, MovedRequests
<1> QED  BY <1>4, <1>5, <1>6, <1>7, <1>8

LEMMA OthersTouchNothing ==
    ASSUME Inv, NEW t \in Tasks,
           \/ OwnerStep \/ DecisionStep \/ WatchStep \/ RequestExit \/ Exit \/ Start
           \/ UNCHANGED vars
           \/ \E l \in Lane : Claim(l) \/ Told(l)
    PROVE  Untouched(t)
<1>1. task \in [Tasks -> Row] /\ task[t] \in Row
  BY DEF Inv, TypeOK
<1>2. CASE task' = task
  BY <1>2 DEF Untouched
<1>3. ASSUME NEW u \in Tasks, NEW q, task' = [task EXCEPT ![u] = q],
             q.state \in {"FAILED", "VERIFYING"} => task[u].state = q.state,
             task[u].cancel => q.cancel \/ q.state = "CANCELLED"
      PROVE  Untouched(t)
  <2>1. CASE u = t
    BY <1>1, <1>3, <2>1 DEF Untouched
  <2>2. CASE u # t
    BY <1>1, <1>3, <2>2 DEF Untouched
  <2> QED  BY <2>1, <2>2
<1>4. ASSUME NEW u \in Tasks, NEW r \in Row, r.cancel = task[u].cancel, NEW why,
             NEW dst \in {"RUNNING", "RETRYING", "CANCELLED", "PLANNING"},
             task' = [task EXCEPT ![u] = Moved(r, dst, why)]
      PROVE  Untouched(t)
  <2>1. /\ Moved(r, dst, why).state = dst
        /\ dst # "CANCELLED" => Moved(r, dst, why).cancel = r.cancel
    BY MovedRequests DEF Terminal
  <2> QED  BY <1>3, <1>4, <2>1
<1>5. ASSUME NEW u \in Tasks, Create(u) PROVE Untouched(t)
  <2>1. task' = [task EXCEPT ![u] = [task[u] EXCEPT !.state = "RECEIVED"]]
    BY <1>1, <1>5 DEF Create
  <2>2. /\ [task[u] EXCEPT !.state = "RECEIVED"].state = "RECEIVED"
        /\ [task[u] EXCEPT !.state = "RECEIVED"].cancel = task[u].cancel
    BY <1>1 DEF Row
  <2> QED  BY <1>3, <2>1, <2>2
<1>6. ASSUME NEW u \in Tasks, RequestCancel(u) PROVE Untouched(t)
  <2>1. task' = [task EXCEPT ![u] = CancelledRow(task[u])] /\ task[u] \in Row
    BY <1>1, <1>6 DEF RequestCancel
  <2>2. CancelledRow(task[u]).state \in {task[u].state, "CANCELLED"}
    BY <2>1, RowsApart
  <2> QED  BY <1>3, <2>1, <2>2, RowsKeepRequests
<1>7. ASSUME NEW drop, PauseQueue(drop) PROVE Untouched(t)
  <2>1. task'[t] = IF drop[t] = "none" THEN PausedRow(task[t]) ELSE Moved(task[t], "CANCELLED", drop[t])
    BY <1>7 DEF PauseQueue
  <2> QED  BY <1>1, <2>1, RowsApart, RowsKeepRequests DEF Untouched
<1>8. ASSUME ResumeQueue PROVE Untouched(t)
  <2>1. task'[t] = ResumedRow(task[t])
    BY <1>8 DEF ResumeQueue
  <2> QED  BY <1>1, <2>1, RowsApart, RowsKeepRequests DEF Untouched
<1>9. ASSUME NEW u \in Tasks, NEW dst \in {"RETRYING", "CANCELLED"}, NEW why, ReleaseParked(u, dst, why)
      PROVE  Untouched(t)
  <2>1. task' = [task EXCEPT ![u] = Moved(task[u], dst, why)]
    BY <1>9 DEF ReleaseParked
  <2> QED  BY <1>1, <1>4, <2>1
<1>10. CASE OwnerStep
  BY <1>5, <1>6, <1>7, <1>8, <1>10 DEF OwnerStep
<1>11. CASE DecisionStep
  BY <1>7, <1>9, <1>11 DEF DecisionStep
<1>12. CASE WatchRelease
  <2>1. PICK u \in watchList :
           \/ task' = [task EXCEPT ![u] = Moved(task[u], "RETRYING", "none")]
           \/ task' = task
    BY <1>12 DEF WatchRelease
  <2>2. u \in Tasks
    BY DEF Inv, TypeOK
  <2> QED  BY <1>1, <1>2, <1>4, <2>1, <2>2
<1>13. ASSUME NEW l \in Lane, Claim(l) PROVE Untouched(t)
  <2>1. PICK u \in Tasks :
           LET r == IF task[u].state = "RECEIVED" THEN Moved(task[u], "PLANNING", "none")
                                                  ELSE task[u]
           IN  task' = [task EXCEPT ![u] = IF r.planned THEN Moved(r, "RUNNING", "none") ELSE r]
    BY <1>13 DEF Claim, NextRunnable, Eligible
  <2> DEFINE r == IF task[u].state = "RECEIVED" THEN Moved(task[u], "PLANNING", "none") ELSE task[u]
  <2>2. r \in Row /\ r.cancel = task[u].cancel /\ r.state \in {"PLANNING", task[u].state}
    BY <1>1, MovedRow, MovedRequests DEF TaskState, Active, Reason, Terminal
  <2>3. task' = [task EXCEPT ![u] = IF r.planned THEN Moved(r, "RUNNING", "none") ELSE r]
    BY <2>1
  <2> HIDE DEF r
  <2>4. CASE r.planned
    BY <1>4, <2>2, <2>3, <2>4
  <2>5. CASE ~r.planned
    BY <1>3, <2>2, <2>3, <2>5
  <2> QED  BY <2>4, <2>5
<1>14. CASE Start
  <2>1. task'[t] = Recovered(task[t])
    BY <1>14 DEF Start
  <2> QED  BY <1>1, <2>1, RowsKeepRequests DEF Untouched
<1> QED
  BY <1>2, <1>10, <1>11, <1>12, <1>13, <1>14
     DEF WatchStep, WatchAsk, WatchLocked, RequestExit, Exit, Told, storeVars, vars

\* What a step means to one task.
LEMMA FateOf ==
    ASSUME Inv, [Next]_vars, NEW t \in Tasks
    PROVE  \/ Untouched(t)
           \/ \E l \in Lane : WorksOn(l, t) /\ cur[l] = t /\ Fate(l)
<1>1. CASE \/ OwnerStep \/ DecisionStep \/ WatchStep \/ RequestExit \/ Exit \/ Start
           \/ UNCHANGED vars
           \/ \E l \in Lane : Claim(l) \/ Told(l)
  BY <1>1, OthersTouchNothing
<1>2. ASSUME NEW l \in Lane, WorkStep(l)
      PROVE  Untouched(t) \/ (WorksOn(l, t) /\ cur[l] = t /\ Fate(l))
  <2>1. pc[l] \in Working /\ \E r \in Row, p \in PC : LaneMove(l, r, p)
    BY <1>2, WorkStepMoves, StoreAssumption DEF Inv, Moves
  <2>2. CASE cur[l] = t
    BY <1>2, <2>1, <2>2, WorkFate DEF Inv, WorksOn
  <2>3. CASE cur[l] # t
    BY <2>1, <2>3 DEF LaneMove, Untouched, Inv, TypeOK
  <2> QED  BY <2>2, <2>3
<1> QED  BY <1>1, <1>2 DEF Next, LaneStep, WorkStep

\* A task fails only in the lane that works on it, with its retries used up, refused, or by the
\* one transition the store refuses: a shutdown that meets a retried task before it has a plan
\* (_execute, _retry_or_fail, run_once).
THEOREM SpecFailsForCause == Spec => FailsForCause
<1>1. ASSUME Inv, [Next]_vars, NEW t \in Tasks, task[t].state # "FAILED", task'[t].state = "FAILED"
      PROVE  \E l \in Lane : WorksOn(l, t) /\ Cause(l, task[t], task'[t].why)
  <2>1. ~Untouched(t)
    BY <1>1 DEF Untouched
  <2> QED  BY <1>1, <2>1, FateOf DEF Fate
<1>2. Inv /\ [Next]_vars =>
        [\A t \in Tasks : task[t].state # "FAILED" /\ task'[t].state = "FAILED" =>
           \E l \in Lane : WorksOn(l, t) /\ Cause(l, task[t], task'[t].why)]_vars
  BY <1>1
<1> QED  BY <1>2, SpecInv, PTL DEF Spec, FailsForCause

\* A cancel request outlives parking, retries, /pause, /resume and restarts until the task has
\* ended (request_cancel, transition, recover_after_restart).
THEOREM SpecCancelIsKept == Spec => CancelIsKept
<1>1. ASSUME Inv, [Next]_vars, NEW t \in Tasks, task[t].cancel
      PROVE  /\ \/ task'[t].cancel
                \/ task'[t].state \in AnyExit
                \/ task[t].state = "VERIFYING" /\ task'[t].state = "COMPLETED"
             /\ task'[t].state = "VERIFYING" => task[t].state = "VERIFYING"
  BY <1>1, FateOf DEF Untouched, Fate, AnyExit
<1>2. Inv /\ [Next]_vars =>
        [\A t \in Tasks : task[t].cancel =>
           /\ \/ task'[t].cancel
              \/ task'[t].state \in AnyExit
              \/ task[t].state = "VERIFYING" /\ task'[t].state = "COMPLETED"
           /\ task'[t].state = "VERIFYING" => task[t].state = "VERIFYING"]_vars
  BY <1>1
<1> QED  BY <1>2, SpecInv, PTL DEF Spec, CancelIsKept

-----------------------------------------------------------------------------
(* The status of the steps tells the truth *)

\* The one CURRENT step belongs to a running task, also in the database of a dead process; the
\* steps of a task that is verified, or about to be, are done.
StepsInv ==
    /\ \A t \in Tasks : \A s \in Steps : task[t].steps[s] = "CURRENT" =>
         /\ task[t].state \in Active
         /\ up => \E l \in Lane : WorksOn(l, t) /\ pc[l] \in InStep
    /\ \A t \in Tasks : \A s, u \in Steps :
         task[t].steps[s] = "CURRENT" /\ task[t].steps[u] = "CURRENT" => s = u
    /\ \A t \in Tasks : task[t].state \in {"VERIFYING", "COMPLETED"} => Ready(t, task[t])
    /\ \A l \in Lane : pc[l] = "finish" => Ready(cur[l], task[cur[l]])

LEMMA StepsInit == Init => StepsInv
BY DEF Init, StoreInit, NoRow, StepsInv, Ready

\* No step is CURRENT on a task whose lane is outside the step functions.
LEMMA OutsideNoCurrent ==
    ASSUME Inv, StepsInv, NEW l \in Lane, WorkStep(l), pc[l] \notin InStep,
           NEW s \in Steps
    PROVE  task[cur[l]].steps[s] # "CURRENT"
<1>1. cur[l] \in Tasks /\ WorksOn(l, cur[l]) /\ up
  <2>1. pc[l] \in Working
    BY DEF WorkStep, Plan, StartStep, Finish, StepDone, StepHalts, Halted, StepError,
           StepRefused, Refuse, StepNeedsDesktop, StepAsks, Park, VerifyPasses, VerifyBlocked,
           VerifyNeedsWork, VerifyError, Working
  <2> QED
    BY <2>1, Holds DEF Inv, WorksOn, DownMeansIdle, Working, Stopping
<1> QED
  BY <1>1 DEF Inv, OneWorkerPerTask, StepsInv

\* A lane that does no work on a task, the owner, a decision, the watcher and an exit.
LEMMA ApartKeepsSteps ==
    ASSUME Inv, Inv', StepsInv, \A t \in Tasks : Apart(t), up' => up,
           \A l \in Lane : up' /\ pc[l] \in InStep => pc'[l] = pc[l] /\ cur'[l] = cur[l],
           \A l \in Lane : pc'[l] = "finish" => Ready(cur'[l], task[cur'[l]])
    PROVE  StepsInv'
<1>1. ASSUME NEW t \in Tasks, NEW s \in Steps, task'[t].steps[s] = "CURRENT"
      PROVE  task'[t].state \in Active /\ (up' => \E l \in Lane : WorksOn(l, t)' /\ pc'[l] \in InStep)
  <2>1. task[t].steps[s] = "CURRENT" /\ task[t].state \in Active /\ task'[t].state \in Active
    BY <1>1 DEF Apart, StepsInv
  <2>2. ASSUME up' PROVE \E l \in Lane : WorksOn(l, t)' /\ pc'[l] \in InStep
    <3>1. task[t].state \in Active /\ (up => \E l \in Lane : WorksOn(l, t) /\ pc[l] \in InStep)
      BY <2>1 DEF StepsInv
    <3>2. PICK l \in Lane : WorksOn(l, t) /\ pc[l] \in InStep
      BY <2>2, <3>1
    <3>3. pc'[l] = pc[l] /\ cur'[l] = cur[l]
      BY <2>2, <3>2
    <3> QED
      BY <3>2, <3>3 DEF WorksOn
  <2> QED
    BY <2>1, <2>2
<1>2. ASSUME NEW t \in Tasks, task'[t].state \in {"VERIFYING", "COMPLETED"}
      PROVE  Ready(t, task'[t])
  BY <1>2 DEF Apart, StepsInv, Ready, Open
<1>3. ASSUME NEW l \in Lane, pc'[l] = "finish"
      PROVE  Ready(cur'[l], task'[cur'[l]])
  <2>1. cur'[l] \in Tasks
    BY <1>3 DEF Inv, LanesMatchRows, Working
  <2> QED
    BY <1>3, <2>1 DEF Apart, Ready, Open
<1>4. ASSUME NEW t \in Tasks, NEW s \in Steps, NEW u \in Steps,
             task'[t].steps[s] = "CURRENT", task'[t].steps[u] = "CURRENT"
      PROVE  s = u
  BY <1>4 DEF Apart, StepsInv
<1> QED
  BY <1>1, <1>2, <1>3, <1>4 DEF StepsInv, WorksOn, Ready, Open

LEMMA WorkKeepsSteps ==
    ASSUME Inv, StepsInv, NEW l \in Lane, WorkStep(l)
    PROVE  StepsInv'
<1>1. /\ cur[l] \in Tasks /\ task \in [Tasks -> Row] /\ pc \in [Lane -> PC]
      /\ cur \in [Lane -> Tasks \cup {NoTask}]
  BY Holds DEF Inv, TypeOK
<1>2. PICK r \in Row, p \in PC : LaneMove(l, r, p)
  BY WorkStepMoves, StoreAssumption DEF Inv, Moves
<1>3. Effect(l) /\ UNCHANGED up
  BY WorkEffect DEF Inv, WorkStep, Plan, StartStep, Finish, StepDone, StepHalts, Halted,
     StepError, StepRefused, Refuse, StepNeedsDesktop, StepAsks, Park, VerifyPasses,
     VerifyBlocked, VerifyNeedsWork, VerifyError, procVars
<1>4. /\ task'[cur[l]] = r /\ pc'[l] = p
      /\ \A t \in Tasks : t # cur[l] => task'[t] = task[t]
      /\ \A k \in Lane : k # l => pc'[k] = pc[k] /\ cur'[k] = cur[k]
      /\ p # "idle" => cur'[l] = cur[l]
  BY <1>1, <1>2 DEF LaneMove
<1>5. pc[l] \in Working
  BY DEF WorkStep, Plan, StartStep, Finish, StepDone, StepHalts, Halted, StepError,
         StepRefused, Refuse, StepNeedsDesktop, StepAsks, Park, VerifyPasses, VerifyBlocked,
         VerifyNeedsWork, VerifyError, Working
<1>6. ASSUME NEW t \in Tasks, NEW s \in Steps, task'[t].steps[s] = "CURRENT"
      PROVE  task'[t].state \in Active /\ (up' => \E k \in Lane : WorksOn(k, t)' /\ pc'[k] \in InStep)
  <2>1. CASE t # cur[l]
    <3>1. task[t].state \in Active /\ (up => \E k \in Lane : WorksOn(k, t) /\ pc[k] \in InStep)
      BY <1>4, <1>6, <2>1 DEF StepsInv
    <3>2. \A k \in Lane : WorksOn(k, t) => k # l /\ pc'[k] = pc[k] /\ cur'[k] = cur[k]
      BY <1>4, <2>1 DEF WorksOn
    <3> QED
      BY <1>3, <1>4, <2>1, <3>1, <3>2 DEF WorksOn
  <2>2. CASE t = cur[l]
    <3>1. pc'[l] \in InStep
      <4>1. CASE pc[l] \in InStep
        BY <1>1, <1>3, <1>6, <2>2, <4>1 DEF Effect, Marked, Row, InStep, Stopping
      <4>2. CASE pc[l] \notin InStep
        <5>1. task[cur[l]].steps[s] # "CURRENT"
          BY <4>2, OutsideNoCurrent
        <5> QED
          BY <1>1, <1>3, <1>6, <2>2, <4>2, <5>1 DEF Effect, Redone, Row, InStep
      <4> QED
        BY <4>1, <4>2
    <3>2. p \in Working /\ p # "idle" /\ StatesAt(l, p) = {"RUNNING"}
      BY <1>4, <3>1 DEF InStep, Stopping, Working, StatesAt
    <3> QED
      BY <1>2, <1>4, <2>2, <3>1, <3>2 DEF LaneMove, WorksOn, Active
  <2> QED
    BY <2>1, <2>2
<1>7. ASSUME NEW t \in Tasks, task'[t].state \in {"VERIFYING", "COMPLETED"}
      PROVE  Ready(t, task'[t])
  <2>1. CASE t # cur[l]
    BY <1>4, <1>7, <2>1 DEF StepsInv
  <2>2. CASE t = cur[l] /\ task'[t].state = "COMPLETED"
    <3>1. pc[l] = "verify" /\ task'[t].steps = task[t].steps
      BY <1>3, <2>2 DEF Effect
    <3>2. task[t].state = "VERIFYING"
      BY <2>2, <3>1, Holds DEF Inv
    <3> QED
      BY <1>7, <3>1, <3>2 DEF StepsInv, Ready, Open
  <2>3. CASE t = cur[l] /\ task'[t].state = "VERIFYING"
    <3>1. p = "verify"
      BY <1>2, <1>4, <2>3 DEF LaneMove, StatesAt, Active
    <3>2. pc[l] = "finish" /\ task'[t].steps = task[t].steps
      BY <1>3, <1>4, <2>3, <3>1 DEF Effect
    <3> QED
      BY <1>7, <2>3, <3>2 DEF StepsInv, Ready, Open
  <2> QED
    BY <1>7, <2>1, <2>2, <2>3
<1>8. ASSUME NEW k \in Lane, pc'[k] = "finish"
      PROVE  Ready(cur'[k], task'[cur'[k]])
  <2>1. CASE k = l
    BY <1>3, <1>4, <1>8, <2>1 DEF Effect
  <2>2. CASE k # l
    <3>1. pc[k] = "finish" /\ cur'[k] = cur[k]
      BY <1>4, <1>8, <2>2
    <3>2. cur[k] \in Tasks /\ cur[k] # cur[l]
      BY <1>5, <2>2, <3>1 DEF Inv, LanesMatchRows, OneWorkerPerTask, WorksOn, Working
    <3> QED
      BY <1>4, <1>8, <3>1, <3>2 DEF StepsInv
  <2> QED
    BY <2>1, <2>2
<1>9. ASSUME NEW t \in Tasks, NEW s \in Steps, NEW u \in Steps,
             task'[t].steps[s] = "CURRENT", task'[t].steps[u] = "CURRENT"
      PROVE  s = u
  <2>1. CASE t # cur[l] \/ task'[t].steps = task[t].steps
    BY <1>4, <1>9, <2>1 DEF StepsInv
  <2>2. CASE t = cur[l] /\ \E status \in {"PENDING", "DONE", "FAILED"} :
                             task'[t].steps = Marked(task[t], status).steps
    BY <1>1, <1>9, <2>2 DEF Marked, Row
  <2>3. CASE t = cur[l] /\ pc[l] = "checkpoint" /\ \E v \in Open(task[t]) :
                             task'[t].steps = Started(task[t], v).steps
    <3>1. task[t].steps[s] # "CURRENT" /\ task[t].steps[u] # "CURRENT"
      BY <2>3, OutsideNoCurrent DEF InStep, Stopping
    <3> QED
      BY <1>1, <1>9, <2>3, <3>1 DEF Started, Row
  <2>4. CASE t = cur[l] /\ pc[l] = "verify" /\ \E k \in Int :
                             task'[t].steps = Redone(task[t], k).steps
    <3>1. task[t].steps[s] # "CURRENT"
      BY <2>4, OutsideNoCurrent DEF InStep, Stopping
    <3> QED
      BY <1>1, <1>9, <2>4, <3>1 DEF Redone, Row
  <2> QED
    BY <1>3, <2>1, <2>2, <2>3, <2>4 DEF Effect
<1> QED
  BY <1>6, <1>7, <1>8, <1>9 DEF StepsInv, WorksOn, Ready, Open

LEMMA ClaimKeepsSteps ==
    ASSUME Inv, Inv', StepsInv, NEW l \in Lane, Claim(l)
    PROVE  StepsInv'
<1>1. \A t \in Tasks : Apart(t)
  BY RestApart
<1>0. PICK t \in Tasks : \E p :
         /\ cur' = [cur EXCEPT ![l] = t]
         /\ pc' = [pc EXCEPT ![l] = p]
         /\ LET r == IF task[t].state = "RECEIVED" THEN Moved(task[t], "PLANNING", "none")
                                                   ELSE task[t]
            IN  p \in (IF r.planned THEN Ahead(t, r) ELSE {"plan"})
  BY DEF Claim
<1>2. PICK p :
         /\ cur' = [cur EXCEPT ![l] = t]
         /\ pc' = [pc EXCEPT ![l] = p]
         /\ LET r == IF task[t].state = "RECEIVED" THEN Moved(task[t], "PLANNING", "none")
                                                   ELSE task[t]
            IN  p \in (IF r.planned THEN Ahead(t, r) ELSE {"plan"})
  BY <1>0
<1>3. pc[l] = "idle" /\ UNCHANGED up /\ pc \in [Lane -> PC] /\ cur \in [Lane -> Tasks \cup {NoTask}]
  BY DEF Claim, procVars, Inv, TypeOK
<1>4. ASSUME p = "finish" PROVE Ready(t, task[t])
  <2> DEFINE r == IF task[t].state = "RECEIVED" THEN Moved(task[t], "PLANNING", "none") ELSE task[t]
  <2>1. p \in (IF r.planned THEN Ahead(t, r) ELSE {"plan"})
    BY <1>2
  <2>2. r.steps = task[t].steps
    BY MovedSteps DEF Inv, TypeOK
  <2> HIDE DEF r
  <2>3. p \in Ahead(t, r)
    BY <1>4, <2>1
  <2>4. Ready(t, r)
    BY <1>4, <2>3 DEF Ahead, Ready
  <2> QED
    BY <2>2, <2>4 DEF Ready, Open
<1>5. \A k \in Lane : up' /\ pc[k] \in InStep => pc'[k] = pc[k] /\ cur'[k] = cur[k]
  BY <1>2, <1>3 DEF InStep, Stopping
<1>6. \A k \in Lane : pc'[k] = "finish" => Ready(cur'[k], task[cur'[k]])
  BY <1>2, <1>3, <1>4 DEF StepsInv
<1> QED
  BY <1>1, <1>3, <1>5, <1>6, ApartKeepsSteps

LEMMA StartKeepsSteps ==
    ASSUME Inv, StepsInv, Start
    PROVE  StepsInv'
<1>1. \A l \in Lane : pc'[l] = "idle"
  BY DEF Start, laneVars, Inv, DownMeansIdle
<1>2. ASSUME NEW t \in Tasks
      PROVE  /\ \A s \in Steps : task'[t].steps[s] # "CURRENT"
             /\ task'[t].state \in {"VERIFYING", "COMPLETED"} => task'[t] = task[t]
  <2>1. task'[t] = Recovered(task[t]) /\ task[t] \in Row
    BY DEF Start, Inv, TypeOK
  <2>2. CASE task[t].state \notin Active
    BY <2>1, <2>2, RecoveredSteps DEF StepsInv
  <2>3. CASE task[t].state \in Active
    <3>1. /\ task'[t].steps = Marked(task[t], "PENDING").steps
          /\ task'[t].state \in {"CANCELLED", "RETRYING"}
      BY <2>1, <2>3, RecoveredSteps
    <3> QED
      BY <2>1, <3>1 DEF Marked, Row
  <2> QED
    BY <2>2, <2>3
<1> QED
  BY <1>1, <1>2 DEF StepsInv, Ready, Open

LEMMA NextSteps ==
    ASSUME Inv, Inv', StepsInv, [Next]_vars
    PROVE  StepsInv'
<1>1. ASSUME NEW l \in Lane, LaneStep(l)
      PROVE  StepsInv'
  <2>1. CASE Told(l)
    <3>1. /\ pc[l] = "tell" /\ UNCHANGED up
          /\ \A k \in Lane : pc'[k] = "finish" \/ pc[k] \in InStep => k # l
          /\ \A k \in Lane : k # l => pc'[k] = pc[k] /\ cur'[k] = cur[k]
      BY <2>1 DEF Told, procVars, Inv, TypeOK, InStep, Stopping
    <3>2. \A t \in Tasks : Apart(t)
      BY <2>1, RestApart
    <3> QED
      BY <3>1, <3>2, ApartKeepsSteps DEF StepsInv
  <2> QED
    BY <1>1, <2>1, ClaimKeepsSteps, WorkKeepsSteps DEF LaneStep, WorkStep
<1>2. CASE OwnerStep \/ DecisionStep \/ WatchStep \/ RequestExit \/ UNCHANGED vars
  <2>1. \A t \in Tasks : Apart(t)
    BY <1>2, OwnerApart, RestApart
  <2>2. UNCHANGED <<up, pc, cur>>
    BY <1>2 DEF OwnerStep, DecisionStep, WatchStep, WatchAsk, WatchLocked, WatchRelease,
                RequestExit, laneVars, procVars, vars
  <2> QED
    BY <2>1, <2>2, ApartKeepsSteps DEF StepsInv
<1>3. CASE Exit
  <2>1. \A t \in Tasks : Apart(t)
    BY <1>3, RestApart
  <2>2. up' = FALSE /\ \A l \in Lane : pc'[l] = "idle"
    BY <1>3 DEF Exit
  <2> QED
    BY <2>1, <2>2, ApartKeepsSteps
<1> QED
  BY <1>1, <1>2, <1>3, StartKeepsSteps DEF Next

LEMMA SpecStepsInv == Spec => [](Inv /\ StepsInv)
<1>1. Inv /\ StepsInv /\ [Next]_vars => (Inv /\ StepsInv)'
  BY NextInv, NextSteps, StoreAssumption, EngineAssumption
<1> QED
  BY <1>1, InitInv, StepsInit, StoreAssumption, EngineAssumption, PTL DEF Spec

\* A step shown as CURRENT is being executed: complete_step, reset_step, fail_step or the
\* recovery puts its status right on every way out of a step.
THEOREM SpecCurrentStepIsExecuting == Spec => []CurrentStepIsExecuting
<1>1. StepsInv => CurrentStepIsExecuting
  BY DEF StepsInv, CurrentStepIsExecuting, InStep
<1> QED
  BY <1>1, SpecStepsInv, PTL

\* No task of an executor that takes every step ends COMPLETED with an open one, whatever was
\* reset, retried or recovered on the way.
THEOREM SpecCompletedMeansAllDone == Spec => []CompletedMeansAllDone
<1>1. StepsInv => CompletedMeansAllDone
  BY DEF StepsInv, Ready, CompletedMeansAllDone
<1> QED
  BY <1>1, SpecStepsInv, PTL

-----------------------------------------------------------------------------
(* The engine implements CheckpointedJob *)

Done(r) == {s \in Steps : r.steps[s] = "DONE"}

St(t) == JobStatus(task[t].state)
Sv(t) == Cardinality(Done(task[t]))
Rt(t) == task[t].retries

\* Nothing of t shows.
Same(t) == St(t)' = St(t) /\ Sv(t)' = Sv(t) /\ Rt(t)' = Rt(t)

LEMMA DoneCounts ==
    ASSUME NEW r, NEW q
    PROVE  /\ Cardinality(Done(r)) \in 0 .. NSteps
           /\ Open(r) = {} => Cardinality(Done(r)) = NSteps
           /\ r.steps = q.steps => Done(r) = Done(q)
           /\ Done(q) \subseteq Done(r) => Cardinality(Done(q)) <= Cardinality(Done(r))
           /\ \A s \in Steps : s \notin Done(r) /\ Done(q) = Done(r) \cup {s} =>
                Cardinality(Done(q)) = Cardinality(Done(r)) + 1 /\ Cardinality(Done(r)) < NSteps
           /\ \A s \in Done(r) : Cardinality(Done(r)) > 0
<1>1. NSteps \in Nat /\ IsFiniteSet(Steps) /\ Cardinality(Steps) = NSteps
  BY FS_Interval, StoreAssumption DEF Steps
<1>2. ASSUME NEW x
      PROVE  /\ IsFiniteSet(Done(x)) /\ Cardinality(Done(x)) \in Nat
             /\ Cardinality(Done(x)) <= NSteps
  <2>1. Done(x) \in SUBSET Steps
    BY DEF Done
  <2> QED
    BY <1>1, <2>1, FS_Subset, FS_CardinalityType
<1>3. Open(r) = {} => Cardinality(Done(r)) = NSteps
  <2>1. Open(r) = {} => Done(r) = Steps
    BY DEF Open, Done
  <2> QED
    BY <1>1, <2>1
<1>4. Done(q) \subseteq Done(r) => Cardinality(Done(q)) <= Cardinality(Done(r))
  BY <1>2, FS_Subset
<1>5. ASSUME NEW s \in Steps, s \notin Done(r), Done(q) = Done(r) \cup {s}
      PROVE  Cardinality(Done(q)) = Cardinality(Done(r)) + 1 /\ Cardinality(Done(r)) < NSteps
  <2>1. Cardinality(Done(q)) = Cardinality(Done(r)) + 1
    BY <1>2, <1>5, FS_AddElement
  <2> QED
    BY <1>1, <1>2, <2>1
<1>6. ASSUME NEW s \in Done(r) PROVE Cardinality(Done(r)) > 0
  <2>1. Cardinality(Done(r)) # 0
    BY <1>2, <1>6, FS_EmptySet
  <2> QED
    BY <1>2, <2>1
<1>7. r.steps = q.steps => Done(r) = Done(q)
  BY DEF Done
<1> QED
  BY <1>1, <1>2, <1>3, <1>4, <1>5, <1>6, <1>7

\* Any number of open jobs is cancelled at once.
LEMMA JobsCancelled ==
    ASSUME \A t \in Tasks : Same(t) \/ (St(t) = "open" /\ St(t)' = "cancelled"
                                       /\ Sv(t)' = Sv(t) /\ Rt(t)' = Rt(t))
    PROVE  [Job!Next]_(Job!jobVars)
<1> DEFINE S == {t \in Tasks : St(t) = "open" /\ St(t)' = "cancelled"}
<1>1. /\ [t \in Tasks |-> JobStatus(task'[t].state)]
           = [t \in Tasks |-> IF t \in S THEN "cancelled" ELSE JobStatus(task[t].state)]
      /\ [t \in Tasks |-> Cardinality({s \in Steps : task'[t].steps[s] = "DONE"})]
           = [t \in Tasks |-> Cardinality({s \in Steps : task[t].steps[s] = "DONE"})]
      /\ [t \in Tasks |-> task'[t].retries] = [t \in Tasks |-> task[t].retries]
  <2>1. \A t \in Tasks : Sv(t)' = Sv(t) /\ Rt(t)' = Rt(t)
    BY DEF Same
  <2>2. \A t \in Tasks : St(t)' = IF t \in S THEN "cancelled" ELSE St(t)
    BY DEF Same
  <2> HIDE DEF S
  <2> QED
    BY <2>1, <2>2 DEF St, Sv, Rt, Done
<1>2. \A t \in S : JobStatus(task[t].state) = "open"
  BY DEF St
<1>3. S \in SUBSET Tasks
  OBVIOUS
<1> HIDE DEF S
<1>4. CASE S = {}
  BY <1>1, <1>4 DEF Job!jobVars
<1>5. CASE S # {}
  <2>1. Job!Cancel(S)
    BY <1>1, <1>2, <1>3, <1>5 DEF Job!Cancel
  <2> QED
    BY <1>3, <2>1 DEF Job!Next
<1> QED
  BY <1>4, <1>5

\* The steps of the job specification, task by task.
LEMMA JobStep ==
    ASSUME NEW t \in Tasks, \A u \in Tasks \ {t} : Same(u),
           \/ Same(t)
           \/ /\ St(t) = "absent" /\ St(t)' = "open" /\ Sv(t)' = Sv(t) /\ Rt(t)' = Rt(t)
           \/ /\ St(t) = "open" /\ Sv(t) < NSteps
              /\ St(t)' = St(t) /\ Sv(t)' = Sv(t) + 1 /\ Rt(t)' = Rt(t)
           \/ /\ St(t) = "open" /\ Rt(t) < MaxRetries
              /\ St(t)' = St(t) /\ Sv(t)' \in 0 .. Sv(t) /\ Rt(t)' = Rt(t) + 1
           \/ /\ St(t) = "open" /\ (Sv(t) = NSteps \/ (t \in Short /\ Sv(t) > 0))
              /\ St(t)' = "completed" /\ Sv(t)' = Sv(t) /\ Rt(t)' = Rt(t)
           \/ /\ St(t) = "open" /\ St(t)' = "failed" /\ Sv(t)' = Sv(t) /\ Rt(t)' = Rt(t)
           \/ /\ St(t) = "open" /\ St(t)' = "cancelled" /\ Sv(t)' = Sv(t) /\ Rt(t)' = Rt(t)
    PROVE  [Job!Next]_(Job!jobVars)
<1> DEFINE status == [u \in Tasks |-> St(u)]
           saved == [u \in Tasks |-> Sv(u)]
           retries == [u \in Tasks |-> Rt(u)]
<1>1. /\ status' = [status EXCEPT ![t] = St(t)']
      /\ saved' = [saved EXCEPT ![t] = Sv(t)']
      /\ retries' = [retries EXCEPT ![t] = Rt(t)']
  BY DEF Same
<1>2. status[t] = St(t) /\ saved[t] = Sv(t) /\ retries[t] = Rt(t)
  OBVIOUS
<1>3. /\ [u \in Tasks |-> JobStatus(task[u].state)] = status
      /\ [u \in Tasks |-> Cardinality({s \in Steps : task[u].steps[s] = "DONE"})] = saved
      /\ [u \in Tasks |-> task[u].retries] = retries
  BY DEF St, Sv, Rt, Done
<1>4. /\ [u \in Tasks |-> JobStatus(task'[u].state)] = status'
      /\ [u \in Tasks |-> Cardinality({s \in Steps : task'[u].steps[s] = "DONE"})] = saved'
      /\ [u \in Tasks |-> task'[u].retries] = retries'
  BY DEF St, Sv, Rt, Done
<1>5. /\ (St(t)' = St(t) => status' = status)
      /\ (Sv(t)' = Sv(t) => saved' = saved)
      /\ (Rt(t)' = Rt(t) => retries' = retries)
  BY DEF Same
<1> HIDE DEF status, saved, retries
<1>7. CASE Same(t)
  BY <1>3, <1>4, <1>5, <1>7 DEF Same, Job!jobVars
<1>8. CASE St(t) = "absent" /\ St(t)' = "open" /\ Sv(t)' = Sv(t) /\ Rt(t)' = Rt(t)
  <2>1. Job!Submit(t)
    BY <1>1, <1>2, <1>3, <1>4, <1>5, <1>8 DEF Job!Submit
  <2> QED
    BY <2>1 DEF Job!Next
<1>9. CASE /\ St(t) = "open" /\ Sv(t) < NSteps
           /\ St(t)' = St(t) /\ Sv(t)' = Sv(t) + 1 /\ Rt(t)' = Rt(t)
  <2>1. Job!Save(t)
    BY <1>1, <1>2, <1>3, <1>4, <1>5, <1>9 DEF Job!Save
  <2> QED
    BY <2>1 DEF Job!Next
<1>10. CASE /\ St(t) = "open" /\ Rt(t) < MaxRetries
            /\ St(t)' = St(t) /\ Sv(t)' \in 0 .. Sv(t) /\ Rt(t)' = Rt(t) + 1
  <2>1. Job!Retry(t)
    BY <1>1, <1>2, <1>3, <1>4, <1>5, <1>10 DEF Job!Retry
  <2> QED
    BY <2>1 DEF Job!Next
<1>11. CASE /\ St(t) = "open" /\ (Sv(t) = NSteps \/ (t \in Short /\ Sv(t) > 0))
            /\ St(t)' = "completed" /\ Sv(t)' = Sv(t) /\ Rt(t)' = Rt(t)
  <2>1. Job!Complete(t)
    BY <1>1, <1>2, <1>3, <1>4, <1>5, <1>11 DEF Job!Complete
  <2> QED
    BY <2>1 DEF Job!Next
<1>12. CASE St(t) = "open" /\ St(t)' = "failed" /\ Sv(t)' = Sv(t) /\ Rt(t)' = Rt(t)
  <2>1. Job!Fail(t)
    BY <1>1, <1>2, <1>3, <1>4, <1>5, <1>12 DEF Job!Fail
  <2> QED
    BY <2>1 DEF Job!Next
<1>13. CASE St(t) = "open" /\ St(t)' = "cancelled" /\ Sv(t)' = Sv(t) /\ Rt(t)' = Rt(t)
  BY <1>13, JobsCancelled
<1> QED
  BY <1>7, <1>8, <1>9, <1>10, <1>11, <1>12, <1>13

\* What a lane does to its own task.
LEMMA WorkIsJobStep ==
    ASSUME Inv, StepsInv, NEW l \in Lane, WorkStep(l), NEW t, t = cur[l]
    PROVE  [Job!Next]_(Job!jobVars)
<1> DEFINE r == task[t]
           q == task'[t]
<1>1. /\ t \in Tasks /\ r \in Row /\ r.state \in Active \cup {"RETRYING", "CANCELLED"}
      /\ r.state = "CANCELLED" => pc[l] = "plan"
      /\ pc[l] = "verify" => r.state = "VERIFYING"
  BY Holds, HeldRow DEF Inv, WorkStep, Plan, StartStep, Finish, StepDone, StepHalts, Halted,
     StepError, StepRefused, Refuse, StepNeedsDesktop, StepAsks, Park, VerifyPasses,
     VerifyBlocked, VerifyNeedsWork, VerifyError, Working
<1>2. Effect(l)
  BY WorkEffect DEF Inv
<1>3. /\ q \in Row /\ \A u \in Tasks \ {t} : task'[u] = task[u]
      /\ r.state = "CANCELLED" => q.state = r.state
  <2>1. PICK n \in Row, p \in PC : LaneMove(l, n, p)
    BY WorkStepMoves, StoreAssumption DEF Inv, Moves
  <2> QED
    BY <1>1, <2>1 DEF LaneMove, Inv, TypeOK, Ended, Terminal
<1>4. \A u \in Tasks \ {t} : Same(u)
  BY <1>3 DEF Same, St, Sv, Rt
<1>5. St(t) = JobStatus(r.state) /\ Rt(t) = r.retries /\ Sv(t) = Cardinality(Done(r))
  BY DEF St, Rt, Sv
<1>6. St(t)' = JobStatus(q.state) /\ Rt(t)' = q.retries /\ Sv(t)' = Cardinality(Done(q))
  BY DEF St, Rt, Sv
<1>7. /\ r.retries \in Nat /\ Sv(t) \in 0 .. NSteps /\ Sv(t)' \in 0 .. NSteps /\ NSteps \in Nat
  BY <1>1, <1>5, <1>6, DoneCounts, StoreAssumption DEF Row
<1>8. CASE r.state = "CANCELLED"
  <2>1. q.state = r.state /\ q.retries = r.retries /\ q.steps = r.steps
    BY <1>1, <1>2, <1>3, <1>8 DEF Effect, InStep, Stopping, Active
  <2> QED
    BY <1>1, <1>4, <1>5, <1>6, <2>1, JobStep, DoneCounts DEF Same
<1>9. CASE r.state # "CANCELLED" /\ q.retries # r.retries
  <2>1. q.retries = r.retries + 1 /\ r.retries < MaxRetries /\ q.state = "RETRYING"
    BY <1>2, <1>9 DEF Effect
  <2>2. Done(q) \subseteq Done(r)
    BY <1>1, <1>2, <1>9 DEF Effect, Marked, Started, Redone, Open, Done, Row
  <2>3. Cardinality(Done(q)) \in 0 .. Cardinality(Done(r))
    BY <1>5, <1>6, <1>7, <2>2, DoneCounts
  <2>4. JobStatus(r.state) = "open" /\ JobStatus(q.state) = "open"
    BY <1>1, <1>9, <2>1 DEF JobStatus, Active
  <2> HIDE DEF r, q
  <2> QED
    BY <1>1, <1>4, <1>5, <1>6, <2>1, <2>3, <2>4, JobStep
<1>10. CASE r.state # "CANCELLED" /\ q.retries = r.retries /\ q.steps = Marked(r, "DONE").steps
            /\ q.state = r.state
  <2>1. JobStatus(r.state) = "open"
    BY <1>1, <1>10 DEF JobStatus, Active
  <2>2. CASE \E s \in Steps : r.steps[s] = "CURRENT"
    <3>1. PICK s \in Steps : r.steps[s] = "CURRENT"
      BY <2>2
    <3>2. \A u \in Steps : r.steps[u] = "CURRENT" => u = s
      BY <1>1, <3>1 DEF StepsInv
    <3>3. s \notin Done(r) /\ Done(q) = Done(r) \cup {s}
      BY <1>1, <1>10, <3>1, <3>2 DEF Marked, Done, Row
    <3>4. Cardinality(Done(q)) = Cardinality(Done(r)) + 1 /\ Cardinality(Done(r)) < NSteps
      BY <3>3, DoneCounts
    <3> HIDE DEF r, q
    <3> QED
      BY <1>1, <1>4, <1>5, <1>6, <1>10, <2>1, <3>4, JobStep
  <2>3. CASE ~\E s \in Steps : r.steps[s] = "CURRENT"
    <3>1. Done(q) = Done(r)
      BY <1>1, <1>10, <2>3 DEF Marked, Done, Row
    <3> HIDE DEF r, q
    <3> QED
      BY <1>1, <1>4, <1>5, <1>6, <1>10, <3>1, JobStep DEF Same
  <2> QED
    BY <2>2, <2>3
<1>11. CASE r.state # "CANCELLED" /\ q.retries = r.retries
            /\ ~(q.steps = Marked(r, "DONE").steps /\ q.state = r.state)
  <2>1. Done(q) = Done(r)
    <3>1. \/ q.steps = r.steps
          \/ \E status \in {"PENDING", "FAILED"} : q.steps = Marked(r, status).steps
          \/ \E s \in Open(r) : q.steps = Started(r, s).steps
      BY <1>2, <1>7, <1>11 DEF Effect
    <3>2. CASE q.steps = r.steps
      BY <3>2, DoneCounts
    <3>3. ASSUME NEW status \in {"PENDING", "FAILED"}, q.steps = Marked(r, status).steps
          PROVE  Done(q) = Done(r)
      BY <1>1, <3>3 DEF Marked, Done, Row
    <3>4. ASSUME NEW s \in Open(r), q.steps = Started(r, s).steps
          PROVE  Done(q) = Done(r)
      BY <1>1, <3>4 DEF Started, Open, Done, Row
    <3> QED
      BY <3>1, <3>2, <3>3, <3>4
  <2>2. JobStatus(r.state) = "open"
    BY <1>1, <1>11 DEF JobStatus, Active
  <2>3. JobStatus(q.state) \in {"open", "completed", "failed", "cancelled"}
    BY <1>2 DEF JobStatus, Effect
  <2>4. JobStatus(q.state) = "completed" => Sv(t) = NSteps \/ (t \in Short /\ Sv(t) > 0)
    <3> SUFFICES ASSUME JobStatus(q.state) = "completed"
                 PROVE  Sv(t) = NSteps \/ (t \in Short /\ Sv(t) > 0)
      OBVIOUS
    <3>1. q.state = "COMPLETED"
      BY DEF JobStatus
    <3>2. Ready(t, r)
      BY <1>1, <1>2, <3>1 DEF Effect, StepsInv
    <3>3. CASE Open(r) = {}
      BY <1>5, <3>3, DoneCounts
    <3>4. CASE t \in Short /\ 1 \notin Open(r) /\ Open(r) # {}
      <4>1. 1 \in Steps
        BY <1>7, <3>4 DEF Open, Steps
      <4>2. 1 \in Done(r)
        BY <3>4, <4>1 DEF Open, Done
      <4> QED
        BY <1>5, <3>4, <4>2, DoneCounts
    <3> QED
      BY <3>2, <3>3, <3>4 DEF Ready
  <2> HIDE DEF r, q
  <2> QED
    BY <1>1, <1>4, <1>5, <1>6, <1>11, <2>1, <2>2, <2>3, <2>4, JobStep DEF Same
<1> QED
  BY <1>8, <1>9, <1>10, <1>11

LEMMA NextIsJobStep ==
    ASSUME Inv, StepsInv, [Next]_vars
    PROVE  [Job!Next]_(Job!jobVars)
<1>1. CASE \E l \in Lane : WorkStep(l)
  BY <1>1, WorkIsJobStep
<1>2. CASE Start
  <2>1. ASSUME NEW t \in Tasks
        PROVE  Same(t) \/ (St(t) = "open" /\ St(t)' = "cancelled" /\ Sv(t)' = Sv(t) /\ Rt(t)' = Rt(t))
    <3>1. task'[t] = Recovered(task[t]) /\ task[t] \in Row
      BY <1>2 DEF Start, Inv, TypeOK
    <3>2. CASE task[t].state \notin Active
      BY <3>1, <3>2, RecoveredSteps DEF Same, St, Sv, Rt
    <3>3. CASE task[t].state \in Active
      <4>1. /\ task'[t].steps = Marked(task[t], "PENDING").steps
            /\ task'[t].state \in {"CANCELLED", "RETRYING"}
            /\ task'[t].retries = task[t].retries
        BY <3>1, <3>3, RecoveredSteps
      <4>2. Done(task'[t]) = Done(task[t])
        BY <3>1, <4>1 DEF Done, Marked, Row
      <4> QED
        BY <3>3, <4>1, <4>2 DEF Same, St, Sv, Rt, JobStatus, Active
    <3> QED
      BY <3>2, <3>3
  <2> QED
    BY <2>1, JobsCancelled
<1>3. CASE ~Start /\ ~\E l \in Lane : WorkStep(l)
  <2>1. \A t \in Tasks : Apart(t)
    BY <1>3, StepOf
  <2>2. ASSUME NEW t \in Tasks
        PROVE  Sv(t)' = Sv(t) /\ Rt(t)' = Rt(t)
    BY <2>1 DEF Apart, Sv, Rt, Done
  <2>3. CASE \E t \in Tasks : Create(t)
    <3>1. PICK t \in Tasks : Create(t)
      BY <2>3
    <3>2. /\ task[t].state = "ABSENT" /\ task'[t].state = "RECEIVED"
          /\ \A u \in Tasks \ {t} : task'[u] = task[u]
      BY <3>1 DEF Create, Inv, TypeOK, Row
    <3>3. St(t) = "absent" /\ St(t)' = "open" /\ \A u \in Tasks \ {t} : Same(u)
      BY <3>2 DEF St, Sv, Rt, Same, JobStatus
    <3> QED
      BY <2>2, <3>3, JobStep
  <2>4. CASE ~\E t \in Tasks : Create(t)
    <3>1. ASSUME NEW t \in Tasks
          PROVE  St(t)' = St(t) \/ (St(t) = "open" /\ St(t)' = "cancelled")
      BY <2>1, <2>4 DEF Apart, St, JobStatus
    <3> QED
      BY <2>2, <3>1, JobsCancelled DEF Same
  <2> QED
    BY <2>3, <2>4
<1> QED
  BY <1>1, <1>2, <1>3

\* The task engine implements CheckpointedJob: no crash, pause, approval or shutdown costs a
\* finished step or a retry, and only a job whose steps are all saved is completed.
THEOREM SpecImplementsJob == Spec => ImplementsJob
<1>1. Init => Job!Init
  <2> SUFFICES ASSUME Init PROVE Job!Init
    OBVIOUS
  <2>1. \A t \in Tasks : /\ JobStatus(task[t].state) = "absent" /\ task[t].retries = 0
                         /\ {s \in Steps : task[t].steps[s] = "DONE"} = {}
    BY DEF Init, StoreInit, NoRow, JobStatus
  <2> QED
    BY <2>1, FS_EmptySet DEF Job!Init
<1>2. Inv /\ StepsInv /\ [Next]_vars => [Job!Next]_(Job!jobVars)
  BY NextIsJobStep
<1> QED
  BY <1>1, <1>2, SpecStepsInv, PTL DEF Spec, ImplementsJob, Job!Spec

-----------------------------------------------------------------------------
(* The lanes run down *)

\* How far a lane suspended at p is from the end of its segment.
At(p) == CASE p = "plan"               -> 4
           [] p = "checkpoint"         -> 3
           [] p \in {"step", "finish"} -> 2
           [] OTHER                    -> 1

\* What t has before it until it comes to rest: a claim, or the rest of its segment.
Place(t) == IF WorksOn("main", t) THEN At(pc["main"])
            ELSE IF WorksOn("fast", t) THEN At(pc["fast"])
            ELSE IF task[t].state \in Runnable /\ ~draining THEN 5 ELSE 0

OpenSteps(t) == Cardinality(Open(task[t]))

\* A retry of t is used up; or it has one open step less; or it is nearer to its rest.
Nearer(t) ==
    \/ task'[t].retries = task[t].retries + 1
    \/ /\ task'[t].retries = task[t].retries
       /\ \/ OpenSteps(t)' < OpenSteps(t)
          \/ OpenSteps(t)' = OpenSteps(t) /\ Place(t)' < Place(t)

Unmoved(t) == task'[t] = task[t] /\ Place(t)' = Place(t)

\* A lane stops for a shutdown only when there is one, and has started the step it is in.
InStepInv ==
    \A l \in Lane : /\ pc[l] = "interrupted" => draining
                    /\ pc[l] \in InStep => \E s \in Steps : task[cur[l]].steps[s] = "CURRENT"

\* A lane goes on towards the end of its segment; or it is over, and the task can be claimed
\* again only after a shutdown; or a retry is used up; or a step is finished.
Onward(l) ==
    LET r == task[cur[l]]
        q == task'[cur[l]]
    IN  /\ \/ q.retries = r.retries + 1
           \/ pc'[l] \notin Working /\ (q.state \in Runnable => draining)
           \/ pc'[l] \in Working /\ At(pc'[l]) < At(pc[l])
           \/ pc[l] = "step" /\ pc'[l] \in {"checkpoint", "finish"} /\ q.steps = Marked(r, "DONE").steps
        /\ pc'[l] = "interrupted" => draining

LEMMA SettleEnds ==
    ASSUME TypeOK, NEW l \in Lane, cur[l] \in Tasks, NEW r \in Row,
           r.state \in Active \cup {"RETRYING", "CANCELLED"},
           NEW dst, NEW why, NEW told, Settle(l, r, dst, why, told)
    PROVE  Left(l, r.steps, {dst, "FAILED", "CANCELLED"}, r.retries)
<1>1. CASE CanTransition(r.state, dst)
  <2>1. Leave(l, Moved(r, dst, why), told)
    BY <1>1 DEF Settle
  <2>2. task'[cur[l]] = Moved(r, dst, why) /\ pc'[l] \in {"idle", "tell"}
    BY <2>1, LeaveRow
  <2> QED
    BY <2>2, MovedSteps DEF Left
<1>2. CASE ~CanTransition(r.state, dst) /\ CanTransition(r.state, "FAILED")
  <2>1. Leave(l, Moved(r, "FAILED", "ENGINE_ERROR"), FALSE)
    BY <1>2 DEF Settle, EngineError
  <2>2. task'[cur[l]] = Moved(r, "FAILED", "ENGINE_ERROR") /\ pc'[l] \in {"idle", "tell"}
    BY <2>1, LeaveRow
  <2> QED
    BY <2>2, MovedSteps DEF Left
<1>3. CASE ~CanTransition(r.state, dst) /\ ~CanTransition(r.state, "FAILED")
  <2>1. Leave(l, r, FALSE)
    BY <1>3 DEF Settle, EngineError
  <2>2. r.state = "CANCELLED"
    BY <1>3, HeldCanFail
  <2> QED
    BY <2>1, <2>2, LeaveRow DEF Left
<1> QED
  BY <1>1, <1>2, <1>3

\* Only a shutdown leaves a task to be claimed again.
LEMMA HaltOnward ==
    ASSUME TypeOK, NEW l \in Lane, cur[l] \in Tasks, NEW r \in Row,
           r.state \in Active \cup {"RETRYING", "CANCELLED"},
           NEW signal \in Stopping, signal = "interrupted" => draining, Halt(l, r, signal)
    PROVE  Onward(l)
<1>1. CASE signal \in {"cancelled", "paused"}
  <2>1. \E dst \in {"CANCELLED", "PAUSED"} : \E why : \E told : Settle(l, r, dst, why, told)
    BY <1>1 DEF Halt
  <2>2. Left(l, r.steps, {"CANCELLED", "PAUSED", "FAILED"}, r.retries)
    BY <2>1, SettleEnds DEF Left
  <2> QED
    BY <2>2 DEF Left, Onward, Runnable, Working, Stopping
<1>2. CASE signal = "interrupted"
  <2>1. \E why : \E told : Settle(l, r, "RETRYING", why, told)
    BY <1>2 DEF Halt
  <2>2. Left(l, r.steps, {"RETRYING", "FAILED", "CANCELLED"}, r.retries)
    BY <2>1, SettleEnds
  <2> QED
    BY <1>2, <2>2 DEF Left, Onward, Working, Stopping
<1> QED
  BY <1>1, <1>2 DEF Stopping

LEMMA RetryOrFailOnward ==
    ASSUME TypeOK, NEW l \in Lane, cur[l] \in Tasks, NEW r \in Row,
           r.retries = task[cur[l]].retries, r.state \notin Runnable,
           NEW why, NEW told, RetryOrFail(l, r, why, told)
    PROVE  Onward(l)
<1>1. \/ Left(l, r.steps, {"RETRYING"}, r.retries + 1)
      \/ Left(l, r.steps, {"FAILED", r.state}, r.retries)
  BY RetryOrFailRow
<1> QED
  BY <1>1 DEF Left, Onward, Runnable, Working, Stopping

LEMMA SettleOnward ==
    ASSUME TypeOK, NEW l \in Lane, cur[l] \in Tasks, NEW r \in Row,
           r.state \notin Runnable, NEW dst, dst \notin Runnable,
           NEW why, NEW told, Settle(l, r, dst, why, told)
    PROVE  Onward(l)
<1>1. Left(l, r.steps, {dst, "FAILED", r.state}, r.retries)
  BY SettleRow
<1> QED
  BY <1>1 DEF Left, Onward, Runnable, Working, Stopping

LEMMA PlanOnward ==
    ASSUME TypeOK, LanesMatchRows, NEW l \in Lane, Plan(l)
    PROVE  Onward(l)
<1> DEFINE r == task[cur[l]]
           q == [r EXCEPT !.planned = TRUE]
<1>1. /\ pc[l] = "plan" /\ cur[l] \in Tasks /\ r \in Row
      /\ r.state \in Active \cup {"RETRYING", "CANCELLED"}
  BY Holds DEF Plan, WorkStep
<1>2. q \in Row /\ q.state = r.state /\ q.retries = r.retries
  BY <1>1 DEF Row
<1>3. CASE Signal(r) # "none"
  <2>1. /\ Halt(l, r, Signal(r)) /\ Signal(r) \in Stopping
        /\ Signal(r) = "interrupted" => draining
    BY <1>3, SignalKind DEF Plan, Signal
  <2> QED
    BY <1>1, <2>1, HaltOnward
<1>4. CASE Signal(r) = "none" /\ CanTransition(q.state, "RUNNING")
  <2>1. PICK p \in Ahead(cur[l], q) : GoTo(l, p, Moved(q, "RUNNING", "none"))
    BY <1>4 DEF Plan, EnterRun
  <2>2. pc'[l] \in {"checkpoint", "finish"}
    BY <1>1, <2>1, GoToRow, AheadKind
  <2> QED
    BY <1>1, <2>2 DEF Onward, At, Working
<1>5. CASE Signal(r) = "none" /\ ~CanTransition(q.state, "RUNNING")
  <2>1. RetryOrFail(l, q, "STEP_ERROR", FALSE)
    BY <1>5 DEF Plan
  <2>2. r.state \notin Runnable
    BY <1>1, <1>2, <1>5 DEF CanTransition, Transitions, Runnable, Active
  <2> HIDE DEF q
  <2> QED
    BY <1>1, <1>2, <2>1, <2>2, RetryOrFailOnward
<1> QED
  BY <1>3, <1>4, <1>5

LEMMA CheckpointOnward ==
    ASSUME TypeOK, LanesMatchRows, NEW l \in Lane, StartStep(l) \/ Finish(l)
    PROVE  Onward(l)
<1> DEFINE r == task[cur[l]]
<1>1. /\ pc[l] \in {"checkpoint", "finish"} /\ cur[l] \in Tasks /\ r \in Row
      /\ r.state = "RUNNING"
  BY Holds DEF StartStep, Finish, WorkStep
<1>2. CASE Signal(r) # "none"
  <2>1. /\ Halt(l, r, Signal(r)) /\ Signal(r) \in Stopping
        /\ Signal(r) = "interrupted" => draining
    BY <1>2, SignalKind DEF StartStep, Finish, Signal
  <2> QED
    BY <1>1, <2>1, HaltOnward DEF Active
<1>3. CASE Signal(r) = "none"
  <2>1. \E q : \/ pc[l] = "checkpoint" /\ GoTo(l, "step", q)
               \/ pc[l] = "finish" /\ GoTo(l, "verify", q)
    BY <1>1, <1>3 DEF StartStep, Finish, CanTransition, Transitions
  <2>2. \/ pc[l] = "checkpoint" /\ pc'[l] = "step"
        \/ pc[l] = "finish" /\ pc'[l] = "verify"
    BY <1>1, <2>1, GoToRow
  <2> QED
    BY <2>2 DEF Onward, At, Working
<1> QED
  BY <1>2, <1>3

LEMMA InStepOnward ==
    ASSUME TypeOK, LanesMatchRows, InStepInv, NEW l \in Lane,
           \/ StepDone(l) \/ StepHalts(l) \/ Halted(l) \/ StepError(l) \/ StepRefused(l)
           \/ StepNeedsDesktop(l) \/ StepAsks(l) \/ Park(l)
    PROVE  Onward(l)
<1> DEFINE r == task[cur[l]]
<1>1. pc[l] \in InStep /\ cur[l] \in Tasks /\ r \in Row /\ r.state = "RUNNING"
  <2>1. pc[l] \in InStep
    BY DEF StepDone, StepHalts, Halted, StepError, StepRefused, Refuse, StepNeedsDesktop,
           StepAsks, Park, InStep
  <2> QED
    BY <2>1, Holds DEF WorkStep
<1>2. ASSUME NEW status \in StepStatus
      PROVE  /\ Marked(r, status) \in Row /\ Marked(r, status).state = "RUNNING"
             /\ Marked(r, status).retries = r.retries
  BY <1>1, MarkedRow
<1>3. ASSUME NEW status \in {"PENDING", "FAILED"}, NEW dst, dst \notin Runnable,
             NEW why, NEW told, Settle(l, Marked(r, status), dst, why, told)
      PROVE  Onward(l)
  <2>1. Marked(r, status) \in Row /\ Marked(r, status).state \notin Runnable
    BY <1>2 DEF StepStatus, Runnable
  <2> QED
    BY <1>1, <1>3, <2>1, SettleOnward
<1>4. CASE StepDone(l)
  <2>1. PICK p \in Ahead(cur[l], Marked(r, "DONE")) : GoTo(l, p, Marked(r, "DONE"))
    BY <1>4 DEF StepDone
  <2>2. task'[cur[l]] = Marked(r, "DONE") /\ pc'[l] \in {"checkpoint", "finish"}
    BY <1>1, <2>1, GoToRow, AheadKind
  <2> QED
    BY <1>4, <2>2 DEF StepDone, Onward
<1>5. CASE StepHalts(l) \/ StepAsks(l)
  <2>1. PICK p \in {"ask"} \cup Stopping : GoTo(l, p, r) /\ (p = "interrupted" => draining)
    BY <1>5, SignalKind DEF StepHalts, StepAsks, Signal
  <2>2. pc'[l] = p /\ pc[l] = "step"
    BY <1>1, <1>5, <2>1, GoToRow DEF StepHalts, StepAsks
  <2> QED
    BY <2>1, <2>2 DEF Onward, At, Working, Stopping
<1>6. CASE Halted(l)
  <2> DEFINE status == IF pc[l] = "interrupted" THEN "FAILED" ELSE "PENDING"
  <2>1. Halt(l, Marked(r, status), pc[l]) /\ pc[l] \in Stopping
    BY <1>6 DEF Halted
  <2>2. Marked(r, status) \in Row /\ Marked(r, status).state = "RUNNING"
    BY <1>2 DEF StepStatus
  <2>3. pc[l] = "interrupted" => draining
    BY DEF InStepInv
  <2> HIDE DEF status
  <2> QED
    BY <1>1, <2>1, <2>2, <2>3, HaltOnward DEF Active
<1>7. CASE StepError(l)
  <2>1. RetryOrFail(l, Marked(r, "FAILED"), "STEP_ERROR", FALSE)
    BY <1>7 DEF StepError
  <2>2. /\ Marked(r, "FAILED") \in Row /\ Marked(r, "FAILED").state \notin Runnable
        /\ Marked(r, "FAILED").retries = r.retries
    BY <1>2 DEF StepStatus, Runnable
  <2> QED
    BY <1>1, <2>1, <2>2, RetryOrFailOnward
<1>8. CASE StepRefused(l)
  <2>1. PICK why : Settle(l, Marked(r, "FAILED"), "FAILED", why, TRUE)
    BY <1>8 DEF StepRefused, Refuse
  <2> QED
    BY <1>3, <2>1 DEF Runnable
<1>9. CASE StepNeedsDesktop(l)
  BY <1>3, <1>9 DEF StepNeedsDesktop, Runnable
<1>10. CASE Park(l)
  BY <1>3, <1>10 DEF Park, Runnable
<1> QED
  BY <1>4, <1>5, <1>6, <1>7, <1>8, <1>9, <1>10

LEMMA VerifyOnward ==
    ASSUME TypeOK, LanesMatchRows, NEW l \in Lane,
           VerifyPasses(l) \/ VerifyBlocked(l) \/ VerifyNeedsWork(l) \/ VerifyError(l)
    PROVE  Onward(l)
<1> DEFINE r == task[cur[l]]
<1>1. pc[l] = "verify" /\ cur[l] \in Tasks /\ r \in Row /\ r.state = "VERIFYING"
  BY Holds DEF VerifyPasses, VerifyBlocked, VerifyNeedsWork, VerifyError, WorkStep
<1>2. CASE VerifyPasses(l) \/ VerifyBlocked(l)
  <2>1. \E dst \in {"COMPLETED", "FAILED"} : \E why : \E told : Settle(l, r, dst, why, told)
    BY <1>2 DEF VerifyPasses, VerifyBlocked
  <2>2. r.state \notin Runnable /\ "COMPLETED" \notin Runnable /\ "FAILED" \notin Runnable
    BY <1>1 DEF Runnable
  <2> QED
    BY <1>1, <2>1, <2>2, SettleOnward
<1>3. CASE VerifyNeedsWork(l) \/ VerifyError(l)
  <2>1. \/ \E why : \E told : RetryOrFail(l, r, why, told)
        \/ \E k \in Int : \E why : \E told : RetryOrFail(l, Redone(r, k), why, told)
    <3>1. 1 .. NSteps + 1 \subseteq Int
      BY StoreAssumption
    <3>2. CASE VerifyError(l)
      BY <3>2 DEF VerifyError
    <3>3. CASE VerifyNeedsWork(l)
      <4>1. PICK k \in 1 .. NSteps + 1 :
               RetryOrFail(l, IF r.retries < MaxRetries THEN Redone(r, k) ELSE r,
                           "VERIFICATION_FAILED", TRUE)
        BY <3>3 DEF VerifyNeedsWork
      <4>2. CASE r.retries < MaxRetries
        BY <3>1, <4>1, <4>2
      <4>3. CASE ~(r.retries < MaxRetries)
        BY <4>1, <4>3
      <4> QED
        BY <4>2, <4>3
    <3> QED
      BY <1>3, <3>2, <3>3
  <2>2. ASSUME NEW k \in Int
        PROVE  /\ Redone(r, k) \in Row /\ Redone(r, k).state = "VERIFYING"
               /\ Redone(r, k).retries = r.retries
    BY <1>1, RedoneRow
  <2>3. "VERIFYING" \notin Runnable
    BY DEF Runnable
  <2> QED
    BY <1>1, <2>1, <2>2, <2>3, RetryOrFailOnward
<1> QED
  BY <1>2, <1>3

LEMMA WorkOnward ==
    ASSUME TypeOK, LanesMatchRows, InStepInv, NEW l \in Lane, WorkStep(l)
    PROVE  Onward(l)
BY PlanOnward, CheckpointOnward, InStepOnward, VerifyOnward DEF WorkStep

LEMMA InStepInit == Init => InStepInv
BY DEF Init, InStepInv, InStep, Stopping

\* A lane that stays where it is stays inside its step.
LEMMA ApartKeepsInStep ==
    ASSUME Inv, InStepInv, \A t \in Tasks : Apart(t),
           \E l \in Lane : Claim(l) \/ Told(l)
             \/ OwnerStep \/ DecisionStep \/ WatchStep \/ RequestExit \/ Exit \/ UNCHANGED vars
    PROVE  InStepInv'
<1>1. \A l \in Lane : pc'[l] \in InStep =>
        pc'[l] = pc[l] /\ cur'[l] = cur[l] /\ (draining => draining')
  <2>1. ASSUME NEW k \in Lane, Claim(k)
        PROVE  /\ UNCHANGED draining
               /\ pc'[k] \notin InStep
               /\ \A l \in Lane \ {k} : pc'[l] = pc[l] /\ cur'[l] = cur[l]
    <3>1. \E t \in Tasks : \E p \in {"plan", "checkpoint", "finish"} :
             pc' = [pc EXCEPT ![k] = p] /\ cur' = [cur EXCEPT ![k] = t]
      BY <2>1 DEF Claim, Ahead
    <3> QED
      BY <2>1, <3>1 DEF Claim, procVars, Inv, TypeOK, InStep, Stopping
  <2>2. ASSUME NEW k \in Lane, Told(k)
        PROVE  /\ UNCHANGED draining
               /\ pc'[k] \notin InStep
               /\ \A l \in Lane \ {k} : pc'[l] = pc[l] /\ cur'[l] = cur[l]
    BY <2>2 DEF Told, procVars, Inv, TypeOK, InStep, Stopping
  <2>3. CASE Exit
    BY <2>3 DEF Exit, InStep, Stopping
  <2>4. CASE OwnerStep \/ DecisionStep \/ WatchStep \/ RequestExit \/ UNCHANGED vars
    BY <2>4 DEF OwnerStep, DecisionStep, WatchStep, WatchAsk, WatchLocked, WatchRelease,
                RequestExit, laneVars, procVars, vars
  <2> QED
    BY <2>1, <2>2, <2>3, <2>4
<1> SUFFICES ASSUME NEW l \in Lane, pc'[l] \in InStep
             PROVE  /\ pc'[l] = "interrupted" => draining'
                    /\ \E s \in Steps : task'[cur'[l]].steps[s] = "CURRENT"
  BY DEF InStepInv, InStep, Stopping
<1>2. cur[l] \in Tasks
  BY <1>1 DEF Inv, LanesMatchRows, InStep, Working
<1> QED
  BY <1>1, <1>2 DEF InStepInv, Apart

LEMMA WorkKeepsInStep ==
    ASSUME Inv, InStepInv, NEW l \in Lane, WorkStep(l)
    PROVE  InStepInv'
<1>1. /\ cur[l] \in Tasks /\ task \in [Tasks -> Row] /\ pc \in [Lane -> PC]
      /\ cur \in [Lane -> Tasks \cup {NoTask}]
  BY Holds DEF Inv, TypeOK
<1>2. PICK r \in Row, p \in PC : LaneMove(l, r, p)
  BY WorkStepMoves, StoreAssumption DEF Inv, Moves
<1>3. Effect(l) /\ Onward(l) /\ UNCHANGED draining /\ pc[l] \in Working
  BY WorkEffect, WorkOnward
     DEF Inv, WorkStep, Plan, StartStep, Finish, StepDone, StepHalts, Halted,
     StepError, StepRefused, Refuse, StepNeedsDesktop, StepAsks, Park, VerifyPasses,
     VerifyBlocked, VerifyNeedsWork, VerifyError, procVars, Working
<1>4. /\ task'[cur[l]] = r /\ pc'[l] = p
      /\ \A t \in Tasks : t # cur[l] => task'[t] = task[t]
      /\ \A k \in Lane : k # l => pc'[k] = pc[k] /\ cur'[k] = cur[k]
      /\ p # "idle" => cur'[l] = cur[l]
  BY <1>1, <1>2 DEF LaneMove
<1>5. ASSUME NEW k \in Lane, k # l
      PROVE  /\ pc'[k] = "interrupted" => draining'
             /\ pc'[k] \in InStep => \E s \in Steps : task'[cur'[k]].steps[s] = "CURRENT"
  <2>1. ASSUME pc[k] \in InStep PROVE cur[k] \in Tasks /\ cur[k] # cur[l]
    BY <1>3, <1>5, <2>1 DEF Inv, LanesMatchRows, OneWorkerPerTask, WorksOn, Working, InStep
  <2> QED
    BY <1>3, <1>4, <1>5, <2>1 DEF InStepInv
<1>6. ASSUME pc'[l] \in InStep
      PROVE  \E s \in Steps : task'[cur'[l]].steps[s] = "CURRENT"
  <2>1. cur'[l] = cur[l]
    BY <1>4, <1>6 DEF InStep, Stopping
  <2>2. CASE task'[cur[l]].steps = task[cur[l]].steps /\ pc[l] \in InStep
    BY <2>1, <2>2 DEF InStepInv
  <2>3. CASE \E s \in Open(task[cur[l]]) : task'[cur[l]].steps = Started(task[cur[l]], s).steps
    BY <1>1, <2>1, <2>3 DEF Started, Open, Row
  <2> QED
    BY <1>3, <1>6, <2>2, <2>3 DEF Effect
<1> QED
  BY <1>3, <1>5, <1>6 DEF InStepInv, Onward

LEMMA NextInStep ==
    ASSUME Inv, InStepInv, [Next]_vars
    PROVE  InStepInv'
<1>1. CASE Start
  BY <1>1 DEF Start, laneVars, Inv, DownMeansIdle, InStepInv, InStep, Stopping
<1>2. ASSUME NEW l \in Lane, WorkStep(l)
      PROVE  InStepInv'
  BY <1>2, WorkKeepsInStep
<1>3. CASE \E l \in Lane : Claim(l) \/ Told(l)
             \/ OwnerStep \/ DecisionStep \/ WatchStep \/ RequestExit \/ Exit \/ UNCHANGED vars
  <2>1. \A t \in Tasks : Apart(t)
    BY <1>3, OwnerApart, RestApart
  <2> QED
    BY <1>3, <2>1, ApartKeepsInStep
<1>4. "main" \in Lane
  BY DEF Lane
<1> QED
  BY <1>1, <1>2, <1>3, <1>4 DEF Next, LaneStep, WorkStep

LEMMA SpecInStep == Spec => [](Inv /\ InStepInv)
<1>1. Inv /\ InStepInv /\ [Next]_vars => (Inv /\ InStepInv)'
  BY NextInv, NextInStep, StoreAssumption, EngineAssumption
<1> QED
  BY <1>1, InitInv, InStepInit, StoreAssumption, EngineAssumption, PTL DEF Spec

-----------------------------------------------------------------------------
(* Places *)

LEMMA AtNumber == \A p : At(p) \in 1 .. 4
BY DEF At

LEMMA PlaceOfWorker ==
    ASSUME OneWorkerPerTask, NEW t \in Tasks, NEW l \in Lane, WorksOn(l, t)
    PROVE  Place(t) = At(pc[l])
BY DEF OneWorkerPerTask, Place, Lane

LEMMA NextPlaceOfWorker ==
    ASSUME OneWorkerPerTask', NEW t \in Tasks, NEW l \in Lane, WorksOn(l, t)'
    PROVE  Place(t)' = At(pc'[l])
BY DEF OneWorkerPerTask, Place, Lane, WorksOn

LEMMA PlaceOfFree ==
    ASSUME NEW t \in Tasks, \A l \in Lane : ~WorksOn(l, t)
    PROVE  Place(t) = IF task[t].state \in Runnable /\ ~draining THEN 5 ELSE 0
BY DEF Place, Lane

LEMMA NextPlaceOfFree ==
    ASSUME NEW t \in Tasks, \A l \in Lane : ~WorksOn(l, t)'
    PROVE  Place(t)' = IF task'[t].state \in Runnable /\ ~draining' THEN 5 ELSE 0
BY DEF Place, Lane, WorksOn

\* A task on which the lane that moves works neither before nor after.
LEMMA StaysUnmoved ==
    ASSUME NEW t \in Tasks, NEW l \in Lane, task'[t] = task[t], UNCHANGED draining,
           ~WorksOn(l, t), ~WorksOn(l, t)',
           \A k \in Lane \ {l} : pc'[k] = pc[k] /\ cur'[k] = cur[k]
    PROVE  Unmoved(t)
BY DEF Unmoved, Place, WorksOn, Lane

\* Counting the steps that are open.
LEMMA OpenCounts ==
    ASSUME NEW r, NEW q, Open(q) \subseteq Open(r)
    PROVE  /\ Cardinality(Open(r)) \in 0 .. NSteps /\ Cardinality(Open(q)) \in 0 .. NSteps
           /\ Open(q) = Open(r) => Cardinality(Open(q)) = Cardinality(Open(r))
           /\ Open(q) # Open(r) => Cardinality(Open(q)) < Cardinality(Open(r))
<1>1. NSteps \in Nat /\ IsFiniteSet(Steps) /\ Cardinality(Steps) = NSteps
  BY FS_Interval, StoreAssumption DEF Steps
<1>2. ASSUME NEW x
      PROVE  /\ IsFiniteSet(Open(x)) /\ Cardinality(Open(x)) \in Nat
             /\ Cardinality(Open(x)) <= NSteps
  <2>1. Open(x) \in SUBSET Steps
    BY DEF Open
  <2> QED
    BY <1>1, <2>1, FS_Subset, FS_CardinalityType
<1>3. /\ Cardinality(Open(q)) <= Cardinality(Open(r))
      /\ Cardinality(Open(r)) = Cardinality(Open(q)) => Open(r) = Open(q)
  BY <1>2, FS_Subset
<1> QED
  BY <1>1, <1>2, <1>3

\* What a lane that works on a task leaves open, if no retry is used up.
LEMMA OpenShrinks ==
    ASSUME Inv, InStepInv, NEW l \in Lane, WorkStep(l),
           task'[cur[l]].retries = task[cur[l]].retries
    PROVE  /\ Open(task'[cur[l]]) \subseteq Open(task[cur[l]])
           /\ pc[l] = "step" /\ task'[cur[l]].steps = Marked(task[cur[l]], "DONE").steps =>
                Open(task'[cur[l]]) # Open(task[cur[l]])
<1> DEFINE r == task[cur[l]]
           q == task'[cur[l]]
<1>1. cur[l] \in Tasks /\ r \in Row /\ Effect(l)
  BY Holds, WorkEffect DEF Inv
<1>2. r.retries \in Nat
  BY <1>1 DEF Row
<1>3. Open(q) \subseteq Open(r)
  <2>1. CASE q.steps = r.steps
    BY <2>1 DEF Open
  <2>2. CASE \E status \in {"PENDING", "FAILED", "DONE"} : q.steps = Marked(r, status).steps
    BY <1>1, <2>2 DEF Open, Marked, Row
  <2>3. CASE \E s \in Open(r) : q.steps = Started(r, s).steps
    BY <1>1, <2>3 DEF Open, Started, Row
  <2> QED
    BY <1>1, <1>2, <2>1, <2>2, <2>3 DEF Effect
<1>4. ASSUME pc[l] = "step", q.steps = Marked(r, "DONE").steps
      PROVE  Open(q) # Open(r)
  <2>1. PICK s \in Steps : r.steps[s] = "CURRENT"
    BY <1>4 DEF InStepInv, InStep
  <2>2. s \in Open(r) /\ s \notin Open(q)
    BY <1>1, <1>4, <2>1 DEF Open, Marked, Row
  <2> QED
    BY <2>2
<1> QED
  BY <1>3, <1>4

LEMMA WorkNearer ==
    ASSUME Inv, Inv', InStepInv, NEW l \in Lane, WorkStep(l), NEW t \in Tasks, cur[l] = t
    PROVE  /\ pc[l] # "tell"
           /\ Nearer(t) /\ \A u \in Tasks \ {t} : Unmoved(u)
<1>1. /\ task \in [Tasks -> Row] /\ pc \in [Lane -> PC]
      /\ cur \in [Lane -> Tasks \cup {NoTask}]
  BY Holds DEF Inv, TypeOK
<1>2. PICK r \in Row, p \in PC : LaneMove(l, r, p)
  BY WorkStepMoves, StoreAssumption DEF Inv, Moves
<1>3. Effect(l) /\ Onward(l) /\ UNCHANGED draining /\ pc[l] \in Working
  BY WorkEffect, WorkOnward
     DEF Inv, WorkStep, Plan, StartStep, Finish, StepDone, StepHalts, Halted,
     StepError, StepRefused, Refuse, StepNeedsDesktop, StepAsks, Park, VerifyPasses,
     VerifyBlocked, VerifyNeedsWork, VerifyError, procVars, Working
<1>4. /\ \A u \in Tasks : u # t => task'[u] = task[u]
      /\ \A k \in Lane : k # l => pc'[k] = pc[k] /\ cur'[k] = cur[k]
      /\ pc'[l] # "idle" => cur'[l] = t
      /\ cur'[l] \in {t, NoTask}
  BY <1>1, <1>2 DEF LaneMove
<1>5. WorksOn(l, t) /\ \A k \in Lane \ {l} : ~WorksOn(k, t)
  BY <1>1, <1>3 DEF Inv, OneWorkerPerTask, WorksOn
<1>6. ASSUME NEW u \in Tasks \ {t} PROVE Unmoved(u)
  <2>1. ~WorksOn(l, u) /\ ~WorksOn(l, u)'
    BY <1>4, EngineAssumption DEF WorksOn
  <2> QED
    BY <1>3, <1>4, <2>1, StaysUnmoved
<1>7. Place(t) = At(pc[l]) /\ At(pc[l]) \in 1 .. 4
  BY <1>1, <1>5, PlaceOfWorker, AtNumber DEF Inv
<1>8. ASSUME pc'[l] \notin Working, task'[t].state \in Runnable => draining
      PROVE  Place(t)' = 0
  <2>1. \A k \in Lane : ~WorksOn(k, t)'
    BY <1>4, <1>5, <1>8 DEF WorksOn
  <2> QED
    BY <1>1, <1>3, <1>8, <2>1, NextPlaceOfFree
<1>9. ASSUME pc'[l] \in Working
      PROVE  Place(t)' = At(pc'[l]) /\ At(pc'[l]) \in 1 .. 4
  <2>1. WorksOn(l, t)'
    BY <1>4, <1>9 DEF WorksOn, Working, Stopping
  <2> QED
    BY <1>1, <2>1, NextPlaceOfWorker, AtNumber DEF Inv
<1>10. CASE task'[t].retries = task[t].retries + 1
  BY <1>1, <1>3, <1>6, <1>10 DEF Nearer, Working, Stopping
<1>11. CASE task'[t].retries = task[t].retries
  <2>1. Open(task'[t]) \subseteq Open(task[t])
    BY <1>11, OpenShrinks
  <2>2. CASE Open(task'[t]) # Open(task[t])
    <3>1. OpenSteps(t)' < OpenSteps(t)
      BY <2>1, <2>2, OpenCounts DEF OpenSteps
    <3> QED
      BY <1>1, <1>3, <1>6, <1>11, <3>1 DEF Nearer, Working, Stopping
  <2>3. CASE Open(task'[t]) = Open(task[t])
    <3>1. OpenSteps(t)' = OpenSteps(t)
      BY <2>3 DEF OpenSteps
    <3>2. ~(pc[l] = "step" /\ task'[t].steps = Marked(task[t], "DONE").steps)
      BY <1>11, <2>3, OpenShrinks
    <3>3. task[t].retries \in Nat
      BY <1>1 DEF Row
    <3>4. \/ pc'[l] \notin Working /\ (task'[t].state \in Runnable => draining)
          \/ pc'[l] \in Working /\ At(pc'[l]) < At(pc[l])
      BY <1>3, <1>11, <3>2, <3>3 DEF Onward
    <3>5. Place(t)' < Place(t)
      BY <1>7, <1>8, <1>9, <3>4
    <3> QED
      BY <1>1, <1>3, <1>6, <1>11, <3>1, <3>5 DEF Nearer, Working, Stopping
  <2> QED
    BY <2>2, <2>3
<1> QED
  BY <1>3, <1>10, <1>11 DEF Effect

LEMMA ClaimNearer ==
    ASSUME Inv, Inv', NEW l \in Lane, Claim(l)
    PROVE  \E t \in Tasks : Nearer(t) /\ \A u \in Tasks \ {t} : Unmoved(u)
<1>1. PICK t \in Tasks : \E p \in {"plan", "checkpoint", "finish"} : \E r :
         /\ NextRunnable(l = "fast", t)
         /\ cur' = [cur EXCEPT ![l] = t]
         /\ pc' = [pc EXCEPT ![l] = p]
         /\ task' = [task EXCEPT ![t] = r]
  BY DEF Claim, Ahead
<1>2. /\ task[t].state \in Runnable /\ ~draining /\ UNCHANGED draining /\ pc[l] = "idle"
      /\ l = "fast" => task[t].state = "RECEIVED"
  BY <1>1 DEF Claim, NextRunnable, Eligible, procVars
<1>3. /\ \A u \in Tasks : u # t => task'[u] = task[u]
      /\ \A k \in Lane : k # l => pc'[k] = pc[k] /\ cur'[k] = cur[k]
      /\ cur'[l] = t /\ pc'[l] \in {"plan", "checkpoint", "finish"}
  BY <1>1 DEF Inv, TypeOK
<1>4. \A k \in Lane : ~WorksOn(k, t)
  <2> SUFFICES ASSUME NEW k \in Lane, pc[k] \in Working, cur[k] = t
               PROVE  FALSE
    BY DEF WorksOn
  <2>1. task[t].state \in StatesAt(k, pc[k])
    BY HeldRow DEF Inv
  <2>2. task[t].state = "RETRYING"
    BY <1>2, <2>1 DEF StatesAt, Runnable, Lane
  <2>3. k = "main" /\ l = "fast"
    BY <1>2, <2>1, <2>2 DEF StatesAt, Lane, Working, Stopping
  <2> QED
    BY <1>2, <2>2, <2>3
<1>5. Place(t) = 5
  BY <1>2, <1>4, PlaceOfFree
<1>6. Place(t)' = At(pc'[l]) /\ At(pc'[l]) \in 1 .. 4
  <2>1. WorksOn(l, t)'
    BY <1>3 DEF WorksOn, Working
  <2> QED
    BY <2>1, NextPlaceOfWorker, AtNumber DEF Inv
<1>7. task'[t].steps = task[t].steps /\ task'[t].retries = task[t].retries
  BY RestApart DEF Apart
<1>8. OpenSteps(t)' = OpenSteps(t)
  BY <1>7 DEF OpenSteps, Open
<1>9. ASSUME NEW u \in Tasks \ {t} PROVE Unmoved(u)
  <2>1. ~WorksOn(l, u) /\ ~WorksOn(l, u)'
    BY <1>2, <1>3 DEF WorksOn, Working, Stopping
  <2> QED
    BY <1>2, <1>3, <2>1, StaysUnmoved
<1> QED
  BY <1>5, <1>6, <1>7, <1>8, <1>9 DEF Nearer

LEMMA ToldRests ==
    ASSUME Inv, NEW l \in Lane, Told(l)
    PROVE  pc'[l] = "idle" /\ \A t \in Tasks : Unmoved(t)
<1>1. /\ pc[l] = "tell" /\ pc'[l] = "idle" /\ task' = task /\ UNCHANGED draining
      /\ \A k \in Lane : k # l => pc'[k] = pc[k] /\ cur'[k] = cur[k]
  BY DEF Told, storeVars, procVars, Inv, TypeOK
<1>2. ASSUME NEW t \in Tasks PROVE Unmoved(t)
  <2>1. ~WorksOn(l, t) /\ ~WorksOn(l, t)'
    BY <1>1 DEF WorksOn, Working, Stopping
  <2> QED
    BY <1>1, <2>1, StaysUnmoved
<1> QED
  BY <1>1, <1>2

\* A lane cannot keep itself busy: each of its steps brings one task nearer to its rest, by a
\* retry (at most MaxRetries), an open step less or a place further in its segment, and touches
\* no other; sending a message ends in the idle lane.  Only somebody else (the owner, a
\* decision, the watcher, a restart) gives it more to do.
THEOREM SpecLanesRunDown ==
    Spec => [][\A l \in Lane : LaneStep(l) =>
                 IF pc[l] = "tell" THEN pc'[l] = "idle" /\ \A t \in Tasks : Unmoved(t)
                 ELSE \E t \in Tasks : Nearer(t) /\ \A u \in Tasks \ {t} : Unmoved(u)]_vars
<1>1. ASSUME Inv, Inv', InStepInv, NEW l \in Lane, LaneStep(l)
      PROVE  IF pc[l] = "tell" THEN pc'[l] = "idle" /\ \A t \in Tasks : Unmoved(t)
             ELSE \E t \in Tasks : Nearer(t) /\ \A u \in Tasks \ {t} : Unmoved(u)
  <2>1. CASE Claim(l)
    BY <1>1, <2>1, ClaimNearer DEF Claim
  <2>2. CASE Told(l)
    BY <1>1, <2>2, ToldRests DEF Told
  <2>3. CASE WorkStep(l)
    <3>1. cur[l] \in Tasks
      BY <1>1, <2>3, Holds DEF Inv
    <3> QED
      BY <1>1, <2>3, <3>1, WorkNearer
  <2> QED
    BY <1>1, <2>1, <2>2, <2>3 DEF LaneStep, WorkStep
<1>2. Inv /\ Inv' /\ InStepInv =>
        [\A l \in Lane : LaneStep(l) =>
           IF pc[l] = "tell" THEN pc'[l] = "idle" /\ \A t \in Tasks : Unmoved(t)
           ELSE \E t \in Tasks : Nearer(t) /\ \A u \in Tasks \ {t} : Unmoved(u)]_vars
  BY <1>1
<1> QED
  BY <1>2, SpecInStep, PTL DEF Spec
=============================================================================
