# Nova: TLA+ models of the core service

Nova is a personal agent for a Windows PC that is commanded from Telegram (and a
dashboard, WhatsApp and voice).  One Python process, the *core service*, owns a
SQLite database and runs everything that decides: the task engine with its two
dispatcher lanes, the approval engine, the scheduler, the skill gate.  Desktop and
browser *workers* and the privileged *broker* are processes of their own that the
core calls; a *supervisor* starts the core and the workers again when they die and
applies updates.

This directory holds TLA+ modules of the parts that must not go wrong (which task
runs, what it may do, that it does it once; what reaches the owner and the PC; how
the program replaces itself), the TLC configurations that check them on small
instances, and theorems checked by TLAPS for every value of the constants.  `PROJECT.json` maps each definition to the lines it models.

Contents: [1 The system](#1-the-system) · [2 The modules](#2-the-modules) ·
[3 What an action is](#3-what-an-action-is) · [4 The runs](#4-the-runs) ·
[5 Fairness](#5-fairness) · [6 What is proved](#6-what-is-proved) ·
[7 What the code does not keep](#7-what-the-code-does-not-keep) ·
[8 What is left out](#8-what-is-left-out) · [9 Plan](#9-plan)

## 1 The system

### Components that are modelled

**Task state machine and store** (`core/queue/states.py`, `core/queue/store.py`).
State: the rows of `tasks` (state, retry counter, `cancel_requested`,
`pause_requested`, steps with their status, error code) and the persisted "queue
paused" setting.  Operations: create, transition (refused when the table forbids
it), the step operations, request_cancel, pause_queue, resume_queue,
next_runnable, recover_after_restart.  Correct when a terminal row never changes,
a finished step survives everything but a verification that asks for it again, and
the retry counter stays within its limit.

**Task engine** (`core/queue/engine.py`, `core/queue/desktop_watch.py`, the queue
commands of `core/orchestrator/task_commands.py`, process exit and start in
`core/service.py`).  State: per lane the coroutine and its task; `draining`; the
watcher's list.  It claims a task, plans it, runs step after step with a checkpoint
before each, verifies, and ends, retries or parks it (for an approval, for the
desktop, for /resume).  Hard: two lanes on one table; owner commands, decisions,
the watcher, a graceful shutdown and a crash between any two awaits; requests that
are flags read later.  Correct when each ACTIVE row has exactly one coroutine, no
row is left behind, nobody moves a row under a coroutine, requests stop the steps,
and an undisturbed engine gets every task to an end or a wait.

**Approval engine and lockdown** (`core/permissions/approvals.py`,
`core/permissions/engine.py`, `TaskContext.require`,
`core/orchestrator/security_commands.py`, the expiry sweeper of the service).
State: the rows of `approvals`, each bound to a task and an action fingerprint, with
an expiry; the persisted lockdown setting; the sweeper's list.  It interacts with
the engine both ways: a step parks its task by asking, a decision releases or ends
it.  Hard: the decision races the parking, the expiry and the lockdown; a step runs
again from its start after a crash and finds its old requests.  Correct when an
approval lets at most one effect of its own task through, decisions stand, the owner
is not asked twice, lockdown stops RED actions, and every request ends.

**Skill calls and the side-effect ledger** (`core/skills/runner.py`,
`core/skills/ledger.py`, `core/skills/desktop.py`).  State: the rows of
`side_effects` per task and action; the tool each lane awaits; outside the program,
the effects that have not landed yet.  Hard: the effect is in another process and may
land after the caller's timeout or after the core crashed, while the step is tried
again; and a tool that timed out or lost its connection says that it failed, like one
that did nothing, so that the entry becomes FAILED and may be tried again.  Correct when
an effect happens at most once unless its tool belied it in this way, the ledger otherwise
always knows what happened or may happen, and a RED effect was paid for with an approval.

**Scheduler** (`core/scheduler/runner.py`, `core/scheduler/store.py`,
`core/orchestrator/schedule_commands.py`, `schedule_route.py`).  State: the rows of
`schedules` (kind, enabled, next run), the list of the current tick.  One coroutine
reads the due jobs, takes them one after another with a message awaited for each, then
looks at the conditions.  Hard: the list is stale after the first await; the run is
recorded after the message; crashes, store errors, edits of the file, cancels come in
between.  Correct when an occurrence starts once, none passes silently, a job that
was cancelled stays out, and a ready job does not starve.

**Provider router and circuit breaker** (`models/router/router.py`, `circuit.py`,
`health.py`).  State: per provider a breaker in memory and its row in
`provider_state`, the last health check; per request the list of candidates it still
has, its retries, and the await it is in.  Several callers (the lanes, the intent
router, voice) share the breakers.  Hard: a request acts on what it saw before its
health check or its call, while the answer of another opens or closes the circuit; a
restart reads the rows back, which are saved best effort and may be behind.  Correct when
an open circuit gets no new work, a provider whose cooldown is over is probed first, a
cooldown is cut short only by a request that was under way or by a restart after the
database failed, and a provider that works again gets its work back.

**Supervisor and self-update** (`core/supervisor/supervisor.py`, `updater.py`,
`core/orchestrator/self_update.py`, `core/lifecycle.py`, `core/service.py`).  State:
the request, the result and the health file; the checkout, the packages, the
database; the core process and the supervisor's place in `apply_update` or
`rollback`.  They interact by the three files and an exit code.  Hard: the power
fails between any two steps, core leaves for another reason while a new version is
proved, two tasks share one request and one result file, a rollback fails in a part.
Correct when an approval is applied at most once, nothing is replaced under a running
core, a rollback that calls itself complete is, and what was reported as updated stays.

**Telegram intake and live message** (`channels/telegram/channel.py`, `handle` in
`core/service.py`, `core/notify/notifier.py`).  State: the polling offset and batch,
the rows of the messages, Telegram's own queue; the live message, the folded text and
the job that sends it.  Hard: the offset goes up before an update is handled, errors
and crashes cut a batch short, a delayed edit races a direct one.  Correct when every
update arrives, once, unless a crash cut its handling short, and the chat ends with the
newest text or with one that was folded or under way when the newest went out.

**Computer use and the desktop worker's input** (`core/orchestrator/computer.py`,
`workers/desktop-worker/desktop_guard.py`, `desktop_lock.py`, `desktop_act.py`).
State: the loop's place, its counters, the history in memory and the part remembered
with the step; in the worker the guard (the owner's input, the halt after Escape) and
the calls that wait for the one input lease.  Hard: the worker goes on after the core
has stopped waiting, the owner types or presses Escape in between, the window changes,
the attempt is repeated from what was remembered.  Correct when a typed text, or a control
whose clicks are counted, gets no more input than was asked for, a halt holds, and every
attempt ends.

### Components that are not modelled

| component | state | why not |
|---|---|---|
| Broker (`core/broker`) | request files, its own lockdown | next in the plan |
| IPC and worker monitor (`core/ipc`) | tokens, health, restarts | `SkillCalls` and `ComputerUse` have the caller's side of a call (answer, refusal, a lost answer while the worker goes on); the monitor's rounds are in the plan |
| Task executor and routes (`core/orchestrator`, `core/planner`, ...) | in a step only | abstract in the engine (a step is done, asks, halts, fails, is refused or needs the desktop), except for the computer-use loop |
| Verifier (`core/verifier`) | none | its verdict is an input of the engine |
| Agents, memory and recipes, creative tools, application catalogue | rows or none | data, scores and texts |
| Voice, WhatsApp, dashboard | queues of audio; webhooks | intake ends in operations that are modelled |
| Configuration, database, logging; resources, priority, health | | schema, formatting, measurements |
| Skills, model providers, the other workers, installer, scripts | | I/O; a tool is the effect that `SkillCalls` lets land |

## 2 The modules

```
TaskStates <- TaskStore <- TaskEngine <- ApprovalGate <- SkillCalls        Scheduler
                                ^             ^              ^                 ^
CheckpointedJob <- TaskEngineJob              |              |                 |
                        ^                     |              |                 |
                TaskEngineProofs <- ApprovalGateProofs <- SkillCallsProofs  SchedulerProofs

CircuitBreaker <- ProviderRouter <- ProviderRouterProofs
UpdateTransaction, SelfUpdate <- SelfUpdateTransaction <- SelfUpdateProofs
TelegramIntake, LiveMessage <- TelegramChannel <- TelegramChannelProofs
DesktopInput <- ComputerUse <- ComputerUseProofs
```

The arrows read "is extended by" (`TaskEngineJob` extends `TaskEngine` and instantiates
`CheckpointedJob`; `SelfUpdateTransaction` extends `SelfUpdate` and instantiates
`UpdateTransaction`).  Each composed module conjoins the actions of the one it builds on with
its own part of the state.  In the first chain each is also shown to implement the one below:

`SkillCalls => ApprovalGate => TaskEngine => CheckpointedJob` and
`SelfUpdate => UpdateTransaction`

| module | models | state and correspondence |
|---|---|---|
| `TaskStates` | `core/queue/states.py` | the transition table and its state sets, complete |
| `TaskStore` | `core/queue/store.py` | `task[t]` is a row (`why` is its error code), `queuePaused` the setting; one operator per store operation |
| `TaskEngine` | `core/queue/engine.py`, the watcher, owner commands, exit and start | `pc[l]`, `cur[l]` say in which await the coroutine of lane `l` is and with which task; `up`, `draining`; `watching`, `watchList`.  One action per segment between two awaits: `Claim`, `Plan`, `StartStep`, ..., `Told` |
| `CheckpointedJob` | what the engine promises | a job is submitted, saves steps, may retry, and ends; nothing about lanes, parking or crashes |
| `TaskEngineJob` | the refinement mapping | status from the row's state, `saved` the number of DONE steps |
| `ApprovalGate` | approvals, permission levels, lockdown, sweeper | `rows` is the table; `fresh` the order in which the unexpired rows expire (a relation), so that the clock is `Tick` taking the first; `checking` the safety check a lane awaits; `sweep` what `expire_due` has still to look at; `spent` is history |
| `SkillCalls` | `SkillRunner.invoke` and the ledger | `ledger[t][f]`; `running[l]` the tool a lane awaits; `open` the PENDING attempts whose effect may still land, `stray` those that the ledger calls FAILED; `happened` and `belied` (an attempt was called failed that had an effect or might have one) are history |
| `Scheduler` | the tick, the table, /schedules cancel, the fixed jobs | `job[j]` is a row, its next run reduced to future, due or late; `phase`, `todo`, `overdue`, `telling` are the local variables of the tick; `began`, `cut` are history |
| `CircuitBreaker` | `circuit.py` | `breaker[p]` is the object, `saved[p]` its row, which stays behind when the database fails; a moment matters only while it lies ahead, so `cooldown_until` is `cooled` and what is `left` |
| `ProviderRouter` | `complete`, `_attempt`, the health round | `call[c]` is a request: its await (`health`, `call`, `handoff`), the candidates it still has, its retries; `early` is history: the circuit opened while it was under way |
| `SelfUpdate` | /update, supervisor, updater, health file | `request`, `result`, `health` are the files; `code`, `deps`, `db` the checkout, the packages, the database; `sup` the step of the supervisor; `core` the process; `plan.found`, `spent` are history |
| `UpdateTransaction` | what /update promises | the commit that counts as installed, the attempt under way, the final answer; nothing about files, packages, databases, crashes or the steps of the supervisor |
| `SelfUpdateTransaction` | the refinement mapping | while an update is under way the commit it found counts as installed; a pending or unproved result is no answer |
| `TelegramIntake` | polling and `handle` | `poll` is the channel's loop, `confirmed` what Telegram has forgotten, `recorded` the rows; `times`, `cut`, `unsure` are history |
| `LiveMessage` | `_live_update`, `_flush_live`, `_send_live` | `folded` is the pending text, `job` the flush job, `flights` the calls to Telegram, `chat` what the owner sees; `late` is history: the texts that were folded or under way when the newest went out |
| `TelegramChannel` | one process with both | the first message starts the task that shows the texts; they die together |
| `DesktopInput` | guard, lease, act | `guard`, and `calls`, each asked, waiting for the lease, or answered; `pressed` is the PC's side; `missed` is history: presses the core's rules do not count |
| `ComputerUse` | `ComputerUseAgent.run` | `run` is the loop's place and its counters, `history` the list in memory, `saved` what is remembered with the step; `Limited` are the targets whose inputs the rules count |
| `MC*` | | constants and state constraints of the instances; `MCEscape` adds a history variable for one question |
| `*Proofs` | | theorems; see section 6 |

Operators whose comment says "Mutant of" are wrong versions of a definition, used to see
that each property really depends on the code: replacing the definition by its mutant
makes TLC report the property of the run.

## 3 What an action is

The core is one asyncio loop, and the store is synchronous: between two awaits nothing
else runs.  An action is therefore all that a coroutine does from one await to the next,
every store call included, and anything else may happen between two of them.

- Owner commands, decisions and dashboard calls are synchronous handlers: one action each.
  /lockdown (setting, pause, rejecting all pending requests) is one action.
- A checkpoint contains a `sleep(0)`, so the row is read *after* an await; the signal it
  finds is acted on at once, except in `interruptible`, where the awaited operation is
  cancelled first (`StepHalts`, then `Halted`).
- Every message to the owner is an await.  Where the code decides something before it and
  writes it after, there are two actions (`StepAsks`/`Park`, `Begun`/`Told`).
- Store calls that may raise do so where the code has a handler for it: in the scheduler
  (`TickFails`), in the channel (`Hiccup`), and in the rows of the breakers (`Note`, `NoRows`).
  Elsewhere the store does not raise.
- A crash (`Exit`) may happen at every await.  A crash *inside* a synchronous segment,
  between two of its transactions, is not modelled: for the code this matters between
  the commit of a decision and the release of its task, and between resetting the steps
  and counting the retry.  A transaction is atomic.
- `Start` is the supervisor starting the service again: `recover_after_restart` runs
  before the lanes.
- In `SelfUpdate` the power may fail between any two steps of the updater; a copy of the
  database and `uv sync` may be interrupted in the middle (`Unreadable`, `Torn`).  A file is
  written as a whole, because the code writes it beside and renames it.
- In `ComputerUse` the worker's thread and the core's coroutine are two processes: a call is
  asked, passes the guard, gets the lease, presses and answers while the core waits, has
  stopped waiting, or has crashed.

## 4 The runs

| run | instance | states | what it shows |
|---|---|---|---|
| `engine` | tasks {1, 2}, 2 is quick, 1 may return early; 2 steps; 1 retry; `FairSpec` | 526,896 | one worker per task; no task lost; finished steps survive; only its lane fails a task, and for a cause; a cancel is not lost; the engine implements `CheckpointedJob`; an undisturbed engine makes progress; a paused queue comes to rest |
| `gate` | 1 task, 1 RED and 1 YELLOW action, 2 requests, 1 retry; `FairGateSpec` | 261,472 | single use; no duplicate request; decisions stand; lockdown stops RED; the gate implements the engine; requests end |
| `gate_stranded` | 1 task, 2 requests | | *violated*: `NoStrandedWait` |
| `scheduler` | a fixed job, an owner's job of any kind, a condition job; 1 store error; `FairSpec` | 322,846 | started once; disabled stays out; nothing skipped; ready jobs are handled |
| `skills` | 1 task, a RED (push), a YELLOW (commit) and a BLUE (close) action, 2 requests, 1 retry | 590,426 | effects happen once unless their tool belied them; RED attempts are paid for; the calls implement the gate |
| `skills_twice` | the same | | *violated*: `EffectAtMostOnce` |
| `router` | 2 callers, the local model and a cloud provider; `FairRouterSpec` | 361,656 | an open circuit takes only early calls; probed before work; cooldowns kept; back in the pool |
| `update` | 2 tasks, 2 commits; `FairUpdateSpec` | 907,501 | one attempt per approval; updated stays installed; nothing replaced under core; a complete rollback is one; the updater implements `UpdateTransaction`; what orphans a task; a report stands; an update is reported |
| `update_safe_mode` | the same | | *violated*: `UpdatedHasDatabase` |
| `telegram` | 3 updates, 3 texts; `FairChannelSpec` | 411,906 | messages arrive once; the chat ends with the newest text or with one that raced it; every message arrives |
| `computer` | a typed text and a control that is not counted; `FairComputerSpec` | 334,586 | pressed as asked; a halt holds; an attempt ends |
| `computer_escape` | the same | | *violated*: `EscapeStopsTheRun` |

Bounds, and why they are enough to make the interesting cases happen:

- *Tasks.*  The lanes interfere through one quick task that both may see; a second task
  gives the main lane something else to do and the queries an order.  What the handlers
  do to one row does not depend on another row, except for the order of the dispatcher.
- *Steps.*  Two: one finished step to lose and one to be in.  In the runs above the engine, where
  finished steps are not the question, one.
- *Retries* (`MaxRetries`).  One: a retry that is allowed and one that is not.
- *Requests* (`NRows`).  Two: an old and a new one.  `NewRequest` is the only action the
  bound can stop.  An approval of one task and a request of another for the very same
  action are covered by the theorem `GateSpecUsedByItsTaskOnly`.
- *Store errors* (`MaxFaults`).  One: the tick fails once and must go on.
- *History.*  `began`, `happened` and `stray` count up to 2, which means "more than once".
- *Router.*  Two callers: one is under way while the other opens or closes the circuit.  A
  `Threshold` of 2 tells a counted failure from an opening one; the provider may name a
  wait of 2 where the backoff is 1, so that a cooldown can be overwritten by a shorter one;
  one retry of a timeout, none of a server error.
- *Update.*  Two tasks, because they share the files; two commits, the second with a new
  schema, so that a rollback may or may not have to restore the database; core leaves on
  its own once, the power fails once, at any step.
- *Telegram.*  Three updates make a batch with a rest; one is a tap, which leaves no row;
  one crash, one failed call of the intake, one refused edit; the third text can overtake
  a second that was folded behind a first.
- *Computer.*  A text that may be typed once, and a control that may be clicked freely and
  still moves the windows and fills the history; two attempts of two rounds; one
  remembered entry, so that an older one is forgotten; one wait for the owner, one repeat
  of a stale list.
- *Constraints.*  `WatchedIsCondition` (`scheduler`) fixes the kind of the third job: a
  job's kind never changes, so that whole behaviours are removed and the liveness property is
  not weakened.  `CallsOnly` (`skills`) leaves out what `gate` explores (a graceful shutdown, a
  pause other than that of a lockdown) and lets the task try one action with two requests or
  two actions with one, one action once a tool belied its effect, and nothing after a second
  effect; that run has no liveness property.  `FewRowsBehind` (`router`) lets only the cloud
  provider's row be behind, and then the row or the breaker is blank: a cooldown that was not
  written, or one that is over and still in the row.  A row is read by a restart only, which
  `BackInThePool` assumes to come to an end, so that saving or losing rows after the last one
  makes no difference to it; the safety properties are proved without the bound.

Deadlock is checked in every run but those of `SelfUpdate`, `TelegramChannel` and
`ComputerUse`: there the system really may stop, when the owner asks for no more updates,
sends no more messages or wants nothing more done and the bounded events are used up.

## 5 Fairness

- `TaskEngine!FairSpec`: weak fairness of each lane, because the loop resumes a
  coroutine whose await completed, and step functions, verifiers and messages have timeouts;
  of `draining /\ Exit`, because a shutdown is cut short after the graceful timeout; of
  `Start`, because the supervisor starts a dead core again.  There is none for the owner,
  the decisions and the watcher: nothing makes a person press a button or a PC unlock.
  `EngineProgress` therefore asks for an end *or a wait*, and assumes that the queue is open
  and the engine `Undisturbed`: only lanes take steps, and a dead process is started.
- `ApprovalGate!FairGateSpec`: time passes (`Tick`), and the sweeper's loop calls
  `expire_due` every few seconds (`ExpireDue`, `SweepOn`).
- `Scheduler!FairSpec`: the loop ticks every few seconds (`TickBegins`), and a message ends
  within the channel's timeouts (`Told`).  Conditions may flicker, clocks may run: what
  `ReadyIsHandled` says is that no job stays ready for ever.
- `ProviderRouter!FairRouterSpec`: time passes (`Tick`), and each caller goes on (`Caller`),
  because a health check, a call and a handoff all have timeouts.  `BackInThePool` assumes
  what no scheduler gives: that the provider is asked for again and again and fails no more.
- `SelfUpdate!FairUpdateSpec`: the supervisor's loop, a core that was started coming up, and
  the lane that runs an update task (`Check`, `HandOver`, `Report`).  None for commits,
  approvals, exits and power.
- `TelegramChannel!FairChannelSpec`: the polling loop, and the timers and calls of the live
  message.  None for the owner's messages, crashes and failures, which are bounded.
- `ComputerUse!FairComputerSpec`: the loop (every call of it has a timeout) and the worker's
  threads.  None for the owner: `RunEnds` holds however the owner interferes.

## 6 What is proved

For every set of tasks (numbers), every number of steps, retries and requests, every set of
actions, jobs, providers, callers, commits, updates, texts and targets, and every bound on
crashes and faults, under the named assumptions of the modules (`StoreAssumption`,
`EngineAssumption`, `GateAssumption`, `BlueAssumption`, `SchedulerAssumption`,
`BreakerAssumption`, `RouterAssumption`, `UpdateAssumption`, `IntakeAssumption`,
`LiveAssumption`, `DesktopAssumption`, `ComputerAssumption`, `NotesAssumption`): types of the
constants, and that the "no task", "no action", "no job" values and the notes in a history
are not tasks, actions, jobs or targets.

| theorem | property |
|---|---|
| `TaskEngineProofs!SpecTypeOK`, `SpecLanesMatchRows`, `SpecOneWorkerPerTask`, `SpecNoTaskLost`, `SpecTerminalIsFinal` | the engine's main invariants, and that an ended task keeps its state and reason |
| `SpecFailsForCause`, `SpecCancelIsKept` | only the lane that works on a task fails it, and only for a listed cause; a cancel it was flagged with stays until it ends |
| `SpecCheckpointsSurvive` | a finished step is asked for again only by a verification that uses up a retry |
| `SpecCurrentStepIsExecuting`, `SpecCompletedMeansAllDone` | the steps' statuses tell the truth |
| `SpecImplementsJob` | the engine implements `CheckpointedJob` |
| `SpecLanesRunDown` | a lane cannot keep itself busy |
| `ApprovalGateProofs!GateSpecImplementsEngine` | the composition implements `TaskEngine`, so it inherits every safety property proved of it (`GateSpecNoTaskLost`) |
| `GateSpecTypeOK`, `GateSpecNoDuplicateAsk`, `GateSpecSingleUse`, `GateSpecDecisionsStand`, `GateSpecUsedByItsTaskOnly`, `GateSpecLockdownStopsRed` | the safety of approvals |
| `SkillCallsProofs!SkillSpecImplementsGate` | skill calls implement `ApprovalGate` |
| `SkillSpecTypeOK`, `SkillSpecEffectOnce`, `SkillSpecLedgerKnows`, `SkillSpecUsedIsAttempted`, `SkillSpecAttemptsArePaid` | the safety of side effects |
| `SchedulerProofs!SpecTypeOK`, `SpecStartedOnce`, `SpecDisabledStaysOut`, `SpecNothingSkipped` | the safety of the scheduler |
| `SchedulerProofs!SpecTickRunsDown` | a tick cannot go round for ever |
| `ProviderRouterProofs!RouterSpecTypeOK`, `RouterSpecTripsMatchCooldown`, `RouterSpecLocalStaysLocal`, `RouterSpecOpenTakesOnlyEarlyCalls`, `RouterSpecProbedBeforeWork`, `RouterSpecProbeIsDecisive`, `RouterSpecCooldownKept` | the safety of the router |
| `RouterSpecWithinRetries`, `RouterSpecFailoverRunsDown` | retries are bounded, and a failover cannot go round for ever |
| `SelfUpdateProofs!UpdateSpecTypeOK`, `UpdateSpecOneAttempt`, `UpdateSpecNothingReplaced`, `UpdateSpecRolledBackIsComplete`, `UpdateSpecReportStands`, `UpdateSpecOrphanedForCause` | the safety of an update and its rollback |
| `UpdateSpecStaysInstalled` | what a task was told to be installed stays installed, over later updates, rollbacks and power failures |
| `UpdateSpecImplementsTransaction` | the updater implements `UpdateTransaction` |
| `UpdateSpecAttemptRunsDown` | an attempt to update cannot go round for ever |
| `TelegramChannelProofs!ChannelSpecTypeOK`, `ChannelSpecMessagesArriveOnce`, `ChannelSpecNewestUnlessLate` | the safety of the channel |
| `ChannelSpecIntakeRunsDown` | the intake cannot go round for ever |
| `ComputerUseProofs!ComputerSpecTypeOK`, `ComputerSpecPressedAsAsked`, `ComputerSpecHaltHolds` | the safety of computer use |
| `ComputerSpecAnswerOwed`, `ComputerSpecLoopRunsDown` | the loop never waits for nothing, and cannot go round for ever |

**TaskEngine.**  `Inv` is `TypeOK`, `LanesMatchRows`, `OneWorkerPerTask`, `NoTaskLost`,
`WatchedAreParked` (a task in the watcher's list is still parked or was cancelled) and
`DownMeansIdle` (a dead process has no coroutines).  None of the properties is inductive
alone.  `LanesMatchRows` needs `OneWorkerPerTask`, for otherwise the other lane could move
the row; `OneWorkerPerTask` needs `LanesMatchRows`, because a claim is kept away from a task
in work only by its state; the one state both leave open is a RETRYING task that the main
lane has claimed and not planned yet, and there the fast lane's query (RECEIVED only) is what
keeps it out.  `NoTaskLost` needs both, and `DownMeansIdle` for the restart.
`TerminalIsFinal` follows from `LanesMatchRows`: a lane moves only rows that have not ended,
and everybody else goes through a guard; the one case in which a lane holds an ended task
(cancelled before its plan) is refused by the transition table.  No run checks
`TerminalIsFinal`, `LedgerKnows` or the `TypeOK` of `Scheduler`: they are only proved.

`FailsForCause` and `CancelIsKept` come from one account of a lane's segment (`Fate`): the row
keeps its flags, and it fails only for a `Cause`.  That needs what happens when a transition is
refused, because the dispatcher then fails the task if it can (`EngineError`).  `RefusedFate`
shows that with `LanesMatchRows` this happens at one place only: a shutdown is seen by the
checkpoint before the plan of a RETRYING task (section 7).  Everybody else leaves states and
flags alone or moves a row that is parked (`Untouched`, `RowsKeepRequests`).

The steps are a second layer over `Inv`.  `Effect` says for each segment of a lane what it
does to the steps, the retries and the job's status of its own row, `Apart` that everybody
else leaves these alone; `CheckpointsSurvive` follows from the two.
`StepsInv` adds that a row has at most one CURRENT step, that its lane is inside a step, and
that a row which reached the finish has no step left (or returned early, which only the tasks
in `Short` may).  For the refinement every action is shown to be one step of one job or a
stutter; `saved` is a cardinality, so that the proof counts the DONE steps before and after
(`DoneCounts`, from the theorems on finite sets), and the action of `CheckpointedJob` that
saves a step needs `StepsInv`: the step that is finished was not done before.

**ApprovalGate.**  Each action is first shown to be a step of `TaskEngine` or to leave its
variables alone, which gives the refinement and carries `Inv` over.  `GateInv` adds
`RowsTyped`, `RowsOwned` (a row that is not free names the task that made it),
`SingleUse` and `CheckingInStep` (a safety check is awaited inside a step).  The action
properties rest on two lemmas: `RowFate`, which lists for each action what becomes of a row,
and `UseNeedsStep`, which says that an approval is only ever used by a lane inside a step and
outside a lockdown if the action is RED.  `NoDuplicateAsk` rests on a third, `AskedFate`: a row
that is live after a step was live before it, with the same task and action, or is the request
that step stored, and a request is stored only where no live one was found.

**SkillCalls.**  `SkillInv` is `GateInv` with `Held` (a lane that runs a tool is inside its
step, awaits no check and has a PENDING entry; one that awaits a check has an entry that may
run) and, per task and action, `TallyOK`: an open attempt is PENDING; and unless its tool
belied it, one that had its effect is PENDING or DONE and no longer open, none that is called
FAILED may still land, and there is at most one effect.  `EffectOnce` alone is not inductive:
what prevents a second effect is that an attempt in doubt is still PENDING in the ledger when
it could be repeated.  An attempt whose tool calls it failed is FAILED, in doubt or not; the
theorems exempt it by name, and `skills_twice` shows what it leads to.  `UsedIsAttempted` is
inductive over the same invariant.

**Scheduler.**  `Inv` is `TypeOK`, `RowsOK`, `StartedOnce`, `Tracked` (a start is neither
recorded nor cut short only while its message is awaited), `Resting` (an idle or dead
scheduler awaits no message) and `Exist` (the tick holds only rows that exist).  `StartedOnce`
needs `Tracked` and `RowsOK` because the history counter is reset by the record that comes a
message later.

**ProviderRouter.**  An open circuit meets a request in two ways: the request is let past the
breaker, which does not happen while the circuit is open (`Proceed`), or the circuit opens
under it, and then it is marked early (`CallFails`).  So `OpenTakesOnlyEarlyCalls` is
inductive with the types: a restart may open a circuit, from a row that is behind, but it ends
all requests.  `TripsMatchCooldown` is said of the rows too, because a restart turns any of
them into a breaker.  The action properties follow from `FailureOpensOrCounts`, which says what one
failure may make of a breaker, and a lemma per await.

**SelfUpdate.**  `NothingReplacedUnderCore` rests on `CoreStopped`: where the supervisor works
on the checkout, core is off.  `OneAttemptPerApproval` rests on `NotMergedYet`: a request
that lies there, or was taken and not applied, has not been merged; that a task does not
hand over again is in its row, which a rollback may restore, and so `CoreKnows` (the tasks run on the
schema of the code that was loaded) is needed too.  `RolledBackIsComplete` rests on
`KeepsFound`, which says of each step of the update and of the rollback what of code, packages
and schema is still, or again, what the update found.  `OrphanedForCause` needs
`KeptOrCancelled` besides: a task that had handed over when the backup was taken has not moved
since unless it was cancelled, and while an update is proving itself the result on disk is its
own and open; so only those who write over the files, or put the database back, can part a
task from its answer.  `ReportStands` needs `BackupHasReports`: a row that names an outcome is at
its end, and since the backup of an update none has come to name one (its own task waits for
the result, and core is off before the database is put back), so that what the rollback
restores has every report.

`UpdatedStaysInstalled` is about a row that says "updated" and a checkout that later updates and
rollbacks move.  `Installed` compares both with `Base`, the commit no rollback gets behind (where
the checkout is, or where the update found it): what a row, the backup or the result calls
installed is not beyond it.  It holds because a report takes its commits from the result and not
from the request of the task: with three tasks, a row that a rolled-back database restored may
find the result of an earlier request of the same task.  `UpdateSpecImplementsTransaction`
adds `OnEitherCommit` (an update under way is on the commit it found or on the one it goes to),
and then shows of each action that it is one step of `UpdateTransaction` or hidden by the mapping.

**TelegramChannel.**  Intake: `Accounted` says that every update before the next one (`Due`),
and every one with a row, has arrived, was cut short or is in hand; `Known` that one which
arrived has its row, or the database failed on it.  The one is what makes the offset safe, the
other what makes it safe to ignore a message that has a row.  Live message: `NewestIsKept` says that
as long as the newest text is folded, everything under way is older; once it is out, what is
under way or folded besides it is in `late`, the newest itself is under way or in the chat
unless one of `late` has replaced it; and if it edits a message that is no longer the live one,
that is what has happened.

**ComputerUse.**  `PressedAsAsked` is a balance: what a target received is in the history, or
missed, or in the answer that is about to be recorded, and the rules allow a press by the
history only.  It is said of the targets in `Limited`, whose inputs the rules count, and of no
other.  It needs facts about counting the entries of a sequence that is appended to and
cut to its last `Keep` entries, and that only one call has somebody waiting for it
(`OneCall`).  `HaltHolds` needs that a call that waits for the lease in a halt had passed
the guard before it (`WaitsEarly`).

**Running down.**  Six of the theorems are the part of the liveness properties that needs no
fairness: a measure that each step of a loop lowers, for any number of tasks, jobs, candidates,
updates and rounds, with what the others may do to it.  A task at rest gets more to do from the
owner, a decision, the watcher or a restart; a tick, a failover, an attempt to update and the
loop of computer use are set back by nobody, and the intake only by the end of the process.

- `SpecLanesRunDown` (`EngineProgress`, `PauseQuiesces`): a task's measure is its retries left,
  its steps not done, and its place between a claim and its rest.  Every step of a lane lowers
  that of one task and leaves the others' alone.  It needs `InStepInv`: a lane that stops for a
  shutdown does so only in one (otherwise the RETRYING task it leaves would be claimed again),
  and a lane in a step has that step CURRENT, so that finishing it leaves one less to do.
- `SpecTickRunsDown` (`ReadyIsHandled`): a tick awaits exactly one message, and its lists shrink,
  whatever becomes of the rows in them.
- `RouterSpecFailoverRunsDown` (`BackInThePool` needs requests that end): candidates left, the
  turn with the one at hand, and the retries used there, which `RouterSpecWithinRetries` bounds.
  Another request may open the circuit under this one, which gives it no more to do.
- `UpdateSpecAttemptRunsDown` (`UpdateIsReported`): the phases of an attempt, forward and through
  its rollback; it ends with a result that is no longer open.  Both health checks end whatever
  happens: what is not healthy at their deadline (core is off, is not up yet, or is up with
  another commit, because the reset failed) is a failure.
- `ChannelSpecIntakeRunsDown` (`EveryMessageArrives`): failures, the next update, and how near the
  channel is to taking it; a batch that is fetched again begins with what is due.
- `ComputerSpecLoopRunsDown` and `ComputerSpecAnswerOwed` (`RunEnds`): rounds, the place in the
  round and the waits for the owner; and a loop that waits for the worker has a call of its own
  attempt which the worker has heard, so that the wait is never for nothing.

What stays with TLC is that the steps are enabled and taken.

Only model-checked:

- all liveness under fairness (`EngineProgress`, `PauseQuiesces`, `RequestsEnd`,
  `ReadyIsHandled`, `BackInThePool`, `UpdateIsReported`, `EveryMessageArrives`, `RunEnds`),
  which is out of the prover's reach, as are ENABLED and induction over data (no module has a
  RECURSIVE operator).  Every invariant and action property that a passing run checks is also proved.

## 7 What the code does not keep

Four runs state what a message, comment or docstring of the code promises, and TLC finds a
behaviour that breaks it.

1. *A decision before the parking is without effect* (`gate_stranded`).  The request is stored
   and its message awaited before the task is parked; a button pressed in between decides the
   row, releases nothing, and the task then waits with no request left.
2. *An update without a database is "updated"* (`update_safe_mode`).  A failed migration puts
   core in safe mode; it writes its health file all the same, and that is all the supervisor
   waits for.
3. *An Escape may stop nothing* (`computer_escape`).  The halt lasts 15 seconds and is only seen
   by a call made in that time; the planner may think for longer, and then the loop goes on
   pressing.
4. *An effect may happen twice* (`skills_twice`).  A terminal or PowerShell command that outlasts
   its timeout, a git command that does, and a broker that does not answer in time all come back
   as a result that is not ok (`skills/terminal/tools/run.py:76-80`,
   `skills/powershell/tools/run.py:81-85`, `core/skills/gitops.py:54-58`,
   `core/broker/skill.py:20-21`).  `finish` marks the entry FAILED, which the next attempt may
   repeat, though the effect happened or is still to come.  `EffectOnce` says that this is the
   only way.

Seen while reading, in the models, but stated by no run:

- A cancel that arrives during the verification is lost: no checkpoint is left
  (`queue/store.py:200`).
- A shutdown fails a retried task whose plan was never made: the interruption asks for RETRYING
  -> RETRYING, which the table refuses (`queue/engine.py:393`; `docs/UPDATE.md:29-30` has such a
  task resume).  `FailsForCause` says that this is the only engine error.
- /pause does not flag a RETRYING task that is claimed but not planned (`queue/store.py:307`);
  it runs on in a paused queue until its next parking.
- /resume while a paused step is being cleaned up clears the flag, and the task then becomes
  PAUSED in an open queue (`queue/engine.py:201-205`, `queue/store.py:315`).
- The expiry of an old approval cancels a task that waits on a new request
  (`permissions/approvals.py:246`).
- Lockdown during the safety check of a YELLOW action does not stop that action
  (`queue/engine.py:161`); that is why `LockdownStopsRed` says RED.
- The dashboard's resume opens the queue under a lockdown, which /resume refuses
  (`dashboard/api.py:324`, `task_commands.py:127-128`).
- A job cancelled while the tick still has it in its list is started all the same
  (`scheduler/runner.py:92`); a recurring job cancelled during its message comes back
  (`scheduler/store.py:96`); a fixed job that was cancelled is enabled at every start
  (`scheduler/store.py:111`).
- A locked PC blocks the task it parks: the ledger entry stays PENDING when the desktop worker
  refuses the call, and the resumed task finds an attempt in doubt (`skills/runner.py:96`).
- A power failure after the request was removed (`supervisor/updater.py:230`) and before the
  result is written orphans its task: core finds it in its last step, hands over again and
  exits with 76 at every start, without backoff or alert, where `docs/UPDATE.md:49` promises a
  report.  `OrphanedForCause` says that this is the way it happens.
- An owner's restart, or the exit of a second update, while a new version is being proved rolls
  a good version back (`supervisor/supervisor.py:166`).  A rollback that restores the
  database repeats the work finished since; a power failure during that copy leaves one
  nobody can read.
- A press is not counted if the core crashed or stopped waiting before the answer (10 seconds),
  if it fell out of the remembered entries (`orchestrator/computer.py:684-686`), or if the
  point was found by vision or pressed in a batch, which bypass the rule
  (`computer.py:51`).  `PressedAsAsked` counts these in `missed`.
- The guard is asked before the wait for the input lease and not after it
  (`desktop_lock.py:21`), which is the exception in `HaltHolds`.
- A text that was folded or under way when a newer one went out may land after it and stay in
  the chat until the next (`notify/notifier.py:137` says that a stale text never stays for long);
  `NewestUnlessLate` says that nothing older comes back.
- A row of `provider_state` that could not be saved, or a database that cannot be read, lets a
  restart forget a cooldown or resume one that is over (`models/router/circuit.py:95,113`).
- The answer "already handled" is also given to a message whose handling a crash cut short after
  the row was written (`queue/store.py:340`).

## 8 What is left out

- *Texts, titles, payloads, results*: a step has a status, an action is a model value for its
  fingerprint.  That two actions have different fingerprints is assumed.
- *Time*: only what the code compares.  All approvals have the same timeout, so they expire in
  the order of their last stamp; a schedule is in the future, due, or late beyond the grace
  period; a cooldown is what is left of it; the halt is one tick.  The calendar arithmetic of
  `core/scheduler/parse.py` is left out.
- *Delivery of messages* is modelled in the channel's modules; elsewhere a message is an await.
- *A tool that works* is taken at its word, and what it means to repeat an effect (a command that
  is harmless the second time) is not looked into.
- *GREEN actions* and BLUE ones without a ledger entry change no state that is modelled.
- *Fixed jobs* keep their kind (once or recurring) when the file is edited.
- *Faults of the store* outside the scheduler's tick, the channel and the breakers' rows, and crashes inside a
  synchronous segment.
- *Router*: scores and budgets (any order of candidates in `Rankings` may be tried), alerts.
- *Supervisor*: the workers as children, the backoff and the alerts after crashes.
- *Channel*: the whitelist, voice, pictures, backoff times; the throttling of progress and errors.
- *Computer use*: parsing of decisions, labels and texts; which control a decision means is
  chosen freely among those the rules let pass.  The rules count a click on, or a selection of, a
  button, link, menu item, split button or list item, and a typed text (`Limited`); other
  controls, operations, key chords and batches are input that is not counted.

Not modelled at all are the components of the table in section 1.  Most of them compute on data
(names, scores, texts, pictures) or pass bytes to a program; they keep no state that others
interleave with, and a model of them would restate their code.

## 9 Plan

Built, in the order in which a mistake would cost most: the chain from the store to the skill
calls and the scheduler; then the router, the self-update, the channel and computer use; all
with their proofs.  What remains worth doing:

1. `Broker`: a process of its own that claims request files; what is read before the wait for its
   lock and used after it (its lockdown), what is claimed before it is checked; with `IPC` (tokens,
   the monitor's restarts) composed with `SkillCalls`.
2. Finer steps where a crash inside a synchronous segment matters (decision and release;
   reset and retry), and store faults in the dispatcher.
3. The throttling of the notifier, and the supervisor's backoff and alerts.
