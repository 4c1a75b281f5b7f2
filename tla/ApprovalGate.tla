---------------------------- MODULE ApprovalGate ----------------------------
(***************************************************************************)
(* The approval engine and /lockdown (core/permissions/approvals.py,       *)
(* TaskContext.require in core/queue/engine.py,                            *)
(* core/orchestrator/security_commands.py) composed with the task engine.  *)
(*                                                                         *)
(* A step calls require right before a side effect.  A RED action needs an *)
(* approval bound to its fingerprint; a YELLOW one needs it only when its  *)
(* safety check fails.  Without an approval a request is stored, the owner *)
(* is asked and the task is parked; the decision releases it and the step  *)
(* runs again from its start, now finding its approval.                    *)
(*                                                                         *)
(* Time is the order of expiry: every stamp lasts one and the same timeout,*)
(* so the rows that have not expired yet expire in the order of their last *)
(* stamps, and a tick of the clock that matters takes the first of them.   *)
(***************************************************************************)
EXTENDS TaskEngine

CONSTANTS
    Red, Yellow,   \* fingerprints of the actions of each level
    NRows,         \* bound: approval requests ever stored
    NoAction       \* no action

ASSUME GateAssumption == /\ NRows \in Nat
                         /\ NoAction \notin Red \cup Yellow
                         /\ Red \cap Yellow = {}

VARIABLES
    rows,       \* the approvals table
    fresh,      \* the order in which its rows with expires_at > now expire: <<a, b>> if a does
                \* not expire after b
    checking,   \* the YELLOW action whose safety check each lane awaits
    sweep,      \* expired rows the sweeper has still to look at
    lockdown,   \* the persisted lockdown setting
    spent       \* history: how many side effects each row let through

rowVars  == <<rows, fresh, spent>>
gateVars == <<rows, fresh, checking, sweep, lockdown, spent>>
allVars  == <<vars, gateVars>>

Approvals == 1 .. NRows
Actions == Red \cup Yellow

ApprovalStatus == {"FREE", "PENDING", "APPROVED", "REJECTED", "EXPIRED", "USED"}

FreeRow == [status |-> "FREE", task |-> NoTask, act |-> NoAction]

-----------------------------------------------------------------------------
(* Rows *)

Fresh(a) == <<a, a>> \in fresh

Without(S) == {p \in fresh : p[1] \notin S /\ p[2] \notin S}

\* A new stamp: a expires after all the others in the order.
Stamped(order, a) == order \cup {<<b, a>> : b \in {a} \cup {p[1] : p \in order}}

\* find: unexpired rows of task t for action f.
Live(t, f, status) ==
    {a \in Approvals : rows[a].status = status /\ rows[a].task = t /\ rows[a].act = f /\ Fresh(a)}

WaitsForApproval(a) == /\ rows[a].task \in Tasks
                       /\ task[rows[a].task].state = "WAITING_APPROVAL"

-----------------------------------------------------------------------------
(* TaskContext.require *)

\* Mutant of UseApproval: the row is found but not consumed.
UseApprovalAgain(l, f) ==
    /\ \E a \in Live(cur[l], f, "APPROVED") : spent' = [spent EXCEPT ![a] = @ + 1]
    /\ UNCHANGED <<vars, rows, fresh>>

\* consume: the approval is spent and the step goes on to its side effect.
UseApproval(l, f) ==
    /\ \E a \in Live(cur[l], f, "APPROVED") :
         /\ rows' = [rows EXCEPT ![a].status = "USED"]
         /\ spent' = [spent EXCEPT ![a] = @ + 1]
         /\ fresh' = Without({a})
    /\ UNCHANGED vars

\* request: the same request is still pending, the owner is not asked again.
JoinRequest(l, f) ==
    /\ Live(cur[l], f, "APPROVED") = {} /\ Live(cur[l], f, "PENDING") # {}
    /\ Park(l)
    /\ UNCHANGED rowVars

\* Mutant of NewRequest: a pending request is not looked for.
NewRequestAlways(l, f) ==
    /\ Live(cur[l], f, "APPROVED") = {}
    /\ \E a \in Approvals :
         /\ rows[a].status = "FREE"
         /\ \A b \in Approvals : b < a => rows[b].status # "FREE"
         /\ rows' = [rows EXCEPT ![a] = [status |-> "PENDING", task |-> cur[l], act |-> f]]
         /\ fresh' = Stamped(fresh, a)
    /\ StepAsks(l)
    /\ UNCHANGED spent

\* request: a new row, and the owner is asked.
NewRequest(l, f) ==
    /\ Live(cur[l], f, "APPROVED") = {} /\ Live(cur[l], f, "PENDING") = {}
    /\ \E a \in Approvals :
         /\ rows[a].status = "FREE"
         /\ \A b \in Approvals : b < a => rows[b].status # "FREE"
         /\ rows' = [rows EXCEPT ![a] = [status |-> "PENDING", task |-> cur[l], act |-> f]]
         /\ fresh' = Stamped(fresh, a)
    /\ StepAsks(l)
    /\ UNCHANGED spent

NeedApproval(l, f) == UseApproval(l, f) \/ JoinRequest(l, f) \/ NewRequest(l, f)

\* Mutant of Require: a RED action does not see the lockdown.
RequireRedInLockdown(l, f) ==
    /\ pc[l] = "step" /\ checking[l] = NoAction
    /\ f \in Red /\ NeedApproval(l, f)
    /\ UNCHANGED <<checking, sweep, lockdown>>

\* require up to its first await: the level and the lockdown are looked at here.
Require(l, f) ==
    /\ pc[l] = "step" /\ checking[l] = NoAction
    /\ \/ /\ lockdown
          /\ Refuse(l, "PERMISSION_DENIED")
          /\ UNCHANGED <<rowVars, checking>>
       \/ /\ ~lockdown /\ f \in Red
          /\ NeedApproval(l, f)
          /\ UNCHANGED checking
       \/ /\ ~lockdown /\ f \in Yellow
          /\ checking' = [checking EXCEPT ![l] = f]
          /\ UNCHANGED <<vars, rowVars>>
    /\ UNCHANGED <<sweep, lockdown>>

\* The safety check passed: require returns and the side effect follows.
CheckPasses(l) ==
    /\ checking[l] # NoAction
    /\ checking' = [checking EXCEPT ![l] = NoAction]
    /\ UNCHANGED <<vars, rowVars, sweep, lockdown>>

\* It did not, or there is none for this action.
CheckFails(l) ==
    /\ checking[l] # NoAction
    /\ checking' = [checking EXCEPT ![l] = NoAction]
    /\ NeedApproval(l, checking[l])
    /\ UNCHANGED <<sweep, lockdown>>

\* It raised: the exception leaves the step.
CheckRaises(l) ==
    /\ checking[l] # NoAction
    /\ checking' = [checking EXCEPT ![l] = NoAction]
    /\ StepError(l) \/ StepNeedsDesktop(l)
    /\ UNCHANGED <<rowVars, sweep, lockdown>>

Gate(l) == \/ \E f \in Actions : Require(l, f)
           \/ CheckPasses(l) \/ CheckFails(l) \/ CheckRaises(l)

\* The engine's own steps: a step that awaits a safety check does nothing else.
EngineLane(l) ==
    /\ \/ Claim(l) \/ Plan(l) \/ StartStep(l) \/ Halted(l) \/ Finish(l) \/ Told(l)
       \/ VerifyPasses(l) \/ VerifyBlocked(l) \/ VerifyNeedsWork(l) \/ VerifyError(l)
       \/ pc[l] = "ask" /\ Park(l)
       \/ /\ checking[l] = NoAction
          /\ \/ StepDone(l) \/ StepHalts(l) \/ StepError(l) \/ StepRefused(l)
             \/ StepNeedsDesktop(l)
    /\ UNCHANGED gateVars

-----------------------------------------------------------------------------
(* Decisions *)

\* Mutant of Release: the state of the task is not looked at.
ReleaseAnyway(t, dst, why) == task' = [task EXCEPT ![t] = Moved(@, dst, why)]

\* _release_task: only a task that is parked already.
Release(t, dst, why) ==
    IF task[t].state = "WAITING_APPROVAL" THEN ReleaseParked(t, dst, why) ELSE UNCHANGED task

\* Mutant of Decide: the second button press decides again.
DecideAgain(a, approve) ==
    /\ up /\ rows[a].status # "FREE"
    /\ rows' = [rows EXCEPT ![a].status = IF approve THEN "APPROVED" ELSE "REJECTED"]
    /\ fresh' = IF approve THEN Stamped(Without({a}), a) ELSE Without({a})
    /\ UNCHANGED <<vars, checking, sweep, lockdown, spent>>

\* decide on a PENDING row: a button of the message, or the dashboard.
Decide(a, approve) ==
    /\ up /\ rows[a].status = "PENDING"
    /\ LET outcome == IF ~Fresh(a) THEN "EXPIRED" ELSE IF approve THEN "APPROVED" ELSE "REJECTED"
           t == rows[a].task
       IN  /\ rows' = [rows EXCEPT ![a].status = outcome]
           /\ fresh' = IF outcome = "APPROVED" THEN Stamped(Without({a}), a) ELSE Without({a})
           /\ CASE outcome = "APPROVED" -> Release(t, "RETRYING", "none")
                [] outcome = "REJECTED" -> Release(t, "CANCELLED", "REJECTED_BY_USER")
                [] OTHER                -> Release(t, "CANCELLED", "APPROVAL_EXPIRED")
    /\ UNCHANGED <<queuePaused, laneVars, procVars, watchVars, checking, sweep, lockdown, spent>>

\* expire_due works through its list (read in no particular order) until it has to tell
\* somebody that the task is cancelled.
SweepOver(S) ==
    LET hits == {a \in S : WaitsForApproval(a)}
    IN  IF hits = {} THEN sweep' = {} /\ UNCHANGED task
        ELSE \E a \in hits : \E skipped \in SUBSET (S \ hits) :
               /\ ReleaseParked(rows[a].task, "CANCELLED", "APPROVAL_EXPIRED")
               /\ sweep' = S \ ({a} \cup skipped)

\* Mutant of Due: only approved rows are swept.
DueApproved == {a \in Approvals : rows[a].status = "APPROVED" /\ ~Fresh(a)}

Due == {a \in Approvals : rows[a].status \in {"PENDING", "APPROVED"} /\ ~Fresh(a)}

ExpireDue ==
    /\ up /\ sweep = {} /\ Due # {}
    /\ rows' = [a \in Approvals |-> IF a \in Due THEN [rows[a] EXCEPT !.status = "EXPIRED"]
                                                 ELSE rows[a]]
    /\ SweepOver(Due)
    /\ UNCHANGED <<queuePaused, laneVars, procVars, watchVars, fresh, checking, lockdown, spent>>

\* The message is out: on with the list.
SweepOn ==
    /\ up /\ sweep # {}
    /\ SweepOver(sweep)
    /\ UNCHANGED <<queuePaused, laneVars, procVars, watchVars, rowVars, checking, lockdown>>

\* expires_at of the oldest live row passes, whether or not the process runs.
Tick ==
    /\ \E a \in Approvals :
         /\ Fresh(a)
         /\ \A b \in Approvals : Fresh(b) => <<a, b>> \in fresh
         /\ fresh' = Without({a})
    /\ UNCHANGED <<vars, rows, checking, sweep, lockdown, spent>>

-----------------------------------------------------------------------------
(* Lockdown *)

Pending == {a \in Approvals : rows[a].status = "PENDING"}

\* What reject_all_pending may end task t with.
LockdownReason(t) ==
    LET asked == {a \in Pending : rows[a].task = t}
    IN  IF task[t].state # "WAITING_APPROVAL" \/ asked = {} THEN {"none"}
        ELSE {IF Fresh(a) THEN "REJECTED_BY_USER" ELSE "APPROVAL_EXPIRED" : a \in asked}

\* /lockdown: one synchronous handler.
LockdownOn ==
    /\ up
    /\ lockdown' = TRUE
    /\ \E drop \in [Tasks -> DropReason \cup {"none"}] :
         /\ \A t \in Tasks : drop[t] \in LockdownReason(t)
         /\ PauseQueue(drop)
    /\ rows' = [a \in Approvals |->
                  IF a \notin Pending THEN rows[a]
                  ELSE [rows[a] EXCEPT !.status = IF Fresh(a) THEN "REJECTED" ELSE "EXPIRED"]]
    /\ fresh' = Without(Pending)
    /\ UNCHANGED <<laneVars, procVars, watchVars, checking, sweep, spent>>

\* /lockdown off: the queue stays paused.
LockdownOff ==
    /\ up /\ lockdown
    /\ lockdown' = FALSE
    /\ UNCHANGED <<vars, rowVars, checking, sweep>>

-----------------------------------------------------------------------------
\* The process dies: the coroutines are lost, the tables and the settings stay.
GateExit ==
    /\ Exit
    /\ checking' = [l \in Lane |-> NoAction]
    /\ sweep' = {}
    /\ UNCHANGED <<rowVars, lockdown>>

GateInit ==
    /\ Init
    /\ rows = [a \in Approvals |-> FreeRow]
    /\ fresh = {}
    /\ checking = [l \in Lane |-> NoAction]
    /\ sweep = {}
    /\ lockdown = FALSE
    /\ spent = [a \in Approvals |-> 0]

\* The handlers on the loop and the clock, whatever the lanes do.
GateWorld ==
    \/ \E a \in Approvals, approve \in BOOLEAN : Decide(a, approve)
    \/ ExpireDue \/ SweepOn \/ Tick
    \/ LockdownOn \/ LockdownOff
    \/ (OwnerStep \/ WatchStep \/ RequestExit \/ Start) /\ UNCHANGED gateVars

GateNext ==
    \/ \E l \in Lane : EngineLane(l) \/ Gate(l)
    \/ GateWorld
    \/ GateExit

GateSpec == GateInit /\ [][GateNext]_allVars

\* Time passes, and the sweeper is called every few seconds while the process runs; its
\* messages are bounded by a timeout.
FairGateSpec == GateSpec /\ WF_allVars(Tick) /\ WF_allVars(ExpireDue) /\ WF_allVars(SweepOn)

-----------------------------------------------------------------------------
(* Properties *)

GateTypeOK ==
    /\ rows \in [Approvals -> [status : ApprovalStatus, task : Tasks \cup {NoTask},
                               act : Actions \cup {NoAction}]]
    /\ fresh \subseteq Approvals \X Approvals
    /\ checking \in [Lane -> Yellow \cup {NoAction}]
    /\ sweep \subseteq Approvals
    /\ lockdown \in BOOLEAN
    /\ spent \in [Approvals -> Nat]

\* One approval lets at most one side effect through, over retries, restarts and crashes
\* between the decision and the use, and a row that did so can never be live again.
SingleUse ==
    \A a \in Approvals : spent[a] = IF rows[a].status = "USED" THEN 1 ELSE 0

\* The owner is never asked twice for the same thing: of one task and action at most one
\* row is waiting for an answer or approved and not used yet.
NoDuplicateAsk ==
    \A a, b \in Approvals :
        /\ rows[a].task = rows[b].task /\ rows[a].act = rows[b].act
        /\ \A c \in {a, b} : rows[c].status \in {"PENDING", "APPROVED"} /\ Fresh(c)
        => a = b

\* An approval is used only by the coroutine that executes a step of its task, never by or
\* for a task that was cancelled, parked or handed on meanwhile.
UsedByItsTaskOnly ==
    [][\A a \in Approvals : spent'[a] # spent[a] =>
         /\ task[rows[a].task].state = "RUNNING"
         /\ \E l \in Lane : WorksOn(l, rows[a].task) /\ pc[l] = "step"]_allVars

\* What the owner rejected, let expire or saw used is never live again; an approval can only
\* come from a request that was pending and in time.
DecisionsStand ==
    [][\A a \in Approvals :
         /\ rows[a].status \in {"REJECTED", "EXPIRED", "USED"} => rows'[a] = rows[a]
         /\ rows'[a].status = "APPROVED" /\ rows[a].status # "APPROVED" =>
              rows[a].status = "PENDING" /\ Fresh(a)]_allVars

\* A RED action is never let through under a lockdown, whatever was approved before it.
LockdownStopsRed ==
    [][\A a \in Approvals : spent'[a] # spent[a] /\ rows[a].act \in Red => ~lockdown]_allVars

\* The gate is an engine whose parked tasks are released by decisions only: every step of it
\* is a step of TaskEngine or invisible to it.
GateImplementsEngine == Spec

\* A request does not stay open for ever: it is decided, or it expires and the sweeper ends
\* it, also when the process was down when it expired.
RequestsEnd ==
    <>[]up => \A a \in Approvals : rows[a].status = "PENDING" ~> rows[a].status # "PENDING"

-----------------------------------------------------------------------------
(* A statement of the code's messages that it does not keep *)

\* "APPROVED - the task will run again", "REJECTED - task cancelled": a task that waits for
\* an approval has a request somebody can still decide (or is about to be swept).
NoStrandedWait ==
    up /\ sweep = {} => \A t \in Tasks : task[t].state = "WAITING_APPROVAL" =>
                          \E a \in Pending : rows[a].task = t
=============================================================================
