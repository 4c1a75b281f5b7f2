----------------------------- MODULE SkillCalls -----------------------------
(***************************************************************************)
(* Skill calls (core/skills/runner.py) and the side-effect ledger          *)
(* (core/skills/ledger.py) on top of the approval engine: a step that      *)
(* wants a side effect calls invoke, which looks the action up in the      *)
(* ledger, passes the permission gate, writes PENDING, runs the tool and   *)
(* records how it ended.                                                   *)
(*                                                                         *)
(* The tool acts through another process (a worker, a shell, git, the      *)
(* broker).  Once it was asked, its effect may land at any time until it   *)
(* answers, and after an exception or a crash of the core even later: open *)
(* holds the attempts nobody has heard the end of.  A tool that gives up   *)
(* on a timeout or a lost connection says that it failed, like one that    *)
(* did nothing: stray counts the attempts whose effect may land after such *)
(* an answer.                                                              *)
(***************************************************************************)
EXTENDS ApprovalGate

CONSTANT Blue      \* BLUE actions with a side effect: allowed and logged

ASSUME BlueAssumption == NoAction \notin Blue /\ Blue \cap (Red \cup Yellow) = {}

VARIABLES
    ledger,     \* the side_effects table: of each task and action
    running,    \* the action whose tool each lane awaits
    open,       \* attempts in the ledger as PENDING whose effect may still land
    stray,      \* of each task and action, attempts in the ledger as FAILED that may, up to 2
    happened,   \* history: effects of each action of a task, up to 2
    belied      \* history: an attempt was called failed that had an effect or might have one

callVars  == <<ledger, running, open, stray, happened, belied>>
skillVars == <<allVars, callVars>>

Calls == Actions \cup Blue

EntryStatus == {"none", "PENDING", "DONE", "FAILED"}

Entry(l, f) == ledger[cur[l]][f]

Record(l, f, status) == ledger' = [ledger EXCEPT ![cur[l]][f] = status]

-----------------------------------------------------------------------------
(* SkillRunner.invoke *)

\* begin, and the tool is asked.
BeginRun(l, f) ==
    /\ Record(l, f, "PENDING")
    /\ running' = [running EXCEPT ![l] = f]
    /\ open' = open \cup {<<cur[l], f>>}
    /\ UNCHANGED <<stray, happened, belied>>

\* require returned with an approval: the tool runs; otherwise the call ended or awaits.
RunIfPaid(l, f) == IF spent' # spent THEN BeginRun(l, f) ELSE UNCHANGED callVars

\* Mutant of MayRun: an entry whose outcome was never recorded is tried again.
MayRunBlindly(l, f) == Entry(l, f) # "DONE"

\* lookup: nothing recorded, or the earlier attempt is known to have failed.
MayRun(l, f) == Entry(l, f) \in {"none", "FAILED"}

\* Mutant of Call: the tool runs before the permission gate is passed.
CallAtOnce(l, f) ==
    /\ pc[l] = "step" /\ checking[l] = NoAction /\ running[l] = NoAction
    /\ MayRun(l, f) /\ BeginRun(l, f) /\ UNCHANGED allVars

\* Mutant of Refused: an attempt in doubt waits for the owner as an approval does.
RefusedWaits(l, f) ==
    /\ Entry(l, f) = "PENDING"
    /\ Park(l)
    /\ UNCHANGED <<gateVars, callVars>>

\* An attempt in doubt is not repeated, and under a lockdown nothing is started.
Refused(l, f) ==
    /\ \/ Entry(l, f) = "PENDING" /\ Refuse(l, "BLOCKED_NEEDS_USER")
       \/ MayRun(l, f) /\ f \in Blue /\ lockdown /\ Refuse(l, "PERMISSION_DENIED")
    /\ UNCHANGED <<gateVars, callVars>>

\* invoke up to its first await.  (An action that is DONE is reported and not repeated,
\* which changes nothing.)
Call(l, f) ==
    /\ pc[l] = "step" /\ checking[l] = NoAction /\ running[l] = NoAction
    /\ \/ Refused(l, f)
       \/ MayRun(l, f) /\ f \in Actions /\ Require(l, f) /\ RunIfPaid(l, f)
       \/ MayRun(l, f) /\ f \in Blue /\ ~lockdown /\ BeginRun(l, f) /\ UNCHANGED allVars

\* The safety check of a YELLOW action ends.
Checked(l) ==
    /\ checking[l] # NoAction
    /\ \/ CheckPasses(l) /\ BeginRun(l, checking[l])
       \/ CheckFails(l) /\ RunIfPaid(l, checking[l])
       \/ CheckRaises(l) /\ UNCHANGED callVars

\* The attempt that lane l awaits.
Attempt(l) == <<cur[l], running[l]>>

Heard(l) == /\ open' = open \ {Attempt(l)}
            /\ running' = [running EXCEPT ![l] = NoAction]

UpTo2(n) == IF n < 2 THEN n + 1 ELSE n

\* The tool says that it worked, or that there was nothing to do.
RunWorks(l) ==
    /\ running[l] # NoAction
    /\ Record(l, running[l], "DONE")
    /\ Heard(l)
    /\ UNCHANGED <<allVars, stray, happened, belied>>

\* The tool says that it failed, which allows a repetition: it did nothing; or its effect
\* happened, or may still, but it has timed out or lost the connection.
RunFails(l) ==
    /\ running[l] # NoAction
    /\ Record(l, running[l], "FAILED")
    /\ Heard(l)
    /\ \/ Attempt(l) \in open /\ UNCHANGED <<stray, belied>>
       \/ /\ IF Attempt(l) \in open
             THEN stray' = [stray EXCEPT ![cur[l]][running[l]] = UpTo2(@)]
             ELSE UNCHANGED stray
          /\ belied' = belied \cup {Attempt(l)}
    /\ UNCHANGED <<allVars, happened>>

\* The desktop worker refuses because the PC is locked: finish is not called.
RunLocked(l) ==
    /\ running[l] # NoAction
    /\ Attempt(l) \in open
    /\ Heard(l)
    /\ StepNeedsDesktop(l)
    /\ UNCHANGED <<gateVars, ledger, stray, happened, belied>>

\* The tool raises (a call of a worker that is gone or does not answer in time, any other
\* exception): nobody knows what happened, and finish is not called.
RunLost(l) ==
    /\ running[l] # NoAction
    /\ running' = [running EXCEPT ![l] = NoAction]
    /\ StepError(l) \/ StepNeedsDesktop(l)
    /\ UNCHANGED <<gateVars, ledger, open, stray, happened, belied>>

\* The effect of an attempt lands, whatever has become of the core or of the answer by then.
EffectLands(t, f) ==
    /\ \/ /\ <<t, f>> \in open
          /\ open' = open \ {<<t, f>>} /\ UNCHANGED stray
       \/ /\ stray[t][f] > 0
          /\ stray' = [stray EXCEPT ![t][f] = @ - 1] /\ UNCHANGED open
    /\ happened' = [happened EXCEPT ![t][f] = UpTo2(@)]
    /\ UNCHANGED <<allVars, ledger, running, belied>>

SkillLane(l) ==
    \/ \E f \in Calls : Call(l, f)
    \/ Checked(l)
    \/ RunWorks(l) \/ RunFails(l) \/ RunLocked(l) \/ RunLost(l)
    \/ running[l] = NoAction /\ EngineLane(l) /\ UNCHANGED callVars

\* The ledger survives the process, and so do the attempts it made.
SkillExit ==
    /\ GateExit
    /\ running' = [l \in Lane |-> NoAction]
    /\ UNCHANGED <<ledger, open, stray, happened, belied>>

SkillInit ==
    /\ GateInit
    /\ ledger = [t \in Tasks |-> [f \in Calls |-> "none"]]
    /\ running = [l \in Lane |-> NoAction]
    /\ open = {} /\ belied = {}
    /\ stray = [t \in Tasks |-> [f \in Calls |-> 0]]
    /\ happened = [t \in Tasks |-> [f \in Calls |-> 0]]

SkillNext ==
    \/ \E l \in Lane : SkillLane(l)
    \/ \E t \in Tasks, f \in Calls : EffectLands(t, f)
    \/ GateWorld /\ UNCHANGED callVars
    \/ SkillExit

SkillSpec == SkillInit /\ [][SkillNext]_skillVars

-----------------------------------------------------------------------------
(* Properties *)

\* An attempt that may still have an effect, or had one, is in the ledger; and a lane that
\* awaits a tool or a safety check is inside the step that called it.
SkillTypeOK ==
    /\ ledger \in [Tasks -> [Calls -> EntryStatus]]
    /\ running \in [Lane -> Calls \cup {NoAction}]
    /\ open \subseteq Tasks \X Calls /\ belied \subseteq Tasks \X Calls
    /\ stray \in [Tasks -> [Calls -> {0, 1, 2}]]
    /\ happened \in [Tasks -> [Calls -> {0, 1, 2}]]
    /\ \A l \in Lane : running[l] # NoAction => pc[l] = "step" /\ Entry(l, running[l]) = "PENDING"

\* A side effect of a task happens at most once, over retries from a checkpoint, failed
\* verifications, restarts, crashes and answers that come too late; only a tool that says that
\* it failed although its effect happened, or still could, lets it happen again.
EffectOnce == \A t \in Tasks, f \in Calls : happened[t][f] > 1 => <<t, f>> \in belied

\* The ledger never forgets: what happened or may still happen is PENDING or DONE there, and
\* an attempt that it calls PENDING has not happened before, unless a tool belied its own
\* effect; only such a tool leaves one behind that the ledger calls FAILED.
LedgerKnows ==
    \A t \in Tasks, f \in Calls :
        /\ <<t, f>> \in open => ledger[t][f] = "PENDING"
        /\ <<t, f>> \notin belied =>
             /\ happened[t][f] > 0 => ledger[t][f] \in {"PENDING", "DONE"} /\ <<t, f>> \notin open
             /\ stray[t][f] = 0

\* A RED action is only ever run with an approval, each attempt with its own: the tool is
\* asked in the very step that uses one up.
AttemptsArePaid ==
    [][\A l \in Lane : running'[l] # running[l] /\ running'[l] \in Red =>
         \E a \in Approvals : /\ spent'[a] # spent[a]
                              /\ rows[a].task = cur[l] /\ rows[a].act = running'[l]]_skillVars

\* No approval is burnt: what was approved and used has been attempted.
UsedIsAttempted ==
    \A a \in Approvals : rows[a].status = "USED" /\ rows[a].act \in Red =>
        ledger[rows[a].task][rows[a].act] # "none"

\* Skill calls are steps of the approval engine or invisible to it.
SkillCallsImplementGate == GateSpec

-----------------------------------------------------------------------------
(* A statement of the code's documentation that the code does not keep *)

\* "An external side effect of a task happens at most once" (the ledger's docstring).
EffectAtMostOnce == \A t \in Tasks, f \in Calls : happened[t][f] <= 1
=============================================================================
