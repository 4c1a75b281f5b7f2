------------------------------ MODULE SelfUpdate ------------------------------
(***************************************************************************)
(* /update: the task that asks (core/orchestrator/self_update.py), the     *)
(* supervisor that stops core and applies the approved commit with an      *)
(* automatic rollback (core/supervisor/supervisor.py, updater.py), and the *)
(* three files through which they speak: the request, the result and the   *)
(* health file (core/lifecycle.py).  The power may fail between any two    *)
(* steps; the database, the checkout, the packages and the files survive.  *)
(* Commits are numbers, and a schema is the commit it belongs to.          *)
(***************************************************************************)
EXTENDS Integers

CONSTANTS
    Tasks,         \* the ids of the /update tasks: positive numbers
    Newest,        \* the last commit the remote branch gets to; the checkout starts at 0
    SchemaOf,      \* the schema of each commit
    MaxExits,      \* bound: core dies on its own or the owner sends /restart-agent
    MaxPower       \* bound: the power fails

ASSUME UpdateAssumption == /\ Tasks \subseteq Nat \ {0}
                           /\ Newest \in Nat \ {0}
                           /\ SchemaOf \in [0..Newest -> 0..Newest]
                           /\ {MaxExits, MaxPower} \subseteq Nat

VARIABLES
    remote,        \* the commit the remote branch is at
    code,          \* HEAD of the checkout
    deps,          \* the commit the installed packages belong to, or Torn
    db,            \* the database: its schema, the tasks' rows, some other work
    request,       \* update-request.json
    result,        \* update-result.json
    health,        \* core.health.json: the commit core reported, or NoHealth
    core,          \* the process: where it is, why it left, the code it loaded
    sup,           \* where the supervisor is in tick, update or rollback
    plan,          \* the request it is working on, with what it found
    spent          \* the bounded events so far, and what they cost

files == <<request, result, health>>
disk == <<remote, code, deps, db>>
vars == <<remote, code, deps, db, files, core, sup, plan, spent>>

None == [task |-> -1]
Torn == -1         \* packages interrupted in the middle of `uv sync`
NoHealth == -1
Unreadable == Newest + 1   \* a database that was being copied when the power failed: no code knows it
Commits == 0..Newest
Steps == {"none", "check", "approve", "result", "ended"}
Phases == {"tick", "off", "check", "unchanged", "backup", "checkout", "dependencies", "preflight",
           "proving", "reset", "resync", "redb", "reproving"}

Untouched == [step |-> "none", from |-> 0, to |-> 0, said |-> ""]

UpdateInit ==
    /\ remote = 1 /\ code = 0 /\ deps = 0
    /\ db = [schema |-> SchemaOf[0], row |-> [t \in Tasks |-> Untouched], work |-> "todo"]
    /\ request = None /\ result = None /\ health = 0
    /\ core = [at |-> "up", exit |-> "", ver |-> 0, safe |-> FALSE, lane |-> 0]
    /\ sup = "tick"
    /\ plan = None
    /\ spent = [exits |-> 0, power |-> 0, merged |-> [t \in Tasks |-> 0]]

(***************************************************************************)
(* Core.  Child.start removes the old health file; check_and_migrate runs  *)
(* when core loads, and a database it cannot use means safe mode: core is  *)
(* up, reports its health, and runs no task.                               *)
(***************************************************************************)
Loaded == core' = [at |-> "loading", exit |-> "", ver |-> code, safe |-> FALSE, lane |-> 0]
Started == Loaded /\ health' = NoHealth

Gone(why) == core' = [at |-> "off", exit |-> why, ver |-> 0, safe |-> FALSE, lane |-> 0]

Runs == core.at = "up" /\ ~core.safe

\* The power fails; `approved` are the tasks whose request was just written.
PowerOff(approved) ==
    /\ spent.power < MaxPower
    /\ spent' = [spent EXCEPT !.power = @ + 1,
                              !.merged = [t \in Tasks |-> IF t \in approved THEN 0 ELSE @[t]]]
    /\ Gone("crash") /\ sup' = "off" /\ plan' = None

\* It is up: the schema is the one of its code, migrated to it, or not usable.
CoreUp ==
    /\ core.at = "loading"
    /\ \/ /\ db.schema <= SchemaOf[core.ver]
          /\ db' = [db EXCEPT !.schema = SchemaOf[core.ver]]
          /\ core' = [core EXCEPT !.at = "up"]
       \/ /\ db.schema # SchemaOf[core.ver]
          /\ core' = [core EXCEPT !.at = "up", !.safe = TRUE]
          /\ UNCHANGED db
    /\ health' = code
    /\ UNCHANGED <<remote, code, deps, request, result, sup, plan, spent>>

\* It dies: packages that do not belong to the code may kill it every time.
CoreDies ==
    /\ core.at # "off"
    /\ \/ spent.exits < MaxExits /\ spent' = [spent EXCEPT !.exits = @ + 1]
       \/ core.at = "loading" /\ deps # code /\ UNCHANGED spent
    /\ Gone("crash")
    /\ UNCHANGED <<disk, files, sup, plan>>

\* /restart-agent
OwnerRestarts ==
    /\ core.at = "up"
    /\ spent.exits < MaxExits
    /\ spent' = [spent EXCEPT !.exits = @ + 1]
    /\ Gone("restart")
    /\ UNCHANGED <<disk, files, sup, plan>>

\* The owner pushes a commit.
Push == /\ remote < Newest
        /\ remote' = remote + 1
        /\ UNCHANGED <<code, deps, db, files, core, sup, plan, spent>>

\* Any other task of the queue that is done once and remembered in the database.
OtherWork ==
    /\ Runs
    /\ db.work = "todo"
    /\ db' = [db EXCEPT !.work = "done"]
    /\ UNCHANGED <<remote, code, deps, files, core, sup, plan, spent>>

(***************************************************************************)
(* The task.  The main lane runs one task at a time and takes the oldest   *)
(* that can go on; one that waits for the owner is parked and holds nobody *)
(* up.                                                                     *)
(***************************************************************************)
Turn(t) ==
    /\ Runs
    /\ \/ core.lane = t
       \/ core.lane = 0 /\ \A u \in Tasks : u < t => db.row[u].step \notin {"check", "result"}

InLane(t) == core' = [core EXCEPT !.lane = t]

Row(t, new) == db' = [db EXCEPT !.row[t] = new]
Ended(t, how) == Row(t, [db.row[t] EXCEPT !.step = "ended", !.said = how])

\* /update creates the task.
AskUpdate(t) ==
    /\ Runs
    /\ db.row[t].step = "none"
    /\ Row(t, [db.row[t] EXCEPT !.step = "check"])
    /\ UNCHANGED <<remote, code, deps, files, core, sup, plan, spent>>

\* check_update: something new that fast-forwards, nothing new, or git does not answer.
Check(t) ==
    /\ Turn(t)
    /\ db.row[t].step = "check"
    /\ \/ /\ code # remote
          /\ Row(t, [step |-> "approve", from |-> code, to |-> remote, said |-> ""])
       \/ Ended(t, IF code = remote THEN "up to date" ELSE "not done")
    /\ UNCHANGED <<remote, code, deps, files, core, sup, plan, spent>>

\* The owner says no, or cancels the task: seen at the next checkpoint, and there is none
\* between the approval and the hand-over.
Refuse(t) ==
    /\ Runs
    /\ db.row[t].step \in {"check", "approve", "result"}
    /\ core.lane = t => result.task = t
    /\ Ended(t, "cancelled")
    /\ InLane(IF core.lane = t THEN 0 ELSE core.lane)
    /\ UNCHANGED <<remote, code, deps, files, sup, plan, spent>>

Requests(t) == request' = [task |-> t, from |-> db.row[t].from, to |-> db.row[t].to]

\* The owner approves: the request is written, then the step is saved.  A power failure
\* between the two leaves the request behind and the step to be done again.
Approve(t) ==
    /\ Turn(t)
    /\ db.row[t].step = "approve"
    /\ Requests(t)
    /\ Row(t, [db.row[t] EXCEPT !.step = "result"])
    /\ InLane(t)
    /\ spent' = [spent EXCEPT !.merged[t] = 0]
    /\ UNCHANGED <<remote, code, deps, result, health, sup, plan>>

ApproveCutShort(t) ==
    /\ Turn(t)
    /\ db.row[t].step = "approve"
    /\ Requests(t)
    /\ PowerOff({t})
    /\ UNCHANGED <<disk, result, health>>

\* No result of its own: core leaves with EXIT_UPDATE and this step is run again after it.
HandOver(t) ==
    /\ Turn(t)
    /\ db.row[t].step = "result"
    /\ result.task # t
    /\ Gone("update")
    /\ UNCHANGED <<disk, files, sup, plan, spent>>

\* A result of its own that is still open is waited for in the lane.
Waits(t) ==
    /\ Turn(t) /\ core.lane = 0
    /\ db.row[t].step = "result"
    /\ result.task = t /\ result.status = "pending_health"
    /\ InLane(t)
    /\ UNCHANGED <<disk, files, sup, plan, spent>>

\* What it tells the owner are the status and the commits of the result.
Reports(t) ==
    /\ Row(t, [step |-> "ended", from |-> result.from, to |-> result.to, said |-> result.status])
    /\ InLane(0)

\* Mutant of Report: the wait for an open result has no limit.
ReportsOnlyFinal(t) ==
    /\ Turn(t)
    /\ db.row[t].step = "result"
    /\ result.task = t /\ result.status # "pending_health"
    /\ Reports(t)
    /\ UNCHANGED <<remote, code, deps, files, sup, plan, spent>>

\* Mutant of Report: an open result is not waited for.
ReportsAtOnce(t) ==
    /\ Turn(t)
    /\ db.row[t].step = "result"
    /\ result.task = t
    /\ Reports(t)
    /\ UNCHANGED <<remote, code, deps, files, sup, plan, spent>>

\* It reports its result; a pending one is waited for as long as the supervisor may still
\* be proving the new version, and reported as it is after that.
Report(t) ==
    /\ Turn(t)
    /\ db.row[t].step = "result"
    /\ result.task = t
    /\ result.status = "pending_health" => sup \notin {"proving", "reproving"}
    /\ Reports(t)
    /\ UNCHANGED <<remote, code, deps, files, sup, plan, spent>>

(***************************************************************************)
(* The supervisor: on_core_exit, update, and apply_update step by step.    *)
(* write_json replaces a file at once.                                     *)
(***************************************************************************)
Goes(to) == sup' = to

\* update returns to the main loop.
Done == Goes("tick") /\ plan' = None

\* A restart, a crash, or an update without a request: core is started as it is.
Restarts ==
    /\ sup = "tick" /\ core.at = "off"
    /\ core.exit = "update" => request = None
    /\ Started
    /\ UNCHANGED <<disk, request, result, sup, plan, spent>>

\* Mutant of TakeRequest: the request is left for the next time.
TakeRequestAgain ==
    /\ sup = "tick" /\ core.at = "off" /\ core.exit = "update"
    /\ request # None
    /\ plan' = [task |-> request.task, from |-> request.from, to |-> request.to,
                found |-> [code |-> code, deps |-> deps, schema |-> db.schema],
                saved |-> None, bad |-> FALSE]
    /\ Goes("check")
    /\ UNCHANGED <<disk, files, core, spent>>

\* read_request removes the request before anything is done with it.
TakeRequest ==
    /\ sup = "tick" /\ core.at = "off" /\ core.exit = "update"
    /\ request # None
    /\ request' = None
    /\ plan' = [task |-> request.task, from |-> request.from, to |-> request.to,
                found |-> [code |-> code, deps |-> deps, schema |-> db.schema],
                saved |-> None, bad |-> FALSE]
    /\ Goes("check")
    /\ UNCHANGED <<disk, result, health, core, spent>>

Says(status, ok) ==
    result' = [task |-> plan.task, status |-> status, from |-> plan.from, to |-> plan.to, ok |-> ok]

\* HEAD moved, the tree is not clean or the backup cannot be made: core comes back first,
\* the result is written after that.
GivesUp ==
    /\ sup \in {"check", "backup"}
    /\ Started
    /\ Goes("unchanged")
    /\ UNCHANGED <<disk, request, result, plan, spent>>

\* Mutant of Unchanged: an update that changed nothing says nothing.
UnchangedSilent ==
    /\ sup = "unchanged"
    /\ Done
    /\ UNCHANGED <<disk, files, core, spent>>

Unchanged ==
    /\ sup = "unchanged"
    /\ Says("rolled_back", "yes")
    /\ Done
    /\ UNCHANGED <<disk, request, health, core, spent>>

ChecksOut ==
    /\ sup = "check" /\ code = plan.from
    /\ \E next \in {"backup", "reset"} : Goes(next)       \* reset: not a fast-forward
    /\ UNCHANGED <<disk, files, core, plan, spent>>

Backup ==
    /\ sup = "backup"
    /\ plan' = [plan EXCEPT !.saved = db]
    /\ Goes("checkout")
    /\ UNCHANGED <<disk, files, core, spent>>

Checkout ==
    /\ sup = "checkout"
    /\ \/ /\ code' = plan.to
          /\ spent' = [spent EXCEPT !.merged[plan.task] = @ + 1]
          /\ Goes("dependencies")
       \/ Goes("reset") /\ UNCHANGED <<remote, code, spent>>
    /\ UNCHANGED <<remote, deps, db, files, core, plan>>

\* uv sync puts in the packages of the checkout, or stops somewhere on the way.
Synced(ok) == IF ok THEN deps' = code ELSE deps' \in {deps, Torn}

Dependencies ==
    /\ sup = "dependencies"
    /\ \E ok \in BOOLEAN : /\ Synced(ok)
                           /\ Goes(IF ok THEN "preflight" ELSE "reset")
    /\ UNCHANGED <<remote, code, db, files, core, plan, spent>>

\* Mutant of Preflight: the result is final before the new version has been seen running.
PreflightSaysUpdated ==
    /\ sup = "preflight"
    /\ \/ /\ Says("updated", "unknown")
          /\ Started
          /\ Goes("proving")
       \/ Goes("reset") /\ UNCHANGED <<result, health, core>>
    /\ UNCHANGED <<disk, request, plan, spent>>

\* core.bootstrap --check and the unit tests; then the new version is started.
Preflight ==
    /\ sup = "preflight"
    /\ \/ /\ Says("pending_health", "unknown")
          /\ Started
          /\ Goes("proving")
       \/ Goes("reset") /\ UNCHANGED <<result, health, core>>
    /\ UNCHANGED <<disk, request, plan, spent>>

Healthy(commit) == core.at = "up" /\ health = commit

Proved ==
    /\ sup = "proving"
    /\ Healthy(plan.to)
    /\ Says("updated", "unknown")
    /\ Done
    /\ UNCHANGED <<disk, request, health, core, spent>>

\* Mutant of NotProved: the new version is left running while the rollback begins.
NotProvedNotStopped ==
    /\ sup = "proving"
    /\ ~Healthy(plan.to)
    /\ Goes("reset")
    /\ UNCHANGED <<disk, files, core, plan, spent>>

\* It exited, whatever for, or it did not report this commit in time; it is stopped.
NotProved ==
    /\ sup = "proving"
    /\ ~Healthy(plan.to)
    /\ Gone("stop")
    /\ Goes("reset")
    /\ UNCHANGED <<disk, files, plan, spent>>

(***************************************************************************)
(* rollback: each part that fails is remembered and the rest goes on.      *)
(***************************************************************************)
Failing(bad) == plan' = [plan EXCEPT !.bad = @ \/ bad]

\* git reset --hard
Reset ==
    /\ sup = "reset"
    /\ \E ok \in BOOLEAN : /\ code' = IF ok THEN plan.from ELSE code
                           /\ Failing(~ok /\ code # plan.from)
    /\ Goes("resync")
    /\ UNCHANGED <<remote, deps, db, files, core, spent>>

Resync ==
    /\ sup = "resync"
    /\ \E ok \in BOOLEAN : Synced(ok) /\ Failing(~ok)
    /\ Goes("redb")
    /\ UNCHANGED <<remote, code, db, files, core, spent>>

\* Mutant of RestoreDb: a schema that changed is left to the old version.
RestoreNever ==
    /\ sup = "redb"
    /\ Says("rolled_back", "unknown")
    /\ Started
    /\ Goes("reproving")
    /\ UNCHANGED <<disk, request, plan, spent>>

\* The database is put back only if its schema has changed; then the result, then core.
RestoreDb ==
    /\ sup = "redb"
    /\ IF plan.saved # None /\ db.schema # plan.found.schema
       THEN \E ok \in BOOLEAN : /\ db' = IF ok THEN plan.saved ELSE db
                                /\ Failing(~ok)
       ELSE UNCHANGED <<db, plan>>
    /\ Says("rolled_back", "unknown")
    /\ Started
    /\ Goes("reproving")
    /\ UNCHANGED <<remote, code, deps, request, spent>>

\* The old version is waited for in the same way, but whatever came up is left running: where the
\* reset failed, that is the new version.
RolledBack ==
    /\ sup = "reproving"
    /\ \/ Healthy(plan.from) /\ Says("rolled_back", IF plan.bad THEN "no" ELSE "yes")
       \/ ~Healthy(plan.from) /\ Says("rolled_back", "no")
    /\ Done
    /\ UNCHANGED <<disk, request, health, core, spent>>

(***************************************************************************)
(* The power fails: core and the supervisor are gone, packages and the     *)
(* database may be caught in the middle of being replaced.                 *)
(***************************************************************************)
PowerFails ==
    /\ sup # "off"
    /\ PowerOff({})
    /\ deps' \in IF sup \in {"dependencies", "resync"} THEN {deps, Torn} ELSE {deps}
    /\ db' \in IF sup = "redb" /\ plan.saved # None /\ db.schema # plan.found.schema
               THEN {db, [db EXCEPT !.schema = Unreadable]} ELSE {db}
    /\ UNCHANGED <<remote, code, files>>

\* The autostart brings the supervisor back, and it starts core.
PowerBack ==
    /\ sup = "off"
    /\ Started
    /\ Goes("tick")
    /\ UNCHANGED <<disk, request, result, plan, spent>>

TaskNext == \E t \in Tasks : \/ AskUpdate(t) \/ Check(t) \/ Refuse(t)
                             \/ Approve(t) \/ ApproveCutShort(t)
                             \/ HandOver(t) \/ Waits(t) \/ Report(t)
CoreNext == CoreUp \/ CoreDies \/ OwnerRestarts \/ OtherWork
SupervisorNext == \/ Restarts \/ TakeRequest \/ GivesUp \/ Unchanged \/ ChecksOut
                  \/ Backup \/ Checkout \/ Dependencies \/ Preflight
                  \/ Proved \/ NotProved
                  \/ Reset \/ Resync \/ RestoreDb \/ RolledBack \/ PowerBack

UpdateNext == Push \/ TaskNext \/ CoreNext \/ SupervisorNext \/ PowerFails

UpdateSpec == UpdateInit /\ [][UpdateNext]_vars

\* The supervisor's loop and core's start go on by themselves, and so does the lane.
FairUpdateSpec ==
    /\ UpdateSpec
    /\ WF_vars(SupervisorNext) /\ WF_vars(CoreUp)
    /\ \A t \in Tasks : WF_vars(Check(t)) /\ WF_vars(HandOver(t)) /\ WF_vars(Report(t))

(***************************************************************************)
(* Properties.                                                             *)
(***************************************************************************)
Schemas == {SchemaOf[c] : c \in Commits} \cup {Unreadable}
Outcomes == {"pending_health", "updated", "rolled_back"}
RowType == [step : Steps, from : Commits, to : Commits,
            said : {"", "up to date", "not done", "cancelled"} \cup Outcomes]
DbType == [schema : Schemas, row : [Tasks -> RowType], work : {"todo", "done"}]
RequestType == [task : Tasks, from : Commits, to : Commits]
ResultType == [task : Tasks, status : Outcomes,
               from : Commits, to : Commits, ok : {"unknown", "yes", "no"}]
FoundType == [code : Commits, deps : Commits \cup {Torn}, schema : Schemas]
PlanType == [task : Tasks, from : Commits, to : Commits, found : FoundType,
             saved : DbType \cup {None}, bad : BOOLEAN]

\* Every file, the database and the plan in memory have their form at every step, and the
\* supervisor works on a plan exactly while it applies or rolls back.
UpdateTypeOK ==
    /\ remote \in Commits /\ code \in Commits /\ deps \in Commits \cup {Torn}
    /\ db \in DbType
    /\ request \in RequestType \cup {None}
    /\ result \in ResultType \cup {None}
    /\ health \in Commits \cup {NoHealth}
    /\ core \in [at : {"off", "loading", "up"}, exit : {"", "crash", "restart", "update", "stop"},
                 ver : Commits, safe : BOOLEAN, lane : Tasks \cup {0}]
    /\ sup \in Phases
    /\ plan \in PlanType \cup {None}
    /\ plan = None <=> sup \in {"tick", "off"}
    /\ spent \in [exits : 0..MaxExits, power : 0..MaxPower, merged : [Tasks -> Nat]]

\* read_request: "one attempt per approval".  Whatever is retried, restarted or lost, a
\* request that was written once is merged at most once.
OneAttemptPerApproval == \A t \in Tasks : spent.merged[t] <= 1

\* Once a task has said "updated", the checkout never falls behind the commit it named: no
\* rollback, of that update or of a later one, takes it back.
UpdatedStaysInstalled ==
    \A t \in Tasks : db.row[t].said = "updated" => code >= db.row[t].to

\* The code and the packages are never replaced while a core that loaded them is running.
NothingReplacedUnderCore ==
    [][(code' # code \/ deps' # deps) => core.at = "off"]_vars

\* A rollback that calls itself complete has left the code and the schema as the update
\* found them, with packages that belong to that code or were never touched.
RolledBackIsComplete ==
    [][(result' # result /\ result'.ok = "yes") =>
         /\ code' = plan.found.code /\ db'.schema = plan.found.schema
         /\ deps' \in {code', plan.found.deps}]_vars

\* What a task told the owner of its update it has told for good.  A rollback that puts back the
\* database of before the update takes no report with it, so the row and what the owner read
\* agree, and no outcome is reported a second time.
ReportStands ==
    [][\A t \in Tasks : db.row[t].said \in Outcomes => db'.row[t] = db.row[t]]_vars

\* A task that has handed over is orphaned when neither its request, nor an update in
\* progress, nor a result is left of it: every start of core then ends in EXIT_UPDATE at once.
Orphan(t) == /\ db.row[t].step = "result"
             /\ t \notin {request.task, result.task, plan.task}

\* That takes a power failure while its update has no result yet, another update that writes
\* over its request or its result, or a rollback whose database forgets that it was cancelled.
OrphanedForCause ==
    [][\A t \in Tasks : ~Orphan(t) /\ Orphan(t)' =>
         \/ spent'.power > spent.power /\ plan.task = t
         \/ request.task = t /\ request'.task \notin {t, None.task}
         \/ result.task = t /\ result'.task # t
         \/ sup = "redb" /\ db.row[t].said = "cancelled"]_vars

\* An update the owner approved is reported by its task, if from some time on the packages
\* belong to the code, core has its database and no task is orphaned.
Working == deps = code /\ ~core.safe /\ \A t \in Tasks : ~Orphan(t)
UpdateIsReported ==
    \A t \in Tasks : <>[]Working => [](db.row[t].step = "result" => <>(db.row[t].step # "result"))

\* core/lifecycle.py: the health file is written "once it is fully up (Telegram, DB, skills)",
\* "the supervisor's proof that a (new) version really started".
UpdatedHasDatabase ==
    [][(result' # result /\ result'.status = "updated") => ~core.safe]_vars
=============================================================================
