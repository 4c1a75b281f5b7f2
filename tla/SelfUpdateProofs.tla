--------------------------- MODULE SelfUpdateProofs ---------------------------
(***************************************************************************)
(* Theorems about /update and its rollback, for any number of tasks,       *)
(* commits, schemas, exits and power failures.                             *)
(***************************************************************************)
EXTENDS SelfUpdateTransaction, TLAPS

\* Where the supervisor has stopped core and works on the checkout, the packages or the database.
Applying == {"check", "backup", "checkout", "dependencies", "preflight", "reset", "resync", "redb"}

CoreStopped == sup \in Applying \cup {"off"} => core.at = "off"

\* A request that waits, or was taken and is not applied yet, has not been merged.
NotMergedYet ==
    /\ OneAttemptPerApproval
    /\ request # None => spent.merged[request.task] = 0
    /\ sup \in {"check", "backup", "checkout"} => request = None /\ spent.merged[plan.task] = 0

\* Core runs the code of the checkout, and its tasks run on the schema of that code.
CoreKnows ==
    /\ core.at # "off" => core.ver = code
    /\ Runs => db.schema = SchemaOf[code]
    /\ core.at = "off" /\ core.exit = "update" /\ sup \notin Applying => db.schema = SchemaOf[code]

\* What an update found is what its rollback gets back to, part by part.
KeepsFound ==
    /\ plan.found.schema = SchemaOf[plan.found.code]
    /\ sup \in {"check", "backup", "checkout", "unchanged"} =>
         code = plan.found.code /\ db.schema = plan.found.schema /\ deps = plan.found.deps
    /\ sup \notin {"check", "unchanged"} => plan.from = plan.found.code
    /\ plan.saved # None => plan.saved.schema = plan.found.schema
    /\ sup \in {"checkout", "dependencies", "preflight", "proving"} => plan.saved # None
    /\ plan.saved = None /\ sup \in Applying => db.schema = plan.found.schema
    /\ sup \in {"resync", "redb", "reproving"} /\ ~plan.bad => code = plan.from
    /\ sup \in {"redb", "reproving"} /\ ~plan.bad => deps = code
    /\ sup = "reproving" /\ ~plan.bad => db.schema = plan.found.schema

Inv == /\ UpdateTypeOK /\ CoreStopped /\ NotMergedYet /\ CoreKnows
       /\ plan # None => KeepsFound

\* What was installed, or is to be, comes after what was there, and the remote branch has it.
Forward(u) == u.from <= u.to /\ u.to <= remote

RowsHold(rows) ==
    \A t \in Tasks : Forward(rows[t]) /\ (rows[t].said = "updated" => rows[t].to <= Base)

\* What is said to be installed, in a row, in the backup or in the result, is not beyond Base.
Installed ==
    /\ code <= remote /\ Base <= code
    /\ RowsHold(db.row)
    /\ request # None => Forward(request)
    /\ result # None => Forward(result) /\ (result.status = "updated" => result.to <= Base)
    /\ plan # None => Forward(plan) /\ (plan.saved # None => RowsHold(plan.saved.row))
    /\ sup \in {"dependencies", "preflight", "proving"} => code = plan.to

-----------------------------------------------------------------------------
(* Parts of the steps. *)

CoreType == [at : {"off", "loading", "up"}, exit : {"", "crash", "restart", "update", "stop"},
             ver : Commits, safe : BOOLEAN, lane : Tasks \cup {0}]
SpentType == [exits : 0..MaxExits, power : 0..MaxPower, merged : [Tasks -> Nat]]

LEMMA NoTask == \A t \in Tasks : t \in Nat /\ t # 0 /\ t # None.task
  BY UpdateAssumption DEF None

LEMMA Starts ==
    ASSUME Started, code \in Commits
    PROVE  /\ core' \in CoreType /\ health' = NoHealth
           /\ core'.at = "loading" /\ core'.exit = "" /\ core'.ver = code /\ ~core'.safe
  BY DEF Started, Loaded, CoreType

LEMMA Leaves ==
    ASSUME NEW why \in {"crash", "restart", "update", "stop"}, Gone(why)
    PROVE  core' \in CoreType /\ core'.at = "off" /\ core'.exit = why
<1>1. 0 \in Commits
  BY UpdateAssumption DEF Commits
<1> QED  BY <1>1 DEF Gone, CoreType

LEMMA RowStep ==
    ASSUME db \in DbType, NEW t \in Tasks, NEW new \in RowType, Row(t, new)
    PROVE  db' \in DbType /\ db'.schema = db.schema /\ db'.work = db.work
  BY DEF DbType, Row

LEMMA EndedStep ==
    ASSUME db \in DbType, NEW t \in Tasks,
           NEW how \in {"up to date", "not done", "cancelled", "pending_health", "updated", "rolled_back"},
           Ended(t, how)
    PROVE  db' \in DbType /\ db'.schema = db.schema /\ db'.work = db.work
<1>1. [db.row[t] EXCEPT !.step = "ended", !.said = how] \in RowType
  BY DEF Outcomes, DbType, RowType, Steps
<1> QED  BY <1>1, RowStep DEF Ended

LEMMA ReportsStep ==
    ASSUME db \in DbType, result \in ResultType, NEW t \in Tasks, Reports(t)
    PROVE  db' \in DbType /\ db'.schema = db.schema /\ db'.work = db.work /\ InLane(0)
<1> DEFINE r == [step |-> "ended", from |-> result.from, to |-> result.to, said |-> result.status]
<1>1. r \in RowType
  BY DEF RowType, ResultType, Steps
<1>2. Row(t, r) /\ InLane(0)
  BY DEF Reports
<1> HIDE DEF r
<1> QED  BY <1>1, <1>2, RowStep

LEMMA PowerStep ==
    ASSUME spent \in SpentType, NEW S \in SUBSET Tasks, PowerOff(S)
    PROVE  /\ spent' \in SpentType /\ core' \in CoreType
           /\ core'.at = "off" /\ core'.exit = "crash" /\ sup' = "off" /\ plan' = None
           /\ \A t \in Tasks : spent'.merged[t] = IF t \in S THEN 0 ELSE spent.merged[t]
           /\ spent'.exits = spent.exits
<1>1. Gone("crash") /\ spent.power < MaxPower
  BY DEF PowerOff
<1>2. spent.power + 1 \in 0..MaxPower
  BY <1>1, UpdateAssumption, SMTT(30) DEF SpentType
<1>3. spent' \in SpentType
  BY <1>2 DEF PowerOff, SpentType
<1>4. \A t \in Tasks : spent'.merged[t] = IF t \in S THEN 0 ELSE spent.merged[t]
  BY DEF PowerOff, SpentType
<1> QED  BY <1>1, <1>3, <1>4, Leaves DEF PowerOff, SpentType

\* A task of the main lane, or the owner about it: core runs, and the supervisor does not.
LEMMA TaskFrame ==
    ASSUME Inv, Runs, UNCHANGED <<remote, code, deps, request, result, health, sup, plan, spent>>,
           db' \in DbType, db'.schema = db.schema,
           core' \in CoreType, core'.at = "up" => core'.ver = core.ver,
           core'.at \in {"up", "off"}
    PROVE  Inv'
<1>1. UpdateTypeOK'
  BY DEF Inv, UpdateTypeOK, CoreType
<1>2. sup \notin Applying \cup {"off"} /\ core.at = "up" /\ ~core.safe
  BY DEF Inv, CoreStopped, Runs
<1>3. CoreStopped' /\ NotMergedYet'
  BY <1>2 DEF Inv, CoreStopped, NotMergedYet, OneAttemptPerApproval
<1>4. CoreKnows'
  BY <1>2 DEF Inv, CoreKnows, Runs
<1>5. plan' # None => KeepsFound'
  BY <1>2 DEF Inv, KeepsFound
<1> QED  BY <1>1, <1>3, <1>4, <1>5 DEF Inv

-----------------------------------------------------------------------------
(* The task and core. *)

LEMMA TaskSteps ==
    ASSUME Inv, NEW t \in Tasks,
           AskUpdate(t) \/ Check(t) \/ Refuse(t) \/ HandOver(t) \/ Waits(t) \/ Report(t)
    PROVE  Inv'
<1>1. /\ Runs /\ db \in DbType /\ core \in CoreType /\ db.row[t] \in RowType
      /\ UNCHANGED <<remote, code, deps, request, result, health, sup, plan, spent>>
  BY DEF Inv, UpdateTypeOK, CoreType, DbType, AskUpdate, Check, Refuse, HandOver, Waits, Report,
         Turn, disk, files
<1>2. ASSUME InLane(t) \/ InLane(0) \/ InLane(core.lane) \/ core' = core
      PROVE  core' \in CoreType /\ core'.at = "up" /\ core'.ver = core.ver
  BY <1>1, <1>2 DEF InLane, CoreType, Runs
<1>3. CASE AskUpdate(t)
  <2>1. [db.row[t] EXCEPT !.step = "check"] \in RowType
    BY <1>1 DEF RowType, Steps
  <2>2. db' \in DbType /\ db'.schema = db.schema
    BY <1>1, <1>3, <2>1, RowStep DEF AskUpdate
  <2> QED  BY <1>1, <1>2, <1>3, <2>2, TaskFrame DEF AskUpdate
<1>4. CASE Check(t)
  <2>1. [step |-> "approve", from |-> code, to |-> remote, said |-> ""] \in RowType
    BY DEF Inv, UpdateTypeOK, RowType, Steps
  <2>2. db' \in DbType /\ db'.schema = db.schema
    BY <1>1, <1>4, <2>1, RowStep, EndedStep DEF Check
  <2> QED  BY <1>1, <1>2, <1>4, <2>2, TaskFrame DEF Check
<1>5. CASE Refuse(t)
  <2>1. db' \in DbType /\ db'.schema = db.schema
    BY <1>1, <1>5, EndedStep DEF Refuse
  <2>2. InLane(0) \/ InLane(core.lane)
    BY <1>5 DEF Refuse
  <2> QED  BY <1>1, <1>2, <2>1, <2>2, TaskFrame
<1>6. CASE HandOver(t)
  <2>1. Gone("update") /\ db' = db
    BY <1>6 DEF HandOver, disk
  <2> QED  BY <1>1, <2>1, Leaves, TaskFrame
<1>7. CASE Waits(t)
  <2>1. InLane(t) /\ db' = db
    BY <1>7 DEF Waits, disk
  <2> QED  BY <1>1, <1>2, <2>1, TaskFrame
<1>8. CASE Report(t)
  <2>1. Reports(t) /\ result \in ResultType
    BY <1>8, NoTask DEF Report, Inv, UpdateTypeOK
  <2>2. db' \in DbType /\ db'.schema = db.schema /\ InLane(0)
    BY <1>1, <2>1, ReportsStep
  <2> QED  BY <1>1, <1>2, <2>2, TaskFrame
<1> QED  BY <1>3, <1>4, <1>5, <1>6, <1>7, <1>8

LEMMA ApproveStep ==
    ASSUME Inv, NEW t \in Tasks, Approve(t)
    PROVE  Inv'
<1>1. /\ Runs /\ Requests(t) /\ Row(t, [db.row[t] EXCEPT !.step = "result"]) /\ InLane(t)
      /\ spent' = [spent EXCEPT !.merged[t] = 0]
      /\ UNCHANGED <<remote, code, deps, result, health, sup, plan>>
  BY DEF Approve, Turn
<1>2. db \in DbType /\ core \in CoreType /\ db.row[t] \in RowType /\ spent \in SpentType
  BY DEF Inv, UpdateTypeOK, CoreType, DbType, SpentType
<1>3. [db.row[t] EXCEPT !.step = "result"] \in RowType
  BY <1>2 DEF RowType, Steps
<1>4. db' \in DbType /\ db'.schema = db.schema
  BY <1>1, <1>2, <1>3, RowStep
<1>5. core' \in CoreType /\ core'.at = "up" /\ core'.ver = core.ver
  BY <1>1, <1>2 DEF InLane, CoreType, Runs
<1>6. request' \in RequestType /\ request'.task = t
  BY <1>1, <1>2 DEF Requests, RequestType, RowType
<1>7. /\ spent' \in SpentType /\ spent'.merged[t] = 0
      /\ \A u \in Tasks : u # t => spent'.merged[u] = spent.merged[u]
  BY <1>1, <1>2 DEF SpentType
<1>8. UpdateTypeOK'
  BY <1>1, <1>4, <1>5, <1>6, <1>7 DEF Inv, UpdateTypeOK, CoreType, SpentType
<1>9. sup \notin Applying \cup {"off"} /\ core.at = "up" /\ ~core.safe
  BY <1>1 DEF Inv, CoreStopped, Runs
<1>10. CoreStopped'
  BY <1>1, <1>9 DEF CoreStopped
<1>11. NotMergedYet'
  BY <1>1, <1>6, <1>7, <1>9 DEF Inv, NotMergedYet, OneAttemptPerApproval, Applying
<1>12. CoreKnows'
  BY <1>1, <1>4, <1>5, <1>9 DEF Inv, CoreKnows, Runs
<1>13. plan' # None => KeepsFound'
  BY <1>1, <1>4, <1>9 DEF Inv, KeepsFound
<1> QED  BY <1>8, <1>10, <1>11, <1>12, <1>13 DEF Inv

LEMMA ApproveCutShortStep ==
    ASSUME Inv, NEW t \in Tasks, ApproveCutShort(t)
    PROVE  Inv'
<1>1. /\ Requests(t) /\ PowerOff({t}) /\ UNCHANGED <<remote, code, deps, db, result, health>>
  BY DEF ApproveCutShort, disk
<1>2. db.row[t] \in RowType /\ spent \in SpentType
  BY DEF Inv, UpdateTypeOK, DbType, SpentType
<1>3. request' \in RequestType /\ request'.task = t
  BY <1>1, <1>2 DEF Requests, RequestType, RowType
<1>4. /\ spent' \in SpentType /\ core' \in CoreType
      /\ core'.at = "off" /\ core'.exit = "crash" /\ sup' = "off" /\ plan' = None
      /\ \A u \in Tasks : spent'.merged[u] = IF u \in {t} THEN 0 ELSE spent.merged[u]
  BY <1>1, <1>2, PowerStep
<1>5. UpdateTypeOK'
  BY <1>1, <1>3, <1>4 DEF Inv, UpdateTypeOK, CoreType, SpentType, Phases
<1>6. CoreStopped' /\ CoreKnows'
  BY <1>1, <1>4 DEF CoreStopped, CoreKnows, Runs
<1>7. NotMergedYet'
  BY <1>3, <1>4 DEF Inv, NotMergedYet, OneAttemptPerApproval
<1> QED  BY <1>4, <1>5, <1>6, <1>7 DEF Inv

LEMMA CoreSteps ==
    ASSUME Inv, CoreNext \/ Push
    PROVE  Inv'
<1>1. /\ UNCHANGED <<code, deps, request, result, sup, plan>>
      /\ db \in DbType /\ core \in CoreType /\ spent \in SpentType /\ code \in Commits
  BY DEF CoreNext, CoreUp, CoreDies, OwnerRestarts, OtherWork, Push, disk, files, Inv, UpdateTypeOK,
         CoreType, SpentType
<1>2. CASE Push
  <2>1. /\ remote' = remote + 1 /\ remote < Newest /\ remote \in Commits
        /\ UNCHANGED <<health, db, core, spent>>
    BY <1>2 DEF Push, files, Inv, UpdateTypeOK
  <2>2. remote' \in Commits
    BY <2>1, UpdateAssumption DEF Commits
  <2>3. UpdateTypeOK'
    BY <1>1, <2>1, <2>2, ZenonT(40) DEF Inv, UpdateTypeOK
  <2>4. CoreStopped' /\ NotMergedYet' /\ CoreKnows' /\ (plan' # None => KeepsFound')
    BY <1>1, <2>1 DEF Inv, CoreStopped, NotMergedYet, OneAttemptPerApproval, CoreKnows, Runs, KeepsFound
  <2> QED  BY <2>3, <2>4 DEF Inv
<1>3. CASE OtherWork
  <2>1. Runs /\ UNCHANGED <<remote, health, core, spent>> /\ db' = [db EXCEPT !.work = "done"]
    BY <1>3 DEF OtherWork, files
  <2>2. db' \in DbType /\ db'.schema = db.schema
    BY <1>1, <2>1 DEF DbType
  <2> QED  BY <1>1, <2>1, <2>2, TaskFrame DEF Runs
<1>4. CASE CoreDies \/ OwnerRestarts
  <2>1. PICK why \in {"crash", "restart"} :
           /\ Gone(why) /\ UNCHANGED <<remote, health, db>>
           /\ \/ spent' = spent
              \/ spent.exits < MaxExits /\ spent' = [spent EXCEPT !.exits = @ + 1]
    BY <1>4 DEF CoreDies, OwnerRestarts, disk, files
  <2>2. core' \in CoreType /\ core'.at = "off" /\ core'.exit = why
    BY <2>1, Leaves
  <2>3. spent' \in SpentType /\ spent'.merged = spent.merged
    <3>1. CASE spent' = spent
      BY <1>1, <3>1
    <3>2. CASE spent.exits < MaxExits /\ spent' = [spent EXCEPT !.exits = @ + 1]
      <4>1. spent.exits + 1 \in 0..MaxExits
        BY <1>1, <3>2, UpdateAssumption DEF SpentType
      <4> QED  BY <1>1, <3>2, <4>1 DEF SpentType
    <3> QED  BY <2>1, <3>1, <3>2
  <2>4. UpdateTypeOK'
    BY <1>1, <2>1, <2>2, <2>3 DEF Inv, UpdateTypeOK, CoreType, SpentType
  <2>5. CoreStopped' /\ NotMergedYet' /\ CoreKnows' /\ (plan' # None => KeepsFound')
    BY <1>1, <2>1, <2>2, <2>3
       DEF Inv, CoreStopped, NotMergedYet, OneAttemptPerApproval, CoreKnows, Runs, KeepsFound
  <2> QED  BY <2>4, <2>5 DEF Inv
<1>5. CASE CoreUp
  <2>1. /\ core.at = "loading" /\ core.ver = code /\ health' = code
        /\ UNCHANGED <<remote, spent>>
        /\ \/ db' = [db EXCEPT !.schema = SchemaOf[code]] /\ core' = [core EXCEPT !.at = "up"]
           \/ core' = [core EXCEPT !.at = "up", !.safe = TRUE] /\ db' = db
    BY <1>5 DEF CoreUp, Inv, CoreKnows
  <2>2. SchemaOf[code] \in Schemas
    BY <1>1 DEF Schemas
  <2>3. /\ db' \in DbType /\ db'.schema \in {db.schema, SchemaOf[code]}
        /\ core' \in CoreType /\ core'.at = "up" /\ core'.ver = code
        /\ core'.safe \/ db'.schema = SchemaOf[code]
    BY <1>1, <2>1, <2>2 DEF DbType, CoreType
  <2>4. UpdateTypeOK'
    BY <1>1, <2>1, <2>3 DEF Inv, UpdateTypeOK, CoreType
  <2>5. sup \notin Applying \cup {"off"}
    BY <2>1 DEF Inv, CoreStopped
  <2>6. CoreStopped' /\ NotMergedYet' /\ CoreKnows'
    BY <1>1, <2>1, <2>3, <2>5
       DEF Inv, CoreStopped, NotMergedYet, OneAttemptPerApproval, CoreKnows, Runs
  <2>7. plan' # None => KeepsFound'
    BY <1>1, <2>3, <2>5 DEF Inv, KeepsFound, Applying
  <2> QED  BY <2>4, <2>6, <2>7 DEF Inv
<1> QED  BY <1>2, <1>3, <1>4, <1>5 DEF CoreNext

-----------------------------------------------------------------------------
(* The supervisor. *)

\* What the supervisor finds at every step.
LEMMA Finds ==
    ASSUME Inv
    PROVE  /\ db \in DbType /\ core \in CoreType /\ spent \in SpentType /\ deps \in Commits \cup {Torn}
           /\ code \in Commits /\ remote \in Commits
           /\ request \in RequestType \cup {None} /\ result \in ResultType \cup {None}
           /\ health \in Commits \cup {NoHealth}
           /\ plan = None <=> sup \in {"tick", "off"}
           /\ sup \notin {"tick", "off"} => plan \in PlanType /\ plan # None /\ KeepsFound
  BY DEF Inv, UpdateTypeOK, CoreType, SpentType

LEMMA ResultStep ==
    ASSUME plan \in PlanType, NEW status \in {"pending_health", "updated", "rolled_back"},
           NEW ok \in {"unknown", "yes", "no"}, Says(status, ok)
    PROVE  result' \in ResultType /\ result'.ok = ok
  BY DEF Outcomes, Says, ResultType, PlanType

LEMMA FailingStep ==
    ASSUME plan \in PlanType, NEW bad \in BOOLEAN, Failing(bad)
    PROVE  /\ plan' \in PlanType /\ plan' # None
           /\ plan'.from = plan.from /\ plan'.found = plan.found /\ plan'.saved = plan.saved
           /\ plan'.task = plan.task /\ plan'.to = plan.to
           /\ plan'.bad <=> plan.bad \/ bad
<1>1. plan' = [plan EXCEPT !.bad = @ \/ bad]
  BY DEF Failing
<1>2. plan' \in PlanType
  BY <1>1 DEF PlanType
<1>3. plan' # None
  BY <1>2, NoTask DEF PlanType
<1>4. /\ plan'.from = plan.from /\ plan'.found = plan.found /\ plan'.saved = plan.saved
      /\ plan'.task = plan.task /\ plan'.to = plan.to
  BY <1>1 DEF PlanType
<1>5. plan'.bad <=> plan.bad \/ bad
  BY <1>1, Zenon DEF PlanType
<1> QED  BY <1>2, <1>3, <1>4, <1>5

\* Core is started, and the supervisor looks on.
LEMMA StartSteps ==
    ASSUME Inv, Restarts \/ PowerBack \/ GivesUp
    PROVE  Inv'
<1>1. /\ Started /\ UNCHANGED <<remote, code, deps, db, request, result, plan, spent>>
      /\ \/ sup \in {"tick", "off"} /\ sup' = "tick"
         \/ sup \in {"check", "backup"} /\ sup' = "unchanged"
  BY DEF Restarts, PowerBack, GivesUp, disk, Goes
<1>2. /\ core' \in CoreType /\ health' = NoHealth
      /\ core'.at = "loading" /\ core'.exit = "" /\ core'.ver = code /\ ~core'.safe
  BY <1>1, Starts, Finds
<1>3. UpdateTypeOK'
  BY <1>1, <1>2 DEF Inv, UpdateTypeOK, CoreType, Phases
<1>4. CoreStopped' /\ NotMergedYet' /\ CoreKnows'
  BY <1>1, <1>2 DEF Inv, CoreStopped, NotMergedYet, OneAttemptPerApproval, CoreKnows, Runs, Applying
<1>5. plan' # None => KeepsFound'
  BY <1>1 DEF Inv, UpdateTypeOK, KeepsFound, Applying
<1> QED  BY <1>3, <1>4, <1>5 DEF Inv

LEMMA TakeRequestStep ==
    ASSUME Inv, TakeRequest
    PROVE  Inv'
<1>1. /\ sup = "tick" /\ core.at = "off" /\ core.exit = "update" /\ request # None
      /\ request' = None /\ sup' = "check"
      /\ plan' = [task |-> request.task, from |-> request.from, to |-> request.to,
                  found |-> [code |-> code, deps |-> deps, schema |-> db.schema],
                  saved |-> None, bad |-> FALSE]
      /\ UNCHANGED <<remote, code, deps, db, result, health, core, spent>>
  BY DEF TakeRequest, disk, Goes
<1>2. request \in RequestType
  BY <1>1, Finds
<1>3. [code |-> code, deps |-> deps, schema |-> db.schema] \in FoundType
  BY Finds DEF FoundType, DbType
<1>4. plan' \in PlanType
  BY <1>1, <1>2, <1>3 DEF PlanType, RequestType
<1>5. /\ plan' # None /\ plan'.task = request.task /\ plan'.saved = None
      /\ plan'.found.code = code /\ plan'.found.deps = deps /\ plan'.found.schema = db.schema
  <2>1. plan' # None
    BY <1>4, NoTask DEF PlanType
  <2> QED  BY <1>1, <2>1
<1>6. UpdateTypeOK'
  BY <1>1, <1>4, <1>5 DEF Inv, UpdateTypeOK, Phases
<1>7. db.schema = SchemaOf[code]
  BY <1>1 DEF Inv, CoreKnows, Applying
<1>8. CoreStopped' /\ NotMergedYet' /\ CoreKnows'
  BY <1>1, <1>5 DEF Inv, CoreStopped, NotMergedYet, OneAttemptPerApproval, CoreKnows, Runs, Applying
<1>9. KeepsFound'
  BY <1>1, <1>5, <1>7 DEF KeepsFound
<1> QED  BY <1>6, <1>8, <1>9 DEF Inv

\* A step between two phases of the work that leaves the disk and core alone.
LEMMA UntouchedSteps ==
    ASSUME Inv, ChecksOut \/ Backup
    PROVE  Inv'
<1>1. /\ UNCHANGED <<remote, code, deps, db, request, result, health, core, spent>>
      /\ \/ /\ sup = "check" /\ code = plan.from /\ plan' = plan /\ sup' \in {"backup", "reset"}
         \/ /\ sup = "backup" /\ plan' = [plan EXCEPT !.saved = db] /\ sup' = "checkout"
  BY DEF ChecksOut, Backup, disk, files, Goes
<1>2. /\ plan \in PlanType /\ plan # None /\ KeepsFound /\ db \in DbType
  BY <1>1, Finds
<1>3. db # None
  BY <1>2 DEF DbType, None
<1>4. /\ plan' \in PlanType
      /\ plan'.task = plan.task /\ plan'.from = plan.from /\ plan'.found = plan.found
      /\ plan'.bad = plan.bad
      /\ plan' = plan \/ plan'.saved = db
  BY <1>1, <1>2 DEF PlanType
<1>5. plan' # None
  BY <1>4, NoTask DEF PlanType
<1>6. UpdateTypeOK'
  BY <1>1, <1>4, <1>5, ZenonT(40) DEF Inv, UpdateTypeOK, Phases
<1>7. CoreStopped' /\ NotMergedYet' /\ CoreKnows'
  BY <1>1, <1>4 DEF Inv, CoreStopped, NotMergedYet, OneAttemptPerApproval, CoreKnows, Runs, Applying
<1>8. KeepsFound'
  <2>1. /\ code = plan.found.code /\ db.schema = plan.found.schema
        /\ plan.saved # None => plan.saved.schema = plan.found.schema
        /\ plan.found.schema = SchemaOf[plan.found.code]
        /\ sup = "backup" => plan.from = plan.found.code
    BY <1>1, <1>2 DEF KeepsFound
  <2>2. CASE sup = "check" /\ code = plan.from /\ plan' = plan /\ sup' \in {"backup", "reset"}
    BY <1>1, <1>2, <2>1, <2>2 DEF KeepsFound
  <2>3. CASE sup = "backup" /\ plan' = [plan EXCEPT !.saved = db] /\ sup' = "checkout"
    <3>1. plan'.saved = db
      BY <1>2, <2>3 DEF PlanType
    <3> QED  BY <1>1, <1>2, <1>3, <1>4, <2>1, <2>3, <3>1 DEF KeepsFound
  <2> QED  BY <1>1, <2>2, <2>3
<1> QED  BY <1>6, <1>7, <1>8 DEF Inv

LEMMA CheckoutStep ==
    ASSUME Inv, Checkout
    PROVE  Inv'
<1>1. /\ sup = "checkout" /\ UNCHANGED <<remote, deps, db, request, result, health, core, plan>>
      /\ \/ /\ code' = plan.to /\ spent' = [spent EXCEPT !.merged[plan.task] = @ + 1]
            /\ sup' = "dependencies"
         \/ code' = code /\ spent' = spent /\ sup' = "reset"
  BY DEF Checkout, files, Goes
<1>2. plan \in PlanType /\ plan # None /\ KeepsFound /\ spent \in SpentType /\ plan.task \in Tasks
  BY <1>1, Finds DEF PlanType
<1>3. request = None /\ spent.merged[plan.task] = 0
  BY <1>1 DEF Inv, NotMergedYet
<1>4. /\ spent' \in SpentType
      /\ \A t \in Tasks : spent'.merged[t] <= 1
  <2>1. \A t \in Tasks : spent.merged[t] <= 1 /\ spent.merged[t] \in Nat
    BY <1>2 DEF Inv, NotMergedYet, OneAttemptPerApproval, SpentType
  <2>2. CASE spent' = spent
    BY <1>2, <2>1, <2>2
  <2>3. CASE spent' = [spent EXCEPT !.merged[plan.task] = @ + 1]
    BY <1>2, <1>3, <2>1, <2>3 DEF SpentType
  <2> QED  BY <1>1, <2>2, <2>3
<1>5. code' \in Commits
  BY <1>1, <1>2, Finds DEF PlanType
<1>6. UpdateTypeOK'
  BY <1>1, <1>4, <1>5, ZenonT(40) DEF Inv, UpdateTypeOK, SpentType, Phases
<1>7. CoreStopped' /\ NotMergedYet' /\ CoreKnows'
  BY <1>1, <1>3, <1>4 DEF Inv, CoreStopped, NotMergedYet, OneAttemptPerApproval, CoreKnows, Runs, Applying
<1>8. KeepsFound'
  BY <1>1, <1>2 DEF KeepsFound, Applying
<1> QED  BY <1>6, <1>7, <1>8 DEF Inv

LEMMA SyncSteps ==
    ASSUME Inv, Dependencies \/ Resync
    PROVE  Inv'
<1>1. /\ UNCHANGED <<remote, code, db, request, result, health, core, spent>>
      /\ sup \in {"dependencies", "resync"}
  BY DEF Dependencies, Resync, files
<1>2. plan \in PlanType /\ plan # None /\ KeepsFound
  BY <1>1, Finds
<1>3. PICK ok \in BOOLEAN :
         /\ Synced(ok)
         /\ \/ sup = "dependencies" /\ plan' = plan /\ sup' \in {"preflight", "reset"}
            \/ sup = "resync" /\ Failing(~ok) /\ sup' = "redb"
  BY DEF Dependencies, Resync, Goes
<1>4. deps' \in Commits \cup {Torn} /\ (ok => deps' = code)
  BY <1>3, Finds DEF Synced
<1>5. /\ plan' \in PlanType /\ plan' # None
      /\ plan'.from = plan.from /\ plan'.found = plan.found /\ plan'.saved = plan.saved
      /\ plan'.task = plan.task
      /\ sup = "resync" /\ ~plan'.bad => ~plan.bad /\ ok
  BY <1>2, <1>3, FailingStep
<1>6. UpdateTypeOK'
  BY <1>1, <1>3, <1>4, <1>5, ZenonT(40) DEF Inv, UpdateTypeOK, Phases
<1>7. CoreStopped' /\ NotMergedYet' /\ CoreKnows'
  BY <1>1, <1>3, <1>5 DEF Inv, CoreStopped, NotMergedYet, OneAttemptPerApproval, CoreKnows, Runs, Applying
<1>8. KeepsFound'
  BY <1>1, <1>2, <1>3, <1>4, <1>5 DEF KeepsFound, Applying
<1> QED  BY <1>6, <1>7, <1>8 DEF Inv

LEMMA ResetStep ==
    ASSUME Inv, Reset
    PROVE  Inv'
<1>1. /\ UNCHANGED <<remote, deps, db, request, result, health, core, spent>>
      /\ sup = "reset" /\ sup' = "resync"
  BY DEF Reset, files, Goes
<1>2. plan \in PlanType /\ plan # None /\ KeepsFound
  BY <1>1, Finds
<1>3. PICK ok \in BOOLEAN : /\ code' = IF ok THEN plan.from ELSE code
                            /\ Failing(~ok /\ code # plan.from)
  BY DEF Reset
<1>4. code' \in Commits
  BY <1>2, <1>3, Finds DEF PlanType
<1>5. /\ plan' \in PlanType /\ plan' # None
      /\ plan'.from = plan.from /\ plan'.found = plan.found /\ plan'.saved = plan.saved
      /\ plan'.task = plan.task
      /\ ~plan'.bad => code' = plan.from
  <2>1. (~ok /\ code # plan.from) \in BOOLEAN
    OBVIOUS
  <2> QED  BY <1>2, <1>3, <2>1, FailingStep
<1>6. UpdateTypeOK'
  BY <1>1, <1>4, <1>5 DEF Inv, UpdateTypeOK, Phases
<1>7. CoreStopped' /\ NotMergedYet' /\ CoreKnows'
  BY <1>1, <1>5 DEF Inv, CoreStopped, NotMergedYet, OneAttemptPerApproval, CoreKnows, Runs, Applying
<1>8. KeepsFound'
  BY <1>1, <1>2, <1>5 DEF KeepsFound, Applying
<1> QED  BY <1>6, <1>7, <1>8 DEF Inv

LEMMA PreflightStep ==
    ASSUME Inv, Preflight
    PROVE  Inv'
<1>1. /\ sup = "preflight" /\ UNCHANGED <<remote, code, deps, db, request, plan, spent>>
      /\ \/ Says("pending_health", "unknown") /\ Started /\ sup' = "proving"
         \/ sup' = "reset" /\ UNCHANGED <<result, health, core>>
  BY DEF Preflight, disk, Goes
<1>2. plan \in PlanType /\ plan # None /\ KeepsFound
  BY <1>1, Finds
<1>3. CASE Says("pending_health", "unknown") /\ Started /\ sup' = "proving"
  <2>1. result' \in ResultType
    BY <1>2, <1>3, ResultStep
  <2>2. /\ core' \in CoreType /\ health' = NoHealth
        /\ core'.at = "loading" /\ core'.exit = "" /\ core'.ver = code /\ ~core'.safe
    BY <1>3, Starts, Finds
  <2>3. UpdateTypeOK'
    BY <1>1, <1>3, <2>1, <2>2 DEF Inv, UpdateTypeOK, CoreType, Phases
  <2>4. CoreStopped' /\ NotMergedYet' /\ CoreKnows'
    BY <1>1, <1>3, <2>2
       DEF Inv, CoreStopped, NotMergedYet, OneAttemptPerApproval, CoreKnows, Runs, Applying
  <2>5. KeepsFound'
    BY <1>1, <1>2, <1>3 DEF KeepsFound, Applying
  <2> QED  BY <2>3, <2>4, <2>5 DEF Inv
<1>4. CASE sup' = "reset" /\ UNCHANGED <<result, health, core>>
  <2>1. UpdateTypeOK'
    BY <1>1, <1>4 DEF Inv, UpdateTypeOK, Phases
  <2>2. CoreStopped' /\ NotMergedYet' /\ CoreKnows'
    BY <1>1, <1>4
       DEF Inv, CoreStopped, NotMergedYet, OneAttemptPerApproval, CoreKnows, Runs, Applying
  <2>3. KeepsFound'
    BY <1>1, <1>2, <1>4 DEF KeepsFound, Applying
  <2> QED  BY <2>1, <2>2, <2>3 DEF Inv
<1> QED  BY <1>1, <1>3, <1>4

LEMMA NotProvedStep ==
    ASSUME Inv, NotProved
    PROVE  Inv'
<1>1. /\ sup = "proving" /\ Gone("stop") /\ sup' = "reset"
      /\ UNCHANGED <<remote, code, deps, db, request, result, health, plan, spent>>
  BY DEF NotProved, disk, files, Goes
<1>2. core' \in CoreType /\ core'.at = "off" /\ core'.exit = "stop"
  BY <1>1, Leaves
<1>3. plan # None /\ KeepsFound
  BY <1>1, Finds
<1>4. UpdateTypeOK'
  BY <1>1, <1>2, <1>3 DEF Inv, UpdateTypeOK, CoreType, Phases
<1>5. CoreStopped' /\ NotMergedYet' /\ CoreKnows'
  BY <1>1, <1>2 DEF Inv, CoreStopped, NotMergedYet, OneAttemptPerApproval, CoreKnows, Runs, Applying
<1>6. KeepsFound'
  BY <1>1, <1>3 DEF KeepsFound, Applying
<1> QED  BY <1>4, <1>5, <1>6 DEF Inv

\* The result is written, and the supervisor is back in its main loop.
LEMMA DoneSteps ==
    ASSUME Inv, Unchanged \/ Proved \/ RolledBack
    PROVE  Inv'
<1>1. /\ UNCHANGED <<remote, code, deps, db, request, health, core, spent>>
      /\ sup \in {"unchanged", "proving", "reproving"} /\ sup' = "tick" /\ plan' = None
      /\ \E status \in {"updated", "rolled_back"}, ok \in {"unknown", "yes", "no"} : Says(status, ok)
  BY DEF Unchanged, Proved, RolledBack, disk, Done, Goes
<1>2. plan \in PlanType
  BY <1>1, Finds
<1>3. result' \in ResultType
  BY <1>1, <1>2, ResultStep
<1>4. UpdateTypeOK'
  BY <1>1, <1>3 DEF Inv, UpdateTypeOK, Phases
<1>5. CoreStopped' /\ NotMergedYet' /\ CoreKnows'
  BY <1>1 DEF Inv, CoreStopped, NotMergedYet, OneAttemptPerApproval, CoreKnows, Runs, Applying
<1> QED  BY <1>1, <1>4, <1>5 DEF Inv

LEMMA RestoreDbStep ==
    ASSUME Inv, RestoreDb
    PROVE  Inv'
<1>1. /\ sup = "redb" /\ sup' = "reproving" /\ Started /\ Says("rolled_back", "unknown")
      /\ UNCHANGED <<remote, code, deps, request, spent>>
  BY DEF RestoreDb, Goes
<1>2. plan \in PlanType /\ plan # None /\ KeepsFound /\ db \in DbType
  BY <1>1, Finds
<1>3. \/ /\ plan.saved # None /\ db.schema # plan.found.schema
         /\ \E ok \in BOOLEAN : db' = (IF ok THEN plan.saved ELSE db) /\ Failing(~ok)
      \/ /\ plan.saved = None \/ db.schema = plan.found.schema
         /\ db' = db /\ plan' = plan
  BY DEF RestoreDb
<1>4. /\ db' \in DbType /\ plan' \in PlanType /\ plan' # None
      /\ plan'.from = plan.from /\ plan'.found = plan.found /\ plan'.saved = plan.saved
      /\ plan'.task = plan.task
      /\ ~plan'.bad => ~plan.bad /\ db'.schema = plan.found.schema
  <2>1. CASE plan.saved # None /\ db.schema # plan.found.schema
    <3>1. PICK ok \in BOOLEAN : db' = (IF ok THEN plan.saved ELSE db) /\ Failing(~ok)
      BY <1>3, <2>1
    <3>2. /\ plan' \in PlanType /\ plan' # None
          /\ plan'.from = plan.from /\ plan'.found = plan.found /\ plan'.saved = plan.saved
          /\ plan'.task = plan.task
          /\ plan'.bad <=> plan.bad \/ ~ok
      BY <1>2, <3>1, FailingStep
    <3>3. plan.saved \in DbType /\ plan.saved.schema = plan.found.schema
      BY <1>2, <2>1 DEF PlanType, KeepsFound
    <3> QED  BY <1>2, <3>1, <3>2, <3>3
  <2>2. CASE ~(plan.saved # None /\ db.schema # plan.found.schema)
    <3>1. db' = db /\ plan' = plan
      BY <1>3, <2>2
    <3>2. db.schema = plan.found.schema
      BY <1>1, <1>2, <2>2 DEF KeepsFound, Applying
    <3> QED  BY <1>2, <3>1, <3>2
  <2> QED  BY <2>1, <2>2
<1>5. result' \in ResultType
  BY <1>1, <1>2, ResultStep
<1>6. /\ core' \in CoreType /\ health' = NoHealth
      /\ core'.at = "loading" /\ core'.exit = "" /\ core'.ver = code /\ ~core'.safe
  BY <1>1, Starts, Finds
<1>7. UpdateTypeOK'
  BY <1>1, <1>4, <1>5, <1>6 DEF Inv, UpdateTypeOK, CoreType, Phases
<1>8. CoreStopped' /\ NotMergedYet' /\ CoreKnows'
  BY <1>1, <1>6 DEF Inv, CoreStopped, NotMergedYet, OneAttemptPerApproval, CoreKnows, Runs, Applying
<1>9. KeepsFound'
  BY <1>1, <1>2, <1>4 DEF KeepsFound, Applying
<1> QED  BY <1>7, <1>8, <1>9 DEF Inv

LEMMA PowerFailsStep ==
    ASSUME Inv, PowerFails
    PROVE  Inv'
<1>1. /\ PowerOff({}) /\ UNCHANGED <<remote, code, request, result, health>>
      /\ deps' \in {deps, Torn} /\ db' \in {db, [db EXCEPT !.schema = Unreadable]}
  BY DEF PowerFails, files
<1>2. db' \in DbType /\ deps' \in Commits \cup {Torn}
  BY <1>1, Finds DEF DbType, Schemas
<1>3. /\ spent' \in SpentType /\ core' \in CoreType
      /\ core'.at = "off" /\ core'.exit = "crash" /\ sup' = "off" /\ plan' = None
      /\ \A u \in Tasks : spent'.merged[u] = IF u \in {} THEN 0 ELSE spent.merged[u]
  BY <1>1, PowerStep, Finds
<1>4. UpdateTypeOK'
  BY <1>1, <1>2, <1>3 DEF Inv, UpdateTypeOK, CoreType, SpentType, Phases
<1>5. CoreStopped' /\ CoreKnows'
  BY <1>3 DEF CoreStopped, CoreKnows, Runs
<1>6. NotMergedYet'
  BY <1>1, <1>3, Finds DEF Inv, NotMergedYet, OneAttemptPerApproval, RequestType
<1> QED  BY <1>3, <1>4, <1>5, <1>6 DEF Inv

-----------------------------------------------------------------------------
(* Every step, and the theorems. *)

LEMMA EveryStep ==
    ASSUME Inv, UpdateNext
    PROVE  Inv'
<1>1. CASE Push \/ CoreNext
  BY <1>1, CoreSteps
<1>2. CASE TaskNext
  BY <1>2, TaskSteps, ApproveStep, ApproveCutShortStep DEF TaskNext
<1>3. CASE SupervisorNext
  BY <1>3, StartSteps, TakeRequestStep, UntouchedSteps, CheckoutStep, SyncSteps, ResetStep,
     PreflightStep, NotProvedStep, DoneSteps, RestoreDbStep DEF SupervisorNext
<1>4. CASE PowerFails
  BY <1>4, PowerFailsStep
<1> QED  BY <1>1, <1>2, <1>3, <1>4 DEF UpdateNext

LEMMA Begins == UpdateInit => Inv
<1> SUFFICES ASSUME UpdateInit PROVE Inv
  OBVIOUS
<1>1. 0 \in Commits /\ 1 \in Commits /\ Unreadable \in Schemas /\ 0 \in 0..MaxExits /\ 0 \in 0..MaxPower
  BY UpdateAssumption DEF Commits, Schemas
<1>2. /\ remote = 1 /\ code = 0 /\ deps = 0 /\ request = None /\ result = None /\ health = 0
      /\ db = [schema |-> SchemaOf[0], row |-> [t \in Tasks |-> Untouched], work |-> "todo"]
      /\ core = [at |-> "up", exit |-> "", ver |-> 0, safe |-> FALSE, lane |-> 0]
      /\ sup = "tick" /\ plan = None
      /\ spent = [exits |-> 0, power |-> 0, merged |-> [t \in Tasks |-> 0]]
  BY DEF UpdateInit
<1>3. db \in DbType
  <2>1. SchemaOf[0] \in Schemas
    BY <1>1 DEF Schemas
  <2>2. Untouched \in RowType
    BY <1>1 DEF Untouched, RowType, Steps
  <2> QED  BY <1>2, <2>1, <2>2 DEF DbType
<1>4. core \in CoreType /\ spent \in SpentType
  BY <1>1, <1>2 DEF CoreType, SpentType
<1>5. UpdateTypeOK
  BY <1>1, <1>2, <1>3, <1>4 DEF UpdateTypeOK, CoreType, SpentType, Phases
<1>6. NotMergedYet
  <2>1. ASSUME NEW t \in Tasks PROVE spent.merged[t] <= 1
    <3>1. spent.merged = [u \in Tasks |-> 0]
      BY <1>2
    <3>2. spent.merged[t] = 0
      BY <3>1, Zenon
    <3> QED  BY <3>2
  <2>2. OneAttemptPerApproval
    BY <2>1, Zenon DEF OneAttemptPerApproval
  <2>3. request = None /\ sup = "tick"
    BY <1>2
  <2> QED  BY <2>2, <2>3 DEF NotMergedYet
<1>7. CoreStopped /\ CoreKnows
  BY <1>2 DEF CoreStopped, CoreKnows, Runs, Applying
<1> QED  BY <1>2, <1>5, <1>6, <1>7 DEF Inv

LEMMA Stutters ==
    ASSUME Inv, UNCHANGED vars
    PROVE  Inv'
<1>1. UNCHANGED <<remote, code, deps, db, request, result, health, core, sup, plan, spent>>
  BY DEF vars, files
<1>2. UpdateTypeOK'
  BY <1>1, ZenonT(40) DEF Inv, UpdateTypeOK
<1>3. CoreStopped' /\ NotMergedYet' /\ CoreKnows'
  BY <1>1 DEF Inv, CoreStopped, NotMergedYet, OneAttemptPerApproval, CoreKnows, Runs
<1>4. plan' # None => KeepsFound'
  BY <1>1 DEF Inv, KeepsFound
<1> QED  BY <1>2, <1>3, <1>4 DEF Inv

\* The inductive invariant: while the supervisor applies an update or rolls it back core is
\* stopped, no request that is still to be applied has been merged, and a rollback has in
\* hand what the update found.
THEOREM UpdateSpecInv == UpdateSpec => []Inv
<1> QED  BY Begins, EveryStep, Stutters, PTL DEF UpdateSpec

\* Every file, the database, the processes and the plan in memory keep their form, through
\* crashes, power failures and databases put back.
THEOREM UpdateSpecTypeOK == UpdateSpec => []UpdateTypeOK
<1>1. Inv => UpdateTypeOK
  BY DEF Inv
<1> QED  BY <1>1, UpdateSpecInv, PTL

\* However many tasks, power failures and rollbacks there are, an approved request is merged
\* once at most (read_request: "one attempt per approval").
THEOREM UpdateSpecOneAttempt == UpdateSpec => []OneAttemptPerApproval
<1>1. Inv => OneAttemptPerApproval
  BY DEF Inv, NotMergedYet
<1> QED  BY <1>1, UpdateSpecInv, PTL

-----------------------------------------------------------------------------
(* What a step may never do. *)

LEMMA ReplacesStopped ==
    ASSUME Inv, UpdateNext, code' # code \/ deps' # deps
    PROVE  core.at = "off"
<1>1. sup \in {"checkout", "dependencies", "reset", "resync"}
  BY DEF UpdateNext, Push, TaskNext, AskUpdate, Check, Refuse, Approve, ApproveCutShort, HandOver,
         Waits, Report, CoreNext, CoreUp, CoreDies, OwnerRestarts, OtherWork, SupervisorNext,
         Restarts, TakeRequest, GivesUp, Unchanged, ChecksOut, Backup, Checkout, Dependencies,
         Preflight, Proved, NotProved, Reset, Resync, RestoreDb, RolledBack, PowerBack,
         PowerFails, disk, files
<1> QED  BY <1>1 DEF Inv, CoreStopped, Applying

\* The checkout and the packages are replaced by the supervisor, or torn by the power, only
\* while no core runs on them (apply_update and rollback after Child.stop).
THEOREM UpdateSpecNothingReplaced == UpdateSpec => NothingReplacedUnderCore
<1>1. Inv /\ [UpdateNext]_vars
      => [(code' # code \/ deps' # deps) => core.at = "off"]_vars
  BY ReplacesStopped
<1> QED  BY <1>1, UpdateSpecInv, PTL DEF UpdateSpec, NothingReplacedUnderCore

LEMMA SaysYes ==
    ASSUME Inv, UpdateNext, result' # result, result'.ok = "yes"
    PROVE  /\ UNCHANGED <<code, deps, db>>
           /\ \/ sup = "unchanged"
              \/ sup = "reproving" /\ ~plan.bad
<1>1. Unchanged \/ RolledBack \/ Preflight \/ Proved \/ RestoreDb
  BY DEF UpdateNext, Push, TaskNext, AskUpdate, Check, Refuse, Approve, ApproveCutShort, HandOver,
         Waits, Report, CoreNext, CoreUp, CoreDies, OwnerRestarts, OtherWork, SupervisorNext,
         Restarts, TakeRequest, GivesUp, ChecksOut, Backup, Checkout, Dependencies,
         NotProved, Reset, Resync, PowerBack, PowerFails, disk, files
<1>2. ASSUME NEW status, NEW ok, Says(status, ok) PROVE result'.ok = ok
  BY <1>2 DEF Says
<1>3. ~Preflight
  BY <1>2 DEF Preflight
<1>4. ~Proved /\ ~RestoreDb
  BY <1>2 DEF Proved, RestoreDb
<1>5. CASE Unchanged
  BY <1>5 DEF Unchanged, disk
<1>6. CASE RolledBack
  <2>1. sup = "reproving" /\ UNCHANGED <<code, deps, db>>
    BY <1>6 DEF RolledBack, disk
  <2>2. Says("rolled_back", IF plan.bad THEN "no" ELSE "yes") \/ Says("rolled_back", "no")
    BY <1>6 DEF RolledBack
  <2>3. ~plan.bad
    BY <1>2, <2>2
  <2> QED  BY <2>1, <2>3
<1> QED  BY <1>1, <1>3, <1>4, <1>5, <1>6

\* A result that calls the rollback complete, or says that nothing was touched, leaves the
\* code, the schema and the packages as the update found them, whatever failed on the way
\* (rollback and its `problems`, Supervisor.update).
THEOREM UpdateSpecRolledBackIsComplete == UpdateSpec => RolledBackIsComplete
<1>1. ASSUME Inv, UpdateNext, result' # result, result'.ok = "yes"
      PROVE  /\ code' = plan.found.code /\ db'.schema = plan.found.schema
             /\ deps' \in {code', plan.found.deps}
  <2>1. UNCHANGED <<code, deps, db>> /\ (sup = "unchanged" \/ (sup = "reproving" /\ ~plan.bad))
    BY <1>1, SaysYes
  <2>2. KeepsFound
    BY <1>1, <2>1, Finds
  <2> QED  BY <2>1, <2>2 DEF KeepsFound
<1>2. Inv /\ [UpdateNext]_vars
      => [(result' # result /\ result'.ok = "yes") =>
            /\ code' = plan.found.code /\ db'.schema = plan.found.schema
            /\ deps' \in {code', plan.found.deps}]_vars
  BY <1>1
<1> QED  BY <1>2, UpdateSpecInv, PTL DEF UpdateSpec, RolledBackIsComplete

-----------------------------------------------------------------------------
(* What orphans a task. *)

\* Since the backup, a task that had handed over is where it was or was cancelled: while the
\* new version is proved, its own result is open and any other is written over.
KeptOrCancelled ==
    /\ plan # None /\ plan.saved # None /\ sup \in Applying \cup {"proving"} =>
         \A t \in Tasks : plan.saved.row[t].step = "result" =>
            \/ db.row[t].step = "result"
            \/ db.row[t].step = "ended" /\ db.row[t].said = "cancelled"
    /\ sup = "proving" => result.task = plan.task /\ result.status = "pending_health"

\* What a step may do to the row of a task, but for a database that is put back.
RowKept(t) ==
    \/ db'.row[t] = db.row[t]
    \/ db.row[t].step \in {"none", "check", "approve"}
    \/ db.row[t].step = "result" /\ db'.row[t].step = "ended"
         /\ (db'.row[t].said = "cancelled" \/ Report(t))

LEMMA RowMoves ==
    ASSUME db \in DbType, NEW t \in Tasks, NEW u \in Tasks, NEW new, Row(t, new)
    PROVE  IF u = t THEN db'.row[u] = new ELSE db'.row[u] = db.row[u]
  BY DEF Row, DbType

LEMMA EndedMoves ==
    ASSUME db \in DbType, NEW t \in Tasks, NEW u \in Tasks, NEW how, Ended(t, how)
    PROVE  IF u = t THEN /\ db'.row[u].step = "ended" /\ db'.row[u].said = how
                         /\ db'.row[u].from = db.row[u].from /\ db'.row[u].to = db.row[u].to
                    ELSE db'.row[u] = db.row[u]
<1> DEFINE e == [db.row[t] EXCEPT !.step = "ended", !.said = how]
<1>1. db.row[t] \in RowType
  BY DEF DbType
<1>2. e.step = "ended" /\ e.said = how /\ e.from = db.row[t].from /\ e.to = db.row[t].to
  BY <1>1 DEF RowType
<1>3. Row(t, e)
  BY DEF Ended
<1> HIDE DEF e
<1>4. IF u = t THEN db'.row[u] = e ELSE db'.row[u] = db.row[u]
  BY <1>3, RowMoves
<1> QED  BY <1>2, <1>4

LEMMA ReportsMoves ==
    ASSUME db \in DbType, NEW t \in Tasks, NEW u \in Tasks, Reports(t)
    PROVE  IF u = t THEN /\ db'.row[u].step = "ended" /\ db'.row[u].said = result.status
                         /\ db'.row[u].from = result.from /\ db'.row[u].to = result.to
                    ELSE db'.row[u] = db.row[u]
<1> DEFINE r == [step |-> "ended", from |-> result.from, to |-> result.to, said |-> result.status]
<1>1. r.step = "ended" /\ r.said = result.status /\ r.from = result.from /\ r.to = result.to
  OBVIOUS
<1>2. Row(t, r)
  BY DEF Reports
<1> HIDE DEF r
<1>3. IF u = t THEN db'.row[u] = r ELSE db'.row[u] = db.row[u]
  BY <1>2, RowMoves
<1> QED  BY <1>1, <1>3

LEMMA TaskRows ==
    ASSUME Inv, NEW t \in Tasks, NEW u \in Tasks,
           \/ AskUpdate(t) \/ Check(t) \/ Refuse(t)
           \/ Approve(t) \/ ApproveCutShort(t)
           \/ HandOver(t) \/ Waits(t) \/ Report(t)
    PROVE  RowKept(u)
<1>1. db \in DbType
  BY DEF Inv, UpdateTypeOK
<1>2. CASE AskUpdate(t) \/ Approve(t)
  BY <1>1, <1>2, RowMoves DEF AskUpdate, Approve, RowKept
<1>3. CASE Check(t)
  BY <1>1, <1>3, RowMoves, EndedMoves DEF Check, RowKept
<1>4. CASE Refuse(t)
  BY <1>1, <1>4, EndedMoves DEF Refuse, RowKept
<1>5. CASE Report(t)
  BY <1>1, <1>5, ReportsMoves DEF Report, RowKept
<1>6. CASE ApproveCutShort(t) \/ HandOver(t) \/ Waits(t)
  BY <1>6 DEF ApproveCutShort, HandOver, Waits, disk, RowKept
<1> QED  BY <1>2, <1>3, <1>4, <1>5, <1>6

LEMMA OtherRows ==
    ASSUME Inv, UpdateNext, ~TaskNext, ~RestoreDb, NEW u \in Tasks
    PROVE  db'.row[u] = db.row[u]
<1>1. db \in DbType
  BY DEF Inv, UpdateTypeOK
<1>2. CASE CoreNext \/ Push
  BY <1>1, <1>2 DEF CoreNext, CoreUp, CoreDies, OwnerRestarts, OtherWork, Push, disk, DbType
<1>3. CASE PowerFails
  BY <1>1, <1>3 DEF PowerFails, DbType
<1>4. CASE SupervisorNext
  BY <1>4 DEF SupervisorNext, Restarts, TakeRequest, GivesUp, Unchanged, ChecksOut, Backup,
              Checkout, Dependencies, Preflight, Proved, NotProved, Reset, Resync, RolledBack,
              PowerBack, disk
<1> QED  BY <1>2, <1>3, <1>4 DEF UpdateNext

LEMMA RowsKept ==
    ASSUME Inv, UpdateNext, ~RestoreDb, NEW u \in Tasks
    PROVE  RowKept(u)
<1>1. CASE TaskNext
  BY <1>1, TaskRows DEF TaskNext
<1>2. CASE ~TaskNext
  BY <1>2, OtherRows DEF RowKept
<1> QED  BY <1>1, <1>2

\* How the supervisor gets to a plan with a backup that is being applied.
LEMMA PlanMoves ==
    ASSUME Inv, UpdateNext, plan' # None, plan'.saved # None, sup' \in Applying \cup {"proving"}
    PROVE  \/ Backup
           \/ /\ plan # None /\ plan'.saved = plan.saved /\ ~RestoreDb
              /\ sup \in Applying \cup {"proving"}
<1>1. CASE SupervisorNext
  <2>1. ASSUME Unchanged \/ Proved \/ RolledBack PROVE FALSE
    BY <2>1 DEF Unchanged, Proved, RolledBack, Done
  <2>2. ASSUME Restarts \/ PowerBack \/ GivesUp \/ RestoreDb PROVE FALSE
    BY <2>2 DEF Restarts, PowerBack, GivesUp, RestoreDb, Goes, Applying, Inv, UpdateTypeOK
  <2>3. ~TakeRequest
    BY DEF TakeRequest
  <2>4. CASE ChecksOut \/ Checkout \/ Dependencies \/ Preflight \/ NotProved
    <3>1. plan' = plan /\ sup \in Applying \cup {"proving"}
      BY <2>4 DEF ChecksOut, Checkout, Dependencies, Preflight, NotProved, Applying
    <3> QED  BY <2>2, <3>1
  <2>5. CASE Reset \/ Resync
    <3>1. sup \in {"reset", "resync"} /\ \E bad \in BOOLEAN : Failing(bad)
      BY <2>5 DEF Reset, Resync
    <3>2. plan \in PlanType /\ plan # None
      BY <3>1, Finds
    <3>3. plan'.saved = plan.saved
      BY <3>1, <3>2, FailingStep
    <3> QED  BY <2>2, <3>1, <3>2, <3>3 DEF Applying
  <2> QED  BY <1>1, <2>1, <2>2, <2>3, <2>4, <2>5 DEF SupervisorNext
<1>2. CASE TaskNext \/ Push \/ CoreNext \/ PowerFails
  <2>1. plan' = plan /\ sup' = sup
    BY <1>2 DEF TaskNext, AskUpdate, Check, Refuse, Approve, ApproveCutShort, HandOver, Waits, Report,
                PowerOff, Push, CoreNext, CoreUp, CoreDies, OwnerRestarts, OtherWork, PowerFails
  <2>2. ~RestoreDb
    BY <2>1 DEF RestoreDb, Goes
  <2> QED  BY <2>1, <2>2
<1> QED  BY <1>1, <1>2 DEF UpdateNext

LEMMA KeptStep ==
    ASSUME Inv, KeptOrCancelled, UpdateNext
    PROVE  KeptOrCancelled'
<1>1. ASSUME sup' = "proving"
      PROVE  result'.task = plan'.task /\ result'.status = "pending_health"
  <2>1. CASE Preflight
    BY <1>1, <2>1 DEF Preflight, Says, Goes
  <2>2. CASE ~Preflight
    <3>1. sup = "proving" /\ UNCHANGED <<result, plan>>
      BY <1>1, <2>2
         DEF UpdateNext, Push, TaskNext, AskUpdate, Check, Refuse, Approve, ApproveCutShort, HandOver,
             Waits, Report, PowerOff, CoreNext, CoreUp, CoreDies, OwnerRestarts, OtherWork,
             SupervisorNext, Restarts, TakeRequest, GivesUp, Unchanged, ChecksOut, Backup, Checkout,
             Dependencies, Proved, NotProved, Reset, Resync, RestoreDb, RolledBack, PowerBack,
             PowerFails, files, Goes, Done
    <3> QED  BY <3>1 DEF KeptOrCancelled
  <2> QED  BY <2>1, <2>2
<1>2. ASSUME plan' # None, plan'.saved # None, sup' \in Applying \cup {"proving"},
             NEW t \in Tasks, plan'.saved.row[t].step = "result"
      PROVE  \/ db'.row[t].step = "result"
             \/ db'.row[t].step = "ended" /\ db'.row[t].said = "cancelled"
  <2>1. CASE Backup
    <3>1. sup = "backup" /\ plan' = [plan EXCEPT !.saved = db] /\ db' = db
      BY <2>1 DEF Backup, disk
    <3>2. plan'.saved = db
      BY <3>1, Finds DEF PlanType
    <3> QED  BY <1>2, <3>1, <3>2
  <2>2. CASE ~Backup
    <3>1. /\ plan # None /\ plan'.saved = plan.saved /\ ~RestoreDb
          /\ sup \in Applying \cup {"proving"}
      BY <1>2, <2>2, PlanMoves
    <3>2. \/ db.row[t].step = "result"
          \/ db.row[t].step = "ended" /\ db.row[t].said = "cancelled"
      BY <1>2, <3>1 DEF KeptOrCancelled
    <3>3. RowKept(t)
      BY <3>1, RowsKept
    <3>4. ~Report(t)
      BY <3>1 DEF Report, Turn, Runs, Inv, CoreStopped, KeptOrCancelled
    <3> QED  BY <3>2, <3>3, <3>4 DEF RowKept
  <2> QED  BY <2>1, <2>2
<1> QED  BY <1>1, <1>2 DEF KeptOrCancelled

LEMMA KeptAtStart == UpdateInit => KeptOrCancelled
BY DEF UpdateInit, KeptOrCancelled, Applying

LEMMA KeptStutters ==
    ASSUME KeptOrCancelled, UNCHANGED vars
    PROVE  KeptOrCancelled'
<1>1. UNCHANGED <<db, result, sup, plan>>
  BY DEF vars, disk, files
<1> QED  BY <1>1 DEF KeptOrCancelled

LEMMA UpdateSpecKept == UpdateSpec => []KeptOrCancelled
<1>1. Inv /\ KeptOrCancelled /\ [UpdateNext]_vars => KeptOrCancelled'
  BY KeptStep, KeptStutters
<1> QED  BY <1>1, KeptAtStart, UpdateSpecInv, PTL DEF UpdateSpec

\* A task comes to wait for its result by its approval, or by a database that is put back.
LEMMA ComesToWait ==
    ASSUME Inv, UpdateNext, NEW t \in Tasks,
           db.row[t].step # "result", db'.row[t].step = "result"
    PROVE  Approve(t) \/ RestoreDb
<1>1. db \in DbType
  BY DEF Inv, UpdateTypeOK
<1>2. ASSUME NEW u \in Tasks, Check(u) PROVE FALSE
  <2> DEFINE found == [step |-> "approve", from |-> code, to |-> remote, said |-> ""]
  <2>1. found.step = "approve"
    OBVIOUS
  <2>2. Row(u, found) \/ \E how : Ended(u, how)
    BY <1>2 DEF Check
  <2> HIDE DEF found
  <2>3. CASE Row(u, found)
    BY <1>1, <2>1, <2>3, RowMoves
  <2>4. CASE \E how : Ended(u, how)
    BY <1>1, <2>4, EndedMoves
  <2> QED  BY <2>2, <2>3, <2>4
<1>3. ASSUME NEW u \in Tasks, AskUpdate(u) PROVE FALSE
  <2> DEFINE asked == [db.row[u] EXCEPT !.step = "check"]
  <2>1. asked.step = "check"
    BY <1>1 DEF DbType, RowType
  <2>2. Row(u, asked)
    BY <1>3 DEF AskUpdate
  <2> HIDE DEF asked
  <2> QED  BY <1>1, <2>1, <2>2, RowMoves
<1>4. ASSUME NEW u \in Tasks, Refuse(u) \/ Report(u) PROVE FALSE
  BY <1>1, <1>4, EndedMoves, ReportsMoves DEF Refuse, Report
<1>5. ASSUME NEW u \in Tasks, HandOver(u) \/ Waits(u) \/ ApproveCutShort(u) PROVE FALSE
  BY <1>5 DEF HandOver, Waits, ApproveCutShort, disk
<1>6. ASSUME NEW u \in Tasks, Approve(u) PROVE u = t
  BY <1>1, <1>6, RowMoves DEF Approve
<1>7. CASE TaskNext
  BY <1>2, <1>3, <1>4, <1>5, <1>6, <1>7 DEF TaskNext
<1>8. CASE ~TaskNext
  BY <1>8, OtherRows
<1> QED  BY <1>7, <1>8

LEMMA RequestMoves ==
    ASSUME Inv, UpdateNext, request' = None, request # None
    PROVE  TakeRequest
BY DEF UpdateNext, Push, TaskNext, AskUpdate, Check, Refuse, Approve, ApproveCutShort, HandOver,
       Waits, Report, CoreNext, CoreUp, CoreDies, OwnerRestarts, OtherWork, SupervisorNext, Restarts,
       GivesUp, Unchanged, ChecksOut, Backup, Checkout, Dependencies, Preflight, Proved, NotProved,
       Reset, Resync, RestoreDb, RolledBack, PowerBack, PowerFails, files, Requests, None

\* The supervisor lets go of a task when it has written its result, or when the power fails.
LEMMA PlanEnds ==
    ASSUME Inv, UpdateNext, NEW t \in Tasks, plan.task = t, plan'.task # t, result'.task # t
    PROVE  spent'.power > spent.power
<1>1. plan # None /\ plan \in PlanType /\ sup \notin {"tick", "off"} /\ spent \in SpentType
  BY NoTask, Finds
<1>2. ASSUME NEW S \in SUBSET Tasks, PowerOff(S) PROVE spent'.power > spent.power
  <2>1. spent' = [spent EXCEPT !.power = @ + 1,
                               !.merged = [u \in Tasks |-> IF u \in S THEN 0 ELSE spent.merged[u]]]
    BY <1>2 DEF PowerOff
  <2>2. spent'.power = spent.power + 1 /\ spent.power \in Nat
    BY <1>1, <2>1, UpdateAssumption DEF SpentType
  <2> QED  BY <2>2
<1>3. ~(Unchanged \/ Proved \/ RolledBack)
  BY DEF Unchanged, Proved, RolledBack, Says
<1>4. ASSUME Reset \/ Resync \/ RestoreDb PROVE FALSE
  <2>1. plan' = plan \/ \E bad \in BOOLEAN : Failing(bad)
    BY <1>4 DEF Reset, Resync, RestoreDb
  <2> QED  BY <1>1, <2>1, FailingStep
<1>5. ASSUME Backup PROVE FALSE
  <2>1. plan' = [plan EXCEPT !.saved = db]
    BY <1>5 DEF Backup
  <2> QED  BY <1>1, <2>1 DEF PlanType
<1>6. ~(Restarts \/ TakeRequest \/ PowerBack)
  BY <1>1 DEF Restarts, TakeRequest, PowerBack
<1>7. \/ PowerFails
      \/ \E u \in Tasks : ApproveCutShort(u)
  BY <1>3, <1>4, <1>5, <1>6
     DEF UpdateNext, Push, TaskNext, AskUpdate, Check, Refuse, Approve, HandOver, Waits, Report,
         CoreNext, CoreUp, CoreDies, OwnerRestarts, OtherWork, SupervisorNext, GivesUp, ChecksOut,
         Checkout, Dependencies, Preflight, NotProved
<1>8. PICK S \in SUBSET Tasks : PowerOff(S)
  BY <1>7 DEF PowerFails, ApproveCutShort
<1> QED  BY <1>2, <1>8

LEMMA OrphanStep ==
    ASSUME Inv, Inv', KeptOrCancelled, UpdateNext, NEW t \in Tasks, ~Orphan(t), Orphan(t)'
    PROVE  \/ spent'.power > spent.power /\ plan.task = t
           \/ request.task = t /\ request'.task \notin {t, None.task}
           \/ result.task = t /\ result'.task # t
           \/ sup = "redb" /\ db.row[t].said = "cancelled"
<1>1. /\ db'.row[t].step = "result"
      /\ request'.task # t /\ result'.task # t /\ plan'.task # t
  BY DEF Orphan
<1>2. CASE db.row[t].step # "result"
  <2>1. ~Approve(t)
    BY <1>1 DEF Approve, Requests
  <2>2. RestoreDb
    BY <1>1, <1>2, <2>1, ComesToWait
  <2>3. sup = "redb" /\ plan.saved # None /\ db' = plan.saved
    BY <1>1, <1>2, <2>2 DEF RestoreDb
  <2>4. plan # None
    BY <2>3, Finds
  <2> QED  BY <1>1, <1>2, <2>3, <2>4 DEF KeptOrCancelled, Applying
<1>3. CASE db.row[t].step = "result" /\ request.task = t
  <2>1. request # None
    BY <1>3, NoTask
  <2>2. request' # None
    <3>1. ASSUME TakeRequest PROVE plan'.task = t
      BY <1>3, <3>1 DEF TakeRequest
    <3> QED  BY <1>1, <2>1, <3>1, RequestMoves
  <2>3. request' \in RequestType
    BY <2>2 DEF Inv, UpdateTypeOK
  <2>4. request'.task # None.task
    BY <2>3, NoTask DEF RequestType
  <2> QED  BY <1>1, <1>3, <2>4
<1>4. CASE db.row[t].step = "result" /\ plan.task = t
  BY <1>1, <1>4, PlanEnds
<1> QED  BY <1>1, <1>2, <1>3, <1>4 DEF Orphan

\* A task that has handed over loses its request, its update and its result only by a power
\* failure, by another task's files, or by a database that forgets its cancel (read_request
\* removes the request first; one file for each of both).
THEOREM UpdateSpecOrphanedForCause == UpdateSpec => OrphanedForCause
<1>1. Inv /\ Inv' /\ KeptOrCancelled /\ [UpdateNext]_vars
      => [\A t \in Tasks : ~Orphan(t) /\ Orphan(t)' =>
            \/ spent'.power > spent.power /\ plan.task = t
            \/ request.task = t /\ request'.task \notin {t, None.task}
            \/ result.task = t /\ result'.task # t
            \/ sup = "redb" /\ db.row[t].said = "cancelled"]_vars
  BY OrphanStep
<1> QED  BY <1>1, UpdateSpecInv, UpdateSpecKept, PTL DEF UpdateSpec, OrphanedForCause

-----------------------------------------------------------------------------
(* What was reported stays reported. *)

\* A row that names an outcome is at its end; and since the backup nobody has reported one, so
\* that the backup has every report: the lane waits while its result is open, and core is off
\* before the database is put back.
BackupHasReports ==
    /\ \A t \in Tasks : db.row[t].said \in Outcomes => db.row[t].step = "ended"
    /\ plan # None /\ plan.saved # None /\ sup \in Applying \cup {"proving"} =>
         \A t \in Tasks :
            /\ plan.saved.row[t].said \in Outcomes => plan.saved.row[t].step = "ended"
            /\ db.row[t].said \in Outcomes => plan.saved.row[t] = db.row[t]

LEMMA RowStands ==
    ASSUME Inv, BackupHasReports, UpdateNext, ~RestoreDb, NEW u \in Tasks,
           db.row[u].said \in Outcomes
    PROVE  db'.row[u] = db.row[u]
<1>1. db.row[u].step = "ended"
  BY DEF BackupHasReports
<1> QED  BY <1>1, RowsKept DEF RowKept

\* Only a report makes a row name an outcome.
LEMMA ComesToTell ==
    ASSUME Inv, BackupHasReports, UpdateNext, ~RestoreDb, NEW u \in Tasks,
           db.row[u].said \notin Outcomes, db'.row[u].said \in Outcomes
    PROVE  Report(u) /\ db'.row[u].step = "ended"
<1>1. db \in DbType
  BY DEF Inv, UpdateTypeOK
<1>2. ASSUME NEW t \in Tasks, NEW new, Row(t, new), new.said \notin Outcomes PROVE FALSE
  BY <1>1, <1>2, RowMoves
<1>3. ASSUME NEW t \in Tasks, NEW step, Row(t, [db.row[t] EXCEPT !.step = step]) PROVE FALSE
  <2> DEFINE new == [db.row[t] EXCEPT !.step = step]
  <2>1. new.said = db.row[t].said
    BY <1>1 DEF DbType, RowType
  <2>2. Row(t, new)
    BY <1>3
  <2> HIDE DEF new
  <2> QED  BY <1>1, <2>1, <2>2, RowMoves
<1>4. ASSUME NEW t \in Tasks, NEW how, Ended(t, how), how \notin Outcomes PROVE FALSE
  BY <1>1, <1>4, EndedMoves
<1>5. ASSUME NEW t \in Tasks, AskUpdate(t) \/ Approve(t) PROVE FALSE
  BY <1>3, <1>5 DEF AskUpdate, Approve
<1>6. ASSUME NEW t \in Tasks, Check(t) PROVE FALSE
  <2> DEFINE found == [step |-> "approve", from |-> code, to |-> remote, said |-> ""]
  <2>1. found.said \notin Outcomes
    BY DEF Outcomes
  <2>2. Row(t, found) \/ Ended(t, IF code = remote THEN "up to date" ELSE "not done")
    BY <1>6 DEF Check
  <2> HIDE DEF found
  <2> QED  BY <1>2, <1>4, <2>1, <2>2 DEF Outcomes
<1>7. ASSUME NEW t \in Tasks, Refuse(t) PROVE FALSE
  BY <1>4, <1>7 DEF Refuse, Outcomes
<1>8. ASSUME NEW t \in Tasks, ApproveCutShort(t) \/ HandOver(t) \/ Waits(t) PROVE FALSE
  BY <1>8 DEF ApproveCutShort, HandOver, Waits, disk
<1>9. ASSUME NEW t \in Tasks, Report(t) PROVE t = u /\ db'.row[u].step = "ended"
  BY <1>1, <1>9, ReportsMoves DEF Report
<1>10. TaskNext
  BY OtherRows
<1> QED  BY <1>5, <1>6, <1>7, <1>8, <1>9, <1>10 DEF TaskNext

\* What RestoreDb leaves in the rows.
LEMMA RestoredRows ==
    ASSUME Inv, RestoreDb, NEW u \in Tasks
    PROVE  /\ sup = "redb" /\ sup' = "reproving"
           /\ \/ db'.row[u] = db.row[u]
              \/ plan # None /\ plan.saved # None /\ db'.row[u] = plan.saved.row[u]
<1>1. sup = "redb" /\ sup' = "reproving"
  BY DEF RestoreDb, Goes
<1>2. plan # None
  BY <1>1 DEF Inv, UpdateTypeOK
<1>3. db' = db \/ (plan.saved # None /\ db' = plan.saved)
  BY DEF RestoreDb
<1> QED  BY <1>1, <1>2, <1>3

LEMMA ReportStandsStep ==
    ASSUME Inv, BackupHasReports, UpdateNext, NEW u \in Tasks, db.row[u].said \in Outcomes
    PROVE  db'.row[u] = db.row[u]
<1>1. CASE RestoreDb
  BY <1>1, RestoredRows DEF BackupHasReports, Applying
<1>2. CASE ~RestoreDb
  BY <1>2, RowStands
<1> QED  BY <1>1, <1>2

LEMMA BackupStep ==
    ASSUME Inv, KeptOrCancelled, BackupHasReports, UpdateNext
    PROVE  BackupHasReports'
<1>1. ASSUME NEW t \in Tasks, db'.row[t].said \in Outcomes PROVE db'.row[t].step = "ended"
  <2>1. CASE RestoreDb
    BY <1>1, <2>1, RestoredRows DEF BackupHasReports, Applying
  <2>2. CASE ~RestoreDb /\ db.row[t].said \in Outcomes
    BY <2>2, RowStands DEF BackupHasReports
  <2>3. CASE ~RestoreDb /\ db.row[t].said \notin Outcomes
    BY <1>1, <2>3, ComesToTell
  <2> QED  BY <2>1, <2>2, <2>3
<1>2. ASSUME plan' # None, plan'.saved # None, sup' \in Applying \cup {"proving"}, NEW t \in Tasks
      PROVE  /\ plan'.saved.row[t].said \in Outcomes => plan'.saved.row[t].step = "ended"
             /\ db'.row[t].said \in Outcomes => plan'.saved.row[t] = db'.row[t]
  <2>1. CASE Backup
    <3>1. sup = "backup" /\ plan' = [plan EXCEPT !.saved = db] /\ db' = db
      BY <2>1 DEF Backup, disk
    <3>2. plan'.saved = db
      BY <3>1, Finds DEF PlanType
    <3> QED  BY <3>1, <3>2 DEF BackupHasReports
  <2>2. CASE ~Backup
    <3>1. /\ plan # None /\ plan'.saved = plan.saved /\ ~RestoreDb
          /\ sup \in Applying \cup {"proving"}
      BY <1>2, <2>2, PlanMoves
    <3>2. ~Report(t)
      BY <3>1 DEF Report, Turn, Runs, Inv, CoreStopped, KeptOrCancelled
    <3>3. /\ plan.saved.row[t].said \in Outcomes => plan.saved.row[t].step = "ended"
          /\ db.row[t].said \in Outcomes => plan.saved.row[t] = db.row[t]
      <4>1. plan # None /\ plan.saved # None /\ sup \in Applying \cup {"proving"}
        BY <1>2, <3>1
      <4> QED  BY <4>1, Zenon DEF BackupHasReports
    <3>4. CASE db.row[t].said \in Outcomes
      <4>1. db'.row[t] = db.row[t]
        BY <3>1, <3>4, RowStands
      <4> QED  BY <3>1, <3>3, <4>1
    <3>5. CASE db.row[t].said \notin Outcomes
      <4>1. db'.row[t].said \notin Outcomes
        BY <3>1, <3>2, <3>5, ComesToTell
      <4> QED  BY <3>1, <3>3, <4>1
    <3> QED  BY <3>4, <3>5
  <2> QED  BY <2>1, <2>2
<1> QED  BY <1>1, <1>2 DEF BackupHasReports

LEMMA BackupAtStart == UpdateInit => BackupHasReports
<1> SUFFICES ASSUME UpdateInit PROVE BackupHasReports
  OBVIOUS
<1>1. plan = None /\ \A t \in Tasks : db.row[t] = Untouched
  BY DEF UpdateInit
<1>2. Untouched.said \notin Outcomes
  BY DEF Untouched, Outcomes
<1> QED  BY <1>1, <1>2 DEF BackupHasReports

LEMMA UpdateSpecBackup == UpdateSpec => []BackupHasReports
<1>1. Inv /\ KeptOrCancelled /\ BackupHasReports /\ [UpdateNext]_vars => BackupHasReports'
  <2>1. ASSUME BackupHasReports, UNCHANGED vars PROVE BackupHasReports'
    <3>1. UNCHANGED <<db, sup, plan>>
      BY <2>1 DEF vars, disk
    <3> QED  BY <2>1, <3>1 DEF BackupHasReports
  <2> QED  BY <2>1, BackupStep
<1> QED  BY <1>1, BackupAtStart, UpdateSpecKept, UpdateSpecInv, PTL DEF UpdateSpec

\* A reported outcome is never taken back by a rollback that restores the database: an open result
\* is waited for as long as the rollback may still come (report_result, rollback).
THEOREM UpdateSpecReportStands == UpdateSpec => ReportStands
<1>1. Inv /\ BackupHasReports /\ [UpdateNext]_vars
      => [\A t \in Tasks : db.row[t].said \in Outcomes => db'.row[t] = db.row[t]]_vars
  BY ReportStandsStep
<1> QED  BY <1>1, UpdateSpecBackup, UpdateSpecInv, PTL DEF UpdateSpec, ReportStands

-----------------------------------------------------------------------------
(* What was said to be installed stays installed. *)

LEMMA InstalledTypes ==
    ASSUME Inv
    PROVE  /\ code \in Int /\ remote \in Int /\ Base \in Int
           /\ db.row \in [Tasks -> RowType]
           /\ plan # None => /\ plan.from \in Int /\ plan.to \in Int /\ plan.task # None.task
                             /\ plan.saved # None => plan.saved.row \in [Tasks -> RowType]
<1>1. Commits \subseteq Int
  BY DEF Commits
<1>2. plan # None => /\ plan.found.code \in Int /\ plan.from \in Int /\ plan.to \in Int
                     /\ plan.task # None.task
                     /\ plan.saved # None => plan.saved.row \in [Tasks -> RowType]
  BY <1>1, NoTask DEF Inv, UpdateTypeOK, PlanType, FoundType, DbType
<1> QED  BY <1>1, <1>2 DEF Inv, UpdateTypeOK, DbType, Base

LEMMA RowNumbers ==
    ASSUME NEW r \in RowType
    PROVE  r.from \in Int /\ r.to \in Int
<1>1. r.from \in Commits /\ r.to \in Commits
  BY DEF RowType
<1> QED  BY <1>1, UpdateAssumption DEF Commits

LEMMA NextNumbers ==
    ASSUME Inv'
    PROVE  code' \in Int /\ remote' \in Int /\ Base' \in Int
<1>1. Commits \subseteq Int
  BY DEF Commits
<1>2. plan' # None => plan'.found.code \in Int
  BY <1>1 DEF Inv, UpdateTypeOK, PlanType, FoundType
<1>3. code' \in Int /\ remote' \in Int
  BY <1>1 DEF Inv, UpdateTypeOK
<1> QED  BY <1>2, <1>3 DEF Base

\* The supervisor has learned something, and goes on with the same update.
SamePlan ==
    /\ plan # None /\ plan' # None
    /\ plan'.task = plan.task /\ plan'.from = plan.from /\ plan'.to = plan.to
    /\ plan'.found = plan.found

LEMMA FailingKeeps ==
    ASSUME plan \in PlanType, NEW bad \in BOOLEAN, Failing(bad)
    PROVE  SamePlan
<1>1. plan # None
  BY NoTask DEF PlanType
<1> QED  BY <1>1, FailingStep DEF SamePlan

\* The steps of the supervisor that move the checkout, or the plan, or neither.
LEMMA CodeMoves ==
    ASSUME Inv, UpdateNext
    PROVE  \/ code' = code /\ plan' = plan
           \/ code' = code /\ plan' = None
           \/ code' = code /\ TakeRequest /\ plan = None /\ plan'.found.code = code
           \/ /\ Backup \/ Reset \/ Resync \/ RestoreDb
              /\ code' = code /\ SamePlan
           \/ /\ Checkout /\ code' = plan.to /\ plan' = plan /\ plan # None
              /\ plan.from = plan.found.code
           \/ /\ Reset /\ code' \in {plan.from, code} /\ SamePlan
              /\ plan.from = plan.found.code
<1>1. CASE Push \/ TaskNext \/ CoreNext \/ PowerFails
  BY <1>1 DEF Push, TaskNext, AskUpdate, Check, Refuse, Approve, ApproveCutShort, HandOver, Waits,
              Report, PowerOff, CoreNext, CoreUp, CoreDies, OwnerRestarts, OtherWork, PowerFails, disk
<1>2. CASE Unchanged \/ Proved \/ RolledBack
  BY <1>2 DEF Unchanged, Proved, RolledBack, Done, disk
<1>3. CASE Restarts \/ PowerBack \/ GivesUp \/ ChecksOut \/ Dependencies \/ Preflight \/ NotProved
  BY <1>3 DEF Restarts, PowerBack, GivesUp, ChecksOut, Dependencies, Preflight, NotProved, disk
<1>4. CASE TakeRequest
  <2>1. sup = "tick" /\ code' = code /\ plan'.found.code = code
    BY <1>4 DEF TakeRequest, disk
  <2> QED  BY <1>4, <2>1, Finds
<1>5. CASE Backup
  <2>1. sup = "backup" /\ plan' = [plan EXCEPT !.saved = db] /\ code' = code
    BY <1>5 DEF Backup, disk
  <2>2. plan \in PlanType /\ plan # None
    BY <2>1, Finds
  <2>3. plan' \in PlanType \cup {None} \cup [task : Tasks, from : Commits, to : Commits,
                                             found : FoundType, saved : {db}, bad : BOOLEAN]
        /\ plan'.found = plan.found /\ plan'.task = plan.task /\ plan.task \in Tasks
        /\ plan'.from = plan.from /\ plan'.to = plan.to
    BY <2>1, <2>2 DEF PlanType
  <2>4. plan' # None
    BY <2>3, NoTask
  <2> QED  BY <1>5, <2>1, <2>2, <2>3, <2>4 DEF SamePlan
<1>6. CASE Checkout
  <2>1. sup = "checkout" /\ plan' = plan /\ code' \in {code, plan.to}
    BY <1>6 DEF Checkout
  <2>2. plan # None /\ KeepsFound
    BY <2>1, Finds
  <2> QED  BY <1>6, <2>1, <2>2 DEF KeepsFound
<1>7. CASE Reset
  <2>1. sup = "reset" /\ code' \in {plan.from, code} /\ \E bad \in BOOLEAN : Failing(bad)
    BY <1>7 DEF Reset
  <2>2. plan \in PlanType /\ plan # None /\ KeepsFound
    BY <2>1, Finds
  <2>3. SamePlan
    BY <2>1, <2>2, FailingKeeps
  <2> QED  BY <1>7, <2>1, <2>2, <2>3 DEF KeepsFound
<1>8. CASE Resync \/ RestoreDb
  <2>1. /\ sup \in {"resync", "redb"} /\ code' = code
        /\ plan' = plan \/ \E bad \in BOOLEAN : Failing(bad)
    BY <1>8 DEF Resync, RestoreDb
  <2>2. plan \in PlanType /\ plan # None
    BY <2>1, Finds
  <2> QED  BY <1>8, <2>1, <2>2, FailingKeeps
<1> QED  BY <1>1, <1>2, <1>3, <1>4, <1>5, <1>6, <1>7, <1>8 DEF UpdateNext, SupervisorNext

\* The remote branch and Base only move on, and the checkout stays between the two.
LEMMA BaseMovesOn ==
    ASSUME Inv, Inv', Installed, UpdateNext
    PROVE  Base <= Base' /\ Base' <= code' /\ remote <= remote' /\ code' <= remote'
<1>1. /\ code \in Int /\ remote \in Int /\ Base \in Int
      /\ code' \in Int /\ remote' \in Int /\ Base' \in Int
      /\ plan # None => plan.from \in Int /\ plan.to \in Int
  BY InstalledTypes, NextNumbers
<1>2. Base <= code /\ code <= remote /\ (plan # None => plan.from <= plan.to /\ plan.to <= remote)
  BY DEF Installed, Forward
<1>3. remote' \in {remote, remote + 1}
  BY DEF UpdateNext, Push, TaskNext, AskUpdate, Check, Refuse, Approve, ApproveCutShort, HandOver,
         Waits, Report, CoreNext, CoreUp, CoreDies, OwnerRestarts, OtherWork, SupervisorNext,
         Restarts, TakeRequest, GivesUp, Unchanged, ChecksOut, Backup, Checkout, Dependencies,
         Preflight, Proved, NotProved, Reset, Resync, RestoreDb, RolledBack, PowerBack,
         PowerFails, disk
<1>4. CASE code' = code /\ plan' = plan
  BY <1>1, <1>2, <1>3, <1>4 DEF Base
<1>5. CASE code' = code /\ plan' = None
  BY <1>1, <1>2, <1>3, <1>5 DEF Base
<1>6. CASE code' = code /\ TakeRequest /\ plan = None /\ plan'.found.code = code
  BY <1>1, <1>2, <1>3, <1>6 DEF Base
<1>7. CASE code' = code /\ SamePlan
  BY <1>1, <1>2, <1>3, <1>7 DEF Base, SamePlan
<1>8. CASE code' = plan.to /\ plan' = plan /\ plan # None /\ plan.from = plan.found.code
  BY <1>1, <1>2, <1>3, <1>8 DEF Base
<1>9. CASE code' \in {plan.from, code} /\ SamePlan /\ plan.from = plan.found.code
  BY <1>1, <1>2, <1>3, <1>9 DEF Base, SamePlan
<1> QED  BY <1>4, <1>5, <1>6, <1>7, <1>8, <1>9, CodeMoves

\* What holds of a row today holds of it after the step.
LEMMA RowStaysGood ==
    ASSUME Inv, Inv', Installed, UpdateNext, NEW r \in RowType,
           Forward(r), r.said = "updated" => r.to <= Base
    PROVE  r.from <= r.to /\ r.to <= remote' /\ (r.said = "updated" => r.to <= Base')
<1>1. /\ r.from \in Int /\ r.to \in Int /\ remote \in Int /\ remote' \in Int
      /\ Base \in Int /\ Base' \in Int
  BY RowNumbers, InstalledTypes, NextNumbers
<1> QED  BY <1>1, BaseMovesOn DEF Forward

LEMMA GoodRows ==
    ASSUME Inv, Inv', Installed, UpdateNext, NEW u \in Tasks
    PROVE  LET r == db'.row[u]
           IN  r.from <= r.to /\ r.to <= remote' /\ (r.said = "updated" => r.to <= Base')
<1>1. db \in DbType /\ db.row[u] \in RowType /\ plan \in PlanType \cup {None}
  BY DEF Inv, UpdateTypeOK, DbType
<1>2. /\ code \in Int /\ remote \in Int /\ remote' \in Int /\ Base \in Int /\ Base' \in Int
      /\ Base <= Base' /\ remote <= remote' /\ code <= remote
  BY InstalledTypes, NextNumbers, BaseMovesOn DEF Installed
<1>3. Forward(db.row[u]) /\ (db.row[u].said = "updated" => db.row[u].to <= Base)
  BY DEF Installed, RowsHold
<1>4. CASE db'.row[u] = db.row[u]
  BY <1>1, <1>3, <1>4, RowStaysGood
<1>5. CASE db'.row[u] # db.row[u] /\ RestoreDb
  <2>1. sup = "redb" /\ plan.saved # None /\ db' = plan.saved
    BY <1>5 DEF RestoreDb
  <2>2. plan # None
    BY <2>1, Finds
  <2>3. plan.saved.row[u] \in RowType
    BY <2>1, <2>2, InstalledTypes
  <2>4. Forward(plan.saved.row[u]) /\ (plan.saved.row[u].said = "updated" => plan.saved.row[u].to <= Base)
    BY <2>1, <2>2 DEF Installed, RowsHold
  <2> QED  BY <2>1, <2>3, <2>4, RowStaysGood
<1>6. CASE db'.row[u] # db.row[u] /\ TaskNext
  <2>1. PICK t \in Tasks : \/ AskUpdate(t) \/ Check(t) \/ Refuse(t)
                           \/ Approve(t) \/ ApproveCutShort(t)
                           \/ HandOver(t) \/ Waits(t) \/ Report(t)
    BY <1>6 DEF TaskNext
  <2>2. ~(ApproveCutShort(t) \/ HandOver(t) \/ Waits(t))
    BY <1>6 DEF ApproveCutShort, HandOver, Waits, disk
  <2>3. CASE AskUpdate(t) \/ Approve(t)
    <3>1. PICK s \in {"check", "result"} : Row(t, [db.row[t] EXCEPT !.step = s])
      BY <2>3 DEF AskUpdate, Approve
    <3> DEFINE r == [db.row[t] EXCEPT !.step = s]
    <3>2. db.row[t] \in RowType
      BY <1>1 DEF DbType
    <3>3. r.from = db.row[t].from /\ r.to = db.row[t].to /\ r.said = db.row[t].said /\ Row(t, r)
      BY <3>1, <3>2 DEF RowType
    <3> HIDE DEF r
    <3>4. u = t /\ db'.row[u] = r
      BY <1>1, <1>6, <3>3, RowMoves
    <3>5. db.row[u].from <= db.row[u].to /\ db.row[u].to <= remote'
          /\ (db.row[u].said = "updated" => db.row[u].to <= Base')
      BY <1>1, <1>3, RowStaysGood
    <3> QED  BY <3>3, <3>4, <3>5
  <2>4. ASSUME NEW how, how # "updated", Ended(t, how)
        PROVE  LET r == db'.row[u]
               IN  r.from <= r.to /\ r.to <= remote' /\ (r.said = "updated" => r.to <= Base')
    <3>1. /\ db'.row[u].said = how
          /\ db'.row[u].from = db.row[u].from /\ db'.row[u].to = db.row[u].to
      BY <1>1, <1>6, <2>4, EndedMoves
    <3>2. db.row[u].from <= db.row[u].to /\ db.row[u].to <= remote'
      BY <1>1, <1>3, RowStaysGood
    <3> QED  BY <2>4, <3>1, <3>2
  <2>5. CASE Check(t)
    <3> DEFINE r == [step |-> "approve", from |-> code, to |-> remote, said |-> ""]
    <3>1. r.from = code /\ r.to = remote /\ r.said = ""
      OBVIOUS
    <3>2. Row(t, r) \/ \E how \in {"up to date", "not done"} : Ended(t, how)
      BY <2>5 DEF Check
    <3> HIDE DEF r
    <3>3. CASE Row(t, r)
      <4>1. db'.row[u] = r
        BY <1>1, <1>6, <3>3, RowMoves
      <4> QED  BY <1>2, <3>1, <4>1
    <3> QED  BY <2>4, <3>2, <3>3
  <2>6. CASE Refuse(t)
    BY <2>4, <2>6 DEF Refuse
  <2>7. CASE Report(t)
    <3>1. result # None /\ result \in ResultType
      BY <2>7, NoTask DEF Report, Inv, UpdateTypeOK
    <3>2. Forward(result) /\ (result.status = "updated" => result.to <= Base)
      BY <3>1 DEF Installed
    <3>3. result.from \in Int /\ result.to \in Int
      BY <3>1 DEF ResultType, Commits
    <3>4. /\ db'.row[u].said = result.status
          /\ db'.row[u].from = result.from /\ db'.row[u].to = result.to
      BY <1>1, <1>6, <2>7, ReportsMoves DEF Report
    <3> QED  BY <1>2, <3>2, <3>3, <3>4 DEF Forward
  <2> QED  BY <2>1, <2>2, <2>3, <2>5, <2>6, <2>7
<1> QED  BY <1>4, <1>5, <1>6, OtherRows

LEMMA GoodRequest ==
    ASSUME Inv, Inv', Installed, UpdateNext, request' # None
    PROVE  request'.from <= request'.to /\ request'.to <= remote'
<1>1. remote \in Int /\ remote' \in Int /\ remote <= remote'
  BY InstalledTypes, NextNumbers, BaseMovesOn
<1>2. request' = request \/ request' = None \/ \E t \in Tasks : Requests(t)
  BY DEF UpdateNext, Push, TaskNext, AskUpdate, Check, Refuse, Approve, ApproveCutShort, HandOver,
         Waits, Report, CoreNext, CoreUp, CoreDies, OwnerRestarts, OtherWork, SupervisorNext,
         Restarts, TakeRequest, GivesUp, Unchanged, ChecksOut, Backup, Checkout, Dependencies,
         Preflight, Proved, NotProved, Reset, Resync, RestoreDb, RolledBack, PowerBack,
         PowerFails, files
<1>3. CASE request' = request
  <2>1. request \in RequestType /\ Forward(request)
    BY <1>3 DEF Inv, UpdateTypeOK, Installed
  <2>2. request.to \in Int
    BY <2>1 DEF RequestType, Commits
  <2> QED  BY <1>1, <1>3, <2>1, <2>2 DEF Forward
<1>4. ASSUME NEW t \in Tasks, Requests(t)
      PROVE  request'.from <= request'.to /\ request'.to <= remote'
  <2>1. db.row[t] \in RowType /\ Forward(db.row[t])
    BY DEF Inv, UpdateTypeOK, DbType, Installed, RowsHold
  <2>2. db.row[t].to \in Int
    BY <2>1, RowNumbers
  <2>3. request'.from = db.row[t].from /\ request'.to = db.row[t].to
    BY <1>4 DEF Requests
  <2> QED  BY <1>1, <2>1, <2>2, <2>3 DEF Forward
<1> QED  BY <1>2, <1>3, <1>4

LEMMA GoodResult ==
    ASSUME Inv, Inv', Installed, UpdateNext, result' # None
    PROVE  /\ result'.from <= result'.to /\ result'.to <= remote'
           /\ result'.status = "updated" => result'.to <= Base'
<1>1. /\ remote \in Int /\ remote' \in Int /\ remote <= remote' /\ Base \in Int /\ Base' \in Int
      /\ Base <= Base' /\ code \in Int
  BY InstalledTypes, NextNumbers, BaseMovesOn
<1>2. \/ result' = result
      \/ Proved /\ Says("updated", "unknown")
      \/ plan # None /\ \E status \in {"pending_health", "rolled_back"} : \E ok : Says(status, ok)
  <2>1. CASE Unchanged \/ RolledBack \/ Preflight \/ Proved \/ RestoreDb
    <3>1. plan # None
      BY <2>1, Finds DEF Unchanged, RolledBack, Preflight, Proved, RestoreDb
    <3> QED  BY <2>1, <3>1 DEF Unchanged, RolledBack, Preflight, Proved, RestoreDb, files
  <2>2. CASE ~(Unchanged \/ RolledBack \/ Preflight \/ Proved \/ RestoreDb)
    BY <2>2
       DEF UpdateNext, Push, TaskNext, AskUpdate, Check, Refuse, Approve, ApproveCutShort, HandOver,
           Waits, Report, CoreNext, CoreUp, CoreDies, OwnerRestarts, OtherWork, SupervisorNext,
           Restarts, TakeRequest, GivesUp, ChecksOut, Backup, Checkout, Dependencies, NotProved,
           Reset, Resync, PowerBack, PowerFails, files
  <2> QED  BY <2>1, <2>2
<1>3. CASE result' = result
  <2>1. result \in ResultType /\ Forward(result) /\ (result.status = "updated" => result.to <= Base)
    BY <1>3 DEF Inv, UpdateTypeOK, Installed
  <2>2. result.to \in Int
    BY <2>1 DEF ResultType, Commits
  <2> QED  BY <1>1, <1>3, <2>1, <2>2 DEF Forward
<1>4. ASSUME plan # None, NEW status, NEW ok, Says(status, ok)
      PROVE  /\ result'.from <= result'.to /\ result'.to <= remote'
             /\ result'.status = status /\ result'.to = plan.to
  <2>1. result'.from = plan.from /\ result'.to = plan.to /\ result'.status = status
    BY <1>4 DEF Says
  <2> QED  BY <1>1, <1>4, <2>1, InstalledTypes DEF Installed, Forward
<1>5. CASE Proved /\ Says("updated", "unknown")
  <2>1. sup = "proving" /\ code' = code /\ plan' = None
    BY <1>5 DEF Proved, disk, Done
  <2>2. plan # None
    BY <2>1, Finds
  <2>3. Base' = plan.to /\ plan.to \in Int
    BY <2>1, <2>2, InstalledTypes DEF Installed, Base
  <2> QED  BY <1>4, <1>5, <2>2, <2>3
<1> QED  BY <1>2, <1>3, <1>4, <1>5

\* What the plan and its backup say.
LEMMA GoodPlan ==
    ASSUME Inv, Inv', Installed, UpdateNext, plan' # None
    PROVE  /\ plan'.from <= plan'.to /\ plan'.to <= remote'
           /\ plan'.saved # None => \A t \in Tasks :
                 LET r == plan'.saved.row[t]
                 IN  r.from <= r.to /\ r.to <= remote' /\ (r.said = "updated" => r.to <= Base')
<1>1. remote \in Int /\ remote' \in Int /\ remote <= remote'
  BY InstalledTypes, NextNumbers, BaseMovesOn
<1>2. CASE plan # None /\ plan'.from = plan.from /\ plan'.to = plan.to /\ plan'.saved = plan.saved
  <2>1. Forward(plan) /\ plan.to \in Int
    BY <1>2, InstalledTypes DEF Installed
  <2>2. ASSUME plan.saved # None, NEW t \in Tasks
        PROVE  LET r == plan.saved.row[t]
               IN  r.from <= r.to /\ r.to <= remote' /\ (r.said = "updated" => r.to <= Base')
    <3>1. plan.saved.row[t] \in RowType
      BY <1>2, <2>2, InstalledTypes
    <3>2. Forward(plan.saved.row[t])
          /\ (plan.saved.row[t].said = "updated" => plan.saved.row[t].to <= Base)
      BY <1>2, <2>2 DEF Installed, RowsHold
    <3> QED  BY <3>1, <3>2, RowStaysGood
  <2> QED  BY <1>1, <1>2, <2>1, <2>2 DEF Forward
<1>3. CASE TakeRequest
  <2>1. /\ request # None /\ plan'.from = request.from /\ plan'.to = request.to
        /\ plan'.saved = None
    BY <1>3 DEF TakeRequest
  <2>2. Forward(request) /\ request \in RequestType
    BY <2>1 DEF Installed, Inv, UpdateTypeOK
  <2>3. request.to \in Int
    BY <2>2 DEF RequestType, Commits
  <2> QED  BY <1>1, <2>1, <2>2, <2>3 DEF Forward
<1>4. CASE Backup
  <2>1. sup = "backup" /\ plan' = [plan EXCEPT !.saved = db] /\ db' = db
    BY <1>4 DEF Backup, disk
  <2>2. plan \in PlanType /\ plan # None
    BY <2>1, Finds
  <2>3. plan'.from = plan.from /\ plan'.to = plan.to /\ plan'.saved = db
    BY <2>1, <2>2 DEF PlanType
  <2>4. Forward(plan) /\ plan.to \in Int
    BY <2>2, InstalledTypes DEF Installed
  <2> QED  BY <1>1, <2>1, <2>3, <2>4, GoodRows DEF Forward
<1>5. CASE Reset \/ Resync \/ RestoreDb
  <2>1. sup \in {"reset", "resync", "redb"} /\ (plan' = plan \/ \E bad \in BOOLEAN : Failing(bad))
    BY <1>5 DEF Reset, Resync, RestoreDb
  <2>2. plan \in PlanType /\ plan # None
    BY <2>1, Finds
  <2>3. plan'.from = plan.from /\ plan'.to = plan.to /\ plan'.saved = plan.saved
    BY <2>1, <2>2, FailingStep
  <2> QED  BY <1>2, <2>2, <2>3
<1>6. CASE ~(TakeRequest \/ Backup \/ Reset \/ Resync \/ RestoreDb)
  <2>1. plan' = plan
    BY <1>6
       DEF UpdateNext, Push, TaskNext, AskUpdate, Check, Refuse, Approve, ApproveCutShort, HandOver,
           Waits, Report, PowerOff, CoreNext, CoreUp, CoreDies, OwnerRestarts, OtherWork,
           SupervisorNext, Restarts, GivesUp, Unchanged, ChecksOut, Checkout, Dependencies, Preflight,
           Proved, NotProved, RolledBack, PowerBack, PowerFails, Done
  <2> QED  BY <1>2, <2>1
<1> QED  BY <1>3, <1>4, <1>5, <1>6

\* From the checkout to the proof the new commit is the one that is there.
LEMMA OnTheNewCommit ==
    ASSUME Inv, Installed, UpdateNext, sup' \in {"dependencies", "preflight", "proving"}
    PROVE  code' = plan'.to
<1>1. CASE Checkout \/ Dependencies \/ Preflight
  BY <1>1 DEF Checkout, Dependencies, Preflight, Installed, Goes, disk
<1>2. CASE ~(Checkout \/ Dependencies \/ Preflight)
  <2>1. sup' = sup /\ code' = code /\ plan' = plan
    BY <1>2
       DEF UpdateNext, Push, TaskNext, AskUpdate, Check, Refuse, Approve, ApproveCutShort, HandOver,
           Waits, Report, PowerOff, CoreNext, CoreUp, CoreDies, OwnerRestarts, OtherWork,
           SupervisorNext, Restarts, TakeRequest, GivesUp, Unchanged, ChecksOut, Backup, Proved,
           NotProved, Reset, Resync, RestoreDb, RolledBack, PowerBack, PowerFails, Done, Goes, disk
  <2> QED  BY <2>1 DEF Installed
<1> QED  BY <1>1, <1>2

LEMMA InstalledStep ==
    ASSUME Inv, Inv', Installed, UpdateNext
    PROVE  Installed'
<1>1. code' <= remote' /\ Base' <= code'
  BY BaseMovesOn
<1>2. RowsHold(db.row)'
  BY GoodRows DEF RowsHold, Forward
<1>3. (request # None => Forward(request))'
  BY GoodRequest DEF Forward
<1>4. (result # None => Forward(result) /\ (result.status = "updated" => result.to <= Base))'
  BY GoodResult DEF Forward
<1>5. (plan # None => Forward(plan) /\ (plan.saved # None => RowsHold(plan.saved.row)))'
  BY GoodPlan DEF RowsHold, Forward
<1>6. (sup \in {"dependencies", "preflight", "proving"} => code = plan.to)'
  BY OnTheNewCommit
<1> QED  BY <1>1, <1>2, <1>3, <1>4, <1>5, <1>6 DEF Installed

LEMMA InstalledAtStart == UpdateInit => Installed
<1> SUFFICES ASSUME UpdateInit PROVE Installed
  OBVIOUS
<1>1. /\ remote = 1 /\ code = 0 /\ request = None /\ result = None /\ plan = None /\ sup = "tick"
      /\ db.row = [t \in Tasks |-> Untouched]
  BY DEF UpdateInit
<1>2. ASSUME NEW t \in Tasks
      PROVE  Forward(db.row[t]) /\ db.row[t].said # "updated"
  <2>1. db.row[t] = Untouched
    BY <1>1
  <2>2. Untouched.from = 0 /\ Untouched.to = 0 /\ Untouched.said = ""
    BY DEF Untouched
  <2>3. db.row[t].from = 0 /\ db.row[t].to = 0 /\ db.row[t].said = ""
    BY <2>1, <2>2
  <2>4. 0 <= remote
    BY <1>1
  <2>5. Forward(db.row[t])
    <3>1. 0 <= 0
      OBVIOUS
    <3>2. db.row[t].from <= db.row[t].to
      BY <2>3, <3>1, Zenon
    <3>3. db.row[t].to <= remote
      BY <2>3, <2>4, Zenon
    <3> QED  BY <3>2, <3>3 DEF Forward
  <2> QED  BY <2>3, <2>5
<1>3. RowsHold(db.row)
  BY <1>2 DEF RowsHold
<1> QED  BY <1>1, <1>3 DEF Installed, Base

LEMMA InstalledStutters ==
    ASSUME Installed, UNCHANGED vars
    PROVE  Installed'
<1>1. UNCHANGED <<remote, code, db, request, result, sup, plan>>
  BY DEF vars, files
<1> QED  BY <1>1 DEF Installed, RowsHold, Forward, Base

LEMMA UpdateSpecInstalled == UpdateSpec => []Installed
<1>1. Inv /\ Inv' /\ Installed /\ [UpdateNext]_vars => Installed'
  BY InstalledStep, InstalledStutters
<1> QED  BY <1>1, InstalledAtStart, UpdateSpecInv, PTL DEF UpdateSpec

\* A commit that a task reported as installed is never undone: a rollback goes back to where
\* its own update began, and no update begins behind an installed commit (self_update.run and
\* verify, rollback's `git reset --hard`).
THEOREM UpdateSpecStaysInstalled == UpdateSpec => []UpdatedStaysInstalled
<1>1. Inv /\ Installed => UpdatedStaysInstalled
  <2> SUFFICES ASSUME Inv, Installed, NEW t \in Tasks, db.row[t].said = "updated"
               PROVE  code >= db.row[t].to
    BY DEF UpdatedStaysInstalled
  <2>1. db.row[t].to <= Base /\ Base <= code
    BY DEF Installed, RowsHold
  <2>2. db.row[t].to \in Int /\ Base \in Int /\ code \in Int
    BY RowNumbers, InstalledTypes
  <2> QED  BY <2>1, <2>2
<1> QED  BY <1>1, UpdateSpecInv, UpdateSpecInstalled, PTL

-----------------------------------------------------------------------------
(* The update is a transaction on the checkout. *)

\* During an attempt the checkout is on one of its two commits.
OnEitherCommit == plan # None => code \in {plan.found.code, plan.to}

LEMMA EitherStep ==
    ASSUME Inv, OnEitherCommit, UpdateNext
    PROVE  OnEitherCommit'
<1>1. CASE code' = code /\ plan' = plan
  BY <1>1 DEF OnEitherCommit
<1>2. CASE plan' = None \/ (code' = code /\ plan'.found.code = code)
  BY <1>2 DEF OnEitherCommit
<1>3. CASE code' = code /\ SamePlan
  BY <1>3 DEF OnEitherCommit, SamePlan
<1>4. CASE code' = plan.to /\ plan' = plan
  BY <1>4 DEF OnEitherCommit
<1>5. CASE code' \in {plan.from, code} /\ SamePlan /\ plan.from = plan.found.code
  BY <1>5 DEF OnEitherCommit, SamePlan
<1> QED  BY <1>1, <1>2, <1>3, <1>4, <1>5, CodeMoves

LEMMA UpdateSpecEither == UpdateSpec => []OnEitherCommit
<1>1. UpdateInit => OnEitherCommit
  BY DEF UpdateInit, OnEitherCommit
<1>2. Inv /\ OnEitherCommit /\ [UpdateNext]_vars => OnEitherCommit'
  <2>1. ASSUME OnEitherCommit, UNCHANGED vars PROVE OnEitherCommit'
    BY <2>1 DEF OnEitherCommit, vars
  <2> QED  BY <2>1, EitherStep
<1> QED  BY <1>1, <1>2, UpdateSpecInv, PTL DEF UpdateSpec

\* What the owner sees at an end of an attempt.
LEMMA AttemptFields ==
    ASSUME Inv, plan # None
    PROVE  /\ Attempt # None /\ Attempt \in Transaction!Attempts
           /\ Attempt.task = plan.task /\ Attempt.from = plan.from /\ Attempt.to = plan.to
           /\ Base = plan.found.code
<1>1. plan \in PlanType
  BY DEF Inv, UpdateTypeOK
<1>2. /\ Attempt = [task |-> plan.task, from |-> plan.from, to |-> plan.to]
      /\ plan.task \in Tasks /\ plan.from \in Commits /\ plan.to \in Commits
  BY <1>1 DEF Attempt, PlanType
<1>3. Attempt.task = plan.task /\ Attempt.from = plan.from /\ Attempt.to = plan.to
  BY <1>2
<1>4. Attempt \in Transaction!Attempts
  BY <1>2 DEF Transaction!Attempts
<1>5. Attempt # None
  BY <1>2, <1>3, NoTask
<1> QED  BY <1>3, <1>4, <1>5 DEF Base

\* The answer the owner reads in a final result.
LEMMA AnswerFields ==
    ASSUME NEW status \in {"pending_health", "updated", "rolled_back"},
           NEW ok \in {"unknown", "yes", "no"}, Inv, plan # None, Says(status, ok)
    PROVE  Answer' = IF status = "updated" \/ ok # "unknown"
                     THEN [task |-> Attempt.task, from |-> Attempt.from, to |-> Attempt.to,
                           says |-> IF status = "updated" THEN "updated"
                                    ELSE IF ok = "yes" THEN "rolled back" ELSE "incomplete"]
                     ELSE None
<1>1. /\ result'.task = plan.task /\ result'.from = plan.from /\ result'.to = plan.to
      /\ result'.status = status /\ result'.ok = ok
  BY DEF Says
<1>2. plan.task \in Tasks
  BY DEF Inv, UpdateTypeOK, PlanType
<1>3. result' # None
  BY <1>1, <1>2, NoTask
<1>4. Final(result)' <=> (status = "updated" \/ ok # "unknown")
  BY <1>1, <1>3 DEF Final
<1> QED  BY <1>1, <1>4, AttemptFields DEF Answer, Verdict

LEMMA BadSaysNo ==
    ASSUME RolledBack, Says("rolled_back", "yes")
    PROVE  ~plan.bad
<1>1. ASSUME Says("rolled_back", "no") PROVE FALSE
  BY <1>1 DEF Says
<1> QED  BY <1>1 DEF RolledBack

LEMMA AttemptEnds ==
    ASSUME Inv, Installed, OnEitherCommit, Unchanged \/ Proved \/ RolledBack
    PROVE  Transaction!Installs \/ Transaction!GivesBack \/ Transaction!IsIncomplete
<1>1. /\ sup \in {"unchanged", "proving", "reproving"} /\ plan' = None /\ code' = code
  BY DEF Unchanged, Proved, RolledBack, Done, disk
<1>2. plan \in PlanType /\ plan # None /\ KeepsFound
  BY <1>1, Finds
<1>3. /\ Attempt # None /\ Base = plan.found.code
      /\ Attempt.from = plan.from /\ Attempt.to = plan.to
  BY <1>2, AttemptFields
<1>4. Attempt' = None /\ Base' = code
  BY <1>1 DEF Attempt, Base
<1>5. CASE Proved
  <2>1. sup = "proving" /\ Says("updated", "unknown")
    BY <1>5 DEF Proved
  <2>2. code = Attempt.to /\ Base = Attempt.from
    BY <1>2, <1>3, <2>1 DEF Installed, KeepsFound
  <2>3. Answer' = [task |-> Attempt.task, from |-> Attempt.from, to |-> Attempt.to,
                   says |-> "updated"]
    BY <1>2, <2>1, AnswerFields
  <2> QED  BY <1>3, <1>4, <2>2, <2>3 DEF Transaction!Installs, Transaction!Ends
<1>6. CASE \/ Unchanged
           \/ RolledBack /\ Says("rolled_back", "yes")
  <2>1. /\ Says("rolled_back", "yes")
        /\ sup = "unchanged" \/ sup = "reproving"
    BY <1>6 DEF Unchanged, RolledBack
  <2>2. Answer' = [task |-> Attempt.task, from |-> Attempt.from, to |-> Attempt.to,
                   says |-> "rolled back"]
    BY <1>2, <2>1, AnswerFields
  <2>3. code = Base
    <3>1. CASE sup = "unchanged"
      BY <1>2, <1>3, <3>1 DEF KeepsFound
    <3>2. CASE sup = "reproving"
      <4>1. RolledBack
        BY <1>6, <3>2 DEF Unchanged
      <4>2. ~plan.bad
        BY <2>1, <4>1, BadSaysNo
      <4> QED  BY <1>2, <1>3, <3>2, <4>2 DEF KeepsFound
    <3> QED  BY <2>1, <3>1, <3>2
  <2> QED  BY <1>3, <1>4, <2>2, <2>3 DEF Transaction!GivesBack, Transaction!Ends
<1>7. CASE RolledBack /\ Says("rolled_back", "no")
  <2>1. Answer' = [task |-> Attempt.task, from |-> Attempt.from, to |-> Attempt.to,
                   says |-> "incomplete"]
    BY <1>2, <1>7, AnswerFields
  <2>2. code \in {Base, Attempt.to}
    BY <1>2, <1>3 DEF OnEitherCommit
  <2> QED  BY <1>3, <1>4, <2>1, <2>2 DEF Transaction!IsIncomplete, Transaction!Ends
<1> QED  BY <1>5, <1>6, <1>7 DEF RolledBack

\* The plan, the checkout and the final result are as they were.
LEMMA AttemptGoesOn ==
    ASSUME Inv, code' = code \/ (plan # None /\ plan' # None), SamePlan \/ plan' = plan
    PROVE  Base' = Base /\ Attempt' = Attempt
<1>1. CASE plan' = plan
  BY <1>1 DEF Base, Attempt
<1>2. CASE SamePlan
  BY <1>2 DEF Base, Attempt, SamePlan
<1> QED  BY <1>1, <1>2

LEMMA TransactionStep ==
    ASSUME Inv, Inv', Installed, OnEitherCommit, UpdateNext
    PROVE  Transaction!Next \/ UNCHANGED <<Base, Attempt, Answer>>
<1>1. CASE Unchanged \/ Proved \/ RolledBack
  BY <1>1, AttemptEnds DEF Transaction!Next
<1>2. CASE PowerFails \/ \E t \in Tasks : ApproveCutShort(t)
  <2>1. plan' = None /\ code' = code /\ result' = result
    BY <1>2 DEF PowerFails, ApproveCutShort, PowerOff, files, disk
  <2>2. Attempt' = None /\ Base' = code /\ Answer' = Answer
    BY <2>1 DEF Attempt, Base, Answer, Final, Verdict
  <2>3. CASE plan = None
    BY <2>2, <2>3 DEF Attempt, Base
  <2>4. CASE plan # None
    BY <2>2, <2>4, AttemptFields
       DEF OnEitherCommit, Transaction!Next, Transaction!IsLost
  <2> QED  BY <2>3, <2>4
<1>3. CASE TakeRequest
  <2>1. /\ plan' # None /\ plan = None /\ plan'.found.code = code
        /\ code' = code /\ result' = result
    <3>1. /\ sup = "tick" /\ sup' = "check" /\ plan'.found.code = code
          /\ code' = code /\ result' = result
      BY <1>3 DEF TakeRequest, Goes, disk
    <3>2. plan' # None /\ plan = None
      BY <3>1 DEF Inv, UpdateTypeOK
    <3> QED  BY <3>1, <3>2
  <2>2. plan'.task \in Tasks /\ plan'.from \in Commits /\ plan'.to \in Commits
    BY <2>1 DEF Inv, UpdateTypeOK, PlanType
  <2>3. Attempt = None /\ Attempt' \in Transaction!Attempts
    BY <2>1, <2>2 DEF Attempt, Transaction!Attempts
  <2>4. Base' = Base /\ Answer' = Answer
    BY <2>1 DEF Base, Answer, Final, Verdict
  <2> QED  BY <2>3, <2>4 DEF Transaction!Next, Transaction!Begin
<1>4. CASE Preflight \/ RestoreDb
  <2>1. /\ sup \in {"preflight", "redb"} /\ code' = code
        /\ \/ result' = result
           \/ \E status \in {"pending_health", "rolled_back"} : Says(status, "unknown")
        /\ plan' = plan \/ \E bad \in BOOLEAN : Failing(bad)
    BY <1>4 DEF Preflight, RestoreDb, disk
  <2>2. plan \in PlanType /\ plan # None
    BY <2>1, Finds
  <2>3. Base' = Base /\ Attempt' = Attempt
    BY <2>1, <2>2, FailingKeeps, AttemptGoesOn
  <2>4. Answer' = Answer \/ Answer' = None
    <3>1. CASE result' = result
      BY <3>1 DEF Answer, Final, Verdict
    <3>2. CASE \E status \in {"pending_health", "rolled_back"} : Says(status, "unknown")
      BY <2>2, <3>2, AnswerFields
    <3> QED  BY <2>1, <3>1, <3>2
  <2> QED  BY <2>2, <2>3, <2>4, AttemptFields DEF Transaction!Next, Transaction!Withdraw
<1>5. CASE ~(Unchanged \/ Proved \/ RolledBack \/ PowerFails \/ TakeRequest \/ Preflight
             \/ RestoreDb \/ \E t \in Tasks : ApproveCutShort(t))
  <2>1. result' = result
    BY <1>5
       DEF UpdateNext, Push, TaskNext, AskUpdate, Check, Refuse, Approve, HandOver, Waits, Report,
           CoreNext, CoreUp, CoreDies, OwnerRestarts, OtherWork, SupervisorNext, Restarts, GivesUp,
           ChecksOut, Backup, Checkout, Dependencies, NotProved, Reset, Resync, PowerBack, files
  <2>2. plan' = None => plan' = plan
    <3>1. CASE Backup \/ Reset \/ Resync
      <4>1. plan \in PlanType
        BY <3>1, Finds DEF Backup, Reset, Resync
      <4>2. CASE Reset \/ Resync
        BY <4>1, <4>2, FailingKeeps DEF Reset, Resync, SamePlan
      <4>3. CASE Backup
        <5>1. plan' = [plan EXCEPT !.saved = db]
          BY <4>3 DEF Backup
        <5>2. plan'.task \in Tasks
          BY <4>1, <5>1 DEF PlanType
        <5> QED  BY <5>2, NoTask
      <4> QED  BY <3>1, <4>2, <4>3
    <3>2. CASE ~(Backup \/ Reset \/ Resync)
      BY <1>5, <3>2
         DEF UpdateNext, Push, TaskNext, AskUpdate, Check, Refuse, Approve, HandOver, Waits, Report,
             CoreNext, CoreUp, CoreDies, OwnerRestarts, OtherWork, SupervisorNext, Restarts, GivesUp,
             ChecksOut, Checkout, Dependencies, NotProved, PowerBack
    <3> QED  BY <3>1, <3>2
  <2>3. /\ code' = code \/ (plan # None /\ plan' # None)
        /\ SamePlan \/ plan' = plan
    BY <1>5, <2>2, CodeMoves DEF SamePlan
  <2>4. Base' = Base /\ Attempt' = Attempt
    BY <2>3, AttemptGoesOn
  <2> QED  BY <2>1, <2>4 DEF Answer, Final, Verdict
<1> QED  BY <1>1, <1>2, <1>3, <1>4, <1>5

\* Every step of the task, the supervisor and the power is a step of UpdateTransaction or is
\* not seen by it: the checkout ends on one of the two commits of the attempt, "updated" is
\* said of the new one only, a complete rollback of the old one only (apply_update, rollback).
THEOREM UpdateSpecImplementsTransaction == UpdateSpec => ImplementsTransaction
<1>1. UpdateInit => Transaction!Init
  <2>1. 0 \in Commits
    BY UpdateAssumption DEF Commits
  <2> QED  BY <2>1 DEF UpdateInit, Transaction!Init, Base, Attempt, Answer, Final
<1>2. Inv /\ Inv' /\ Installed /\ OnEitherCommit /\ [UpdateNext]_vars
      => [Transaction!Next]_<<Base, Attempt, Answer>>
  <2>1. ASSUME UNCHANGED vars PROVE UNCHANGED <<Base, Attempt, Answer>>
    BY <2>1 DEF vars, files, Base, Attempt, Answer, Final, Verdict
  <2> QED  BY <2>1, TransactionStep
<1> QED  BY <1>1, <1>2, UpdateSpecInv, UpdateSpecInstalled, UpdateSpecEither, PTL
         DEF UpdateSpec, ImplementsTransaction, Transaction!Spec

-----------------------------------------------------------------------------
(* An attempt runs down. *)

\* How far an attempt at p is from its end, over the rollback if it comes to one.
Ahead(p) == CASE p = "check"        -> 11 [] p = "backup"    -> 10 [] p = "checkout" -> 9
              [] p = "dependencies" -> 8  [] p = "preflight" -> 7  [] p = "proving"  -> 6
              [] p = "reset"        -> 5  [] p = "resync"    -> 4  [] p = "redb"     -> 3
              [] p = "reproving"    -> 2  [] p = "unchanged" -> 1  [] OTHER          -> 0

\* It gets nearer to its end, for the same task and commits, or ends with a result of its own.
AttemptOnward ==
    \/ /\ Ahead(sup') < Ahead(sup) /\ plan' # None
       /\ plan'.task = plan.task /\ plan'.from = plan.from /\ plan'.to = plan.to
    \/ plan' = None /\ sup' = "tick" /\ result'.task = plan.task /\ result'.status # "pending_health"

LEMMA SupervisorOnward ==
    ASSUME UpdateTypeOK, plan # None, SupervisorNext
    PROVE  AttemptOnward
<1>1. plan \in PlanType /\ sup \notin {"tick", "off"}
  BY DEF UpdateTypeOK
<1>2. ~Restarts /\ ~TakeRequest /\ ~PowerBack
  BY <1>1 DEF Restarts, TakeRequest, PowerBack
<1>3. CASE Unchanged \/ Proved \/ RolledBack
  BY <1>3 DEF Unchanged, Proved, RolledBack, Done, Goes, Says, AttemptOnward
<1>4. CASE GivesUp \/ ChecksOut \/ Checkout \/ Dependencies \/ Preflight \/ NotProved
  <2>1. plan' = plan /\ Ahead(sup') < Ahead(sup)
    BY <1>4 DEF GivesUp, ChecksOut, Checkout, Dependencies, Preflight, NotProved, Goes, Ahead
  <2> QED  BY <2>1 DEF AttemptOnward
<1>5. CASE Backup \/ Reset \/ Resync \/ RestoreDb
  <2>1. Ahead(sup') < Ahead(sup)
    BY <1>5 DEF Backup, Reset, Resync, RestoreDb, Goes, Ahead
  <2>2. \/ plan' = plan
        \/ plan' = [plan EXCEPT !.saved = db]
        \/ \E bad \in BOOLEAN : plan' = [plan EXCEPT !.bad = @ \/ bad]
    BY <1>5 DEF Backup, Reset, Resync, RestoreDb, Failing
  <2>3. plan'.task = plan.task /\ plan'.from = plan.from /\ plan'.to = plan.to
    BY <1>1, <2>2 DEF PlanType
  <2>4. plan' # None
    BY <1>1, <2>3, UpdateAssumption DEF PlanType, None
  <2> QED  BY <2>1, <2>3, <2>4 DEF AttemptOnward
<1> QED  BY <1>2, <1>3, <1>4, <1>5 DEF SupervisorNext

\* An attempt to update cannot go round for ever: each step the supervisor takes in it is nearer
\* to its end, forward or in the rollback, keeps to the task and the commits that were
\* approved, and leaves a result that is no longer open; core, the tasks and the owner do not
\* touch it, and a power failure ends it (apply_update, rollback).
THEOREM UpdateSpecAttemptRunsDown ==
    UpdateSpec => [][plan # None =>
                       /\ SupervisorNext => AttemptOnward
                       /\ ~SupervisorNext => UNCHANGED <<sup, plan>> \/ spent'.power > spent.power]_vars
<1>1. ASSUME UpdateTypeOK, UpdateNext, plan # None, ~SupervisorNext
      PROVE  UNCHANGED <<sup, plan>> \/ spent'.power > spent.power
  <2>1. ASSUME NEW T \in SUBSET Tasks, PowerOff(T) PROVE spent'.power > spent.power
    <3>1. spent \in SpentType
      BY <1>1 DEF UpdateTypeOK, SpentType
    <3>2. spent' = [spent EXCEPT !.power = @ + 1,
                                 !.merged = [t \in Tasks |-> IF t \in T THEN 0 ELSE spent.merged[t]]]
      BY <2>1 DEF PowerOff
    <3>3. spent'.power = spent.power + 1 /\ spent.power \in Nat
      BY <3>1, <3>2, UpdateAssumption DEF SpentType
    <3> QED  BY <3>3
  <2>2. CASE PowerFails
    BY <2>1, <2>2 DEF PowerFails
  <2>3. CASE TaskNext
    BY <2>1, <2>3 DEF TaskNext, AskUpdate, Check, Refuse, Approve, ApproveCutShort, HandOver, Waits,
                      Report
  <2>4. CASE CoreNext \/ Push
    BY <2>4 DEF CoreNext, CoreUp, CoreDies, OwnerRestarts, OtherWork, Push
  <2> QED  BY <1>1, <2>2, <2>3, <2>4 DEF UpdateNext
<1>2. UpdateTypeOK /\ [UpdateNext]_vars =>
        [plan # None =>
           /\ SupervisorNext => AttemptOnward
           /\ ~SupervisorNext => UNCHANGED <<sup, plan>> \/ spent'.power > spent.power]_vars
  BY <1>1, SupervisorOnward
<1> QED  BY <1>2, UpdateSpecTypeOK, PTL DEF UpdateSpec
=============================================================================
