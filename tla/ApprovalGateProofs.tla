------------------------- MODULE ApprovalGateProofs -------------------------
(***************************************************************************)
(* For every number of tasks, actions and requests: the approval engine    *)
(* composed with the task engine implements TaskEngine, hence keeps all    *)
(* of its invariants, and an approval lets through one side effect.        *)
(***************************************************************************)
EXTENDS ApprovalGate, TaskEngineProofs

RowsTyped ==
    /\ rows \in [Approvals -> [status : ApprovalStatus, task : Tasks \cup {NoTask},
                               act : Actions \cup {NoAction}]]
    /\ spent \in [Approvals -> Nat]
    /\ checking \in [Lane -> Yellow \cup {NoAction}]

\* A stored request names the task that made it.
RowsOwned == \A a \in Approvals : rows[a].status # "FREE" => rows[a].task \in Tasks

\* A lane that awaits a safety check is inside the step that called require.
CheckingInStep == \A l \in Lane : checking[l] # NoAction => pc[l] = "step"

GateInv == /\ Inv
           /\ RowsTyped
           /\ RowsOwned
           /\ SingleUse
           /\ CheckingInStep

-----------------------------------------------------------------------------
(* Every step of the gate is a step of the engine or invisible to it *)

LEMMA NeedApprovalRefines ==
    ASSUME NEW l \in Lane, NEW f, NeedApproval(l, f)
    PROVE  [Next]_vars
<1>1. UNCHANGED vars \/ Park(l) \/ StepAsks(l)
  BY DEF NeedApproval, UseApproval, JoinRequest, NewRequest
<1> QED
  BY <1>1 DEF Next, LaneStep

LEMMA GateRefines ==
    ASSUME NEW l \in Lane, Gate(l)
    PROVE  [Next]_vars
<1>1. ASSUME NEW f \in Actions, Require(l, f) PROVE [Next]_vars
  <2>1. CASE Refuse(l, "PERMISSION_DENIED")
    BY <2>1 DEF Next, LaneStep, StepRefused
  <2>2. CASE NeedApproval(l, f)
    BY <2>2, NeedApprovalRefines
  <2>3. CASE UNCHANGED vars
    BY <2>3
  <2> QED
    BY <1>1, <2>1, <2>2, <2>3 DEF Require
<1>2. ASSUME CheckPasses(l) PROVE [Next]_vars
  BY <1>2 DEF CheckPasses
<1>3. ASSUME CheckFails(l) PROVE [Next]_vars
  BY <1>3, NeedApprovalRefines DEF CheckFails
<1>4. ASSUME CheckRaises(l) PROVE [Next]_vars
  BY <1>4 DEF CheckRaises, Next, LaneStep
<1> QED
  BY <1>1, <1>2, <1>3, <1>4 DEF Gate

LEMMA DecideRefines ==
    ASSUME RowsOwned, NEW a \in Approvals, NEW approve \in BOOLEAN, Decide(a, approve)
    PROVE  [Next]_vars
<1> DEFINE t == rows[a].task
<1>1. /\ up /\ t \in Tasks
      /\ UNCHANGED <<queuePaused, laneVars, procVars, watchVars>>
  BY DEF Decide, RowsOwned
<1>2. \/ Release(t, "RETRYING", "none")
      \/ \E why \in DropReason : Release(t, "CANCELLED", why)
  <2>1. CASE ~Fresh(a)
    BY <2>1 DEF Decide, DropReason
  <2>2. CASE Fresh(a) /\ approve
    BY <2>2 DEF Decide
  <2>3. CASE Fresh(a) /\ ~approve
    BY <2>3 DEF Decide, DropReason
  <2> QED
    BY <2>1, <2>2, <2>3
<1>3. CASE UNCHANGED task
  BY <1>1, <1>3 DEF vars, laneVars, procVars, watchVars
<1>4. CASE ~UNCHANGED task
  <2>1. \/ ReleaseParked(t, "RETRYING", "none")
        \/ \E why \in DropReason : ReleaseParked(t, "CANCELLED", why)
    BY <1>2, <1>4 DEF Release
  <2> QED
    BY <1>1, <2>1 DEF DecisionStep, Next
<1> QED
  BY <1>3, <1>4

LEMMA SweepRefines ==
    ASSUME NEW S, SweepOver(S), up,
           UNCHANGED <<queuePaused, laneVars, procVars, watchVars>>
    PROVE  [Next]_vars
<1>1. CASE UNCHANGED task
  BY <1>1 DEF vars, laneVars, procVars, watchVars
<1>2. CASE ~UNCHANGED task
  <2>1. PICK a \in S : /\ WaitsForApproval(a)
                       /\ ReleaseParked(rows[a].task, "CANCELLED", "APPROVAL_EXPIRED")
    BY <1>2 DEF SweepOver
  <2> QED
    BY <2>1 DEF WaitsForApproval, DecisionStep, DropReason, Next
<1> QED
  BY <1>1, <1>2

LEMMA GateNextRefines ==
    ASSUME RowsOwned, [GateNext]_allVars
    PROVE  [Next]_vars
<1>1. CASE \E l \in Lane : EngineLane(l)
  BY <1>1 DEF EngineLane, LaneStep, Next
<1>2. CASE \E l \in Lane : Gate(l)
  BY <1>2, GateRefines
<1>3. CASE \E a \in Approvals, approve \in BOOLEAN : Decide(a, approve)
  BY <1>3, DecideRefines
<1>4. CASE ExpireDue \/ SweepOn
  BY <1>4, SweepRefines DEF ExpireDue, SweepOn
<1>5. CASE Tick \/ LockdownOff
  BY <1>5 DEF Tick, LockdownOff
<1>6. CASE LockdownOn
  BY <1>6 DEF LockdownOn, DecisionStep, Next
<1>7. CASE GateExit
  BY <1>7 DEF GateExit, Next
<1>8. CASE OwnerStep \/ WatchStep \/ RequestExit \/ Start
  BY <1>8 DEF Next
<1>9. CASE UNCHANGED allVars
  BY <1>9 DEF allVars
<1> QED
  BY <1>1, <1>2, <1>3, <1>4, <1>5, <1>6, <1>7, <1>8, <1>9 DEF GateNext, GateWorld

-----------------------------------------------------------------------------
(* The rows *)

TableOK == RowsTyped /\ RowsOwned /\ SingleUse

\* A row that is not spent moves to a status other than USED, and is not spent.
LEMMA RestampKeepsTable ==
    ASSUME TableOK, NEW S \in SUBSET Approvals, NEW new \in [S -> {"APPROVED", "REJECTED", "EXPIRED"}],
           \A a \in S : rows[a].status \in {"PENDING", "APPROVED"},
           rows' = [a \in Approvals |-> IF a \in S THEN [rows[a] EXCEPT !.status = new[a]]
                                                  ELSE rows[a]],
           UNCHANGED <<spent, checking>>
    PROVE  TableOK'
<1>1. \A a \in Approvals : rows[a] \in [status : ApprovalStatus, task : Tasks \cup {NoTask},
                                        act : Actions \cup {NoAction}]
  BY DEF TableOK, RowsTyped
<1>2. ASSUME NEW a \in Approvals
      PROVE  /\ rows'[a] \in [status : ApprovalStatus, task : Tasks \cup {NoTask},
                               act : Actions \cup {NoAction}]
             /\ rows'[a].task = rows[a].task
             /\ rows'[a].status = IF a \in S THEN new[a] ELSE rows[a].status
  BY <1>1 DEF ApprovalStatus
<1>3. RowsTyped'
  BY <1>2 DEF TableOK, RowsTyped
<1>4. RowsOwned'
  BY <1>2 DEF TableOK, RowsOwned
<1>5. SingleUse'
  BY <1>2 DEF TableOK, SingleUse
<1> QED
  BY <1>3, <1>4, <1>5 DEF TableOK

LEMMA NeedApprovalKeepsTable ==
    ASSUME GateInv, NEW l \in Lane, NEW f \in Actions, NeedApproval(l, f),
           checking' \in [Lane -> Yellow \cup {NoAction}]
    PROVE  TableOK'
<1>1. ASSUME UseApproval(l, f) PROVE TableOK'
  <2>1. PICK a \in Approvals : /\ rows[a].status = "APPROVED"
                              /\ rows' = [rows EXCEPT ![a].status = "USED"]
                              /\ spent' = [spent EXCEPT ![a] = @ + 1]
    BY <1>1 DEF UseApproval, Live
  <2>2. rows[a] \in [status : ApprovalStatus, task : Tasks \cup {NoTask}, act : Actions \cup {NoAction}]
    BY DEF GateInv, RowsTyped
  <2> DEFINE q == [rows[a] EXCEPT !.status = "USED"]
  <2>3. /\ q \in [status : ApprovalStatus, task : Tasks \cup {NoTask}, act : Actions \cup {NoAction}]
        /\ q.status = "USED" /\ q.task = rows[a].task
    BY <2>2 DEF ApprovalStatus
  <2> HIDE DEF q
  <2>4. rows' = [rows EXCEPT ![a] = q]
    BY <2>1 DEF q
  <2>5. \A b \in Approvals : rows'[b] = IF b = a THEN q ELSE rows[b]
    BY <2>4 DEF GateInv, RowsTyped
  <2>6. spent[a] = 0 /\ \A b \in Approvals : spent'[b] = IF b = a THEN 1 ELSE spent[b]
    BY <2>1 DEF GateInv, RowsTyped, SingleUse
  <2>7. RowsTyped'
    BY <2>1, <2>3, <2>4 DEF GateInv, RowsTyped
  <2>8. RowsOwned' /\ SingleUse'
    BY <2>1, <2>3, <2>5, <2>6 DEF GateInv, RowsOwned, SingleUse
  <2> QED
    BY <2>7, <2>8 DEF TableOK
<1>2. ASSUME JoinRequest(l, f) PROVE TableOK'
  BY <1>2 DEF JoinRequest, rowVars, GateInv, TableOK, RowsTyped, RowsOwned, SingleUse
<1>3. ASSUME NewRequest(l, f) PROVE TableOK'
  <2> DEFINE q == [status |-> "PENDING", task |-> cur[l], act |-> f]
  <2>1. PICK a \in Approvals : /\ rows[a].status = "FREE"
                              /\ rows' = [rows EXCEPT ![a] = q]
    BY <1>3 DEF NewRequest
  <2>2. cur[l] \in Tasks
    BY <1>3, HeldRow DEF NewRequest, StepAsks, Working, GateInv, Inv
  <2>3. /\ q \in [status : ApprovalStatus, task : Tasks \cup {NoTask}, act : Actions \cup {NoAction}]
        /\ q.status = "PENDING" /\ q.task \in Tasks
    BY <2>2 DEF ApprovalStatus
  <2> HIDE DEF q
  <2>4. \A b \in Approvals : rows'[b] = IF b = a THEN q ELSE rows[b]
    BY <2>1 DEF GateInv, RowsTyped
  <2>5. spent' = spent
    BY <1>3 DEF NewRequest
  <2>6. RowsTyped'
    BY <2>1, <2>3, <2>5 DEF GateInv, RowsTyped
  <2>7. RowsOwned' /\ SingleUse'
    BY <2>1, <2>3, <2>4, <2>5 DEF GateInv, RowsOwned, SingleUse
  <2> QED
    BY <2>6, <2>7 DEF TableOK
<1> QED
  BY <1>1, <1>2, <1>3 DEF NeedApproval

LEMMA GateKeepsTable ==
    ASSUME GateInv, NEW l \in Lane, Gate(l)
    PROVE  TableOK'
<1>1. ASSUME UNCHANGED rowVars, checking' \in [Lane -> Yellow \cup {NoAction}]
      PROVE  TableOK'
  BY <1>1 DEF rowVars, GateInv, TableOK, RowsTyped, RowsOwned, SingleUse
<1>2. ASSUME NEW f \in Actions, Require(l, f) PROVE TableOK'
  <2>1. checking' \in [Lane -> Yellow \cup {NoAction}]
    BY <1>2 DEF Require, GateInv, RowsTyped
  <2> QED
    BY <1>1, <1>2, <2>1, NeedApprovalKeepsTable DEF Require
<1>3. ASSUME CheckPasses(l) \/ CheckFails(l) \/ CheckRaises(l) PROVE TableOK'
  <2>1. /\ checking' \in [Lane -> Yellow \cup {NoAction}]
        /\ checking[l] \in Actions
    BY <1>3 DEF CheckPasses, CheckFails, CheckRaises, GateInv, RowsTyped, Actions
  <2> QED
    BY <1>1, <1>3, <2>1, NeedApprovalKeepsTable DEF CheckPasses, CheckFails, CheckRaises
<1> QED
  BY <1>2, <1>3 DEF Gate

LEMMA DecisionsKeepTable ==
    ASSUME GateInv,
           \/ \E a \in Approvals, approve \in BOOLEAN : Decide(a, approve)
           \/ ExpireDue \/ LockdownOn
    PROVE  TableOK'
<1>0. TableOK
  BY DEF GateInv, TableOK
<1>1. ASSUME NEW a \in Approvals, NEW approve \in BOOLEAN, Decide(a, approve)
      PROVE  TableOK'
  <2> DEFINE outcome == IF ~Fresh(a) THEN "EXPIRED" ELSE IF approve THEN "APPROVED" ELSE "REJECTED"
             new == [b \in {a} |-> outcome]
  <2>1. /\ rows' = [rows EXCEPT ![a].status = outcome]
        /\ rows[a].status = "PENDING"
        /\ UNCHANGED <<spent, checking>>
    BY <1>1 DEF Decide
  <2>2. new \in [{a} -> {"APPROVED", "REJECTED", "EXPIRED"}] /\ new[a] = outcome
    OBVIOUS
  <2> HIDE DEF outcome, new
  <2>3. rows' = [b \in Approvals |-> IF b \in {a} THEN [rows[b] EXCEPT !.status = new[b]] ELSE rows[b]]
    BY <2>1, <2>2 DEF GateInv, RowsTyped
  <2>4. {a} \in SUBSET Approvals /\ \A b \in {a} : rows[b].status \in {"PENDING", "APPROVED"}
    BY <2>1
  <2> QED
    BY <1>0, <2>1, <2>2, <2>3, <2>4, RestampKeepsTable
<1>2. ASSUME ExpireDue PROVE TableOK'
  <2> DEFINE new == [b \in Due |-> "EXPIRED"]
  <2>1. rows' = [b \in Approvals |-> IF b \in Due THEN [rows[b] EXCEPT !.status = new[b]] ELSE rows[b]]
    BY <1>2 DEF ExpireDue
  <2>2. new \in [Due -> {"APPROVED", "REJECTED", "EXPIRED"}]
    OBVIOUS
  <2>3. /\ Due \in SUBSET Approvals /\ UNCHANGED <<spent, checking>>
        /\ \A b \in Due : rows[b].status \in {"PENDING", "APPROVED"}
    BY <1>2 DEF Due, ExpireDue
  <2> HIDE DEF new
  <2> QED
    BY <1>0, <2>1, <2>2, <2>3, RestampKeepsTable
<1>3. ASSUME LockdownOn PROVE TableOK'
  <2> DEFINE new == [b \in Pending |-> IF Fresh(b) THEN "REJECTED" ELSE "EXPIRED"]
  <2>1. rows' = [b \in Approvals |-> IF b \in Pending THEN [rows[b] EXCEPT !.status = new[b]] ELSE rows[b]]
    BY <1>3 DEF LockdownOn
  <2>2. new \in [Pending -> {"APPROVED", "REJECTED", "EXPIRED"}]
    OBVIOUS
  <2>3. /\ Pending \in SUBSET Approvals /\ UNCHANGED <<spent, checking>>
        /\ \A b \in Pending : rows[b].status \in {"PENDING", "APPROVED"}
    BY <1>3 DEF Pending, LockdownOn
  <2> HIDE DEF new
  <2> QED
    BY <1>0, <2>1, <2>2, <2>3, RestampKeepsTable
<1> QED
  BY <1>1, <1>2, <1>3

LEMMA OthersKeepTable ==
    ASSUME GateInv,
           \/ \E l \in Lane : EngineLane(l)
           \/ SweepOn \/ Tick \/ LockdownOff \/ GateExit \/ UNCHANGED gateVars
    PROVE  TableOK'
<1>1. UNCHANGED <<rows, spent>> /\ checking' \in [Lane -> Yellow \cup {NoAction}]
  BY DEF EngineLane, SweepOn, Tick, LockdownOff, GateExit, gateVars, rowVars, GateInv, RowsTyped
<1> QED
  BY <1>1 DEF GateInv, TableOK, RowsTyped, RowsOwned, SingleUse

-----------------------------------------------------------------------------
(* The lanes *)

\* A step of one lane leaves the coroutine of the other one where it is.
LEMMA OtherLane ==
    ASSUME StoreAssumption, Inv, NEW l \in Lane, LaneStep(l), NEW k \in Lane, k # l
    PROVE  pc'[k] = pc[k] /\ cur'[k] = cur[k]
<1>1. CASE Claim(l)
  BY <1>1 DEF Claim, Inv, TypeOK
<1>2. CASE Told(l)
  BY <1>2 DEF Told, Inv, TypeOK
<1>3. CASE WorkStep(l)
  <2>1. PICK r \in Row, p \in PC : LaneMove(l, r, p)
    BY <1>3, WorkStepMoves DEF Inv, Moves
  <2> QED
    BY <2>1 DEF LaneMove, Inv, TypeOK
<1> QED
  BY <1>1, <1>2, <1>3 DEF LaneStep, WorkStep

LEMMA NeedApprovalSteps ==
    ASSUME NEW l, NEW f, NeedApproval(l, f)
    PROVE  LaneStep(l) \/ UNCHANGED vars
BY DEF NeedApproval, UseApproval, JoinRequest, NewRequest, LaneStep

LEMMA GateSteps ==
    ASSUME NEW l, EngineLane(l) \/ Gate(l)
    PROVE  LaneStep(l) \/ UNCHANGED vars
<1>1. CASE EngineLane(l)
  BY <1>1 DEF EngineLane, LaneStep
<1>2. ASSUME NEW f \in Actions, Require(l, f) PROVE LaneStep(l) \/ UNCHANGED vars
  BY <1>2, NeedApprovalSteps DEF Require, LaneStep, StepRefused
<1>3. CASE CheckPasses(l) \/ CheckFails(l) \/ CheckRaises(l)
  BY <1>3, NeedApprovalSteps DEF CheckPasses, CheckFails, CheckRaises, LaneStep
<1> QED
  BY <1>1, <1>2, <1>3 DEF Gate

\* What a lane of the gate leaves alone.
LEMMA OtherGateLane ==
    ASSUME StoreAssumption, GateInv, NEW l \in Lane, EngineLane(l) \/ Gate(l),
           NEW k \in Lane, k # l
    PROVE  pc'[k] = pc[k] /\ cur'[k] = cur[k] /\ checking'[k] = checking[k]
<1>1. pc'[k] = pc[k] /\ cur'[k] = cur[k]
  BY GateSteps, OtherLane DEF GateInv, vars, laneVars
<1>2. checking'[k] = checking[k]
  BY DEF EngineLane, Gate, Require, CheckPasses, CheckFails, CheckRaises, gateVars, GateInv,
         RowsTyped
<1> QED
  BY <1>1, <1>2

\* After a step of a lane, its safety check is over or it still is in its step.
LEMMA OwnCheck ==
    ASSUME GateInv, NEW l \in Lane, EngineLane(l) \/ Gate(l), checking'[l] # NoAction
    PROVE  pc'[l] = "step"
<1>1. CASE Gate(l)
  <2>1. PICK f \in Actions : Require(l, f) /\ checking'[l] # NoAction
    BY <1>1 DEF Gate, CheckPasses, CheckFails, CheckRaises, GateInv, RowsTyped
  <2>2. CASE checking' = checking
    BY <2>1, <2>2 DEF Require
  <2>3. CASE UNCHANGED vars
    BY <2>1, <2>3 DEF Require, vars, laneVars
  <2> QED
    BY <2>1, <2>2, <2>3 DEF Require
<1>2. CASE EngineLane(l)
  <2>1. checking[l] # NoAction /\ pc[l] = "step"
    BY <1>2 DEF EngineLane, gateVars, GateInv, CheckingInStep
  <2> QED
    BY <1>2, <2>1 DEF EngineLane, Claim, Plan, StartStep, Halted, Finish, Told, VerifyPasses,
       VerifyBlocked, VerifyNeedsWork, VerifyError, Stopping
<1> QED
  BY <1>1, <1>2

LEMMA CheckingStays ==
    ASSUME StoreAssumption, GateInv, [GateNext]_allVars
    PROVE  CheckingInStep'
<1>1. ASSUME NEW l \in Lane, EngineLane(l) \/ Gate(l) PROVE CheckingInStep'
  BY <1>1, OtherGateLane, OwnCheck DEF GateInv, CheckingInStep
<1>2. CASE GateWorld \/ UNCHANGED allVars
  <2>1. UNCHANGED <<pc, checking>>
    BY <1>2 DEF GateWorld, Decide, ExpireDue, SweepOn, Tick, LockdownOn, LockdownOff, OwnerStep,
       WatchStep, WatchAsk, WatchLocked, WatchRelease, RequestExit, Start, gateVars, vars,
       laneVars, allVars
  <2> QED
    BY <2>1 DEF GateInv, CheckingInStep
<1>3. CASE GateExit
  BY <1>3 DEF GateExit, CheckingInStep
<1> QED
  BY <1>1, <1>2, <1>3 DEF GateNext

-----------------------------------------------------------------------------
LEMMA GateInitInv == StoreAssumption /\ EngineAssumption /\ GateInit => GateInv
<1> SUFFICES ASSUME StoreAssumption, EngineAssumption, GateInit
             PROVE  GateInv
  OBVIOUS
<1>1. Inv
  BY InitInv DEF GateInit
<1>2. RowsTyped /\ RowsOwned /\ SingleUse /\ CheckingInStep
  BY DEF GateInit, RowsTyped, RowsOwned, SingleUse, CheckingInStep, FreeRow, ApprovalStatus
<1> QED
  BY <1>1, <1>2 DEF GateInv

LEMMA GateNextInv ==
    StoreAssumption /\ EngineAssumption /\ GateInv /\ [GateNext]_allVars => GateInv'
<1> SUFFICES ASSUME StoreAssumption, EngineAssumption, GateInv, [GateNext]_allVars
             PROVE  GateInv'
  OBVIOUS
<1>1. Inv'
  BY GateNextRefines, NextInv DEF GateInv
<1>2. TableOK'
  <2>1. CASE \E l \in Lane : Gate(l)
    BY <2>1, GateKeepsTable
  <2>2. CASE (\E a \in Approvals, approve \in BOOLEAN : Decide(a, approve)) \/ ExpireDue \/ LockdownOn
    BY <2>2, DecisionsKeepTable
  <2>3. CASE \/ \E l \in Lane : EngineLane(l)
             \/ SweepOn \/ Tick \/ LockdownOff \/ GateExit \/ UNCHANGED gateVars
    BY <2>3, OthersKeepTable
  <2> QED
    BY <2>1, <2>2, <2>3 DEF GateNext, GateWorld, allVars
<1>3. CheckingInStep'
  BY CheckingStays
<1> QED
  BY <1>1, <1>2, <1>3 DEF GateInv, TableOK

THEOREM GateSpecInv == GateSpec => []GateInv
BY GateInitInv, GateNextInv, StoreAssumption, EngineAssumption, PTL DEF GateSpec

-----------------------------------------------------------------------------
(* The order of expiry *)

LEMMA WithoutIsPart ==
    ASSUME NEW S, fresh' = Without(S)
    PROVE  /\ fresh' \subseteq fresh
           /\ \A a : Fresh(a)' => Fresh(a)
BY DEF Without, Fresh

LEMMA StampedAddsOne ==
    ASSUME NEW order, order \subseteq fresh, NEW a \in Approvals, fresh' = Stamped(order, a)
    PROVE  /\ fresh \subseteq Approvals \X Approvals => fresh' \subseteq Approvals \X Approvals
           /\ \A b : Fresh(b)' => Fresh(b) \/ b = a
<1>1. ASSUME fresh \subseteq Approvals \X Approvals PROVE fresh' \subseteq Approvals \X Approvals
  BY <1>1 DEF Stamped
<1>2. ASSUME NEW b, Fresh(b)' PROVE Fresh(b) \/ b = a
  BY <1>2 DEF Stamped, Fresh
<1> QED
  BY <1>1, <1>2

LEMMA NeedApprovalOrder ==
    ASSUME NEW l \in Lane, NEW f, NeedApproval(l, f), fresh \subseteq Approvals \X Approvals
    PROVE  fresh' \subseteq Approvals \X Approvals
<1>1. CASE UseApproval(l, f)
  BY <1>1, WithoutIsPart DEF UseApproval
<1>2. CASE JoinRequest(l, f)
  BY <1>2 DEF JoinRequest, rowVars
<1>3. CASE NewRequest(l, f)
  BY <1>3, StampedAddsOne DEF NewRequest
<1> QED
  BY <1>1, <1>2, <1>3 DEF NeedApproval

LEMMA OrderKeepsType ==
    ASSUME [GateNext]_allVars, fresh \subseteq Approvals \X Approvals
    PROVE  fresh' \subseteq Approvals \X Approvals
<1>1. ASSUME NEW l \in Lane, Gate(l) PROVE fresh' \subseteq Approvals \X Approvals
  BY <1>1, NeedApprovalOrder
  DEF Gate, Require, CheckPasses, CheckFails, CheckRaises, rowVars
<1>2. ASSUME NEW b \in Approvals, NEW approve \in BOOLEAN, Decide(b, approve)
      PROVE  fresh' \subseteq Approvals \X Approvals
  <2>1. Without({b}) \subseteq fresh
    BY DEF Without
  <2>2. fresh' = Stamped(Without({b}), b) \/ fresh' = Without({b})
    BY <1>2 DEF Decide
  <2> QED
    BY <2>1, <2>2, StampedAddsOne
<1>3. CASE Tick \/ LockdownOn
  BY <1>3, WithoutIsPart DEF Tick, LockdownOn
<1>4. CASE fresh' = fresh
  BY <1>4
<1> QED
  BY <1>1, <1>2, <1>3, <1>4
  DEF GateNext, GateWorld, EngineLane, ExpireDue, SweepOn, LockdownOff, GateExit, gateVars, rowVars,
      allVars

\* Every variable of the gate keeps its type.
THEOREM GateSpecTypeOK == GateSpec => []GateTypeOK
<1> DEFINE Rest == /\ sweep \subseteq Approvals /\ lockdown \in BOOLEAN
                   /\ fresh \subseteq Approvals \X Approvals
<1>1. GateInit => Rest
  BY DEF GateInit
<1>2. Rest /\ [GateNext]_allVars => Rest'
  <2> SUFFICES ASSUME Rest, [GateNext]_allVars PROVE sweep' \subseteq Approvals /\ lockdown' \in BOOLEAN
    BY OrderKeepsType
  <2>1. Due \subseteq Approvals
    BY DEF Due
  <2>2. CASE ExpireDue
    BY <2>1, <2>2 DEF ExpireDue, SweepOver
  <2>3. CASE SweepOn
    BY <2>3 DEF SweepOn, SweepOver
  <2>4. CASE \E l \in Lane : Gate(l)
    BY <2>4 DEF Gate, Require, CheckPasses, CheckFails, CheckRaises
  <2>5. CASE ~ExpireDue /\ ~SweepOn /\ ~(\E l \in Lane : Gate(l))
    BY <2>5 DEF GateNext, GateWorld, EngineLane, Decide, Tick, LockdownOn, LockdownOff, GateExit,
                gateVars, allVars
  <2> QED
    BY <2>2, <2>3, <2>4, <2>5
<1>3. GateInv /\ Rest => GateTypeOK
  BY DEF GateInv, RowsTyped, GateTypeOK
<1> QED
  BY <1>1, <1>2, <1>3, GateSpecInv, PTL DEF GateSpec

\* The approval engine composed with the task engine implements the task engine: a parked
\* task is released or dropped by a decision, an expiry or a lockdown, and by nothing else.
THEOREM GateSpecImplementsEngine == GateSpec => GateImplementsEngine
<1>1. GateInit => Init
  BY DEF GateInit
<1>2. GateInv /\ [GateNext]_allVars => [Next]_vars
  BY GateNextRefines DEF GateInv
<1> QED
  BY <1>1, <1>2, GateSpecInv, PTL DEF GateSpec, GateImplementsEngine, Spec

\* One approval, at most one side effect.
THEOREM GateSpecSingleUse == GateSpec => []SingleUse
BY GateSpecInv, PTL DEF GateInv

\* The composition inherits what the engine promises.
THEOREM GateSpecNoTaskLost == GateSpec => [](OneWorkerPerTask /\ NoTaskLost)
BY GateSpecInv, PTL DEF GateInv, Inv

-----------------------------------------------------------------------------
(* What may happen to a request, and when an approval is used *)

\* A row is changed by its first request, by a decision while it is open, by its use or by
\* the sweeper.
RowFate(a) ==
    /\ rows[a].status \in {"REJECTED", "EXPIRED", "USED"} => rows'[a] = rows[a]
    /\ rows'[a].status = "APPROVED" /\ rows[a].status # "APPROVED" =>
         rows[a].status = "PENDING" /\ Fresh(a)

LEMMA NeedApprovalFate ==
    ASSUME GateInv, NEW l \in Lane, NEW f \in Actions, NeedApproval(l, f), NEW a \in Approvals
    PROVE  RowFate(a)
<1>1. CASE UseApproval(l, f)
  <2>1. PICK b \in Approvals : /\ rows[b].status = "APPROVED"
                              /\ rows' = [rows EXCEPT ![b].status = "USED"]
    BY <1>1 DEF UseApproval, Live
  <2>2. rows[b] \in [status : ApprovalStatus, task : Tasks \cup {NoTask}, act : Actions \cup {NoAction}]
    BY DEF GateInv, RowsTyped
  <2> DEFINE q == [rows[b] EXCEPT !.status = "USED"]
  <2>3. q.status = "USED"
    BY <2>2
  <2> HIDE DEF q
  <2>4. rows'[a] = IF a = b THEN q ELSE rows[a]
    BY <2>1 DEF GateInv, RowsTyped, q
  <2> QED
    BY <2>1, <2>3, <2>4 DEF RowFate
<1>2. CASE JoinRequest(l, f)
  BY <1>2 DEF JoinRequest, rowVars, RowFate
<1>3. CASE NewRequest(l, f)
  <2> DEFINE q == [status |-> "PENDING", task |-> cur[l], act |-> f]
  <2>1. PICK b \in Approvals : rows[b].status = "FREE" /\ rows' = [rows EXCEPT ![b] = q]
    BY <1>3 DEF NewRequest
  <2>2. q.status = "PENDING"
    OBVIOUS
  <2> HIDE DEF q
  <2>3. rows'[a] = IF a = b THEN q ELSE rows[a]
    BY <2>1 DEF GateInv, RowsTyped
  <2> QED
    BY <2>1, <2>2, <2>3 DEF RowFate
<1> QED
  BY <1>1, <1>2, <1>3 DEF NeedApproval

LEMMA RestampFate ==
    ASSUME GateInv, NEW a \in Approvals, NEW new,
           \/ rows'[a] = rows[a]
           \/ /\ rows'[a] = [rows[a] EXCEPT !.status = new]
              /\ \/ rows[a].status = "PENDING" /\ (new = "APPROVED" => Fresh(a))
                 \/ rows[a].status = "APPROVED" /\ new = "EXPIRED"
    PROVE  RowFate(a)
<1>1. rows[a] \in [status : ApprovalStatus, task : Tasks \cup {NoTask}, act : Actions \cup {NoAction}]
  BY DEF GateInv, RowsTyped
<1>2. [rows[a] EXCEPT !.status = new].status = new
  BY <1>1
<1> QED
  BY <1>2 DEF RowFate

LEMMA GateNextFate ==
    ASSUME GateInv, [GateNext]_allVars, NEW a \in Approvals
    PROVE  RowFate(a)
<1>1. ASSUME NEW l \in Lane, Gate(l) PROVE RowFate(a)
  <2>1. ASSUME NEW f \in Actions, Require(l, f) PROVE RowFate(a)
    BY <2>1, NeedApprovalFate DEF Require, rowVars, RowFate
  <2>2. ASSUME CheckFails(l) PROVE RowFate(a)
    BY <2>2, NeedApprovalFate DEF CheckFails, GateInv, RowsTyped, Actions
  <2> QED
    BY <1>1, <2>1, <2>2 DEF Gate, CheckPasses, CheckRaises, rowVars, RowFate
<1>2. ASSUME NEW b \in Approvals, NEW approve \in BOOLEAN, Decide(b, approve) PROVE RowFate(a)
  <2> DEFINE outcome == IF ~Fresh(b) THEN "EXPIRED" ELSE IF approve THEN "APPROVED" ELSE "REJECTED"
  <2>1. rows' = [rows EXCEPT ![b].status = outcome] /\ rows[b].status = "PENDING"
    BY <1>2 DEF Decide
  <2>2. outcome = "APPROVED" => Fresh(b)
    OBVIOUS
  <2> HIDE DEF outcome
  <2>3. rows'[a] = IF a = b THEN [rows[b] EXCEPT !.status = outcome] ELSE rows[a]
    BY <2>1 DEF GateInv, RowsTyped
  <2> QED
    BY <2>1, <2>2, <2>3, RestampFate
<1>3. ASSUME ExpireDue PROVE RowFate(a)
  <2>1. \/ rows'[a] = rows[a]
        \/ /\ rows'[a] = [rows[a] EXCEPT !.status = "EXPIRED"]
           /\ rows[a].status \in {"PENDING", "APPROVED"}
    BY <1>3 DEF ExpireDue, Due
  <2> QED
    BY <2>1, RestampFate
<1>4. ASSUME LockdownOn PROVE RowFate(a)
  <2> DEFINE new == IF Fresh(a) THEN "REJECTED" ELSE "EXPIRED"
  <2>1. \/ rows'[a] = rows[a]
        \/ rows'[a] = [rows[a] EXCEPT !.status = new] /\ rows[a].status = "PENDING"
    BY <1>4 DEF LockdownOn, Pending
  <2>2. new # "APPROVED"
    OBVIOUS
  <2> HIDE DEF new
  <2> QED
    BY <2>1, <2>2, RestampFate
<1>5. ASSUME rows' = rows PROVE RowFate(a)
  BY <1>5 DEF RowFate
<1> QED
  BY <1>1, <1>2, <1>3, <1>4, <1>5
  DEF GateNext, GateWorld, EngineLane, SweepOn, Tick, LockdownOff, GateExit, gateVars, rowVars, allVars

\* An approval that was rejected, expired or used is never live again, and only a request
\* that was pending and in time is ever approved.
THEOREM GateSpecDecisionsStand == GateSpec => DecisionsStand
<1>1. GateInv /\ [GateNext]_allVars => \A a \in Approvals : RowFate(a)
  BY GateNextFate
<1>2. GateInv /\ [GateNext]_allVars =>
        [\A a \in Approvals :
           /\ rows[a].status \in {"REJECTED", "EXPIRED", "USED"} => rows'[a] = rows[a]
           /\ rows'[a].status = "APPROVED" /\ rows[a].status # "APPROVED" =>
                rows[a].status = "PENDING" /\ Fresh(a)]_allVars
  BY <1>1 DEF RowFate
<1> QED
  BY <1>2, GateSpecInv, PTL DEF GateSpec, DecisionsStand

-----------------------------------------------------------------------------
(* The owner is asked once *)

Asked(a) == rows[a].status \in {"PENDING", "APPROVED"} /\ Fresh(a)

StaysAsked(a) == Asked(a) /\ rows'[a].task = rows[a].task /\ rows'[a].act = rows[a].act

\* The request of lane l for action f takes the free row a.
Requested(l, f, a) ==
    /\ Live(cur[l], f, "APPROVED") = {} /\ Live(cur[l], f, "PENDING") = {}
    /\ rows[a].status = "FREE"
    /\ rows' = [rows EXCEPT ![a] = [status |-> "PENDING", task |-> cur[l], act |-> f]]

\* Every live row was live before, for the same task and action, or is a new request.
AskedFate(a) == Asked(a)' => StaysAsked(a) \/ \E l \in Lane, f \in Actions : Requested(l, f, a)

LEMMA RestampAsked ==
    ASSUME GateInv, NEW a \in Approvals, NEW new,
           rows'[a] = [rows[a] EXCEPT !.status = new],
           new = "APPROVED" => Asked(a), new # "PENDING"
    PROVE  AskedFate(a)
<1>1. rows[a] \in [status : ApprovalStatus, task : Tasks \cup {NoTask}, act : Actions \cup {NoAction}]
  BY DEF GateInv, RowsTyped
<1> DEFINE q == [rows[a] EXCEPT !.status = new]
<1>2. q.status = new /\ q.task = rows[a].task /\ q.act = rows[a].act
  BY <1>1
<1> HIDE DEF q
<1>3. rows'[a] = q
  BY DEF q
<1> QED
  BY <1>2, <1>3 DEF AskedFate, StaysAsked, Asked

LEMMA KeptRowAsked ==
    ASSUME NEW a, rows'[a] = rows[a], Fresh(a)' => Fresh(a)
    PROVE  AskedFate(a)
BY DEF AskedFate, StaysAsked, Asked

LEMMA NeedApprovalAsked ==
    ASSUME GateInv, NEW l \in Lane, NEW f \in Actions, NeedApproval(l, f), NEW a \in Approvals
    PROVE  AskedFate(a)
<1>1. CASE UseApproval(l, f)
  <2>1. PICK b \in Approvals : /\ rows' = [rows EXCEPT ![b].status = "USED"]
                              /\ fresh' = Without({b})
    BY <1>1 DEF UseApproval, Live
  <2>2. Fresh(a)' => Fresh(a)
    BY <2>1, WithoutIsPart
  <2>3. CASE a = b
    <3>1. rows'[a] = [rows[a] EXCEPT !.status = "USED"]
      BY <2>1, <2>3 DEF GateInv, RowsTyped
    <3> QED
      BY <3>1, RestampAsked
  <2>4. CASE a # b
    BY <2>1, <2>2, <2>4, KeptRowAsked DEF GateInv, RowsTyped
  <2> QED
    BY <2>3, <2>4
<1>2. CASE JoinRequest(l, f)
  BY <1>2, KeptRowAsked DEF JoinRequest, rowVars, Fresh
<1>3. CASE NewRequest(l, f)
  <2> DEFINE q == [status |-> "PENDING", task |-> cur[l], act |-> f]
  <2>1. PICK b \in Approvals : /\ rows[b].status = "FREE" /\ rows' = [rows EXCEPT ![b] = q]
                              /\ fresh' = Stamped(fresh, b)
    BY <1>3 DEF NewRequest
  <2>2. CASE a = b
    <3>1. Requested(l, f, a)
      BY <1>3, <2>1, <2>2 DEF Requested, NewRequest
    <3> QED
      BY <3>1 DEF AskedFate
  <2>3. CASE a # b
    <3>1. rows'[a] = rows[a]
      BY <2>1, <2>3 DEF GateInv, RowsTyped
    <3>2. Fresh(a)' => Fresh(a)
      BY <2>1, <2>3, StampedAddsOne
    <3> QED
      BY <3>1, <3>2, KeptRowAsked
  <2> QED
    BY <2>2, <2>3
<1> QED
  BY <1>1, <1>2, <1>3 DEF NeedApproval

LEMMA DecideAsked ==
    ASSUME GateInv, NEW b \in Approvals, NEW approve \in BOOLEAN, Decide(b, approve),
           NEW a \in Approvals
    PROVE  AskedFate(a)
<1> DEFINE outcome == IF ~Fresh(b) THEN "EXPIRED" ELSE IF approve THEN "APPROVED" ELSE "REJECTED"
<1>1. /\ rows' = [rows EXCEPT ![b].status = outcome] /\ rows[b].status = "PENDING"
      /\ fresh' = Stamped(Without({b}), b) \/ fresh' = Without({b})
  BY DEF Decide
<1>2. (outcome = "APPROVED" => Asked(b)) /\ outcome # "PENDING"
  BY <1>1 DEF Asked
<1> HIDE DEF outcome
<1>3. CASE a = b
  <2>1. rows'[a] = [rows[a] EXCEPT !.status = outcome]
    BY <1>1, <1>3 DEF GateInv, RowsTyped
  <2> QED
    BY <1>2, <1>3, <2>1, RestampAsked
<1>4. CASE a # b
  <2>1. rows'[a] = rows[a]
    BY <1>1, <1>4 DEF GateInv, RowsTyped
  <2>2. Without({b}) \subseteq fresh
    BY DEF Without
  <2>3. Fresh(a)' => Fresh(a)
    BY <1>1, <1>4, <2>2, StampedAddsOne, WithoutIsPart
  <2> QED
    BY <2>1, <2>3, KeptRowAsked
<1> QED
  BY <1>3, <1>4

LEMMA GateNextAsked ==
    ASSUME GateInv, [GateNext]_allVars, NEW a \in Approvals
    PROVE  AskedFate(a)
<1>1. CASE rows' = rows /\ fresh' = fresh
  BY <1>1, KeptRowAsked DEF Fresh
<1>2. ASSUME NEW l \in Lane, Gate(l) PROVE AskedFate(a)
  <2>1. ASSUME NEW f \in Actions, Require(l, f) PROVE AskedFate(a)
    BY <1>1, <2>1, NeedApprovalAsked DEF Require, rowVars
  <2>2. ASSUME CheckFails(l) PROVE AskedFate(a)
    BY <2>2, NeedApprovalAsked DEF CheckFails, GateInv, RowsTyped, Actions
  <2> QED
    BY <1>1, <1>2, <2>1, <2>2 DEF Gate, CheckPasses, CheckRaises, rowVars
<1>3. CASE ExpireDue
  <2>1. fresh' = fresh
    BY <1>3 DEF ExpireDue
  <2>2. rows'[a] = rows[a] \/ rows'[a] = [rows[a] EXCEPT !.status = "EXPIRED"]
    BY <1>3 DEF ExpireDue
  <2> QED
    BY <2>1, <2>2, KeptRowAsked, RestampAsked DEF Fresh
<1>4. CASE LockdownOn
  <2> DEFINE new == IF Fresh(a) THEN "REJECTED" ELSE "EXPIRED"
  <2>1. rows'[a] = rows[a] \/ rows'[a] = [rows[a] EXCEPT !.status = new]
    BY <1>4 DEF LockdownOn
  <2>2. new # "APPROVED" /\ new # "PENDING"
    OBVIOUS
  <2> HIDE DEF new
  <2>3. Fresh(a)' => Fresh(a)
    BY <1>4, WithoutIsPart DEF LockdownOn
  <2> QED
    BY <2>1, <2>2, <2>3, KeptRowAsked, RestampAsked
<1>5. CASE Tick
  <2>1. rows' = rows /\ (Fresh(a)' => Fresh(a))
    BY <1>5, WithoutIsPart DEF Tick
  <2> QED
    BY <2>1, KeptRowAsked
<1> QED
  BY <1>1, <1>2, <1>3, <1>4, <1>5, DecideAsked
  DEF GateNext, GateWorld, EngineLane, SweepOn, LockdownOff, GateExit, gateVars, rowVars, allVars

LEMMA OneNewRow ==
    ASSUME GateInv, NEW a \in Approvals, NEW b \in Approvals, NEW l, NEW f, Requested(l, f, a)
    PROVE  /\ a # b => rows'[b] = rows[b]
           /\ rows'[a].task = cur[l] /\ rows'[a].act = f
<1> DEFINE q == [status |-> "PENDING", task |-> cur[l], act |-> f]
<1>1. q.task = cur[l] /\ q.act = f
  OBVIOUS
<1>2. rows' = [rows EXCEPT ![a] = q]
  BY DEF Requested
<1> HIDE DEF q
<1> QED
  BY <1>1, <1>2 DEF GateInv, RowsTyped

LEMMA NewIsAlone ==
    ASSUME GateInv, NEW a \in Approvals, NEW b \in Approvals, NEW l \in Lane, NEW f \in Actions,
           Requested(l, f, a), Asked(b)', StaysAsked(b) \/ rows[b].status = "FREE",
           rows'[a].task = rows'[b].task, rows'[a].act = rows'[b].act
    PROVE  a = b
<1> SUFFICES ASSUME a # b PROVE FALSE
  OBVIOUS
<1>1. /\ rows'[b] = rows[b]
      /\ rows[b].task = cur[l] /\ rows[b].act = f
  BY OneNewRow
<1>2. rows[b].status \in {"PENDING", "APPROVED"}
  BY <1>1 DEF Asked
<1>3. Asked(b)
  BY <1>2 DEF StaysAsked
<1> QED
  BY <1>1, <1>3 DEF Asked, Requested, Live

\* However often steps run again, of one task and action at most one request is open or
\* approved and unused (request looks for a pending one, require for an approval first).
THEOREM GateSpecNoDuplicateAsk == GateSpec => []NoDuplicateAsk
<1>1. GateInit => NoDuplicateAsk
  BY DEF GateInit, NoDuplicateAsk, Fresh
<1>2. GateInv /\ NoDuplicateAsk /\ [GateNext]_allVars => NoDuplicateAsk'
  <2> SUFFICES ASSUME GateInv, NoDuplicateAsk, [GateNext]_allVars,
                      NEW a \in Approvals, NEW b \in Approvals, Asked(a)', Asked(b)',
                      rows'[a].task = rows'[b].task, rows'[a].act = rows'[b].act
               PROVE  a = b
    BY DEF NoDuplicateAsk, Asked
  <2>1. AskedFate(a) /\ AskedFate(b)
    BY GateNextAsked
  <2>2. CASE StaysAsked(a) /\ StaysAsked(b)
    BY <2>2 DEF StaysAsked, Asked, NoDuplicateAsk
  <2>3. CASE \E l \in Lane, f \in Actions : Requested(l, f, a)
    BY <2>1, <2>3, NewIsAlone DEF AskedFate, Requested
  <2>4. CASE \E l \in Lane, f \in Actions : Requested(l, f, b)
    BY <2>1, <2>4, NewIsAlone DEF AskedFate, Requested
  <2> QED
    BY <2>1, <2>2, <2>3, <2>4 DEF AskedFate
<1> QED
  BY <1>1, <1>2, GateSpecInv, PTL DEF GateSpec

\* Whose step uses an approval, and when.
LEMMA UseNeedsStep ==
    ASSUME GateInv, [GateNext]_allVars, NEW a \in Approvals, spent'[a] # spent[a]
    PROVE  \E l \in Lane : /\ pc[l] = "step" /\ cur[l] = rows[a].task
                           /\ rows[a].act \in Red => ~lockdown
<1>1. PICK l \in Lane : Gate(l)
  BY DEF GateNext, GateWorld, EngineLane, Decide, ExpireDue, SweepOn, Tick, LockdownOn,
         LockdownOff, GateExit, gateVars, rowVars, allVars
<1>2. PICK f \in Actions : /\ UseApproval(l, f)
                           /\ \/ Require(l, f) /\ ~lockdown
                              \/ CheckFails(l) /\ f = checking[l] /\ f \in Yellow
  <2>1. ASSUME NEW f \in Actions, NeedApproval(l, f) PROVE UseApproval(l, f)
    BY <2>1 DEF NeedApproval, JoinRequest, NewRequest, rowVars
  <2>2. CASE \E f \in Actions : Require(l, f)
    BY <2>1, <2>2 DEF Require, rowVars
  <2>3. CASE CheckFails(l)
    BY <2>1, <2>3 DEF CheckFails, GateInv, RowsTyped, Actions
  <2> QED
    BY <1>1, <2>2, <2>3 DEF Gate, CheckPasses, CheckRaises, rowVars
<1>3. rows[a].task = cur[l] /\ rows[a].act = f
  <2>1. PICK b \in Approvals : b \in Live(cur[l], f, "APPROVED") /\ spent' = [spent EXCEPT ![b] = @ + 1]
    BY <1>2 DEF UseApproval, Live
  <2>2. a = b
    BY <2>1 DEF GateInv, RowsTyped
  <2> QED
    BY <2>1, <2>2 DEF Live
<1>4. pc[l] = "step"
  BY <1>2 DEF Require, CheckFails, GateInv, CheckingInStep
<1>5. f \in Red => ~lockdown
  BY <1>2, GateAssumption
<1> QED
  BY <1>3, <1>4, <1>5

\* An approval is used by a coroutine that executes a step of its running task.
THEOREM GateSpecUsedByItsTaskOnly == GateSpec => UsedByItsTaskOnly
<1>1. ASSUME GateInv, [GateNext]_allVars, NEW a \in Approvals, spent'[a] # spent[a]
      PROVE  /\ task[rows[a].task].state = "RUNNING"
             /\ \E l \in Lane : WorksOn(l, rows[a].task) /\ pc[l] = "step"
  <2>1. PICK l \in Lane : pc[l] = "step" /\ cur[l] = rows[a].task
    BY <1>1, UseNeedsStep
  <2>2. pc[l] \in Working /\ task[cur[l]].state \in StatesAt(l, "step")
    BY <1>1, <2>1 DEF GateInv, Inv, LanesMatchRows, Working
  <2> QED
    BY <2>1, <2>2 DEF StatesAt, WorksOn
<1>2. GateInv /\ [GateNext]_allVars =>
        [\A a \in Approvals : spent'[a] # spent[a] =>
           /\ task[rows[a].task].state = "RUNNING"
           /\ \E l \in Lane : WorksOn(l, rows[a].task) /\ pc[l] = "step"]_allVars
  BY <1>1
<1> QED
  BY <1>2, GateSpecInv, PTL DEF GateSpec, UsedByItsTaskOnly

\* Under a lockdown no RED action is let through.
THEOREM GateSpecLockdownStopsRed == GateSpec => LockdownStopsRed
<1>1. GateInv /\ [GateNext]_allVars =>
        [\A a \in Approvals : spent'[a] # spent[a] /\ rows[a].act \in Red => ~lockdown]_allVars
  BY UseNeedsStep
<1> QED
  BY <1>1, GateSpecInv, PTL DEF GateSpec, LockdownStopsRed
=============================================================================
