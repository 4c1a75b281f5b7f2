--------------------------- MODULE SkillCallsProofs ---------------------------
(***************************************************************************)
(* For every number of tasks, actions and requests: skill calls composed   *)
(* with the approval engine implement it, a side effect happens at most    *)
(* once unless a tool belies it, and no RED action runs without an         *)
(* approval of its own.                                                    *)
(***************************************************************************)
EXTENDS SkillCalls, ApprovalGateProofs

CallsTyped ==
    /\ ledger \in [Tasks -> [Calls -> EntryStatus]]
    /\ running \in [Lane -> Calls \cup {NoAction}]
    /\ open \subseteq Tasks \X Calls /\ belied \subseteq Tasks \X Calls
    /\ stray \in [Tasks -> [Calls -> {0, 1, 2}]]
    /\ happened \in [Tasks -> [Calls -> {0, 1, 2}]]

\* What a suspended call knows: its attempt is recorded, or may still be begun when the
\* safety check it awaits ends.
HeldAt(l) ==
    /\ running[l] # NoAction => /\ pc[l] = "step" /\ checking[l] = NoAction
                                /\ Entry(l, running[l]) = "PENDING"
    /\ checking[l] # NoAction => MayRun(l, checking[l])

Held == \A l \in Lane : HeldAt(l)

\* One action of one task in the ledger (LedgerKnows and EffectOnce, of that action).
Known(t, f) ==
    /\ <<t, f>> \in open => ledger[t][f] = "PENDING"
    /\ <<t, f>> \notin belied =>
         /\ happened[t][f] > 0 => ledger[t][f] \in {"PENDING", "DONE"} /\ <<t, f>> \notin open
         /\ stray[t][f] = 0
    /\ happened[t][f] > 1 => <<t, f>> \in belied

TallyOK == CallsTyped /\ \A t \in Tasks, f \in Calls : Known(t, f)

SkillInv == GateInv /\ Held /\ TallyOK /\ UsedIsAttempted

-----------------------------------------------------------------------------
(* Every step is a step of the gate or invisible to it *)

LEMMA SkillNextRefines ==
    ASSUME GateInv, Held, [SkillNext]_skillVars
    PROVE  [GateNext]_allVars
<1>1. ASSUME NEW l \in Lane, NEW f \in Calls, Call(l, f) PROVE [GateNext]_allVars
  <2>1. CASE Refused(l, f)
    <3>1. EngineLane(l)
      BY <1>1, <2>1 DEF Call, Refused, EngineLane, StepRefused
    <3> QED
      BY <3>1 DEF GateNext
  <2>2. CASE f \in Actions /\ Require(l, f)
    BY <2>2 DEF Gate, GateNext
  <2>3. CASE UNCHANGED allVars
    BY <2>3
  <2> QED
    BY <1>1, <2>1, <2>2, <2>3 DEF Call
<1>2. ASSUME NEW l \in Lane, Checked(l) PROVE [GateNext]_allVars
  BY <1>2 DEF Checked, Gate, GateNext
<1>3. ASSUME NEW l \in Lane, RunWorks(l) \/ RunFails(l) PROVE [GateNext]_allVars
  BY <1>3 DEF RunWorks, RunFails
<1>4. ASSUME NEW l \in Lane, RunLocked(l) \/ RunLost(l) PROVE [GateNext]_allVars
  <2>1. checking[l] = NoAction
    BY <1>4 DEF RunLocked, RunLost, Held, HeldAt
  <2>2. EngineLane(l)
    BY <1>4, <2>1 DEF RunLocked, RunLost, EngineLane
  <2> QED
    BY <2>2 DEF GateNext
<1>5. ASSUME NEW l \in Lane, EngineLane(l) PROVE [GateNext]_allVars
  BY <1>5 DEF GateNext
<1>6. CASE GateWorld \/ SkillExit
  BY <1>6 DEF SkillExit, GateNext
<1>7. ASSUME NEW t \in Tasks, NEW f \in Calls, EffectLands(t, f) PROVE [GateNext]_allVars
  BY <1>7 DEF EffectLands
<1>8. CASE UNCHANGED skillVars
  BY <1>8 DEF skillVars
<1> QED
  BY <1>1, <1>2, <1>3, <1>4, <1>5, <1>6, <1>7, <1>8 DEF SkillNext, SkillLane

-----------------------------------------------------------------------------
(* What a step does to the call variables *)

\* The task of a lane that is inside a step, which no other lane works on.
LEMMA StepTask ==
    ASSUME GateInv, NEW l \in Lane, pc[l] = "step"
    PROVE  /\ cur[l] \in Tasks
           /\ \A k \in Lane : k # l /\ pc[k] = "step" => cur[k] # cur[l]
BY DEF GateInv, Inv, LanesMatchRows, OneWorkerPerTask, WorksOn, Working

\* The entry of lane l's own task for f gets a new status, and nothing else changes.
RecordsOnly(l, f, status) ==
    /\ Record(l, f, status)
    /\ \A k \in Lane : k # l => running'[k] = running[k]

\* While lane l records the outcome of its own call, what the other lanes hold stays true.
LEMMA OthersHold ==
    ASSUME SkillInv, NEW l \in Lane, NEW f \in Calls, NEW status, pc[l] = "step",
           RecordsOnly(l, f, status) \/ (ledger' = ledger /\ \A k \in Lane : k # l => running'[k] = running[k]),
           \A k \in Lane : k # l => pc'[k] = pc[k] /\ cur'[k] = cur[k] /\ checking'[k] = checking[k],
           NEW k \in Lane, k # l
    PROVE  HeldAt(k)'
<1>1. CASE running[k] = NoAction /\ checking[k] = NoAction
  BY <1>1 DEF RecordsOnly, HeldAt
<1>2. CASE running[k] # NoAction \/ checking[k] # NoAction
  <2>1. pc[k] = "step"
    BY <1>2 DEF SkillInv, GateInv, Held, HeldAt, CheckingInStep
  <2>2. cur[k] \in Tasks /\ cur[k] # cur[l]
    BY <2>1, StepTask DEF SkillInv
  <2>3. ledger'[cur[k]] = ledger[cur[k]]
    BY <2>2 DEF RecordsOnly, Record, SkillInv, TallyOK, CallsTyped
  <2>4. HeldAt(k)
    BY DEF SkillInv, Held
  <2> QED
    BY <2>3, <2>4 DEF HeldAt, RecordsOnly, Entry, MayRun
<1> QED
  BY <1>1, <1>2

\* A table with one entry rewritten.
LEMMA Rewritten ==
    ASSUME NEW S, NEW T, NEW V, NEW h \in [S -> [T -> V]], NEW s \in S, NEW t \in T, NEW v \in V
    PROVE  /\ [h EXCEPT ![s][t] = v] \in [S -> [T -> V]]
           /\ \A x \in S, y \in T :
                [h EXCEPT ![s][t] = v][x][y] = IF x = s /\ y = t THEN v ELSE h[x][y]
<1> DEFINE e == [h[s] EXCEPT ![t] = v]
<1>1. e \in [T -> V] /\ \A y \in T : e[y] = IF y = t THEN v ELSE h[s][y]
  OBVIOUS
<1>2. [h EXCEPT ![s][t] = v] = [h EXCEPT ![s] = e]
  OBVIOUS
<1> HIDE DEF e
<1> QED
  BY <1>1, <1>2

LEMMA RecordedLedger ==
    ASSUME CallsTyped, NEW l \in Lane, NEW f \in Calls, NEW status \in EntryStatus,
           cur[l] \in Tasks, Record(l, f, status)
    PROVE  /\ ledger' \in [Tasks -> [Calls -> EntryStatus]]
           /\ \A t \in Tasks, g \in Calls :
                ledger'[t][g] = IF t = cur[l] /\ g = f THEN status ELSE ledger[t][g]
<1> DEFINE new == [ledger EXCEPT ![cur[l]][f] = status]
<1>1. /\ new \in [Tasks -> [Calls -> EntryStatus]]
      /\ \A t \in Tasks, g \in Calls :
           new[t][g] = IF t = cur[l] /\ g = f THEN status ELSE ledger[t][g]
  BY Rewritten DEF CallsTyped
<1>2. ledger' = new
  BY DEF Record
<1> HIDE DEF new
<1> QED
  BY <1>1, <1>2

\* An attempt is begun only when nothing is recorded or the earlier one is called failed.
LEMMA BeginKeepsTally ==
    ASSUME SkillInv, NEW l \in Lane, NEW f \in Calls, pc[l] = "step", MayRun(l, f), BeginRun(l, f)
    PROVE  TallyOK'
<1>1. cur[l] \in Tasks
  BY StepTask DEF SkillInv
<1>2. /\ ledger' \in [Tasks -> [Calls -> EntryStatus]]
      /\ \A t \in Tasks, g \in Calls :
           ledger'[t][g] = IF t = cur[l] /\ g = f THEN "PENDING" ELSE ledger[t][g]
  BY <1>1, RecordedLedger DEF BeginRun, SkillInv, TallyOK, EntryStatus
<1>3. /\ running' \in [Lane -> Calls \cup {NoAction}]
      /\ open' = open \cup {<<cur[l], f>>} /\ open' \subseteq Tasks \X Calls
      /\ UNCHANGED <<stray, happened, belied>>
  BY <1>1 DEF BeginRun, SkillInv, TallyOK, CallsTyped
<1>4. CallsTyped'
  BY <1>2, <1>3 DEF CallsTyped, SkillInv, TallyOK
<1>5. ASSUME NEW t \in Tasks, NEW g \in Calls PROVE Known(t, g)'
  <2>1. Known(t, g)
    BY DEF SkillInv, TallyOK
  <2>2. CASE t = cur[l] /\ g = f
    <3>1. ledger[t][g] \in {"none", "FAILED"}
      BY <2>2 DEF MayRun, Entry
    <3> QED
      BY <1>2, <1>3, <2>1, <2>2, <3>1 DEF Known
  <2>3. CASE ~(t = cur[l] /\ g = f)
    BY <1>2, <1>3, <2>1, <2>3 DEF Known
  <2> QED
    BY <2>2, <2>3
<1> QED
  BY <1>4, <1>5 DEF TallyOK

\* A counter up to two, counted on.
LEMMA CountedOn ==
    ASSUME NEW h \in [Tasks -> [Calls -> {0, 1, 2}]], NEW t \in Tasks, NEW f \in Calls
    PROVE  /\ [h EXCEPT ![t][f] = UpTo2(@)] \in [Tasks -> [Calls -> {0, 1, 2}]]
           /\ \A u \in Tasks, g \in Calls : [h EXCEPT ![t][f] = UpTo2(@)][u][g] =
                IF u = t /\ g = f THEN UpTo2(h[t][f]) ELSE h[u][g]
<1>1. UpTo2(h[t][f]) \in {0, 1, 2}
  BY DEF UpTo2
<1>2. [h EXCEPT ![t][f] = UpTo2(@)] = [h EXCEPT ![t][f] = UpTo2(h[t][f])]
  OBVIOUS
<1> HIDE DEF UpTo2
<1> QED
  BY <1>1, <1>2, Rewritten

\* What RunFails does to the counters: an attempt that is not belied had no effect.
LEMMA FailedStrays ==
    ASSUME SkillInv, NEW l \in Lane, RunFails(l), cur[l] \in Tasks, running[l] \in Calls
    PROVE  /\ stray' \in [Tasks -> [Calls -> {0, 1, 2}]]
           /\ belied' \subseteq Tasks \X Calls /\ belied \subseteq belied'
           /\ Attempt(l) \in open \/ Attempt(l) \in belied'
           /\ \A t \in Tasks, g \in Calls : <<t, g>> \notin belied' =>
                <<t, g>> \notin belied /\ stray'[t][g] = stray[t][g]
<1>1. stray \in [Tasks -> [Calls -> {0, 1, 2}]] /\ belied \subseteq Tasks \X Calls
  BY DEF SkillInv, TallyOK, CallsTyped
<1>2. CASE Attempt(l) \in open /\ UNCHANGED <<stray, belied>>
  BY <1>1, <1>2
<1>3. CASE belied' = belied \cup {Attempt(l)} /\ UNCHANGED stray
  BY <1>1, <1>3 DEF Attempt
<1>4. CASE /\ belied' = belied \cup {Attempt(l)}
           /\ stray' = [stray EXCEPT ![cur[l]][running[l]] = UpTo2(@)]
  <2>1. /\ stray' \in [Tasks -> [Calls -> {0, 1, 2}]]
        /\ \A t \in Tasks, g \in Calls :
             ~(t = cur[l] /\ g = running[l]) => stray'[t][g] = stray[t][g]
    BY <1>1, <1>4, CountedOn
  <2> QED
    BY <1>1, <1>4, <2>1 DEF Attempt
<1> QED
  BY <1>2, <1>3, <1>4 DEF RunFails

\* The tool answered.
LEMMA AnswerKeepsTally ==
    ASSUME SkillInv, NEW l \in Lane, RunWorks(l) \/ RunFails(l)
    PROVE  TallyOK'
<1> DEFINE f == running[l]
           status == IF RunWorks(l) THEN "DONE" ELSE "FAILED"
<1>1. f \in Calls /\ pc[l] = "step"
  BY DEF RunWorks, RunFails, SkillInv, TallyOK, CallsTyped, Held, HeldAt
<1>2. cur[l] \in Tasks
  BY <1>1, StepTask DEF SkillInv
<1>3. /\ Record(l, f, status) /\ Heard(l) /\ UNCHANGED happened
      /\ \/ status = "DONE" /\ UNCHANGED <<stray, belied>>
         \/ status = "FAILED" /\ RunFails(l)
  BY DEF RunWorks, RunFails
<1> HIDE DEF status
<1>4. status \in EntryStatus
  BY <1>3 DEF EntryStatus
<1>5. /\ ledger' \in [Tasks -> [Calls -> EntryStatus]]
      /\ \A t \in Tasks, g \in Calls :
           ledger'[t][g] = IF t = cur[l] /\ g = f THEN status ELSE ledger[t][g]
  BY <1>1, <1>2, <1>3, <1>4, RecordedLedger DEF SkillInv, TallyOK
<1>6. /\ running' \in [Lane -> Calls \cup {NoAction}]
      /\ open' = open \ {<<cur[l], f>>} /\ open' \subseteq Tasks \X Calls
  BY <1>1, <1>3 DEF Heard, Attempt, SkillInv, TallyOK, CallsTyped
<1>7. /\ stray' \in [Tasks -> [Calls -> {0, 1, 2}]]
      /\ belied' \subseteq Tasks \X Calls /\ belied \subseteq belied'
      /\ status = "FAILED" => <<cur[l], f>> \in open \/ <<cur[l], f>> \in belied'
      /\ \A t \in Tasks, g \in Calls : <<t, g>> \notin belied' =>
           <<t, g>> \notin belied /\ stray'[t][g] = stray[t][g]
  <2>1. CASE status = "DONE" /\ UNCHANGED <<stray, belied>>
    BY <2>1 DEF SkillInv, TallyOK, CallsTyped
  <2>2. CASE RunFails(l)
    BY <1>1, <1>2, <2>2, FailedStrays DEF Attempt
  <2> QED
    BY <1>3, <2>1, <2>2
<1> HIDE DEF f
<1>8. CallsTyped'
  BY <1>3, <1>5, <1>6, <1>7 DEF CallsTyped, SkillInv, TallyOK
<1>9. ASSUME NEW t \in Tasks, NEW g \in Calls PROVE Known(t, g)'
  <2>1. Known(t, g)
    BY DEF SkillInv, TallyOK
  <2>2. CASE t = cur[l] /\ g = f
    BY <1>3, <1>5, <1>6, <1>7, <2>1, <2>2 DEF Known
  <2>3. CASE ~(t = cur[l] /\ g = f)
    BY <1>3, <1>5, <1>6, <1>7, <2>1, <2>3 DEF Known
  <2> QED
    BY <2>2, <2>3
<1> QED
  BY <1>8, <1>9 DEF TallyOK

\* An effect lands: of an attempt in doubt, or of one that its tool belied.
LEMMA LandingKeepsTally ==
    ASSUME SkillInv, NEW t \in Tasks, NEW f \in Calls, EffectLands(t, f)
    PROVE  TallyOK'
<1>1. CallsTyped
  BY DEF SkillInv, TallyOK
<1>2. /\ happened' \in [Tasks -> [Calls -> {0, 1, 2}]]
      /\ \A u \in Tasks, g \in Calls :
           happened'[u][g] = IF u = t /\ g = f THEN UpTo2(happened[t][f]) ELSE happened[u][g]
  BY <1>1, CountedOn DEF EffectLands, CallsTyped
<1>3. /\ UNCHANGED <<ledger, running, belied>>
      /\ open' \in SUBSET open
      /\ stray' \in [Tasks -> [Calls -> {0, 1, 2}]]
      /\ \A u \in Tasks, g \in Calls : ~(u = t /\ g = f) => stray'[u][g] = stray[u][g]
      /\ \/ <<t, f>> \in open /\ <<t, f>> \notin open' /\ UNCHANGED stray
         \/ stray[t][f] > 0
  <2>1. CASE stray[t][f] > 0 /\ stray' = [stray EXCEPT ![t][f] = @ - 1] /\ UNCHANGED open
    <3>1. stray[t][f] - 1 \in {0, 1, 2}
      BY <1>1, <2>1 DEF CallsTyped
    <3>2. stray' = [stray EXCEPT ![t][f] = stray[t][f] - 1]
      BY <2>1
    <3>3. /\ stray' \in [Tasks -> [Calls -> {0, 1, 2}]]
          /\ \A u \in Tasks, g \in Calls : ~(u = t /\ g = f) => stray'[u][g] = stray[u][g]
      BY <1>1, <3>1, <3>2, Rewritten DEF CallsTyped
    <3> QED
      BY <2>1, <3>3 DEF EffectLands
  <2>2. CASE <<t, f>> \in open /\ open' = open \ {<<t, f>>} /\ UNCHANGED stray
    BY <1>1, <2>2 DEF EffectLands, CallsTyped
  <2> QED
    BY <2>1, <2>2 DEF EffectLands
<1>4. CallsTyped'
  BY <1>1, <1>2, <1>3 DEF CallsTyped
<1>5. ASSUME NEW u \in Tasks, NEW g \in Calls PROVE Known(u, g)'
  <2>1. Known(u, g) /\ happened[u][g] \in {0, 1, 2}
    BY <1>1 DEF SkillInv, TallyOK, CallsTyped
  <2>2. CASE ~(u = t /\ g = f)
    BY <1>2, <1>3, <2>1, <2>2 DEF Known
  <2>3. CASE u = t /\ g = f /\ <<t, f>> \in belied
    BY <1>3, <2>1, <2>3 DEF Known
  <2>4. CASE u = t /\ g = f /\ <<t, f>> \notin belied
    BY <1>2, <1>3, <2>1, <2>4 DEF Known, UpTo2
  <2> QED
    BY <2>2, <2>3, <2>4
<1> QED
  BY <1>4, <1>5 DEF TallyOK

\* Nothing recorded, nothing begun: at most a lane stops listening.
LEMMA QuietKeepsTally ==
    ASSUME SkillInv, UNCHANGED <<ledger, stray, happened, belied>>, open' \in SUBSET open,
           running' \in [Lane -> Calls \cup {NoAction}]
    PROVE  TallyOK'
<1>1. CallsTyped'
  BY DEF SkillInv, TallyOK, CallsTyped
<1>2. ASSUME NEW t \in Tasks, NEW f \in Calls PROVE Known(t, f)'
  <2>1. Known(t, f)
    BY DEF SkillInv, TallyOK
  <2> QED
    BY <2>1 DEF Known
<1> QED
  BY <1>1, <1>2 DEF TallyOK

-----------------------------------------------------------------------------
(* The steps *)

\* A step of lane l, as the other lanes see it.
LaneFrame(l) ==
    \A k \in Lane : k # l => pc'[k] = pc[k] /\ cur'[k] = cur[k] /\ checking'[k] = checking[k]

LEMMA GateFrame ==
    ASSUME StoreAssumption, SkillInv, NEW l \in Lane,
           EngineLane(l) \/ Gate(l) \/ UNCHANGED <<pc, cur, checking>>
    PROVE  LaneFrame(l)
BY OtherGateLane DEF SkillInv, LaneFrame

\* Lane l begins an attempt.
LEMMA BeginKeeps ==
    ASSUME StoreAssumption, SkillInv, NEW l \in Lane, NEW f \in Calls, pc[l] = "step",
           MayRun(l, f), BeginRun(l, f), LaneFrame(l),
           pc'[l] = "step", cur'[l] = cur[l], checking'[l] = NoAction
    PROVE  Held' /\ TallyOK'
<1>1. TallyOK'
  BY BeginKeepsTally
<1>2. RecordsOnly(l, f, "PENDING") /\ running'[l] = f
  BY DEF BeginRun, RecordsOnly, SkillInv, TallyOK, CallsTyped
<1>3. ASSUME NEW k \in Lane, k # l PROVE HeldAt(k)'
  BY <1>2, <1>3, OthersHold DEF LaneFrame
<1>4. cur[l] \in Tasks
  BY StepTask DEF SkillInv
<1>5. ledger'[cur[l]][f] = "PENDING"
  <2>1. \A t \in Tasks, g \in Calls :
          ledger'[t][g] = IF t = cur[l] /\ g = f THEN "PENDING" ELSE ledger[t][g]
    BY <1>4, RecordedLedger DEF BeginRun, SkillInv, TallyOK, EntryStatus
  <2> QED
    BY <1>4, <2>1
<1>6. HeldAt(l)'
  BY <1>2, <1>5 DEF HeldAt, Entry
<1> QED
  BY <1>1, <1>3, <1>6 DEF Held

\* Lane l goes on or leaves its step and no attempt is begun.
LEMMA QuietKeeps ==
    ASSUME StoreAssumption, SkillInv, NEW l \in Lane, UNCHANGED <<ledger, stray, happened, belied, open>>,
           LaneFrame(l), \A k \in Lane : k # l => running'[k] = running[k],
           running' \in [Lane -> Calls \cup {NoAction}], HeldAt(l)'
    PROVE  Held' /\ TallyOK'
<1>1. ASSUME NEW k \in Lane, k # l PROVE HeldAt(k)'
  <2>1. HeldAt(k)
    BY DEF SkillInv, Held
  <2> QED
    BY <1>1, <2>1 DEF HeldAt, LaneFrame, Entry, MayRun
<1>2. TallyOK'
  BY QuietKeepsTally
<1> QED
  BY <1>1, <1>2 DEF Held

\* An approval was used in a step of the gate by lane l, for f: row a.
LEMMA UsedBy ==
    ASSUME GateInv, GateInv', [GateNext]_allVars, NEW a \in Approvals,
           rows'[a].status = "USED"
    PROVE  \/ spent'[a] = spent[a] /\ rows'[a] = rows[a]
           \/ spent'[a] # spent[a] /\ rows[a].status # "USED"
<1>1. RowFate(a)
  BY GateNextFate
<1>2. spent'[a] = 1 /\ (rows[a].status = "USED" <=> spent[a] = 1)
  BY DEF GateInv, SingleUse
<1> QED
  BY <1>1, <1>2 DEF RowFate

\* After NeedApproval: an approval was used and the lane is where it was, or the step is over.
LEMMA PaidOrOver ==
    ASSUME GateInv, NEW l \in Lane, NEW f \in Actions, NeedApproval(l, f)
    PROVE  \/ /\ UNCHANGED vars
              /\ \E a \in Approvals : /\ rows[a].task = cur[l] /\ rows[a].act = f
                                      /\ spent' = [spent EXCEPT ![a] = @ + 1]
                                      /\ spent'[a] # spent[a] /\ spent' # spent
                                      /\ rows'[a].task = cur[l] /\ rows'[a].act = f
           \/ UNCHANGED spent
<1>1. CASE UseApproval(l, f)
  <2>1. PICK a \in Live(cur[l], f, "APPROVED") :
            /\ rows' = [rows EXCEPT ![a].status = "USED"]
            /\ spent' = [spent EXCEPT ![a] = @ + 1]
    BY <1>1 DEF UseApproval
  <2>2. a \in Approvals /\ rows[a].task = cur[l] /\ rows[a].act = f
    BY <2>1 DEF Live
  <2>3. spent[a] \in Nat /\ spent'[a] = spent[a] + 1
    BY <2>1, <2>2 DEF GateInv, RowsTyped
  <2>4. rows'[a].task = rows[a].task /\ rows'[a].act = rows[a].act
    <3>1. rows[a] \in [status : ApprovalStatus, task : Tasks \cup {NoTask}, act : Actions \cup {NoAction}]
      BY <2>2 DEF GateInv, RowsTyped
    <3>2. rows'[a] = [rows[a] EXCEPT !.status = "USED"]
      BY <2>1, <2>2 DEF GateInv, RowsTyped
    <3> QED
      BY <3>1, <3>2
  <2>5. spent'[a] # spent[a] /\ spent' # spent
    BY <2>3
  <2>6. UNCHANGED vars
    BY <1>1 DEF UseApproval
  <2> QED
    BY <2>1, <2>2, <2>4, <2>5, <2>6
<1> QED
  BY <1>1 DEF NeedApproval, JoinRequest, NewRequest, rowVars

\* Every row that is USED after the step was USED before, or the step used it for an attempt.
UsesRecorded ==
    \/ UNCHANGED spent /\ \A t \in Tasks, f \in Calls : ledger'[t][f] = "none" => ledger[t][f] = "none"
    \/ \E l \in Lane, f \in Calls, a \in Approvals :
         /\ pc[l] = "step" /\ rows'[a].task = cur[l] /\ rows'[a].act = f
         /\ spent' = [spent EXCEPT ![a] = @ + 1]
         /\ Record(l, f, "PENDING")

LEMMA UsesStayRecorded ==
    ASSUME SkillInv, GateInv', TallyOK', [GateNext]_allVars, UsesRecorded
    PROVE  UsedIsAttempted'
<1> SUFFICES ASSUME NEW a \in Approvals, rows'[a].status = "USED", rows'[a].act \in Red
             PROVE  ledger'[rows'[a].task][rows'[a].act] # "none"
  BY DEF UsedIsAttempted
<1>1. rows'[a].task \in Tasks /\ rows'[a].act \in Calls
  BY DEF GateInv, RowsOwned, Calls, Actions
<1>2. CASE /\ UNCHANGED spent
           /\ \A t \in Tasks, f \in Calls : ledger'[t][f] = "none" => ledger[t][f] = "none"
  <2>1. rows'[a] = rows[a]
    BY <1>2, UsedBy DEF SkillInv
  <2> QED
    BY <1>1, <1>2, <2>1 DEF SkillInv, UsedIsAttempted
<1>3. ASSUME NEW l \in Lane, NEW f \in Calls, NEW b \in Approvals, pc[l] = "step",
             rows'[b].task = cur[l], rows'[b].act = f, spent' = [spent EXCEPT ![b] = @ + 1],
             Record(l, f, "PENDING")
      PROVE  ledger'[rows'[a].task][rows'[a].act] # "none"
  <2>1. \A t \in Tasks, g \in Calls :
          ledger'[t][g] = IF t = cur[l] /\ g = f THEN "PENDING" ELSE ledger[t][g]
    BY <1>3, StepTask, RecordedLedger DEF SkillInv, TallyOK, EntryStatus
  <2>2. CASE a = b
    BY <1>1, <1>3, <2>1, <2>2
  <2>3. CASE a # b
    <3>1. spent'[a] = spent[a]
      BY <1>3, <2>3 DEF SkillInv, GateInv, RowsTyped
    <3>2. rows'[a] = rows[a]
      BY <3>1, UsedBy DEF SkillInv
    <3> QED
      BY <1>1, <2>1, <3>2 DEF SkillInv, UsedIsAttempted
  <2> QED
    BY <2>2, <2>3
<1> QED
  BY <1>2, <1>3 DEF UsesRecorded

\* What the whole step of a lane preserves, and what it may begin.
StepKeeps == Held' /\ TallyOK' /\ UsesRecorded

\* A step that uses no approval and begins nothing.
LEMMA QuietStep ==
    ASSUME StoreAssumption, SkillInv, NEW l \in Lane,
           UNCHANGED <<ledger, stray, happened, belied, open, spent>>,
           LaneFrame(l), \A k \in Lane : k # l => running'[k] = running[k],
           running' \in [Lane -> Calls \cup {NoAction}], HeldAt(l)'
    PROVE  StepKeeps
BY QuietKeeps DEF StepKeeps, UsesRecorded

\* A step whose lane asked for permission: it pays and begins, or it is over.
LEMMA AskedStep ==
    ASSUME StoreAssumption, SkillInv, NEW l \in Lane, NEW f \in Actions, pc[l] = "step",
           running[l] = NoAction, MayRun(l, f), NeedApproval(l, f), RunIfPaid(l, f),
           LaneFrame(l), checking'[l] = NoAction
    PROVE  StepKeeps
<1>0. f \in Calls
  BY DEF Calls
<1>1. CASE UNCHANGED spent
  <2>1. UNCHANGED callVars
    BY <1>1 DEF RunIfPaid
  <2>2. HeldAt(l)'
    BY <2>1 DEF HeldAt, callVars
  <2> QED
    BY <1>1, <2>1, <2>2, QuietStep DEF callVars, SkillInv, TallyOK, CallsTyped
<1>2. ASSUME UNCHANGED vars, NEW a \in Approvals, spent' = [spent EXCEPT ![a] = @ + 1],
             spent' # spent, rows'[a].task = cur[l], rows'[a].act = f
      PROVE  StepKeeps
  <2>1. BeginRun(l, f)
    BY <1>2 DEF RunIfPaid
  <2>2. pc'[l] = "step" /\ cur'[l] = cur[l]
    BY <1>2 DEF vars, laneVars
  <2>3. Held' /\ TallyOK'
    BY <1>0, <2>1, <2>2, BeginKeeps
  <2> QED
    BY <1>0, <1>2, <2>1, <2>3 DEF StepKeeps, UsesRecorded, BeginRun
<1> QED
  BY <1>1, <1>2, PaidOrOver DEF SkillInv

LEMMA CallKeeps ==
    ASSUME StoreAssumption, SkillInv, NEW l \in Lane, NEW f \in Calls, Call(l, f)
    PROVE  StepKeeps
<1>0. pc[l] = "step" /\ checking[l] = NoAction /\ running[l] = NoAction
  BY DEF Call
<1>1. CASE Refused(l, f)
  <2>1. EngineLane(l)
    BY <1>0, <1>1 DEF Refused, EngineLane, StepRefused
  <2>2. LaneFrame(l)
    BY <2>1, GateFrame
  <2>3. UNCHANGED <<gateVars, callVars>>
    BY <1>1 DEF Refused
  <2>4. HeldAt(l)'
    BY <1>0, <2>3 DEF HeldAt, gateVars, callVars
  <2> QED
    BY <2>2, <2>3, <2>4, QuietStep DEF gateVars, callVars, SkillInv, TallyOK, CallsTyped
<1>2. CASE f \in Actions /\ MayRun(l, f) /\ Require(l, f) /\ RunIfPaid(l, f)
  <2>1. LaneFrame(l)
    BY <1>2, GateFrame DEF Gate
  <2>2. CASE NeedApproval(l, f) /\ UNCHANGED checking
    BY <1>0, <1>2, <2>1, <2>2, AskedStep
  <2>3. CASE UNCHANGED rowVars /\ ~(NeedApproval(l, f) /\ UNCHANGED checking)
    <3>1. UNCHANGED callVars /\ UNCHANGED spent
      BY <1>2, <2>3 DEF RunIfPaid, rowVars
    <3>2. HeldAt(l)'
      <4>1. CASE checking'[l] = NoAction
        BY <1>0, <3>1, <4>1 DEF HeldAt, callVars
      <4>2. CASE checking'[l] # NoAction
        <5>1. checking'[l] = f /\ UNCHANGED vars
          BY <1>0, <1>2, <2>3, <4>2 DEF Require, SkillInv, GateInv, RowsTyped
        <5> QED
          BY <1>0, <1>2, <3>1, <5>1 DEF HeldAt, callVars, vars, laneVars, MayRun, Entry
      <4> QED
        BY <4>1, <4>2
    <3> QED
      BY <2>1, <3>1, <3>2, QuietStep DEF callVars, SkillInv, TallyOK, CallsTyped
  <2> QED
    BY <1>2, <2>2, <2>3 DEF Require
<1>3. CASE MayRun(l, f) /\ BeginRun(l, f) /\ UNCHANGED allVars
  <2>1. /\ LaneFrame(l)
        /\ pc'[l] = "step" /\ cur'[l] = cur[l] /\ checking'[l] = NoAction
        /\ UNCHANGED spent
    BY <1>0, <1>3 DEF allVars, vars, laneVars, gateVars, LaneFrame
  <2>2. Held' /\ TallyOK'
    BY <1>0, <1>3, <2>1, BeginKeeps
  <2>3. \A t \in Tasks, g \in Calls : ledger'[t][g] = "none" => ledger[t][g] = "none"
    BY <1>0, <1>3, StepTask, RecordedLedger DEF BeginRun, SkillInv, TallyOK, EntryStatus
  <2> QED
    BY <2>1, <2>2, <2>3 DEF StepKeeps, UsesRecorded
<1> QED
  BY <1>0, <1>1, <1>2, <1>3 DEF Call

LEMMA CheckedKeeps ==
    ASSUME StoreAssumption, SkillInv, NEW l \in Lane, Checked(l)
    PROVE  StepKeeps
<1> DEFINE f == checking[l]
<1>0. /\ f \in Actions /\ f \in Calls /\ f # NoAction
      /\ pc[l] = "step" /\ running[l] = NoAction /\ MayRun(l, f)
  BY DEF Checked, SkillInv, GateInv, RowsTyped, CheckingInStep, Held, HeldAt, Calls, Actions
<1>1. LaneFrame(l)
  BY GateFrame DEF Checked, Gate
<1>2. checking'[l] = NoAction
  BY DEF Checked, CheckPasses, CheckFails, CheckRaises, SkillInv, GateInv, RowsTyped
<1>3. CASE CheckPasses(l) /\ BeginRun(l, f)
  <2>1. pc'[l] = "step" /\ cur'[l] = cur[l] /\ UNCHANGED spent
    BY <1>0, <1>3 DEF CheckPasses, vars, laneVars, rowVars
  <2>2. Held' /\ TallyOK'
    BY <1>0, <1>1, <1>2, <1>3, <2>1, BeginKeeps
  <2>3. \A t \in Tasks, g \in Calls : ledger'[t][g] = "none" => ledger[t][g] = "none"
    BY <1>0, <1>3, StepTask, RecordedLedger DEF BeginRun, SkillInv, TallyOK, EntryStatus
  <2> QED
    BY <2>1, <2>2, <2>3 DEF StepKeeps, UsesRecorded
<1>4. CASE CheckFails(l) /\ RunIfPaid(l, f)
  BY <1>0, <1>1, <1>2, <1>4, AskedStep DEF CheckFails
<1>5. CASE CheckRaises(l) /\ UNCHANGED callVars
  <2>1. HeldAt(l)'
    BY <1>0, <1>2, <1>5 DEF HeldAt, callVars
  <2> QED
    BY <1>1, <1>5, <2>1, QuietStep DEF CheckRaises, rowVars, callVars, SkillInv, TallyOK, CallsTyped
<1> QED
  BY <1>3, <1>4, <1>5 DEF Checked

LEMMA AnsweredKeeps ==
    ASSUME StoreAssumption, SkillInv, NEW l \in Lane,
           RunWorks(l) \/ RunFails(l) \/ RunLocked(l) \/ RunLost(l)
    PROVE  StepKeeps
<1> DEFINE f == running[l]
<1>0. f \in Calls /\ pc[l] = "step" /\ checking[l] = NoAction /\ Entry(l, f) = "PENDING"
  BY DEF RunWorks, RunFails, RunLocked, RunLost, SkillInv, TallyOK, CallsTyped, Held, HeldAt
<1>1. /\ running'[l] = NoAction
      /\ \A k \in Lane : k # l => running'[k] = running[k]
      /\ running' \in [Lane -> Calls \cup {NoAction}]
      /\ open' \in SUBSET open
      /\ UNCHANGED gateVars
  BY DEF RunWorks, RunFails, RunLocked, RunLost, Heard, SkillInv, TallyOK, CallsTyped, allVars
<1>2. HeldAt(l)'
  BY <1>0, <1>1 DEF HeldAt, gateVars
<1>3. CASE RunWorks(l) \/ RunFails(l)
  <2>1. LaneFrame(l)
    BY <1>3 DEF RunWorks, RunFails, allVars, vars, laneVars, gateVars, LaneFrame
  <2>2. PICK status \in {"DONE", "FAILED"} : Record(l, f, status)
    BY <1>3 DEF RunWorks, RunFails
  <2>3. ASSUME NEW k \in Lane, k # l PROVE HeldAt(k)'
    BY <1>0, <1>1, <2>1, <2>2, <2>3, OthersHold DEF LaneFrame, RecordsOnly
  <2>4. TallyOK'
    BY <1>3, AnswerKeepsTally
  <2>5. \A t \in Tasks, g \in Calls : ledger'[t][g] = "none" => ledger[t][g] = "none"
    BY <1>0, <2>2, StepTask, RecordedLedger DEF SkillInv, TallyOK, EntryStatus
  <2> QED
    BY <1>1, <1>2, <2>3, <2>4, <2>5 DEF StepKeeps, UsesRecorded, Held, gateVars
<1>4. CASE RunLocked(l) \/ RunLost(l)
  <2>1. EngineLane(l)
    BY <1>0, <1>4 DEF RunLocked, RunLost, EngineLane
  <2>2. LaneFrame(l)
    BY <2>1, GateFrame
  <2>3. UNCHANGED <<ledger, stray, happened, belied>>
    BY <1>4 DEF RunLocked, RunLost
  <2>4. TallyOK'
    BY <1>1, <2>3, QuietKeepsTally
  <2>5. ASSUME NEW k \in Lane, k # l PROVE HeldAt(k)'
    <3>1. HeldAt(k)
      BY DEF SkillInv, Held
    <3> QED
      BY <1>1, <2>2, <2>3, <2>5, <3>1 DEF HeldAt, LaneFrame, Entry, MayRun
  <2> QED
    BY <1>1, <1>2, <2>3, <2>4, <2>5 DEF StepKeeps, UsesRecorded, Held, gateVars
<1> QED
  BY <1>3, <1>4

LEMMA EngineLaneKeeps ==
    ASSUME StoreAssumption, SkillInv, NEW l \in Lane, running[l] = NoAction, EngineLane(l),
           UNCHANGED callVars
    PROVE  StepKeeps
<1>1. LaneFrame(l)
  BY GateFrame
<1>2. UNCHANGED gateVars
  BY DEF EngineLane
<1>3. HeldAt(l)'
  <2>1. CASE checking[l] = NoAction
    BY <1>2, <2>1 DEF HeldAt, gateVars, callVars
  <2>2. CASE checking[l] # NoAction
    <3>1. pc[l] = "step"
      BY <2>2 DEF SkillInv, GateInv, CheckingInStep
    <3> QED
      BY <2>2, <3>1 DEF EngineLane, Claim, Plan, StartStep, Halted, Finish, Told, VerifyPasses,
         VerifyBlocked, VerifyNeedsWork, VerifyError, Stopping
  <2> QED
    BY <2>1, <2>2
<1> QED
  BY <1>1, <1>2, <1>3, QuietStep DEF gateVars, callVars, SkillInv, TallyOK, CallsTyped

\* The steps of nobody's lane.
LEMMA WorldKeeps ==
    ASSUME SkillInv, UNCHANGED <<pc, cur, checking, ledger, running, spent>>, TallyOK'
    PROVE  StepKeeps
<1>1. Held'
  BY DEF SkillInv, Held, HeldAt, Entry, MayRun
<1> QED
  BY <1>1 DEF StepKeeps, UsesRecorded

LEMMA ExitKeeps ==
    ASSUME SkillInv, SkillExit
    PROVE  StepKeeps
<1>1. /\ running' = [l \in Lane |-> NoAction] /\ checking' = [l \in Lane |-> NoAction]
      /\ UNCHANGED <<ledger, open, stray, happened, belied, spent>>
  BY DEF SkillExit, GateExit, rowVars
<1>2. Held'
  BY <1>1 DEF Held, HeldAt
<1>3. TallyOK'
  BY <1>1, QuietKeepsTally
<1> QED
  BY <1>1, <1>2, <1>3 DEF StepKeeps, UsesRecorded

LEMMA SkillNextKeeps ==
    ASSUME StoreAssumption, SkillInv, [SkillNext]_skillVars
    PROVE  StepKeeps
<1>1. CASE \E l \in Lane : SkillLane(l)
  BY <1>1, CallKeeps, CheckedKeeps, AnsweredKeeps, EngineLaneKeeps DEF SkillLane
<1>2. ASSUME NEW t \in Tasks, NEW f \in Calls, EffectLands(t, f) PROVE StepKeeps
  <2>1. TallyOK'
    BY <1>2, LandingKeepsTally
  <2> QED
    BY <1>2, <2>1, WorldKeeps DEF EffectLands, allVars, vars, laneVars, gateVars
<1>3. CASE (GateWorld /\ UNCHANGED callVars) \/ UNCHANGED skillVars
  <2>1. TallyOK'
    BY <1>3, QuietKeepsTally DEF callVars, skillVars, SkillInv, TallyOK, CallsTyped
  <2>2. UNCHANGED <<pc, cur, checking, spent>>
    BY <1>3 DEF GateWorld, Decide, ExpireDue, SweepOn, Tick, LockdownOn, LockdownOff, OwnerStep,
       WatchStep, WatchAsk, WatchLocked, WatchRelease, RequestExit, Start, gateVars, rowVars,
       vars, laneVars, allVars, skillVars
  <2> QED
    BY <1>3, <2>1, <2>2, WorldKeeps DEF callVars, skillVars
<1>4. CASE SkillExit
  BY <1>4, ExitKeeps
<1> QED
  BY <1>1, <1>2, <1>3, <1>4 DEF SkillNext

-----------------------------------------------------------------------------
LEMMA SkillInitInv == StoreAssumption /\ EngineAssumption /\ SkillInit => SkillInv
<1> SUFFICES ASSUME StoreAssumption, EngineAssumption, SkillInit
             PROVE  SkillInv
  OBVIOUS
<1>1. GateInv
  BY GateInitInv DEF SkillInit
<1>2. Held
  BY DEF SkillInit, GateInit, Held, HeldAt
<1>3. CallsTyped
  BY DEF SkillInit, CallsTyped, EntryStatus
<1>4. ASSUME NEW t \in Tasks, NEW f \in Calls PROVE Known(t, f)
  BY DEF SkillInit, Known
<1>5. UsedIsAttempted
  BY DEF SkillInit, GateInit, UsedIsAttempted, FreeRow
<1> QED
  BY <1>1, <1>2, <1>3, <1>4, <1>5 DEF SkillInv, TallyOK

LEMMA SkillNextInv ==
    StoreAssumption /\ EngineAssumption /\ SkillInv /\ [SkillNext]_skillVars => SkillInv'
<1> SUFFICES ASSUME StoreAssumption, EngineAssumption, SkillInv, [SkillNext]_skillVars
             PROVE  SkillInv'
  OBVIOUS
<1>1. [GateNext]_allVars
  BY SkillNextRefines DEF SkillInv
<1>2. GateInv'
  BY <1>1, GateNextInv DEF SkillInv
<1>3. Held' /\ TallyOK' /\ UsesRecorded
  BY SkillNextKeeps DEF StepKeeps
<1>4. UsedIsAttempted'
  BY <1>1, <1>2, <1>3, UsesStayRecorded
<1> QED
  BY <1>2, <1>3, <1>4 DEF SkillInv

THEOREM SkillSpecInv == SkillSpec => []SkillInv
BY SkillInitInv, SkillNextInv, StoreAssumption, EngineAssumption, PTL DEF SkillSpec

\* Skill calls composed with the approval engine implement it, hence also the task engine.
THEOREM SkillSpecImplementsGate == SkillSpec => SkillCallsImplementGate
<1>1. SkillInit => GateInit
  BY DEF SkillInit
<1>2. SkillInv /\ [SkillNext]_skillVars => [GateNext]_allVars
  BY SkillNextRefines DEF SkillInv
<1> QED
  BY <1>1, <1>2, SkillSpecInv, PTL DEF SkillSpec, SkillCallsImplementGate, GateSpec

\* The types, and where a lane is that awaits a tool.
THEOREM SkillSpecTypeOK == SkillSpec => []SkillTypeOK
<1>1. SkillInv => SkillTypeOK
  BY DEF SkillInv, TallyOK, CallsTyped, Held, HeldAt, SkillTypeOK
<1> QED
  BY <1>1, SkillSpecInv, PTL

\* A side effect of a task happens at most once unless a tool called an attempt failed that
\* had its effect or could still have it.
THEOREM SkillSpecEffectOnce == SkillSpec => []EffectOnce
<1>1. SkillInv => EffectOnce
  BY DEF SkillInv, TallyOK, Known, EffectOnce
<1> QED
  BY <1>1, SkillSpecInv, PTL

\* What happened or may still happen is in the ledger, unless a tool belied it.
THEOREM SkillSpecLedgerKnows == SkillSpec => []LedgerKnows
<1>1. SkillInv => LedgerKnows
  BY DEF SkillInv, TallyOK, Known, LedgerKnows
<1> QED
  BY <1>1, SkillSpecInv, PTL

\* What was approved and used has been attempted.
THEOREM SkillSpecUsedIsAttempted == SkillSpec => []UsedIsAttempted
BY SkillSpecInv, PTL DEF SkillInv

-----------------------------------------------------------------------------
\* The lane that begins an attempt is the one whose call goes on.
LEMMA BeginsOwn ==
    ASSUME SkillInv, NEW l \in Lane, NEW f, BeginRun(l, f), NEW k \in Lane, running'[k] # running[k]
    PROVE  k = l /\ running'[k] = f
BY DEF BeginRun, SkillInv, TallyOK, CallsTyped

\* Lane l begins to run a RED action: an approval of its own is used up.
LEMMA RunIsPaid ==
    ASSUME SkillInv, NEW l \in Lane, NEW f \in Actions, NeedApproval(l, f), RunIfPaid(l, f),
           NEW k \in Lane, running'[k] # running[k], running'[k] \in Red
    PROVE  \E a \in Approvals : /\ spent'[a] # spent[a]
                                /\ rows[a].task = cur[k] /\ rows[a].act = running'[k]
<1>1. BeginRun(l, f) /\ spent' # spent
  BY DEF RunIfPaid, callVars
<1>2. k = l /\ running'[k] = f
  BY <1>1, BeginsOwn
<1> QED
  BY <1>1, <1>2, PaidOrOver DEF SkillInv

\* A RED action is run only by the step that uses up an approval of its task for it.
THEOREM SkillSpecAttemptsArePaid == SkillSpec => AttemptsArePaid
<1>1. ASSUME SkillInv, [SkillNext]_skillVars, NEW k \in Lane, running'[k] # running[k],
             running'[k] \in Red
      PROVE  \E a \in Approvals : /\ spent'[a] # spent[a]
                                  /\ rows[a].task = cur[k] /\ rows[a].act = running'[k]
  <2>0. NoAction \notin Red
    BY GateAssumption
  <2>1. ASSUME NEW l \in Lane, NEW f \in Calls, Call(l, f)
        PROVE  f \in Actions /\ NeedApproval(l, f) /\ RunIfPaid(l, f)
    <3>0. BeginRun(l, f) => f \in Red
      BY <1>1, BeginsOwn
    <3>1. ~Refused(l, f)
      BY <1>1 DEF Refused, callVars
    <3>2. ~(f \in Blue /\ BeginRun(l, f))
      BY <3>0, BlueAssumption
    <3>3. Require(l, f) /\ RunIfPaid(l, f) /\ f \in Actions
      BY <2>1, <3>1, <3>2 DEF Call
    <3>4. spent' # spent
      BY <1>1, <3>3 DEF RunIfPaid, callVars
    <3> QED
      BY <3>3, <3>4 DEF Require, rowVars
  <2>2. ASSUME NEW l \in Lane, Checked(l)
        PROVE  FALSE
    <3>1. checking[l] \in Yellow
      BY <1>1, <2>2 DEF Checked, SkillInv, GateInv, RowsTyped
    <3>2. ~BeginRun(l, checking[l])
      BY <1>1, <3>1, BeginsOwn, GateAssumption
    <3>3. ~UNCHANGED callVars
      BY <1>1 DEF callVars
    <3> QED
      BY <2>2, <3>2, <3>3 DEF Checked, RunIfPaid
  <2>3. ASSUME NEW l \in Lane, RunWorks(l) \/ RunFails(l) \/ RunLocked(l) \/ RunLost(l)
        PROVE  FALSE
    BY <1>1, <2>0, <2>3 DEF RunWorks, RunFails, RunLocked, RunLost, Heard, SkillInv, TallyOK, CallsTyped
  <2>4. CASE SkillExit
    BY <1>1, <2>0, <2>4 DEF SkillExit
  <2>5. ASSUME NEW l \in Lane, NEW f \in Actions, NeedApproval(l, f), RunIfPaid(l, f)
        PROVE  \E a \in Approvals : /\ spent'[a] # spent[a]
                                    /\ rows[a].task = cur[k] /\ rows[a].act = running'[k]
    BY <1>1, <2>5, RunIsPaid
  <2> QED
    BY <1>1, <2>1, <2>2, <2>3, <2>4, <2>5
    DEF SkillNext, SkillLane, EffectLands, callVars, skillVars
<1>2. SkillInv /\ [SkillNext]_skillVars =>
        [\A l \in Lane : running'[l] # running[l] /\ running'[l] \in Red =>
           \E a \in Approvals : /\ spent'[a] # spent[a]
                                /\ rows[a].task = cur[l] /\ rows[a].act = running'[l]]_skillVars
  BY <1>1
<1> QED
  BY <1>2, SkillSpecInv, PTL DEF SkillSpec, AttemptsArePaid
=============================================================================
