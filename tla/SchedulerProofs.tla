--------------------------- MODULE SchedulerProofs ---------------------------
(***************************************************************************)
(* Theorems about the scheduler, for any number of jobs.                   *)
(*                                                                         *)
(* The inductive invariant says where an unrecorded start can be: an       *)
(* occurrence that was started and not cut short is the one whose message  *)
(* is awaited right now.  Every list of jobs may be stale; that does not   *)
(* matter, because a job taken from one is settled or cut by then.         *)
(***************************************************************************)
EXTENDS Scheduler, TLAPS

RowsOK(rows) ==
    /\ rows \in [Jobs -> JobRow]
    /\ \A j \in Jobs : rows[j].kind = "none" => rows[j] = NoRow
    /\ \A j \in Jobs : rows[j].enabled => rows[j].kind = "condition" \/ rows[j].due # "never"

\* No row has a start that is neither recorded nor known to be cut short.
Settled(rows) == \A j \in Jobs : rows[j].began > 0 => rows[j].cut

Tracked ==
    \A j \in Jobs : /\ job[j].began > 0 => job[j].cut \/ Firing(j)
                    /\ Firing(j) => job[j].began > 0

Resting == phase = "sleep" \/ ~up => telling = NoJob

\* The loops only hold jobs that exist.
Exist(S, rows) == \A j \in S \cap Jobs : rows[j].kind # "none"

Inv == /\ TypeOK /\ RowsOK(job) /\ StartedOnce /\ Tracked /\ Resting
       /\ Exist(todo \cup {telling}, job)

TickTypes == /\ phase \in {"sleep", "due", "conditions"}
             /\ todo \subseteq Jobs /\ overdue \subseteq Jobs
             /\ telling \in Jobs \cup {NoJob}

\* What a segment of the tick leaves behind.
SegmentOK == /\ RowsOK(job') /\ StartedOnce' /\ Tracked' /\ TickTypes'
             /\ phase' = "sleep" => telling' = NoJob
             /\ Exist(todo', job') /\ Exist({telling'}, job')

-----------------------------------------------------------------------------
(* Rows *)

\* Closing an occurrence, recording it or skipping it leaves a row without unrecorded start.
LEMMA RowSteps ==
    ASSUME NEW r \in JobRow, r.enabled => r.kind = "condition" \/ r.due # "never"
    PROVE  /\ \A d \in {"never", "future"} : /\ Over(r, d) \in JobRow
                                             /\ Over(r, d).began = 0
           /\ Fired(r) \in JobRow /\ Fired(r).began = 0
           /\ Fired(r).enabled => Fired(r).kind = "condition" \/ Fired(r).due # "never"
           /\ Missed(r) \in JobRow /\ Missed(r).began = 0
           /\ Missed(r).enabled => Missed(r).kind = "condition" \/ Missed(r).due # "never"
           /\ Missed(r).enabled => r.enabled
           /\ Begun(r) \in JobRow /\ Begun(r).began > 0 /\ Begun(r).cut = r.cut
           /\ Begun(r).enabled = r.enabled /\ Begun(r).kind = r.kind /\ Begun(r).due = r.due
           /\ r.began = 0 => Begun(r).began = 1
           /\ Fired(r).kind = r.kind /\ Missed(r).kind = r.kind
<1> USE DEF JobRow, Kind, Over
<1>1. ASSUME NEW d \in {"never", "future"}
      PROVE  /\ Over(r, d) \in JobRow
             /\ Over(r, d).began = 0 /\ Over(r, d).kind = r.kind
             /\ Over(r, d).due = d /\ Over(r, d).enabled = r.enabled
  OBVIOUS
<1> HIDE DEF Over
<1>2. /\ Fired(r) \in JobRow /\ Fired(r).began = 0 /\ Fired(r).kind = r.kind
      /\ Fired(r).enabled = (r.kind = "recurring")
      /\ r.kind = "recurring" => Fired(r).due = "future"
  BY <1>1 DEF Fired
<1> HIDE DEF Fired
<1>3. /\ Missed(r) \in JobRow /\ Missed(r).began = 0 /\ Missed(r).kind = r.kind
      /\ Missed(r).enabled => r.enabled /\ Missed(r).due = "future"
  BY <1>1, <1>2 DEF Missed
<1>4. /\ Begun(r) \in JobRow /\ Begun(r).began > 0 /\ Begun(r).cut = r.cut
      /\ Begun(r).enabled = r.enabled /\ Begun(r).kind = r.kind /\ Begun(r).due = r.due
      /\ r.began = 0 => Begun(r).began = 1
  BY DEF Begun
<1> QED  BY <1>1, <1>2, <1>3, <1>4

-----------------------------------------------------------------------------
(* One segment of the tick, from rows that are settled *)

\* The loop over the conditions ends in a state of the invariant.
LEMMA ConditionsKeep ==
    ASSUME NEW rows, RowsOK(rows), Settled(rows), NEW S \in SUBSET Jobs,
           Exist(S, rows), Conditions(rows, S)
    PROVE  SegmentOK
<1> USE SchedulerAssumption DEF Exist
<1>1. CASE Asleep(rows)
  BY <1>1 DEF Asleep, RowsOK, Settled, StartedOnce, Tracked, TickTypes, Firing, JobRow, SegmentOK
<1>2. ASSUME NEW j \in S, NEW skipped \in SUBSET S,
             phase' = "conditions", todo' = S \ ({j} \cup skipped), overdue' = {},
             telling' = j, job' = [rows EXCEPT ![j] = Begun(@)]
      PROVE  SegmentOK
  <2> DEFINE r == Begun(rows[j])
  <2>1. /\ r \in JobRow /\ r.began > 0 /\ r.cut = rows[j].cut
        /\ r.enabled = rows[j].enabled /\ r.kind = rows[j].kind /\ r.due = rows[j].due
        /\ rows[j].began = 0 => r.began = 1
    BY RowSteps DEF RowsOK
  <2>2. /\ job'[j] = r /\ \A i \in Jobs : i # j => job'[i] = rows[i]
        /\ job' \in [Jobs -> JobRow]
    BY <1>2, <2>1 DEF RowsOK
  <2>3. \A i \in Jobs : rows[i].began \in {0, 1, 2} /\ (rows[i].began > 0 => rows[i].cut)
    BY DEF RowsOK, JobRow, Settled
  <2> HIDE DEF r
  <2>4. RowsOK(job')  BY <2>1, <2>2 DEF RowsOK
  <2>5. StartedOnce'  BY <2>1, <2>2, <2>3 DEF StartedOnce
  <2>6. Tracked'  BY <1>2, <2>1, <2>2, <2>3 DEF Tracked, Firing
  <2>7. Exist(todo', job') /\ Exist({telling'}, job')  BY <1>2, <2>1, <2>2
  <2> QED  BY <1>2, <2>4, <2>5, <2>6, <2>7 DEF TickTypes, SegmentOK
<1> QED  BY <1>1, <1>2 DEF Conditions

\* So does the loop over the due jobs, whatever its list.
LEMMA DueJobsKeep ==
    ASSUME NEW rows, RowsOK(rows), Settled(rows),
           NEW S \in SUBSET Jobs, NEW old \in SUBSET Jobs, Exist(S, rows),
           DueJobs(rows, S, old)
    PROVE  SegmentOK
<1> USE SchedulerAssumption
<1>1. CASE S = {}
  <2> DEFINE C == {j \in Jobs : rows[j].enabled /\ rows[j].kind = "condition"}
  <2>1. C \in SUBSET Jobs /\ Exist(C, rows)  BY DEF Exist
  <2>2. Conditions(rows, C)  BY <1>1 DEF DueJobs
  <2> QED  BY <2>1, <2>2, ConditionsKeep
<1>2. CASE S # {}
  <2>1. PICK j \in S : /\ phase' = "due" /\ todo' = S \ {j} /\ overdue' = old /\ telling' = j
                       /\ job' = [rows EXCEPT ![j] = IF j \in old THEN Missed(@) ELSE Begun(@)]
    BY <1>2 DEF DueJobs
  <2> DEFINE r == IF j \in old THEN Missed(rows[j]) ELSE Begun(rows[j])
  <2>2. /\ r \in JobRow
        /\ r.enabled => r.kind = "condition" \/ r.due # "never"
        /\ r.kind = rows[j].kind
        /\ j \in old => r.began = 0
        /\ j \notin old => r.began > 0 /\ r.cut = rows[j].cut /\ (rows[j].began = 0 => r.began = 1)
    BY RowSteps DEF RowsOK
  <2>3. /\ job'[j] = r
        /\ \A i \in Jobs : i # j => job'[i] = rows[i]
        /\ job' \in [Jobs -> JobRow]
    BY <2>1, <2>2 DEF RowsOK
  <2>4. \A i \in Jobs : rows[i].began \in {0, 1, 2} /\ (rows[i].began > 0 => rows[i].cut)
    BY DEF RowsOK, Settled, JobRow
  <2> HIDE DEF r
  <2>5. RowsOK(job')  BY <2>2, <2>3 DEF RowsOK, Exist
  <2>6. StartedOnce'  BY <2>2, <2>3, <2>4 DEF StartedOnce
  <2>7. Tracked'  BY <2>1, <2>2, <2>3, <2>4 DEF Tracked, Firing
  <2>8. Exist(todo', job') /\ Exist({telling'}, job')  BY <2>1, <2>2, <2>3 DEF Exist
  <2> QED  BY <2>1, <2>5, <2>6, <2>7, <2>8 DEF TickTypes, SegmentOK
<1> QED  BY <1>1, <1>2

\* When a message is out, the rows the tick goes on with are settled.
LEMMA RecordedIsSettled ==
    ASSUME Inv, telling # NoJob
    PROVE  /\ RowsOK(Recorded) /\ Settled(Recorded) /\ telling \in Jobs
           /\ Exist(todo, Recorded)
<1>1. telling \in Jobs /\ RowsOK(job) /\ job[telling].kind # "none" /\ Exist(todo, job)
  BY DEF Inv, TypeOK, Exist
<1>2. Fired(job[telling]) \in JobRow /\ Fired(job[telling]).began = 0
      /\ Fired(job[telling]).kind = job[telling].kind
      /\ (Fired(job[telling]).enabled =>
            Fired(job[telling]).kind = "condition" \/ Fired(job[telling]).due # "never")
  BY <1>1, RowSteps DEF RowsOK
<1>3. CASE Firing(telling)
  <2>1. /\ Recorded \in [Jobs -> JobRow] /\ Recorded[telling] = Fired(job[telling])
        /\ \A i \in Jobs : i # telling => Recorded[i] = job[i]
    BY <1>1, <1>2, <1>3 DEF Recorded, RowsOK
  <2>2. \A i \in Jobs : i # telling => ~Firing(i)  BY DEF Firing
  <2> QED  BY <1>1, <1>2, <2>1, <2>2 DEF RowsOK, Settled, Inv, Tracked, Exist
<1>4. CASE ~Firing(telling)
  <2>1. \A i \in Jobs : ~Firing(i)  BY <1>4 DEF Firing
  <2> QED  BY <1>1, <1>4, <2>1 DEF Recorded, Settled, Inv, Tracked
<1> QED  BY <1>1, <1>3, <1>4

\* When the run is not recorded, its row is cut; the others are settled.
LEMMA CutIsSettled ==
    ASSUME Inv, telling \in Jobs
    PROVE  RowsOK(Cut(telling)) /\ Settled(Cut(telling))
<1> DEFINE r == [job[telling] EXCEPT !.cut = TRUE]
<1>1. RowsOK(job) /\ job[telling].kind # "none"  BY DEF Inv, Exist
<1>2. /\ r \in JobRow /\ r.cut /\ r.kind = job[telling].kind
      /\ r.enabled = job[telling].enabled /\ r.due = job[telling].due
  BY <1>1 DEF RowsOK, JobRow
<1>3. /\ Cut(telling) \in [Jobs -> JobRow] /\ Cut(telling)[telling] = r
      /\ \A i \in Jobs : i # telling => Cut(telling)[i] = job[i]
  BY <1>1, <1>2 DEF Cut, RowsOK
<1>4. \A i \in Jobs : i # telling => ~Firing(i)  BY DEF Firing
<1> HIDE DEF r
<1> QED  BY <1>1, <1>2, <1>3, <1>4 DEF RowsOK, Settled, Inv, Tracked

-----------------------------------------------------------------------------
(* Every step preserves the invariant *)

\* A segment of a running tick that leaves the rest of the world alone.
LEMMA SegmentIsEnough ==
    ASSUME Inv, SegmentOK, up, UNCHANGED world
    PROVE  Inv'
<1>1. TypeOK'  BY DEF SegmentOK, world, Inv, TypeOK, RowsOK, TickTypes
<1>2. RowsOK(job)'  BY DEF SegmentOK, RowsOK
<1>3. Resting'  BY DEF SegmentOK, world, Resting
<1>4. Exist((todo \cup {telling})', job')  BY DEF SegmentOK, Exist
<1> QED  BY <1>1, <1>2, <1>3, <1>4 DEF SegmentOK, Inv

LEMMA InitInv == Init => Inv
<1> SUFFICES ASSUME Init PROVE Inv
  OBVIOUS
<1>1. NoRow \in JobRow /\ NoRow.began = 0 /\ ~NoRow.enabled
  BY DEF NoRow, JobRow, Kind
<1>2. \A j \in Jobs : job[j] = NoRow /\ ~Firing(j)
  BY SchedulerAssumption DEF Init, Firing
<1>3. job \in [Jobs -> JobRow]  BY <1>1 DEF Init
<1>4. TypeOK
  <2>1. faults \in 0 .. MaxFaults  BY SchedulerAssumption DEF Init
  <2>2. \A j \in Jobs : job[j].enabled => job[j].kind = "condition" \/ job[j].due # "never"
    BY <1>1, <1>2
  <2> QED  BY <1>3, <2>1, <2>2 DEF Init, TypeOK
<1>5. RowsOK(job) /\ StartedOnce /\ Tracked
  BY <1>1, <1>2, <1>3 DEF RowsOK, StartedOnce, Tracked
<1>6. Resting /\ Exist(todo \cup {telling}, job)
  BY SchedulerAssumption DEF Init, Resting, Exist
<1> QED  BY <1>4, <1>5, <1>6 DEF Inv

LEMMA TickKeepsInv == ASSUME Inv, TickBegins \/ Told \/ TickFails PROVE Inv'
<1> USE SchedulerAssumption
<1>1. CASE TickBegins
  <2>1. telling = NoJob /\ RowsOK(job) /\ Settled(job)
    BY <1>1 DEF TickBegins, Inv, TypeOK, Resting, Settled, Tracked, Firing
  <2> DEFINE due == {j \in Jobs : job[j].enabled /\ job[j].due \in {"due", "late"}}
             old == {j \in due : job[j].due = "late"}
  <2>2. DueJobs(job, due, old)  BY <1>1 DEF TickBegins
  <2>3. due \in SUBSET Jobs /\ old \in SUBSET Jobs /\ Exist(due, job)
    BY <2>1 DEF RowsOK, Exist, NoRow
  <2> HIDE DEF due, old
  <2>4. SegmentOK  BY <2>1, <2>2, <2>3, DueJobsKeep
  <2> QED  BY <1>1, <2>4, SegmentIsEnough DEF TickBegins
<1>2. CASE Told
  <2>1. RowsOK(Recorded) /\ Settled(Recorded) /\ Exist(todo, Recorded)
    BY <1>2, RecordedIsSettled DEF Told
  <2>2. SegmentOK  BY <1>2, <2>1, DueJobsKeep, ConditionsKeep DEF Told, GoOn, Inv, TypeOK
  <2>3. up  BY <1>2 DEF Told, Inv, Resting, TypeOK
  <2> QED  BY <1>2, <2>2, <2>3, SegmentIsEnough DEF Told
<1>3. CASE TickFails
  <2>1. RowsOK(Recorded) /\ Settled(Recorded) /\ telling \in Jobs
    BY <1>3, RecordedIsSettled DEF TickFails
  <2>2. RowsOK(Cut(telling)) /\ Settled(Cut(telling))  BY <2>1, CutIsSettled
  <2>3. PICK rows \in {Recorded, Cut(telling)} : Asleep(rows)  BY <1>3 DEF TickFails
  <2>4. faults' \in 0 .. MaxFaults  BY <1>3 DEF TickFails, Inv, TypeOK
  <2>5. /\ RowsOK(job') /\ Settled(job') /\ telling' = NoJob /\ phase' = "sleep"
        /\ todo' = {} /\ overdue' = {}
    BY <2>1, <2>2, <2>3 DEF Asleep
  <2>6. Tracked' /\ Resting' /\ Exist((todo \cup {telling})', job')
    BY <2>5 DEF Settled, Tracked, Firing, Resting, Exist
  <2>7. StartedOnce'  BY <2>5 DEF StartedOnce, Settled, RowsOK, JobRow
  <2> QED  BY <1>3, <2>4, <2>5, <2>6, <2>7 DEF TickFails, Inv, TypeOK, RowsOK
<1> QED  BY <1>1, <1>2, <1>3

\* Steps that change no start and no message keep the invariant.
LEMMA QuietSteps ==
    ASSUME Inv, UNCHANGED <<up, faults, tick>>, met' \subseteq Jobs, edited' \subseteq Config,
           RowsOK(job'),
           \A i \in Jobs : /\ job'[i].began = job[i].began /\ job'[i].cut = job[i].cut
                           /\ job[i].kind # "none" => job'[i].kind # "none"
    PROVE  Inv'
<1>1. \A i \in Jobs : Firing(i)' <=> Firing(i)  BY DEF Firing, tick
<1>2. StartedOnce' /\ Tracked'  BY <1>1 DEF Inv, StartedOnce, Tracked
<1>3. TypeOK'  BY DEF Inv, TypeOK, RowsOK, tick
<1>4. Resting' /\ Exist((todo \cup {telling})', job')  BY DEF Inv, Resting, Exist, tick
<1> QED  BY <1>2, <1>3, <1>4 DEF Inv, RowsOK

\* The owner, the clock and the conditions.
LEMMA WorldKeepsInv ==
    ASSUME Inv, NEW j \in Jobs, Add(j) \/ Cancel(j) \/ Edit(j) \/ Passes(j) \/ World(j)
    PROVE  Inv'
<1>1. /\ RowsOK(job) /\ job[j] \in JobRow /\ met \subseteq Jobs /\ edited \subseteq Config
      /\ job[j].kind = "none" => job[j] = NoRow
  BY DEF Inv, TypeOK, RowsOK
<1>2. ASSUME NEW r \in JobRow, job' = [job EXCEPT ![j] = r], UNCHANGED <<world, tick>>,
             r.kind # "none", r.enabled => r.kind = "condition" \/ r.due # "never",
             r.began = job[j].began, r.cut = job[j].cut
      PROVE  Inv'
  <2>1. RowsOK(job')  BY <1>1, <1>2 DEF RowsOK
  <2>2. \A i \in Jobs : /\ job'[i].began = job[i].began /\ job'[i].cut = job[i].cut
                        /\ job[i].kind # "none" => job'[i].kind # "none"
    BY <1>1, <1>2 DEF RowsOK
  <2> QED  BY <1>1, <1>2, <2>1, <2>2, QuietSteps DEF world
<1>3. CASE Add(j)
  <2>1. PICK k \in Kind :
          job' = [job EXCEPT ![j] = [NoRow EXCEPT !.kind = k, !.enabled = TRUE,
                                       !.due = IF k = "condition" THEN "never" ELSE "future"]]
    BY <1>3 DEF Add
  <2> DEFINE r == [NoRow EXCEPT !.kind = k, !.enabled = TRUE,
                                !.due = IF k = "condition" THEN "never" ELSE "future"]
  <2>2. /\ r \in JobRow /\ r.kind # "none" /\ r.began = NoRow.began /\ r.cut = NoRow.cut
        /\ r.kind = "condition" \/ r.due # "never"
    BY DEF NoRow, JobRow, Kind
  <2>3. job[j] = NoRow  BY <1>1, <1>3 DEF Add
  <2> QED  BY <1>2, <1>3, <2>1, <2>2, <2>3 DEF Add
<1>4. CASE Cancel(j)
  <2> DEFINE r == [job[j] EXCEPT !.enabled = FALSE]
  <2>1. r \in JobRow /\ ~r.enabled /\ r.kind = job[j].kind /\ r.began = job[j].began /\ r.cut = job[j].cut
    BY <1>1 DEF JobRow
  <2>2. job[j].kind # "none" /\ job' = [job EXCEPT ![j] = r]  BY <1>1, <1>4 DEF Cancel, NoRow
  <2> QED  BY <1>2, <1>4, <2>1, <2>2 DEF Cancel
<1>5. CASE Passes(j)
  <2> DEFINE r == [job[j] EXCEPT !.due = IF @ = "future" THEN "due" ELSE "late"]
  <2>1. r \in JobRow /\ r.due # "never" /\ r.kind = job[j].kind /\ r.began = job[j].began /\ r.cut = job[j].cut
    BY <1>1 DEF JobRow
  <2>2. job[j].kind # "none" /\ job' = [job EXCEPT ![j] = r]  BY <1>1, <1>5 DEF Passes, NoRow
  <2> QED  BY <1>2, <1>5, <2>1, <2>2 DEF Passes
<1>6. CASE Edit(j)  BY <1>1, <1>6, QuietSteps DEF Edit
<1>7. CASE World(j)  BY <1>1, <1>7, QuietSteps DEF World
<1> QED  BY <1>3, <1>4, <1>5, <1>6, <1>7

\* A process that dies cuts the start it was telling of; the next one finds no message
\* awaited, and sync_static opens no occurrence that was started and not cut.
LEMMA ProcessKeepsInv == ASSUME Inv, Exit \/ Start PROVE Inv'
<1> USE SchedulerAssumption
<1>1. CASE Exit
  <2>1. RowsOK(job') /\ Settled(job')
    <3>1. CASE telling # NoJob /\ Firing(telling)
      <4>1. telling \in Jobs  BY <3>1 DEF Inv, TypeOK
      <4> QED  BY <1>1, <3>1, <4>1, CutIsSettled DEF Exit
    <3>2. CASE ~(telling # NoJob /\ Firing(telling))
      <4>1. \A i \in Jobs : ~Firing(i)  BY <3>2 DEF Firing
      <4> QED  BY <1>1, <3>2, <4>1 DEF Exit, Inv, Settled, Tracked
    <3> QED  BY <3>1, <3>2
  <2>2. Tracked' /\ Resting' /\ Exist((todo \cup {telling})', job')
    BY <1>1, <2>1 DEF Exit, Settled, Tracked, Firing, Resting, Exist
  <2>3. StartedOnce'  BY <2>1 DEF StartedOnce, Settled, RowsOK, JobRow
  <2> QED  BY <1>1, <2>1, <2>2, <2>3 DEF Exit, Inv, TypeOK, RowsOK
<1>2. CASE Start
  <2>1. telling = NoJob /\ Settled(job) /\ RowsOK(job)
    <3>1. telling = NoJob  BY <1>2 DEF Start, Inv, Resting
    <3>2. \A i \in Jobs : ~Firing(i)  BY <3>1, SchedulerAssumption DEF Firing
    <3> QED  BY <3>1, <3>2 DEF Inv, Settled, Tracked
  <2>2. PICK kinds \in [Config -> {"once", "recurring"}] :
          job' = [j \in Jobs |->
                    IF j \notin Config THEN job[j]
                    ELSE IF job[j].kind # "none" THEN Synced(j)
                    ELSE [NoRow EXCEPT !.kind = kinds[j], !.enabled = TRUE, !.due = "future"]]
    BY <1>2 DEF Start
  <2>3. ASSUME NEW j \in Jobs
        PROVE  /\ job'[j] \in JobRow
               /\ job'[j].kind = "none" => job'[j] = NoRow
               /\ job'[j].enabled => job'[j].kind = "condition" \/ job'[j].due # "never"
               /\ job'[j].began > 0 => job'[j].cut
               /\ job[j].kind # "none" => job'[j].kind # "none"
    <3>1. /\ job[j] \in JobRow /\ (job[j].began > 0 => job[j].cut)
          /\ job[j].kind = "none" => job[j] = NoRow
          /\ job[j].enabled => job[j].kind = "condition" \/ job[j].due # "never"
      BY <2>1 DEF RowsOK, Settled
    <3>2. CASE j \notin Config  BY <2>2, <3>1, <3>2
    <3>3. CASE j \in Config /\ job[j].kind = "none"
      <4> DEFINE r == [NoRow EXCEPT !.kind = kinds[j], !.enabled = TRUE, !.due = "future"]
      <4>1. job'[j] = r  BY <2>2, <3>3
      <4>2. kinds[j] \in {"once", "recurring"}  BY <3>3
      <4>3. r \in JobRow /\ r.kind = kinds[j] /\ r.due = "future" /\ r.began = 0
        BY <4>2 DEF NoRow, JobRow, Kind
      <4> HIDE DEF r
      <4> QED  BY <3>3, <4>1, <4>2, <4>3
    <3>4. CASE j \in Config /\ job[j].kind # "none"
      <4> DEFINE r == Over(job[j], "future")
      <4>1. /\ r \in JobRow /\ r.kind = job[j].kind /\ r.began = 0 /\ r.due = "future"
        BY <3>1 DEF Over, JobRow
      <4> DEFINE q == [r EXCEPT !.enabled = TRUE]
      <4>2. job'[j] = job[j] \/ job'[j] = q  BY <2>2, <3>4 DEF Synced
      <4> HIDE DEF r
      <4>3. q \in JobRow /\ q.kind = r.kind /\ q.began = r.began /\ q.due = r.due
        BY <4>1 DEF JobRow
      <4> HIDE DEF q
      <4> QED  BY <3>1, <3>4, <4>1, <4>2, <4>3
    <3> QED  BY <3>2, <3>3, <3>4
  <2>4. RowsOK(job') /\ Settled(job')  BY <2>2, <2>3 DEF RowsOK, Settled
  <2>5. Tracked' /\ Resting'
    BY <1>2, <2>1, <2>4 DEF Start, tick, Settled, Tracked, Firing, Resting
  <2>6. StartedOnce'  BY <2>4 DEF Settled, StartedOnce, RowsOK, JobRow
  <2>7. Exist((todo \cup {telling})', job')  BY <1>2, <2>1, <2>3 DEF Start, tick, Exist, Inv, TypeOK
  <2> QED  BY <1>2, <2>4, <2>5, <2>6, <2>7 DEF Start, tick, Inv, TypeOK, RowsOK
<1> QED  BY <1>1, <1>2

LEMMA NextInv == ASSUME Inv, [Next]_vars PROVE Inv'
<1>1. CASE UNCHANGED vars
  BY <1>1 DEF vars, Inv, TypeOK, RowsOK, StartedOnce, Tracked, Resting, Firing, Exist
<1> QED  BY <1>1, TickKeepsInv, WorldKeepsInv, ProcessKeepsInv DEF Next

\* The inductive invariant of the scheduler.
THEOREM SpecInv == Spec => []Inv
<1> QED  BY InitInv, NextInv, PTL DEF Spec

\* The rows and the tick keep their types, and an enabled job always waits for something.
THEOREM SpecTypeOK == Spec => []TypeOK
<1>1. Inv => TypeOK  BY DEF Inv
<1> QED  BY <1>1, SpecInv, PTL

\* An occurrence is started at most once unless one of its starts was cut short, for any
\* number of jobs, lists of any age, cancels, edits and restarts.
THEOREM SpecStartedOnce == Spec => []StartedOnce
<1>1. Inv => StartedOnce  BY DEF Inv
<1> QED  BY <1>1, SpecInv, PTL
-----------------------------------------------------------------------------
(* What a step may do to a row *)

Comeback(j) == job[j].kind # "none" /\ ~job[j].enabled /\ job'[j].enabled

Passed(j) == /\ job[j].enabled /\ job[j].due \in {"due", "late"}
             /\ job'[j].due \notin {"due", "late"}

StepOK(j) == /\ Comeback(j) => Firing(j) \/ (j \in Config /\ ~up)
             /\ Passed(j) => \/ job[j].began > 0
                             \/ telling' = j /\ j \in overdue'
                             \/ j \in edited /\ ~up

\* From the rows it starts with, a segment enables nothing, and it changes the time only of
\* the missed job it tells of.
LEMMA SegmentChanges ==
    ASSUME NEW rows, RowsOK(rows), NEW S \in SUBSET Jobs, NEW old \in SUBSET Jobs,
           DueJobs(rows, S, old) \/ Conditions(rows, S) \/ Asleep(rows), NEW j \in Jobs
    PROVE  /\ job'[j].enabled => rows[j].enabled
           /\ job'[j].due = rows[j].due \/ (telling' = j /\ j \in overdue')
<1>1. \A i \in Jobs : /\ Missed(rows[i]).enabled => rows[i].enabled
                      /\ Begun(rows[i]).enabled = rows[i].enabled
                      /\ Begun(rows[i]).due = rows[i].due
  BY RowSteps DEF RowsOK
<1>2. CASE job' = rows  BY <1>2
<1>3. ASSUME NEW i \in Jobs, job' = [rows EXCEPT ![i] = Begun(@)]
      PROVE  job'[j].enabled = rows[j].enabled /\ job'[j].due = rows[j].due
  BY <1>1, <1>3 DEF RowsOK
<1>4. ASSUME NEW T \in SUBSET Jobs, Conditions(rows, T)
      PROVE  job' = rows \/ \E i \in Jobs : job' = [rows EXCEPT ![i] = Begun(@)]
  BY <1>4 DEF Conditions, Asleep
<1>5. CASE DueJobs(rows, S, old) /\ S # {}
  <2>1. PICK i \in S : /\ overdue' = old /\ telling' = i
                       /\ job' = [rows EXCEPT ![i] = IF i \in old THEN Missed(@) ELSE Begun(@)]
    BY <1>5 DEF DueJobs
  <2> QED  BY <1>1, <2>1 DEF RowsOK
<1>6. CASE DueJobs(rows, S, old) /\ S = {}
  <2> DEFINE C == {i \in Jobs : rows[i].enabled /\ rows[i].kind = "condition"}
  <2>1. Conditions(rows, C)  BY <1>6 DEF DueJobs
  <2> QED  BY <1>2, <1>3, <1>4, <2>1
<1> QED  BY <1>2, <1>3, <1>4, <1>5, <1>6 DEF Asleep

LEMMA TickStepOK == ASSUME Inv, TickBegins \/ Told \/ TickFails, NEW j \in Jobs PROVE StepOK(j)
<1>1. RowsOK(job)  BY DEF Inv
<1>2. CASE TickBegins
  <2> DEFINE due == {i \in Jobs : job[i].enabled /\ job[i].due \in {"due", "late"}}
             old == {i \in due : job[i].due = "late"}
  <2>1. DueJobs(job, due, old) /\ due \in SUBSET Jobs /\ old \in SUBSET Jobs
    BY <1>2 DEF TickBegins
  <2> HIDE DEF due, old
  <2> QED  BY <1>1, <2>1, SegmentChanges DEF StepOK, Comeback, Passed
<1>3. CASE Told \/ TickFails
  <2>1. telling # NoJob /\ todo \in SUBSET Jobs /\ overdue \in SUBSET Jobs
    BY <1>3 DEF Told, TickFails, Inv, TypeOK
  <2>2. RowsOK(Recorded) /\ telling \in Jobs  BY <2>1, RecordedIsSettled
  <2>3. \/ DueJobs(Recorded, todo, overdue) \/ Conditions(Recorded, todo) \/ Asleep(Recorded)
        \/ Asleep(Cut(telling))
    BY <1>3 DEF Told, GoOn, TickFails
  <2>4. CASE Asleep(Cut(telling))
    BY <1>1, <2>2, <2>4 DEF Asleep, Cut, RowsOK, JobRow, StepOK, Comeback, Passed
  <2>5. CASE ~Asleep(Cut(telling))
    <3>1. /\ job'[j].enabled => Recorded[j].enabled
          /\ job'[j].due = Recorded[j].due \/ (telling' = j /\ j \in overdue')
      BY <2>1, <2>2, <2>3, <2>5, SegmentChanges
    <3>2. ~Firing(j) => Recorded[j] = job[j]
      BY <1>1, <2>2 DEF Recorded, Firing, RowsOK
    <3>3. Firing(j) => job[j].began > 0  BY DEF Inv, Tracked
    <3> QED  BY <3>1, <3>2, <3>3 DEF StepOK, Comeback, Passed
  <2> QED  BY <2>4, <2>5
<1> QED  BY <1>2, <1>3

LEMMA OtherStepOK ==
    ASSUME Inv, NEW i \in Jobs, NEW j \in Jobs,
           Add(i) \/ Cancel(i) \/ Edit(i) \/ Passes(i) \/ World(i) \/ Exit \/ UNCHANGED vars
    PROVE  StepOK(j)
<1>1. RowsOK(job) /\ job \in [Jobs -> JobRow] /\ telling \in Jobs \cup {NoJob}
  BY DEF Inv, TypeOK
<1> USE DEF StepOK, Comeback, Passed
<1>2. CASE Add(i)
  <2>1. job[i] = NoRow  BY <1>1, <1>2 DEF Add, RowsOK
  <2>2. j # i => job'[j] = job[j]  BY <1>1, <1>2 DEF Add
  <2> QED  BY <2>1, <2>2 DEF NoRow
<1>3. CASE Cancel(i)
  <2>1. job'[j].due = job[j].due /\ (job'[j].enabled => job[j].enabled)
    BY <1>1, <1>3 DEF Cancel, JobRow
  <2> QED  BY <2>1
<1>4. CASE Passes(i)
  <2>1. job'[j].enabled = job[j].enabled /\ (job'[j].due = job[j].due \/ job'[j].due \in {"due", "late"})
    BY <1>1, <1>4 DEF Passes, JobRow
  <2> QED  BY <2>1
<1>5. CASE Exit
  <2>1. job'[j].enabled = job[j].enabled /\ job'[j].due = job[j].due
    BY <1>1, <1>5 DEF Exit, Cut, JobRow
  <2> QED  BY <2>1
<1>6. CASE Edit(i) \/ World(i) \/ UNCHANGED vars  BY <1>6 DEF Edit, World, vars
<1> QED  BY <1>2, <1>3, <1>4, <1>5, <1>6

LEMMA StartStepOK == ASSUME Inv, Start, NEW j \in Jobs PROVE StepOK(j)
<1>1. ~up  BY DEF Start
<1>2. j \notin Config => job'[j] = job[j]  BY DEF Start
<1>3. j \in Config /\ j \notin edited /\ job[j].enabled => job'[j] = job[j]
  <2>1. job[j].enabled => job[j].kind # "none"  BY DEF Inv, RowsOK, NoRow
  <2> QED  BY <2>1 DEF Start, Synced
<1> QED  BY <1>1, <1>2, <1>3 DEF StepOK, Comeback, Passed

LEMMA EveryStepOK == ASSUME Inv, [Next]_vars PROVE \A j \in Jobs : StepOK(j)
<1> TAKE j \in Jobs
<1> QED  BY TickStepOK, OtherStepOK, StartStepOK DEF Next

\* A disabled job comes back only through its own start in flight or from the configuration
\* at a start of the service.
THEOREM SpecDisabledStaysOut == Spec => DisabledStaysOut
<1>1. Inv /\ [Next]_vars => [\A j \in Jobs : job[j].kind # "none" /\ ~job[j].enabled /\ job'[j].enabled
                                 => Firing(j) \/ (j \in Config /\ ~up)]_vars
  BY EveryStepOK DEF StepOK, Comeback
<1> QED  BY <1>1, SpecInv, PTL DEF Spec, DisabledStaysOut

\* No occurrence passes silently, whatever the crashes and restarts.
THEOREM SpecNothingSkipped == Spec => NothingSkipped
<1>1. Inv /\ [Next]_vars =>
        [\A j \in Jobs :
           job[j].enabled /\ job[j].due \in {"due", "late"} /\ job'[j].due \notin {"due", "late"}
             => \/ job[j].began > 0
                \/ telling' = j /\ j \in overdue'
                \/ j \in edited /\ ~up]_vars
  BY EveryStepOK DEF StepOK, Passed
<1> QED  BY <1>1, SpecInv, PTL DEF Spec, NothingSkipped

-----------------------------------------------------------------------------
(* A tick runs down *)

\* A tick under way awaits a message, of a job that it has taken off its list.
OneAwait == /\ telling = NoJob <=> phase = "sleep"
            /\ telling \notin todo
            /\ ~up => phase = "sleep"

\* The tick is over, takes the next job off its list, or goes on from the due jobs to the
\* conditions.
Onward == \/ phase' = "sleep"
          \/ phase' = phase /\ telling' \in todo /\ todo' \subseteq todo \ {telling'}
          \/ phase = "due" /\ phase' = "conditions"

LEMMA ConditionsOnward ==
    ASSUME NEW rows, NEW S \in SUBSET Jobs, Conditions(rows, S)
    PROVE  /\ (phase' = "sleep" /\ telling' = NoJob /\ todo' = {})
              \/ (phase' = "conditions" /\ telling' \in S /\ todo' \subseteq S \ {telling'})
  BY DEF Conditions, Asleep

LEMMA DueJobsOnward ==
    ASSUME NEW rows, NEW S \in SUBSET Jobs, NEW old, DueJobs(rows, S, old)
    PROVE  \/ phase' = "sleep" /\ telling' = NoJob /\ todo' = {}
           \/ phase' = "due" /\ telling' \in S /\ todo' = S \ {telling'}
           \/ phase' = "conditions" /\ telling' \in Jobs /\ todo' \subseteq Jobs \ {telling'}
<1>1. CASE S = {}
  BY <1>1, ConditionsOnward DEF DueJobs
<1>2. CASE S # {}
  BY <1>2 DEF DueJobs
<1> QED  BY <1>1, <1>2

LEMMA TellsOnward ==
    ASSUME Inv, OneAwait, Told \/ TickFails
    PROVE  Onward /\ OneAwait'
<1>1. /\ phase \in {"due", "conditions"} /\ todo \subseteq Jobs /\ up' = up /\ up = TRUE
      /\ NoJob \notin Jobs
  BY SchedulerAssumption DEF Inv, TypeOK, OneAwait, Told, TickFails, world
<1>2. ASSUME NEW rows, Asleep(rows) PROVE Onward /\ OneAwait'
  BY <1>2 DEF Asleep, Onward, OneAwait
<1>3. ASSUME NEW rows, GoOn(rows) PROVE Onward /\ OneAwait'
  <2>1. CASE phase = "due"
    BY <1>1, <1>3, <2>1, DueJobsOnward DEF GoOn, Onward, OneAwait
  <2>2. CASE phase = "conditions"
    BY <1>1, <1>3, <2>2, ConditionsOnward DEF GoOn, Onward, OneAwait
  <2> QED  BY <1>1, <2>1, <2>2
<1> QED  BY <1>2, <1>3 DEF Told, TickFails

LEMMA OneAwaitStep == ASSUME Inv, OneAwait, [Next]_vars PROVE OneAwait'
<1>1. NoJob \notin Jobs  BY SchedulerAssumption
<1>2. CASE TickBegins
  <2>1. up' = TRUE  BY <1>2 DEF TickBegins, Inv, TypeOK, world
  <2>2. PICK S \in SUBSET Jobs, old \in SUBSET Jobs : DueJobs(job, S, old)
    BY <1>2 DEF TickBegins
  <2> QED  BY <1>1, <2>1, <2>2, DueJobsOnward DEF OneAwait
<1>3. CASE Told \/ TickFails
  BY <1>3, TellsOnward
<1>4. CASE Exit
  BY <1>1, <1>4 DEF Exit, OneAwait
<1>5. CASE Start
  BY <1>5 DEF Start, OneAwait, tick
<1>6. ASSUME NEW j \in Jobs, Add(j) \/ Cancel(j) \/ Edit(j) \/ Passes(j) \/ World(j)
      PROVE  OneAwait'
  BY <1>6 DEF Add, Cancel, Edit, Passes, World, world, tick, OneAwait
<1>7. CASE UNCHANGED vars
  BY <1>7 DEF vars, OneAwait
<1> QED  BY <1>2, <1>3, <1>4, <1>5, <1>6, <1>7 DEF Next

\* A tick cannot go round for ever and never stands still: while it is under way it awaits one
\* message, and when that ends it is over, or starts the next job of a list that only gets
\* shorter, or turns once from the due jobs to the conditions.  Nobody else but the end of
\* the process changes it, whatever becomes of the rows in its lists (tick).
THEOREM SpecTickRunsDown ==
    Spec => [][/\ phase # "sleep" => telling # NoJob
               /\ Told \/ TickFails => Onward
               /\ phase # "sleep" /\ ~(Told \/ TickFails) => ~up' \/ UNCHANGED tick]_vars
<1>1. ASSUME Inv, OneAwait, Next
      PROVE  /\ phase # "sleep" => telling # NoJob
             /\ Told \/ TickFails => Onward
             /\ phase # "sleep" /\ ~(Told \/ TickFails) => ~up' \/ UNCHANGED tick
  <2>1. phase # "sleep" /\ ~(Told \/ TickFails) => ~up' \/ UNCHANGED tick
    <3>1. ASSUME NEW j \in Jobs, Add(j) \/ Cancel(j) \/ Edit(j) \/ Passes(j) \/ World(j)
          PROVE  UNCHANGED tick
      BY <3>1 DEF Add, Cancel, Edit, Passes, World
    <3>2. TickBegins => phase = "sleep"
      BY DEF TickBegins
    <3>3. Start => UNCHANGED tick
      BY DEF Start
    <3>4. Exit => ~up'
      BY DEF Exit
    <3> QED  BY <1>1, <3>1, <3>2, <3>3, <3>4 DEF Next
  <2> QED  BY <1>1, <2>1, TellsOnward DEF OneAwait
<1>2. Init => OneAwait
  BY SchedulerAssumption DEF Init, OneAwait
<1>3. Inv /\ OneAwait /\ [Next]_vars => OneAwait'
  BY OneAwaitStep
<1>4. Inv /\ OneAwait /\ [Next]_vars =>
        [/\ phase # "sleep" => telling # NoJob
         /\ Told \/ TickFails => Onward
         /\ phase # "sleep" /\ ~(Told \/ TickFails) => ~up' \/ UNCHANGED tick]_vars
  BY <1>1
<1> QED  BY <1>2, <1>3, <1>4, SpecInv, PTL DEF Spec
=============================================================================
