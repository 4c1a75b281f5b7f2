------------------------------ MODULE Scheduler ------------------------------
(***************************************************************************)
(* The scheduler (core/scheduler/runner.py, core/scheduler/store.py) and   *)
(* the owner's /schedules cancel.                                          *)
(*                                                                         *)
(* One coroutine ticks: it reads the jobs that are due and takes them one  *)
(* by one, then the condition jobs.  Starting a job creates a task (or     *)
(* sends the reminder), tells the owner and only then records the run, so  *)
(* the message is an await between the start of an occurrence and the row  *)
(* that remembers it.  An action is what happens from one await to the     *)
(* next; the owner, the clock, a crash come in between.                    *)
(*                                                                         *)
(* Time is what the code compares: a job's next run is in the future, due, *)
(* or late by more than the grace period.                                  *)
(***************************************************************************)
EXTENDS Naturals, FiniteSets

CONSTANTS
    Jobs,         \* rows of the schedules table
    Config,       \* the fixed jobs of schedules.yaml
    NoJob,        \* no job
    MaxFaults     \* bound: how often the store raises

ASSUME SchedulerAssumption == /\ Config \subseteq Jobs
                              /\ NoJob \notin Jobs
                              /\ MaxFaults \in Nat

VARIABLES
    job,       \* the schedules table
    met,       \* the condition jobs whose condition holds right now
    edited,    \* fixed jobs whose rule changed in the file since it was read
    up,        \* the core process is running
    phase,     \* the loop over due jobs, the one over conditions, or asleep
    todo,      \* jobs of that loop's list still to be looked at
    overdue,   \* jobs of the due list that were late by more than the grace period
    telling,   \* the job whose message is awaited
    faults     \* exceptions of the store so far

world == <<met, edited, up, faults>>
tick  == <<phase, todo, overdue, telling>>
vars  == <<job, met, edited, up, phase, todo, overdue, telling, faults>>

Kind == {"once", "recurring", "condition"}

\* began and cut are history: how often the occurrence that is due was started (2 is "more
\* than once"), and whether one of its runs was not recorded.
JobRow == [kind : Kind \cup {"none"}, enabled : BOOLEAN,
           due : {"never", "future", "due", "late"}, began : {0, 1, 2}, cut : BOOLEAN]

NoRow == [kind |-> "none", enabled |-> FALSE, due |-> "never", began |-> 0, cut |-> FALSE]

\* The occurrence is over; the next run, if any, starts with a clean history.
Over(r, due) == [r EXCEPT !.due = due, !.began = 0, !.cut = FALSE]

\* fired: the run is recorded; a job without a next run is finished.
Fired(r) == [Over(r, IF r.kind = "recurring" THEN "future" ELSE "never")
               EXCEPT !.enabled = r.kind = "recurring"]

\* Mutant of Missed: rescheduling enables the row.
MissedEnables(r) == IF r.kind = "recurring"
                    THEN [Over(r, "future") EXCEPT !.enabled = TRUE] ELSE Fired(r)

\* _missed: a recurring job goes on at its next time, another one is finished.
Missed(r) == IF r.kind = "recurring" THEN Over(r, "future") ELSE Fired(r)

\* _fire up to its await: the task is created, or the reminder is on its way.
Begun(r) == [r EXCEPT !.began = IF @ < 2 THEN @ + 1 ELSE @]

\* The message awaited is that of a start, not of a missed job.
Firing(j) == telling = j /\ ~(phase = "due" /\ j \in overdue)

-----------------------------------------------------------------------------
(* The tick, from await to await; rows is the table as it is by then *)

Asleep(rows) ==
    /\ phase' = "sleep" /\ todo' = {} /\ overdue' = {} /\ telling' = NoJob
    /\ job' = rows

\* Conditions are evaluated one by one until one holds.
Conditions(rows, S) ==
    LET hits == S \cap met
    IN  IF hits = {} THEN Asleep(rows)
        ELSE \E j \in hits : \E skipped \in SUBSET (S \ hits) :
               /\ phase' = "conditions" /\ todo' = S \ ({j} \cup skipped)
               /\ overdue' = {} /\ telling' = j
               /\ job' = [rows EXCEPT ![j] = Begun(@)]

\* Mutant of DueJobs: conditions wait for a tick in which nothing was due.
DueJobsOnly(rows, S, old) ==
    IF S = {}
    THEN IF telling # NoJob THEN Asleep(rows)
         ELSE Conditions(rows, {j \in Jobs : rows[j].enabled /\ rows[j].kind = "condition"})
    ELSE \E j \in S :
           /\ phase' = "due" /\ todo' = S \ {j} /\ overdue' = old /\ telling' = j
           /\ job' = [rows EXCEPT ![j] = IF j \in old THEN Missed(@) ELSE Begun(@)]

\* The due jobs in the order of their time, then the condition jobs as they are by then.
DueJobs(rows, S, old) ==
    IF S = {}
    THEN Conditions(rows, {j \in Jobs : rows[j].enabled /\ rows[j].kind = "condition"})
    ELSE \E j \in IF S \cap old = {} THEN S ELSE S \cap old :
           /\ phase' = "due" /\ todo' = S \ {j} /\ overdue' = old /\ telling' = j
           /\ job' = [rows EXCEPT ![j] = IF j \in old THEN Missed(@) ELSE Begun(@)]

GoOn(rows) == IF phase = "due" THEN DueJobs(rows, todo, overdue) ELSE Conditions(rows, todo)

\* tick: now is read once.
TickBegins ==
    /\ up /\ phase = "sleep"
    /\ LET due == {j \in Jobs : job[j].enabled /\ job[j].due \in {"due", "late"}}
       IN  DueJobs(job, due, {j \in due : job[j].due = "late"})
    /\ UNCHANGED world

Recorded == IF Firing(telling) THEN [job EXCEPT ![telling] = Fired(@)] ELSE job

\* Mutant of Told: the run is not recorded when the owner could not be told.
ToldOrForgotten ==
    /\ telling # NoJob
    /\ GoOn(Recorded) \/ GoOn(job)
    /\ UNCHANGED world

\* The message is out (or was given up): the run is recorded and the tick goes on.
Told ==
    /\ telling # NoJob
    /\ GoOn(Recorded)
    /\ UNCHANGED world

Cut(j) == [job EXCEPT ![j].cut = TRUE]

\* The store raises, while it records the run or later: the tick is over.
TickFails ==
    /\ telling # NoJob /\ faults < MaxFaults
    /\ faults' = faults + 1
    /\ \/ Firing(telling) /\ Asleep(Cut(telling))
       \/ Asleep(Recorded)
    /\ UNCHANGED <<met, edited, up>>

-----------------------------------------------------------------------------
(* The owner, the clock and the process *)

\* A request is read as a schedule and stored.
Add(j) ==
    /\ up /\ job[j].kind = "none" /\ j \notin Config
    /\ \E k \in Kind :
         job' = [job EXCEPT ![j] = [NoRow EXCEPT !.kind = k, !.enabled = TRUE,
                                      !.due = IF k = "condition" THEN "never" ELSE "future"]]
    /\ UNCHANGED <<world, tick>>

\* /schedules cancel, or the dashboard.
Cancel(j) ==
    /\ up /\ job[j].enabled
    /\ job' = [job EXCEPT ![j].enabled = FALSE]
    /\ UNCHANGED <<world, tick>>

\* The owner edits schedules.yaml; it is read at the next start.
Edit(j) ==
    /\ j \in Config
    /\ edited' = edited \cup {j}
    /\ UNCHANGED <<job, met, up, faults, tick>>

\* Time passes, whether or not the process runs.
Passes(j) ==
    /\ job[j].due \in {"future", "due"}
    /\ job' = [job EXCEPT ![j].due = IF @ = "future" THEN "due" ELSE "late"]
    /\ UNCHANGED <<world, tick>>

\* A watched task ends, a watched file appears or goes away.
World(j) ==
    /\ job[j].kind = "condition"
    /\ met' = IF j \in met THEN met \ {j} ELSE met \cup {j}
    /\ UNCHANGED <<job, edited, up, faults, tick>>

\* A crash, or a shutdown that cancels the tick where it awaits.
Exit ==
    /\ up
    /\ up' = FALSE
    /\ phase' = "sleep" /\ todo' = {} /\ overdue' = {} /\ telling' = NoJob
    /\ job' = IF telling # NoJob /\ Firing(telling) THEN Cut(telling) ELSE job
    /\ UNCHANGED <<met, edited, faults>>

\* Mutant of Synced: the time is computed again at every start.
SyncedAnew(j) == [Over(job[j], "future") EXCEPT !.enabled = TRUE]

\* update_static: the row is enabled; an enabled one with the same rule keeps its time.
Synced(j) ==
    IF job[j].enabled /\ j \notin edited THEN job[j]
    ELSE [Over(job[j], "future") EXCEPT !.enabled = TRUE]

\* sync_static, and the loop starts.
Start ==
    /\ ~up
    /\ up' = TRUE
    /\ \E kinds \in [Config -> {"once", "recurring"}] :
         job' = [j \in Jobs |->
                   IF j \notin Config THEN job[j]
                   ELSE IF job[j].kind # "none" THEN Synced(j)
                   ELSE [NoRow EXCEPT !.kind = kinds[j], !.enabled = TRUE, !.due = "future"]]
    /\ edited' = {}
    /\ UNCHANGED <<met, faults, tick>>

Init ==
    /\ job = [j \in Jobs |-> NoRow]
    /\ met = {} /\ edited = {}
    /\ up = FALSE
    /\ phase = "sleep" /\ todo = {} /\ overdue = {} /\ telling = NoJob
    /\ faults = 0

Next ==
    \/ TickBegins \/ Told \/ TickFails
    \/ \E j \in Jobs : Add(j) \/ Cancel(j) \/ Edit(j) \/ Passes(j) \/ World(j)
    \/ Exit \/ Start

Spec == Init /\ [][Next]_vars

\* The loop ticks every few seconds while the process runs; a message is bounded by the
\* timeouts of the channel.
FairSpec == Spec /\ WF_vars(TickBegins) /\ WF_vars(Told)

-----------------------------------------------------------------------------
(* Properties *)

\* The types; and an enabled job waits for a time or a condition: a row with neither would
\* be listed as active and never run.
TypeOK ==
    /\ job \in [Jobs -> JobRow]
    /\ \A j \in Jobs : job[j].enabled => job[j].kind = "condition" \/ job[j].due # "never"
    /\ met \subseteq Jobs /\ edited \subseteq Config
    /\ up \in BOOLEAN
    /\ phase \in {"sleep", "due", "conditions"}
    /\ todo \subseteq Jobs /\ overdue \subseteq Jobs
    /\ telling \in Jobs \cup {NoJob}
    /\ faults \in 0 .. MaxFaults

\* An occurrence is started at most once, over stale lists, cancels and edits, unless the
\* process died or the store raised between its start and its record.
StartedOnce == \A j \in Jobs : job[j].began > 1 => job[j].cut

\* A job that was cancelled or is finished comes back in two ways only: it was being started
\* when it was cancelled, or it is a fixed job and the service starts again.
DisabledStaysOut ==
    [][\A j \in Jobs : job[j].kind # "none" /\ ~job[j].enabled /\ job'[j].enabled
                         => Firing(j) \/ (j \in Config /\ ~up)]_vars

\* No occurrence passes silently: it was started, or the owner is told that it was missed,
\* or the owner changed the job.  A restart in between changes nothing.
NothingSkipped ==
    [][\A j \in Jobs :
         job[j].enabled /\ job[j].due \in {"due", "late"} /\ job'[j].due \notin {"due", "late"}
           => \/ job[j].began > 0
              \/ telling' = j /\ j \in overdue'
              \/ j \in edited /\ ~up]_vars

Ready(j) == /\ job[j].enabled
            /\ job[j].due \in {"due", "late"} \/ (job[j].kind = "condition" /\ j \in met)

\* A job whose time has come or whose condition holds does not stay so: it is started or
\* reported, however many others there are, as long as the process stays up.
ReadyIsHandled == <>[]up => \A j \in Jobs : []<>~Ready(j)
=============================================================================
