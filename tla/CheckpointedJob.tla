--------------------------- MODULE CheckpointedJob --------------------------
(***************************************************************************)
(* What the task engine promises of a task, without saying how: a job is   *)
(* a row of steps whose results are saved one by one.  Lanes, parking,     *)
(* pauses, shutdowns, crashes and recovery do not show at this level: they *)
(* may cost the step being executed, never a saved one and never a retry.  *)
(***************************************************************************)
EXTENDS Integers

CONSTANTS Tasks, NSteps, MaxRetries, Short

VARIABLES
    status,    \* of each job
    saved,     \* how many of its steps are saved
    retries    \* how often it was tried again after a failure

jobVars == <<status, saved, retries>>

Init == /\ status = [t \in Tasks |-> "absent"]
        /\ saved = [t \in Tasks |-> 0]
        /\ retries = [t \in Tasks |-> 0]

Submit(t) ==
    /\ status[t] = "absent"
    /\ status' = [status EXCEPT ![t] = "open"]
    /\ UNCHANGED <<saved, retries>>

\* One more step is saved.
Save(t) ==
    /\ status[t] = "open" /\ saved[t] < NSteps
    /\ saved' = [saved EXCEPT ![t] = @ + 1]
    /\ UNCHANGED <<status, retries>>

\* A failure is paid for with a retry; it may ask for saved steps again.
Retry(t) ==
    /\ status[t] = "open" /\ retries[t] < MaxRetries
    /\ retries' = [retries EXCEPT ![t] = @ + 1]
    /\ \E n \in 0 .. saved[t] : saved' = [saved EXCEPT ![t] = n]
    /\ UNCHANGED status

\* Only a job whose steps are all saved is completed.
Complete(t) ==
    /\ status[t] = "open"
    /\ saved[t] = NSteps \/ (t \in Short /\ saved[t] > 0)
    /\ status' = [status EXCEPT ![t] = "completed"]
    /\ UNCHANGED <<saved, retries>>

Fail(t) ==
    /\ status[t] = "open"
    /\ status' = [status EXCEPT ![t] = "failed"]
    /\ UNCHANGED <<saved, retries>>

\* Recovery and /lockdown may end several jobs at once.
Cancel(S) ==
    /\ S # {} /\ \A t \in S : status[t] = "open"
    /\ status' = [t \in Tasks |-> IF t \in S THEN "cancelled" ELSE status[t]]
    /\ UNCHANGED <<saved, retries>>

Next == \/ \E t \in Tasks : Submit(t) \/ Save(t) \/ Retry(t) \/ Complete(t) \/ Fail(t)
        \/ \E S \in SUBSET Tasks : Cancel(S)

Spec == Init /\ [][Next]_jobVars
=============================================================================
