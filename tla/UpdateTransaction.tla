--------------------------- MODULE UpdateTransaction ------------------------
(***************************************************************************)
(* What /update promises about the checkout.  The owner sees one commit    *)
(* installed at a time.  An attempt starts from it and ends with the new   *)
(* commit or with the old one, and the answer that is left behind says     *)
(* which; only a rollback that admits to be incomplete, or a power failure *)
(* that leaves no new answer, may end with either.                         *)
(***************************************************************************)
CONSTANTS
    Tasks,      \* those who may ask for an update
    Commits,
    Nothing     \* no attempt, no answer

VARIABLES
    installed,  \* the commit that counts as installed
    attempt,    \* the update under way
    answer      \* the last final answer, until the next version is tried

Attempts == [task : Tasks, from : Commits, to : Commits]

Init ==
    /\ installed \in Commits
    /\ attempt = Nothing /\ answer = Nothing

\* An approved request is taken up.
Begin ==
    /\ attempt = Nothing
    /\ attempt' \in Attempts
    /\ UNCHANGED <<installed, answer>>

\* The answer to an earlier attempt is no longer there.
Withdraw ==
    /\ attempt # Nothing
    /\ answer' = Nothing
    /\ UNCHANGED <<installed, attempt>>

Ends(commit, says) ==
    /\ attempt # Nothing
    /\ attempt' = Nothing
    /\ installed' = commit
    /\ answer' = [task |-> attempt.task, from |-> attempt.from, to |-> attempt.to, says |-> says]

\* The new commit, on top of the one that was seen when the owner approved.
Installs == Ends(attempt.to, "updated") /\ installed = attempt.from

GivesBack == Ends(installed, "rolled back")

IsIncomplete ==
    /\ attempt # Nothing
    /\ \E commit \in {installed, attempt.to} : Ends(commit, "incomplete")

\* The power failed.
IsLost ==
    /\ attempt # Nothing
    /\ attempt' = Nothing
    /\ installed' \in {installed, attempt.to}
    /\ UNCHANGED answer

Next == Begin \/ Withdraw \/ Installs \/ GivesBack \/ IsIncomplete \/ IsLost

Spec == Init /\ [][Next]_<<installed, attempt, answer>>
=============================================================================
