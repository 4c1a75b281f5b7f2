------------------------------- MODULE MCEscape -------------------------------
(* The work loop with a note of the Escape: the owner pressed it in this attempt. *)
EXTENDS MCComputerUse

VARIABLE escaped

EscapeSpec ==
    /\ ComputerInit /\ escaped = FALSE
    /\ [][/\ ComputerNext
          /\ escaped' = (On' /\ (escaped \/ (guard'.halt /\ ~guard.halt)))]_<<computerVars, escaped>>

\* desktop_guard.py: a real Escape "halts all further input for a while; the work loop sees
\* user_cancelled and stops": the attempt gives no more input after it, but for the call that was
\* already past the guard.
EscapeStopsTheRun ==
    [][escaped /\ escaped' /\ pressed' # pressed =>
         \E c \in calls : c.at = "waits" /\ c.early]_<<computerVars, escaped>>
==============================================================================
