------------------------ MODULE SelfUpdateTransaction -----------------------
(***************************************************************************)
(* The supervisor's update, step by step, implements UpdateTransaction:    *)
(* the refinement mapping hides the checkout while an attempt is under way *)
(* and every result that is not final.                                     *)
(***************************************************************************)
EXTENDS SelfUpdate

\* The commit that no rollback gets behind: where the checkout is, or where the update found it.
Base == IF plan = None THEN code ELSE plan.found.code

Attempt == IF plan = None THEN None ELSE [task |-> plan.task, from |-> plan.from, to |-> plan.to]

\* "pending_health" is not final, nor is a rollback whose old version has not been seen running.
Final(r) == r # None /\ (r.status = "updated" \/ r.ok # "unknown")

Verdict(r) == IF r.status = "updated" THEN "updated"
            ELSE IF r.ok = "yes" THEN "rolled back" ELSE "incomplete"

Answer == IF Final(result)
          THEN [task |-> result.task, from |-> result.from, to |-> result.to,
                says |-> Verdict(result)]
          ELSE None

Transaction == INSTANCE UpdateTransaction WITH
                 Nothing <- None, installed <- Base, attempt <- Attempt, answer <- Answer

\* However an update goes and wherever the power fails, the checkout ends on the new commit
\* or on the one the update found, and a final result says truthfully on which.
ImplementsTransaction == Transaction!Spec
=============================================================================
