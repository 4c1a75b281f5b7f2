---------------------------- MODULE MCSkillCalls ----------------------------
(* One task that pushes a branch (RED), commits (YELLOW) and closes a program (BLUE). *)
EXTENDS SkillCalls, FiniteSets

MCOne == {1}
MCNone == {}
MCPush == {"git.push"}
MCCommit == {"git.commit"}
MCClose == {"app.close"}

Touched(f) == \/ \E t \in Tasks : ledger[t][f] # "none"
              \/ \E l \in Lane : checking[l] = f
              \/ \E a \in Approvals : rows[a].act = f

\* What the runs of ApprovalGate explore is left out here, a graceful shutdown and a pause
\* other than that of the lockdown; and the task tries two actions with one request, or one
\* action if there are two requests or a tool belies its effect.
CallsOnly ==
    /\ ~draining /\ (queuePaused => lockdown)
    /\ Cardinality({f \in Calls : Touched(f)})
         <= IF belied # {} \/ \E a \in Approvals : a > 1 /\ rows[a].status # "FREE" THEN 1 ELSE 2

\* Nothing is explored that follows the second effect of one action, or two attempts that may
\* still land.
FewEffects == \A t \in Tasks, f \in Calls : happened[t][f] < 2 /\ stray[t][f] < 2

CallsBounded == CallsOnly /\ FewEffects
=============================================================================
