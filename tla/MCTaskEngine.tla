---------------------------- MODULE MCTaskEngine ----------------------------
(* Two tasks, the second one quick, so that both lanes compete for it. *)
EXTENDS TaskEngineJob

MCTasks == {1, 2}
MCQuick == {2}
MCShort == {1}
=============================================================================
