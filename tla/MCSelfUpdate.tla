---------------------------- MODULE MCSelfUpdate ----------------------------
(* Two /update tasks and two new commits, the second of which changes the schema. *)
EXTENDS SelfUpdateTransaction

MCTasks == {1, 2}
MCSchemaOf == [c \in 0..2 |-> IF c = 2 THEN 1 ELSE 0]
=============================================================================
