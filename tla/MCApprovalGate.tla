--------------------------- MODULE MCApprovalGate ---------------------------
(* One RED and one YELLOW action of one task with several requests. *)
EXTENDS ApprovalGate

MCOne == {1}
MCNone == {}
MCRed == {"red"}
MCYellow == {"yellow"}
=============================================================================
