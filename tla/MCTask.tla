------------------------------- MODULE MCTask -------------------------------
(* TaskHooks with values for its constants. *)
EXTENDS TaskHooks, TLC

MCKind == 1 :> "ENT_INODE_FILE"
TwoFiles == <<1, 1>>
MapsFile == <<[file |-> 1, rd |-> TRUE, wr |-> TRUE]>>
NoDeny == {{}}
OpaqueTarget == {{"opaque"}}
=============================================================================
