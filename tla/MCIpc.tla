------------------------------- MODULE MCIpc --------------------------------
(* IpcHooks with values for its constants. *)
EXTENDS IpcHooks

NoKind == [m \in {} |-> "ENT_INODE_FILE"]
NoDeny == {{}}
=============================================================================
