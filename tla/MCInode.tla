------------------------------ MODULE MCInode -------------------------------
(* InodeHooks with values for its constants. *)
EXTENDS InodeHooks, TLC

MCKind == 1 :> "ENT_INODE_FILE" @@ 2 :> "ENT_INODE_DIRECTORY"
OneDirectory == <<2>>
SomeMasks == {{}, {"READ", "WRITE"}, {"EXEC", "APPEND"}}
NoDeny == {{}}
SomeSettings == {[set |-> {"opaque"}, taint |-> {}],
                 [set |-> {"tracked", "propagate"}, taint |-> {"secret"}]}
ProcSettings == {[op |-> {"tracked"}, set |-> {"tracked"}, taint |-> {}],
                 [op |-> {"opaque"}, set |-> {"opaque"}, taint |-> {}]}
=============================================================================
