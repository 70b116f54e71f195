------------------------------- MODULE MCFile -------------------------------
(* FileHooks with values for its constants. *)
EXTENDS FileHooks, Bloom, TLC

\* Modes 1 and 3 differ in their permission bits only.
MCKind == 1 :> "ENT_INODE_FILE" @@ 2 :> "ENT_INODE_PIPE" @@ 3 :> "ENT_INODE_FILE"
          @@ 4 :> "ENT_INODE_DIRECTORY" @@ 5 :> "ENT_INODE_SOCKET"

OneFile == <<1>>
OnePipe == <<2>>
PipesAndFile == <<2, 2, 1>>

ReadWrite == {{"READ"}, {"WRITE"}}
SomeMasks == {{"READ", "WRITE"}, {"WRITE", "APPEND"}, {"EXEC"}}
MapReadWrite == {{"READ", "WRITE"}}

NoDeny == {{}}
DenyWrite == {{"RL_WRITE"}}
DenySome == {{}, {"RL_WRITE"}, {"RL_PROC_READ"}, {"RL_VERSION_TASK"}}

OpaqueTarget == {{"opaque"}, {}}
ProcSettings == {[op |-> {"opaque"}, set |-> {"opaque"}, taint |-> {}],
                 [op |-> {"tracked", "propagate", "taint"}, set |-> {"tracked", "propagate"},
                  taint |-> {"secret"}]}
=============================================================================
