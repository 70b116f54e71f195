-------------------------------- MODULE LSM ---------------------------------
(***************************************************************************)
(* The calls of the kernel into the security modules (security.c): in      *)
(* which order the modules are asked, what ends a call and what it         *)
(* returns, and what that means for provenance, which is asked last:       *)
(* whether what it recorded was done, and the life of the nodes it hangs   *)
(* on kernel objects.  The hook modules of this project are about what     *)
(* happens inside one such question to provenance.                         *)
(*                                                                         *)
(* The calls are named after their hook lists.  Those of the options       *)
(* SECURITY_PATH and SECURITY_INFINIBAND, off in the configuration, are    *)
(* left out, and so are the calls with a loop of their own that provenance *)
(* takes no part in.                                                       *)
(***************************************************************************)
EXTENDS Integers, Sequences, FiniteSets, TLC

CONSTANTS Minor,      \* the minor modules, in the order of security_init
          Major,      \* the major modules that can be chosen
          Registered, \* the hooks of each of these modules
          MaxCalls    \* bound: calls of the kernel into the modules

OK == 0
EPERM == -1
ENOMEM == -12
EOPNOTSUPP == -95

-----------------------------------------------------------------------------
(* The calls, by what they do: int hooks are asked until one answers other   *)
(* than 0, void hooks are all called.                                        *)

KernelCalls == [int |-> {"binder_set_context_mgr", "binder_transaction",
    "binder_transfer_binder", "binder_transfer_file", "ptrace_access_check", "ptrace_traceme",
    "capget", "capset", "capable", "quotactl", "quota_on", "syslog", "settime"}, void |-> {}]
ExecAndMountCalls == [int |-> {"bprm_set_creds", "bprm_check_security", "sb_alloc_security",
    "sb_copy_data", "sb_remount", "sb_kern_mount", "sb_show_options", "sb_statfs", "sb_mount",
    "sb_umount", "sb_pivotroot", "sb_set_mnt_opts", "sb_clone_mnt_opts", "sb_parse_opts_str"},
    void |-> {"bprm_committing_creds", "bprm_committed_creds", "sb_free_security"}]
InodeCalls1 == [int |-> {"inode_alloc_security", "dentry_init_security",
    "dentry_create_files_as"}, void |-> {"inode_free_security"}]
InodeCalls2 == [int |-> {"inode_create", "inode_link", "inode_unlink", "inode_symlink",
    "inode_mkdir", "inode_rmdir", "inode_mknod", "inode_rename", "inode_readlink",
    "inode_follow_link", "inode_permission"}, void |-> {}]
InodeCalls3 == [int |-> {"inode_setattr", "inode_getattr", "inode_setxattr", "inode_getxattr",
    "inode_listxattr", "inode_removexattr", "inode_need_killpriv", "inode_killpriv"}, void |->
    {"inode_post_setxattr"}]
InodeCalls4 == [int |-> {"inode_listsecurity", "inode_copy_up", "inode_copy_up_xattr"}, void |->
    {"inode_getsecid"}]
FileCalls == [int |-> {"file_permission", "file_alloc_security", "file_ioctl", "mmap_file",
    "mmap_addr", "file_mprotect", "file_lock", "file_fcntl", "file_send_sigiotask",
    "file_receive", "file_open"}, void |-> {"file_free_security", "file_set_fowner"}]
CredCalls == [int |-> {"task_alloc", "cred_alloc_blank", "cred_prepare", "kernel_act_as",
    "kernel_create_files_as", "kernel_module_request", "kernel_read_file",
    "kernel_post_read_file", "kernel_load_data"}, void |-> {"task_free", "cred_free",
    "cred_transfer", "cred_getsecid"}]
TaskCalls == [int |-> {"task_fix_setuid", "task_setpgid", "task_getpgid", "task_getsid",
    "task_setnice", "task_setioprio", "task_getioprio", "task_prlimit", "task_setrlimit",
    "task_setscheduler", "task_getscheduler", "task_movememory", "task_kill"}, void |->
    {"task_getsecid"}]
IpcCalls == [int |-> {"ipc_permission", "msg_msg_alloc_security", "msg_queue_alloc_security",
    "msg_queue_associate", "msg_queue_msgctl", "msg_queue_msgsnd", "msg_queue_msgrcv",
    "shm_alloc_security", "shm_associate", "shm_shmctl", "shm_shmat", "sem_alloc_security",
    "sem_associate", "sem_semctl", "sem_semop"}, void |-> {"task_to_inode", "ipc_getsecid",
    "msg_msg_free_security", "msg_queue_free_security", "shm_free_security",
    "sem_free_security"}]
NameCalls == [int |-> {"getprocattr", "setprocattr", "netlink_send", "ismaclabel",
    "secid_to_secctx", "secctx_to_secid", "inode_notifysecctx", "inode_setsecctx",
    "inode_getsecctx"}, void |-> {"d_instantiate", "release_secctx", "inode_invalidate_secctx"}]
SocketCalls == [int |-> {"unix_stream_connect", "unix_may_send", "socket_create",
    "socket_post_create", "socket_socketpair", "socket_bind", "socket_connect", "socket_listen",
    "socket_accept", "socket_sendmsg", "socket_recvmsg", "socket_getsockname",
    "socket_getpeername", "socket_getsockopt", "socket_setsockopt", "socket_shutdown",
    "socket_sock_rcv_skb", "socket_getpeersec_stream", "socket_getpeersec_dgram",
    "sk_alloc_security"}, void |-> {}]
SockCalls == [int |-> {"inet_conn_request", "secmark_relabel_packet"}, void |->
    {"sk_free_security", "sk_clone_security", "sk_getsecid", "req_classify_flow", "sock_graft",
    "inet_csk_clone", "inet_conn_established", "secmark_refcount_inc", "secmark_refcount_dec"}]
TunCalls == [int |-> {"tun_dev_alloc_security", "tun_dev_create", "tun_dev_attach_queue",
    "tun_dev_attach", "tun_dev_open", "sctp_assoc_request", "sctp_bind_connect"}, void |->
    {"tun_dev_free_security", "sctp_sk_clone"}]
XfrmCalls == [int |-> {"xfrm_policy_alloc_security", "xfrm_policy_clone_security",
    "xfrm_policy_delete_security", "xfrm_state_alloc", "xfrm_state_alloc_acquire",
    "xfrm_state_delete_security", "xfrm_policy_lookup", "xfrm_decode_session"}, void |->
    {"xfrm_policy_free_security", "xfrm_state_free_security"}]
KeyCalls == [int |-> {"key_alloc", "key_permission", "key_getsecurity", "audit_rule_init",
    "audit_rule_known", "audit_rule_match"}, void |-> {"key_free", "audit_rule_free"}]
FlowCalls == [int |-> {"file_splice_pipe_to_pipe", "mq_timedsend", "mq_timedreceive",
    "socket_sendmsg_always", "socket_recvmsg_always"}, void |-> {"mmap_munmap", "shm_shmdt"}]
BpfCalls == [int |-> {"bpf", "bpf_map", "bpf_prog", "bpf_map_alloc_security",
    "bpf_prog_alloc_security"}, void |-> {"bpf_map_free_security", "bpf_prog_free_security"}]

Calls == {KernelCalls, ExecAndMountCalls, InodeCalls1, InodeCalls2, InodeCalls3, InodeCalls4,
          FileCalls, CredCalls, TaskCalls, IpcCalls, NameCalls, SocketCalls, SockCalls, TunCalls,
          XfrmCalls, KeyCalls, FlowCalls, BpfCalls}
IntHook == UNION {c.int : c \in Calls}
VoidHook == UNION {c.void : c \in Calls}

\* security_inode_getsecurity asks until one does not answer EOPNOTSUPP.
FirstHook == {"inode_getsecurity"}
Hook == IntHook \cup VoidHook \cup FirstHook

\* Calls that do nothing on a private inode.
PrivateGuard == {"d_instantiate", "inode_create", "inode_follow_link", "inode_getattr",
    "inode_getxattr", "inode_link", "inode_listsecurity", "inode_listxattr", "inode_mkdir",
    "inode_mknod", "inode_permission", "inode_post_setxattr", "inode_readlink",
    "inode_removexattr", "inode_rename", "inode_rmdir", "inode_setattr", "inode_setxattr",
    "inode_symlink", "inode_unlink"}

\* The checks after the modules, when none of them refuses.
Later == [
    bprm_check_security |-> <<"ima">>, inode_setattr |-> <<"evm">>,
    inode_setxattr |-> <<"ima", "evm">>, inode_removexattr |-> <<"ima", "evm">>,
    file_permission |-> <<"fsnotify">>, mmap_file |-> <<"ima">>, file_open |-> <<"fsnotify">>,
    kernel_module_request |-> <<"integrity">>, kernel_read_file |-> <<"ima">>,
    kernel_post_read_file |-> <<"ima">>, kernel_load_data |-> <<"ima">>]

\* What an int call returns when no module has the hook.  The 1 asks for the check
\* of the capability module, which is not reached: provenance has both hooks.
Default(h) ==
    CASE h \in {"dentry_init_security", "inode_copy_up_xattr", "secid_to_secctx", "inode_getsecctx",
                "inode_getsecurity"} -> EOPNOTSUPP
      [] h \in {"getprocattr", "setprocattr"} -> -22
      [] h \in {"socket_getpeersec_stream", "socket_getpeersec_dgram"} -> -92
      [] h \in {"inode_setxattr", "inode_removexattr"} -> 1
      [] OTHER -> OK

\* What it returns for a private inode.
PrivateAnswer(h) == IF h \in FirstHook THEN EOPNOTSUPP ELSE OK

\* provenance_hooks, with CONFIG_SECURITY_FLOW_FRIENDLY.
HookTable == {"cred_free", "cred_alloc_blank", "cred_prepare", "cred_transfer",
    "task_alloc", "task_free", "task_fix_setuid", "task_setpgid", "task_getpgid", "task_kill",
    "inode_alloc_security", "inode_create", "inode_free_security", "inode_permission",
    "inode_link", "inode_unlink", "inode_symlink", "inode_rename", "inode_setattr",
    "inode_getattr", "inode_readlink", "inode_setxattr", "inode_post_setxattr",
    "inode_getxattr", "inode_listxattr", "inode_removexattr", "inode_getsecurity",
    "inode_listsecurity", "file_permission", "mmap_file", "mmap_munmap", "file_ioctl",
    "file_open", "file_receive", "file_lock", "file_send_sigiotask", "file_splice_pipe_to_pipe",
    "kernel_read_file", "msg_msg_alloc_security", "msg_msg_free_security", "msg_queue_msgsnd",
    "msg_queue_msgrcv", "shm_alloc_security", "shm_free_security", "shm_shmat", "shm_shmdt",
    "sk_alloc_security", "socket_post_create", "socket_socketpair", "socket_bind",
    "socket_connect", "socket_listen", "socket_accept", "socket_sendmsg_always",
    "socket_recvmsg_always", "mq_timedreceive", "mq_timedsend", "socket_sock_rcv_skb",
    "unix_stream_connect", "unix_may_send", "bprm_check_security", "bprm_set_creds",
    "bprm_committing_creds", "sb_alloc_security", "sb_free_security", "sb_kern_mount"}

\* Mutant of ProvenanceHooks: the hook that frees shared memory is forgotten.
ProvenanceHooksNoFree == HookTable \ {"shm_free_security"}

\* The hooks provenance_add_hooks registers.
ProvenanceHooks == HookTable

-----------------------------------------------------------------------------
(* Objects that carry a node: the calls on which provenance makes and frees  *)
(* it.  release tells whether the kernel calls the free hook also of an      *)
(* object whose allocation was refused.                                      *)

Kind == {"cred", "task", "inode", "msg", "shm", "sb"}
AllocHook == [cred |-> {"cred_prepare", "cred_alloc_blank"}, task |-> {"task_alloc"},
              inode |-> {"inode_alloc_security"}, msg |-> {"msg_msg_alloc_security"},
              shm |-> {"shm_alloc_security"}, sb |-> {"sb_alloc_security"}]
FreeHook == [cred |-> "cred_free", task |-> "task_free", inode |-> "inode_free_security",
             msg |-> "msg_msg_free_security", shm |-> "shm_free_security",
             sb |-> "sb_free_security"]
Released == {"cred", "msg", "sb"}

KindOf(h) == CHOOSE k \in Kind : h \in AllocHook[k] \cup {FreeHook[k]}
Allocates(h) == \E k \in Kind : h \in AllocHook[k]
Frees(h) == \E k \in Kind : h = FreeHook[k]

ASSUME LSMAssumption ==
    /\ ProvenanceHooks \subseteq Hook
    /\ IntHook \cap VoidHook = {}
    /\ Registered \in [{Minor[i] : i \in DOMAIN Minor} \cup Major -> SUBSET Hook]
    /\ MaxCalls \in Nat

VARIABLES chosen,   \* the major module chosen at boot (chosen_lsm)
          loaded,   \* the modules that have added their hooks, in order
          call,     \* the call in progress
          obj,      \* an object of each kind: its state, node and security blob
          calls     \* the number of calls so far

vars == <<chosen, loaded, call, obj, calls>>

HooksOf(m) == IF m = "provenance" THEN ProvenanceHooks ELSE Registered[m]

\* The list of a hook: security_add_hooks appends at the tail.
HookList(h) == SelectSeq(loaded, LAMBDA m : h \in HooksOf(m))
Others(h) == {m \in {loaded[i] : i \in DOMAIN loaded} : h \in HooksOf(m)} \ {"provenance"}

NoCall == [hook |-> "none", twice |-> FALSE, todo |-> <<>>, later |-> <<>>, asked |-> <<>>,
           rc |-> OK]

Init ==
    /\ chosen \in Major \cup {"none"}
    /\ loaded = <<>>
    /\ call = NoCall
    /\ obj = [k \in Kind |-> [st |-> "none", node |-> FALSE, sec |-> FALSE]]
    /\ calls = 0

\* major_lsm_init initialises every major module; the one chosen adds its hooks.
MajorInit == IF chosen = "none" THEN <<>> ELSE <<chosen>>

\* Mutant of Order: provenance is initialised with the major modules.
OrderUnsorted == Minor \o <<"provenance">> \o MajorInit

\* security_init: "Provenance is the last module to be loaded".
Order == Minor \o MajorInit \o <<"provenance">>

SecurityInit ==
    /\ loaded = <<>>
    /\ loaded' = Order
    /\ UNCHANGED <<chosen, call, obj, calls>>

-----------------------------------------------------------------------------
(* A call *)

\* security_cred_free returns early for credentials without security blob.
Skips(h, private) == private \/ (h = "cred_free" /\ ~obj["cred"].sec)

\* The kernel calls hook h; private says that its inode is private, twice that it
\* is a rename with RENAME_EXCHANGE, which asks for both directions.
Begin(h, private, twice) ==
    LET q == HookList(h)
    IN  /\ loaded # <<>> /\ call = NoCall /\ calls < MaxCalls
        /\ private => h \in PrivateGuard \cup FirstHook
        /\ twice => h = "inode_rename" /\ ~private
        /\ Allocates(h) => obj[KindOf(h)].st = "none"
        /\ Frees(h) => obj[KindOf(h)].st \in {"live", "failed"}
        /\ call' = [hook |-> h, twice |-> twice, asked |-> <<>>,
                    rc |-> IF private THEN PrivateAnswer(h) ELSE Default(h),
                    todo |-> IF Skips(h, private) THEN <<>> ELSE IF twice THEN q \o q ELSE q,
                    later |-> IF ~private /\ h \in DOMAIN Later THEN Later[h] ELSE <<>>]
        /\ calls' = calls + 1
        /\ UNCHANGED <<chosen, loaded, obj>>

\* The hooks of provenance that make a node: what they may answer, and whether
\* the object then has its node.  provenance_task_alloc goes on without a node; those
\* that record a relation last may be refused with the node in place, and
\* provenance_shm_alloc_security drops the refusal.
TaskAlloc == {<<OK, TRUE>>, <<OK, FALSE>>}
CredAllocBlank == {<<OK, TRUE>>, <<ENOMEM, FALSE>>}
CredPrepare == {<<OK, TRUE>>, <<ENOMEM, FALSE>>, <<EPERM, TRUE>>}
InodeAlloc == {<<OK, TRUE>>, <<ENOMEM, FALSE>>}
MsgAlloc == {<<OK, TRUE>>, <<ENOMEM, FALSE>>, <<EPERM, TRUE>>}
ShmAlloc == {<<OK, TRUE>>, <<ENOMEM, FALSE>>}
SbAlloc == {<<OK, TRUE>>, <<ENOMEM, FALSE>>}

Makes == [task_alloc |-> TaskAlloc, cred_alloc_blank |-> CredAllocBlank,
          cred_prepare |-> CredPrepare, inode_alloc_security |-> InodeAlloc,
          msg_msg_alloc_security |-> MsgAlloc, shm_alloc_security |-> ShmAlloc,
          sb_alloc_security |-> SbAlloc]

\* provenance_sb_kern_mount gives the node of the superblock its identifier, and
\* always answers 0.
SbKernMount == {OK}

\* What a module may answer.  Lengths are positive.
Answers(h, m) ==
    CASE h \in VoidHook -> {OK}
      [] h \in FirstHook -> {EOPNOTSUPP, EPERM, 1}
      [] h = "inode_listsecurity" -> {OK, 1}
      [] m = "provenance" /\ Allocates(h) -> {x[1] : x \in Makes[h]}
      [] m = "provenance" /\ h = "sb_kern_mount" -> SbKernMount
      [] OTHER -> {OK, EPERM}

\* What the answer of a module leaves on the object of the call.  The hooks of
\* provenance that free an object free its node.
OnObject(h, m, ans, o) ==
    CASE m = "provenance" /\ Allocates(h) ->
            {[o EXCEPT !.node = x[2]] : x \in {y \in Makes[h] : y[1] = ans}}
      [] m = "provenance" /\ Frees(h) -> {[o EXCEPT !.node = FALSE]}
      [] m = chosen /\ Allocates(h) -> {[o EXCEPT !.sec = ans = OK]}
      [] m = chosen /\ Frees(h) -> {[o EXCEPT !.sec = FALSE]}
      [] OTHER -> {o}

\* Does answer ans end the call?  call_void_hook, call_int_hook and the loop of
\* security_inode_getsecurity.
Ends(h, ans) ==
    CASE h \in VoidHook -> FALSE
      [] h \in FirstHook -> ans # EOPNOTSUPP
      [] OTHER -> ans # OK

\* The next module in the list is asked.
Ask(ans) ==
    LET h == call.hook
        m == Head(call.todo)
    IN  /\ call.todo # <<>>
        /\ ans \in Answers(h, m)
        /\ call' = [call EXCEPT !.asked = Append(@, [by |-> m, ans |-> ans]),
                                !.rc = IF h \in VoidHook THEN @ ELSE ans,
                                !.todo = IF Ends(h, ans) THEN <<>> ELSE Tail(@),
                                !.later = IF Ends(h, ans) THEN <<>> ELSE @]
        /\ IF Allocates(h) \/ Frees(h)
           THEN \E o \in OnObject(h, m, ans, obj[KindOf(h)]) : obj' = [obj EXCEPT ![KindOf(h)] = o]
           ELSE UNCHANGED obj
        /\ UNCHANGED <<chosen, loaded, calls>>

\* The next of the later checks.
Check(ans) ==
    /\ call.todo = <<>> /\ call.later # <<>>
    /\ call' = [call EXCEPT !.asked = Append(@, [by |-> Head(call.later), ans |-> ans]), !.rc = ans,
                            !.later = IF ans # OK THEN <<>> ELSE Tail(@)]
    /\ UNCHANGED <<chosen, loaded, obj, calls>>

Finished == call.hook # "none" /\ call.todo = <<>> /\ call.later = <<>>

\* The call returns, and the kernel goes on with the object.
Return ==
    LET h == call.hook
        k == KindOf(h)
        st == IF Frees(h) THEN "none" ELSE IF call.rc = OK THEN "live"
              ELSE IF k \in Released THEN "failed" ELSE "none"
    IN  /\ Finished
        /\ obj' = IF Allocates(h) \/ Frees(h) THEN [obj EXCEPT ![k].st = st] ELSE obj
        /\ call' = NoCall
        /\ UNCHANGED <<chosen, loaded, calls>>

Next ==
    \/ SecurityInit
    \/ \E h \in Hook, private, twice \in BOOLEAN : Begin(h, private, twice)
    \/ \E ans \in {OK, EPERM, ENOMEM, EOPNOTSUPP, 1} : Ask(ans)
    \/ \E ans \in {OK, EPERM} : Check(ans)
    \/ Return

Spec == Init /\ [][Next]_vars

-----------------------------------------------------------------------------
(* Properties *)

Allowed(by) == \E i \in DOMAIN call.asked : call.asked[i] = [by |-> by, ans |-> OK]

\* When provenance is asked about an operation, every other module that has the
\* hook has allowed it, so that what a hook of provenance records and accepts is
\* done, but for the refusals of IMA, EVM and fsnotify, which come later, and of
\* the second direction of an exchange.
RecordedDone ==
    /\ \A i \in DOMAIN call.asked :
          call.asked[i].by = "provenance" /\ call.hook \in IntHook =>
              \A m \in Others(call.hook) : \E j \in 1..(i - 1) : call.asked[j] = [by |-> m, ans |-> OK]
    /\ Finished /\ call.hook \in IntHook /\ Allowed("provenance") /\ call.rc # OK =>
          call.hook \in DOMAIN Later \/ call.twice

\* A node does not outlive its object and is not left behind by an allocation that
\* another module refused: provenance allocates last, and the free hook finds the
\* node.  The exception are the nodes of credentials when no major module is
\* chosen, since security_cred_free then always returns early.
NodeLife ==
    \A k \in Kind :
        call = NoCall /\ obj[k].st = "none" /\ obj[k].node => k = "cred" /\ chosen = "none"
=============================================================================
