----------------------------- MODULE TypeNames ------------------------------
(***************************************************************************)
(* Types as the 64-bit words they are, the filter words they are tested    *)
(* against, and their names (provenance_types.h, type.c, the filter tests  *)
(* of provenance_filter.h).  A word is the set of its one bits.            *)
(***************************************************************************)
EXTENDS ProvTypes, Sequences, FiniteSets, TLC

\* Subtypes of each category, in the order of their bits from bit 0.
DerivedOrder == <<
    "RL_NAMED", "RL_VERSION", "RL_SND_PACKET", "RL_SND_UNIX", "RL_RCV_PACKET", "RL_RCV_UNIX",
    "RL_FREED", "RL_SETATTR_INODE", "RL_ACCEPT_SOCKET", "RL_GETXATTR_INODE", "RL_SETXATTR_INODE",
    "RL_RMVXATTR_INODE", "RL_EXEC", "RL_TERMINATE_PROC", "RL_ARG", "RL_ENV", "RL_SH_READ",
    "RL_SH_WRITE", "RL_PCK_CNT">>
GeneratedOrder == <<
    "RL_CLONE_MEM", "RL_MSG_CREATE", "RL_SOCKET_CREATE", "RL_SOCKET_PAIR_CREATE", "RL_INODE_CREATE",
    "RL_WRITE", "RL_WRITE_IOCTL", "RL_PROC_WRITE", "RL_CONNECT", "RL_LISTEN", "RL_BIND", "RL_SND",
    "RL_SND_MSG", "RL_SND_MSG_Q", "RL_LINK", "RL_UNLINK", "RL_SYMLINK", "RL_SETATTR", "RL_SETXATTR",
    "RL_RMVXATTR", "RL_SHMDT", "RL_SETUID", "RL_SETGID", "RL_SH_ATTACH_WRITE", "RL_SH_CREATE_READ",
    "RL_SH_CREATE_WRITE", "RL_FILE_LOCK", "RL_MUNMAP", "RL_SPLICE_OUT", "RL_EXEC_TASK">>
UsedOrder == <<
    "RL_READ", "RL_READ_IOCTL", "RL_PROC_READ", "RL_ACCEPT", "RL_RCV", "RL_RCV_MSG", "RL_RCV_MSG_Q",
    "RL_OPEN", "RL_FILE_RCV", "RL_FILE_SIGIO", "RL_SEARCH", "RL_GETATTR", "RL_READ_LINK",
    "RL_GETXATTR", "RL_LSTXATTR", "RL_NAMED_PROCESS", "RL_LOG", "RL_PERM_READ", "RL_PERM_WRITE",
    "RL_PERM_EXEC", "RL_PERM_APPEND", "RL_SH_ATTACH_READ", "RL_GETGID", "RL_SPLICE_IN",
    "RL_MMAP_READ", "RL_MMAP_EXEC", "RL_MMAP_WRITE", "RL_MMAP_READ_PRIVATE", "RL_MMAP_EXEC_PRIVATE",
    "RL_MMAP_WRITE_PRIVATE", "RL_LOAD_FILE">>
InformedOrder == <<"RL_CLONE", "RL_VERSION_TASK", "RL_TERMINATE_TASK">>
InfluencedOrder == <<
    "RL_LOAD_UNKNOWN", "RL_LOAD_FIRMWARE", "RL_LOAD_FIRMWARE_PREALLOC_BUFFER", "RL_LOAD_MODULE",
    "RL_LOAD_KEXEC_IMAGE", "RL_LOAD_KEXEC_INITRAMFS", "RL_LOAD_POLICY", "RL_LOAD_CERTIFICATE">>
AssociatedOrder == <<"RL_RAN_ON">>

\* Activities, agents and entities share one numbering.
NodeOrder == <<
    "ACT_TASK", "ACT_DISC", "AGT_USR", "AGT_GRP", "AGT_DISC", "AGT_MACHINE", "ENT_STR",
    "ENT_INODE_UNKNOWN", "ENT_INODE_LINK", "ENT_INODE_FILE", "ENT_INODE_DIRECTORY",
    "ENT_INODE_CHAR", "ENT_INODE_BLOCK", "ENT_INODE_PIPE", "ENT_INODE_SOCKET", "ENT_MSG", "ENT_SHM",
    "ENT_ADDR", "ENT_SBLCK", "ENT_PATH", "ENT_PACKET", "ENT_DISC", "ENT_IATTR", "ENT_XATTR",
    "ENT_PCKCNT", "ENT_ARG", "ENT_ENV", "ENT_PROC">>

RelOrder == [derived |-> DerivedOrder, generated |-> GeneratedOrder, used |-> UsedOrder,
             informed |-> InformedOrder, influenced |-> InfluencedOrder, associated |-> AssociatedOrder]

\* DM_RELATION, DM_ACTIVITY, DM_ENTITY, DM_AGENT and the bit of a category.
DataModel == [relation |-> 63, activity |-> 62, entity |-> 61, agent |-> 60]
CategoryBit == [derived |-> 55, generated |-> 54, used |-> 53, informed |-> 52, influenced |-> 51,
                associated |-> 50]
SubtypeMask == 0..47

ElementsOf(q) == {q[i] : i \in DOMAIN q}
Relations == UNION {ElementsOf(RelOrder[c]) : c \in DOMAIN RelOrder}
Nodes == ElementsOf(NodeOrder)
PositionIn(q, t) == CHOOSE i \in DOMAIN q : q[i] = t

CategoryOf(t) == CHOOSE c \in DOMAIN RelOrder : t \in ElementsOf(RelOrder[c])
NodeModel(t) == CASE t \in {"ACT_TASK", "ACT_DISC"} -> "activity"
                  [] t \in {"AGT_USR", "AGT_GRP", "AGT_DISC", "AGT_MACHINE"} -> "agent"
                  [] OTHER -> "entity"

\* The word of a type.
RelWord == [t \in Relations |->
    {DataModel.relation, CategoryBit[CategoryOf(t)], PositionIn(RelOrder[CategoryOf(t)], t) - 1}]
NodeWord == [t \in Nodes |-> {DataModel[NodeModel(t)], PositionIn(NodeOrder, t) - 1}]

\* prov_is_type and the tests built on it; HIT_FILTER.
ProvIs(word, c) == {DataModel.relation, CategoryBit[c]} \subseteq word
HitFilter(filter, word) == filter \cap word # {}

-----------------------------------------------------------------------------
(* Names *)

\* relation_str, the first and the second half of its cases.
RelStr1 == [
    RL_READ |-> "read", RL_READ_IOCTL |-> "read_ioctl", RL_WRITE |-> "write",
    RL_WRITE_IOCTL |-> "write_ioctl", RL_CLONE_MEM |-> "clone_mem", RL_MSG_CREATE |-> "msg_create",
    RL_SOCKET_CREATE |-> "socket_create", RL_SOCKET_PAIR_CREATE |-> "socket_pair_create",
    RL_INODE_CREATE |-> "inode_create", RL_SETUID |-> "setuid", RL_SETGID |-> "setpgid",
    RL_GETGID |-> "getpgid", RL_BIND |-> "bind", RL_CONNECT |-> "connect", RL_LISTEN |-> "listen",
    RL_ACCEPT |-> "accept", RL_OPEN |-> "open", RL_FILE_RCV |-> "file_rcv",
    RL_FILE_LOCK |-> "file_lock", RL_FILE_SIGIO |-> "file_sigio", RL_VERSION |-> "version_entity",
    RL_MUNMAP |-> "munmap", RL_SHMDT |-> "shmdt", RL_LINK |-> "link", RL_UNLINK |-> "unlink",
    RL_SYMLINK |-> "symlink", RL_SPLICE_OUT |-> "splice_out", RL_SPLICE_IN |-> "splice_in",
    RL_SETATTR |-> "setattr", RL_SETATTR_INODE |-> "setattr_inode",
    RL_ACCEPT_SOCKET |-> "accept_socket", RL_SETXATTR |-> "setxattr",
    RL_SETXATTR_INODE |-> "setxattr_inode", RL_RMVXATTR |-> "removexattr",
    RL_RMVXATTR_INODE |-> "removexattr_inode", RL_NAMED |-> "named",
    RL_NAMED_PROCESS |-> "named_process", RL_EXEC |-> "exec", RL_EXEC_TASK |-> "exec_task",
    RL_PCK_CNT |-> "packet_content", RL_CLONE |-> "clone", RL_VERSION_TASK |-> "version_activity",
    RL_SEARCH |-> "search", RL_GETATTR |-> "getattr", RL_GETXATTR |-> "getxattr",
    RL_GETXATTR_INODE |-> "getxattr_inode", RL_LSTXATTR |-> "listxattr",
    RL_READ_LINK |-> "read_link"]
RelStr2 == [
    RL_MMAP_READ |-> "mmap_read", RL_MMAP_EXEC |-> "mmap_exec", RL_MMAP_WRITE |-> "mmap_write",
    RL_MMAP_READ_PRIVATE |-> "mmap_read_private", RL_MMAP_EXEC_PRIVATE |-> "mmap_exec_private",
    RL_MMAP_WRITE_PRIVATE |-> "mmap_write_private", RL_SND |-> "send",
    RL_SND_PACKET |-> "send_packet", RL_SND_UNIX |-> "send_unix", RL_SND_MSG |-> "send_msg",
    RL_SND_MSG_Q |-> "send_msg_queue", RL_RCV |-> "receive", RL_RCV_PACKET |-> "receive_packet",
    RL_RCV_UNIX |-> "receive_unix", RL_RCV_MSG |-> "receive_msg",
    RL_RCV_MSG_Q |-> "receive_msg_queue", RL_PERM_READ |-> "perm_read",
    RL_PERM_WRITE |-> "perm_write", RL_SH_READ |-> "sh_read", RL_PROC_READ |-> "memory_read",
    RL_SH_WRITE |-> "sh_write", RL_PROC_WRITE |-> "memory_write", RL_PERM_EXEC |-> "perm_exec",
    RL_PERM_APPEND |-> "perm_append", RL_TERMINATE_TASK |-> "terminate_task",
    RL_TERMINATE_PROC |-> "terminate_proc", RL_FREED |-> "free", RL_ARG |-> "arg", RL_ENV |-> "env",
    RL_LOG |-> "log", RL_SH_ATTACH_READ |-> "sh_attach_read",
    RL_SH_ATTACH_WRITE |-> "sh_attach_write", RL_SH_CREATE_READ |-> "sh_create_read",
    RL_SH_CREATE_WRITE |-> "sh_create_write", RL_LOAD_FILE |-> "load_file",
    RL_LOAD_UNKNOWN |-> "load_unknown", RL_LOAD_FIRMWARE |-> "load_firmware",
    RL_LOAD_FIRMWARE_PREALLOC_BUFFER |-> "load_firmware_prealloc_buffer",
    RL_LOAD_MODULE |-> "load_module", RL_LOAD_KEXEC_IMAGE |-> "load_kexec_image",
    RL_LOAD_KEXEC_INITRAMFS |-> "load_kexec_initramfs", RL_LOAD_POLICY |-> "load_policy",
    RL_LOAD_CERTIFICATE |-> "load_certificate", RL_RAN_ON |-> "ran_on"]
RelStr == RelStr1 @@ RelStr2
relation_str(t) == IF t \in DOMAIN RelStr THEN RelStr[t] ELSE "unknown"

\* node_str
NodeStr == [
    ENT_STR |-> "string", ACT_TASK |-> "task", ENT_INODE_UNKNOWN |-> "inode_unknown",
    ENT_INODE_LINK |-> "link", ENT_INODE_FILE |-> "file", ENT_INODE_DIRECTORY |-> "directory",
    ENT_INODE_CHAR |-> "char", ENT_INODE_BLOCK |-> "block", ENT_INODE_PIPE |-> "pipe",
    ENT_INODE_SOCKET |-> "socket", ENT_MSG |-> "msg", ENT_SHM |-> "shm", ENT_ADDR |-> "address",
    ENT_SBLCK |-> "sb", ENT_PATH |-> "path", ENT_DISC |-> "disc_entity",
    ACT_DISC |-> "disc_activity", AGT_DISC |-> "disc_agent", AGT_MACHINE |-> "machine",
    ENT_PACKET |-> "packet", ENT_IATTR |-> "iattr", ENT_XATTR |-> "xattr",
    ENT_PCKCNT |-> "packet_content", ENT_ARG |-> "argv", ENT_ENV |-> "envp",
    ENT_PROC |-> "process_memory"]
node_str(t) == IF t \in DOMAIN NodeStr THEN NodeStr[t] ELSE "unknown"

\* relation_id compares with the name of every relation, node_id with all but
\* one: the name of ENT_STR is not among them.  "0" is no type.
relation_id(s) == IF \E t \in Relations : RelStr[t] = s
                  THEN CHOOSE t \in Relations : RelStr[t] = s ELSE "0"

NodeTested == DOMAIN NodeStr \ {"ENT_STR"}
node_id(s) == IF \E t \in NodeTested : NodeStr[t] = s
              THEN CHOOSE t \in NodeTested : NodeStr[t] = s ELSE "0"

\* prov_read_prov_type: a type without name gets its name, a name its type.
TypeOfName(relation, s) == IF relation THEN relation_id(s) ELSE node_id(s)
NameOfType(relation, t) == IF relation THEN relation_str(t) ELSE node_str(t)
=============================================================================
