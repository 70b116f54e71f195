------------------------------ MODULE ProvTypes ------------------------------
(***************************************************************************)
(* The vocabulary of the provenance graph: relation types by W3C PROV      *)
(* category, node types, and the predicates the capture code switches on.  *)
(*                                                                         *)
(* In the code a type is a 64-bit word with one category bit pattern and   *)
(* one subtype bit.  Every use of it is an equality test, a category test  *)
(* or "does this filter mask hit it", so a type is modelled by its name    *)
(* and a mask by the set of the types it hits.                             *)
(***************************************************************************)
EXTENDS Integers

\* RL_DERIVED subtypes: entity to entity.
Derived == {"RL_NAMED", "RL_VERSION", "RL_SND_PACKET", "RL_SND_UNIX", "RL_RCV_PACKET",
    "RL_RCV_UNIX", "RL_FREED", "RL_SETATTR_INODE", "RL_ACCEPT_SOCKET", "RL_GETXATTR_INODE",
    "RL_SETXATTR_INODE", "RL_RMVXATTR_INODE", "RL_EXEC", "RL_TERMINATE_PROC", "RL_ARG",
    "RL_ENV", "RL_SH_READ", "RL_SH_WRITE", "RL_PCK_CNT"}

\* RL_GENERATED subtypes: activity to entity.
Generated == {"RL_CLONE_MEM", "RL_MSG_CREATE", "RL_SOCKET_CREATE", "RL_SOCKET_PAIR_CREATE",
    "RL_INODE_CREATE", "RL_WRITE", "RL_WRITE_IOCTL", "RL_PROC_WRITE", "RL_CONNECT", "RL_LISTEN",
    "RL_BIND", "RL_SND", "RL_SND_MSG", "RL_SND_MSG_Q", "RL_LINK", "RL_UNLINK", "RL_SYMLINK",
    "RL_SETATTR", "RL_SETXATTR", "RL_RMVXATTR", "RL_SHMDT", "RL_SETUID", "RL_SETGID",
    "RL_SH_ATTACH_WRITE", "RL_SH_CREATE_READ", "RL_SH_CREATE_WRITE", "RL_FILE_LOCK",
    "RL_MUNMAP", "RL_SPLICE_OUT", "RL_EXEC_TASK"}

\* RL_USED subtypes: entity to activity.
Used == {"RL_READ", "RL_READ_IOCTL", "RL_PROC_READ", "RL_ACCEPT", "RL_RCV", "RL_RCV_MSG",
    "RL_RCV_MSG_Q", "RL_OPEN", "RL_FILE_RCV", "RL_FILE_SIGIO", "RL_SEARCH", "RL_GETATTR",
    "RL_READ_LINK", "RL_GETXATTR", "RL_LSTXATTR", "RL_NAMED_PROCESS", "RL_LOG", "RL_PERM_READ",
    "RL_PERM_WRITE", "RL_PERM_EXEC", "RL_PERM_APPEND", "RL_SH_ATTACH_READ", "RL_GETGID",
    "RL_SPLICE_IN", "RL_MMAP_READ", "RL_MMAP_EXEC", "RL_MMAP_WRITE", "RL_MMAP_READ_PRIVATE",
    "RL_MMAP_EXEC_PRIVATE", "RL_MMAP_WRITE_PRIVATE", "RL_LOAD_FILE"}

\* RL_INFORMED subtypes: activity to activity.
Informed == {"RL_CLONE", "RL_VERSION_TASK", "RL_TERMINATE_TASK"}

\* RL_INFLUENCED and RL_ASSOCIATED subtypes: to and from the machine agent.
Influenced == {"RL_LOAD_UNKNOWN", "RL_LOAD_FIRMWARE", "RL_LOAD_FIRMWARE_PREALLOC_BUFFER",
    "RL_LOAD_MODULE", "RL_LOAD_KEXEC_IMAGE", "RL_LOAD_KEXEC_INITRAMFS", "RL_LOAD_POLICY",
    "RL_LOAD_CERTIFICATE"}
Associated == {"RL_RAN_ON"}

RelType == Derived \cup Generated \cup Used \cup Informed \cup Influenced \cup Associated

InodeType == {"ENT_INODE_UNKNOWN", "ENT_INODE_LINK", "ENT_INODE_FILE", "ENT_INODE_DIRECTORY",
    "ENT_INODE_CHAR", "ENT_INODE_BLOCK", "ENT_INODE_PIPE", "ENT_INODE_SOCKET"}

\* "free" is not a type of the code: it marks an identifier not allocated yet.
NodeType == InodeType \cup {"ACT_TASK", "AGT_MACHINE", "ENT_PROC", "ENT_STR", "ENT_MSG", "ENT_SHM",
    "ENT_ADDR", "ENT_SBLCK", "ENT_PATH", "ENT_PACKET", "ENT_IATTR", "ENT_XATTR", "ENT_PCKCNT",
    "ENT_ARG", "ENT_ENV", "ENT_DISC", "free"}

\* prov_has_uidgid and prov_has_secid list the same types.
HasOwner(ntype) == ntype \in InodeType \cup {"ENT_PROC"}

\* filter_update_node: relations that leave their receiver's version alone.
KeepsVersion == {"RL_VERSION_TASK", "RL_VERSION", "RL_NAMED", "RL_NAMED_PROCESS"}

\* filter_relation and filter_propagate_relation: the four categories that have a filter word.
\* Influenced and associated relations have none and are never filtered by type.
Filterable == Derived \cup Generated \cup Used \cup Informed
=============================================================================
