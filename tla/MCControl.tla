------------------------------ MODULE MCControl ------------------------------
(* A small instance of ControlFiles. *)
EXTENDS ControlFiles

\* Types of each category, two of them with the same subtype bit, and two nodes
\* of different data models.
Types == {"RL_READ", "RL_LOG", "RL_CLONE_MEM", "RL_VERSION", "RL_CLONE", "ACT_TASK", "ENT_INODE_FILE"}

Ns(pid) == [f \in Namespace |-> IF f = "pid" THEN pid ELSE IgnoreNs]
AnyHost == [ip |-> {1}, mask |-> {}, port |-> 0]
Host == [ip |-> {1, 2}, mask |-> {1}, port |-> 7]

W(l, k, op) == [list |-> l, key |-> k, op |-> op]

\* The filters of a list overlap: a namespace and any, a host and any.
SomeWrites ==
    {W("uid", 1, op) : op \in {{"tracked"}, {"opaque", "propagate"}, {"delete"}}}
    \cup {W("uid", 2, {"tracked"}), W("gid", 1, {"propagate"}), W("secctx", 1, {"tracked"})}
    \cup {W("ns", Ns(3), op) : op \in {{"tracked"}, {"delete"}}}
    \cup {W("ns", Ns(IgnoreNs), {"opaque"})}
    \cup {W("ingress", AnyHost, op) : op \in {{"tracked"}, {"record"}, {"delete"}}}
    \cup {W("ingress", Host, {"propagate"}), W("egress", Host, {"record"})}

SomeTargets == [
    p |-> [type |-> "ENT_PROC", secctx |-> 1, uid |-> 1, gid |-> 1, ns |-> [f \in Namespace |-> 3]],
    t |-> [type |-> "ACT_TASK", secctx |-> 1, uid |-> 1, gid |-> 1],
    s |-> [type |-> "ENT_INODE_SOCKET", secctx |-> 2, uid |-> 1, gid |-> 2]]
SomeAddresses == {[proc |-> "p", sock |-> "s", ip |-> {1, 3}, port |-> 7]}
=============================================================================
