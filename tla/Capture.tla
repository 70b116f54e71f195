------------------------------ MODULE Capture -------------------------------
(***************************************************************************)
(* What all hooks share: the kernel objects that carry provenance, the     *)
(* getters that fetch and refresh a node before a hook uses it, and the    *)
(* control files of fs.c that change the policy while hooks run.           *)
(*                                                                         *)
(* A module of hooks EXTENDS this one, and its next-state relation is its  *)
(* hooks plus ConfigNext.                                                  *)
(***************************************************************************)
EXTENDS Record

CONSTANTS NProc,        \* number of processes
          Kind,         \* the inode type of each i_mode value, by mode (1, 2, ...)
          MemOK,        \* may an allocation succeed (TRUE), fail (FALSE)
          Flags,        \* the flag files that are written
          NodeFilters,  \* node types written to the node filters
          RelFilters,   \* relation types written to the relation filters
          DenySets,     \* sets of relation types a query module refuses
          TargetOps,    \* capture options written to the target lists
          ProcOps,      \* flag settings written to the self and process files
          MaxEpoch,     \* bound on the epoch
          MaxCalls,     \* bound on the number of hook calls
          MaxConfig     \* bound on the number of control file writes

ASSUME CaptureAssumption ==
    /\ NProc \in Nat
    /\ Kind \in [DOMAIN Kind -> InodeType] /\ DOMAIN Kind \subseteq Nat \ {0}
    /\ MemOK \subseteq BOOLEAN
    /\ Flags \subseteq {"enabled", "all", "compress_node", "compress_edge", "duplicate"}
    /\ NodeFilters \subseteq NodeType /\ RelFilters \subseteq RelType
    /\ DenySets \subseteq SUBSET RelType /\ TargetOps \subseteq SUBSET SetOp
    /\ ProcOps \subseteq [op : SUBSET (SetOp \cup {"taint"}), set : SUBSET SetOp, taint : SUBSET Taint]
    /\ MaxEpoch \in Nat /\ MaxCalls \in Nat /\ MaxConfig \in Nat

Proc == 1..NProc

VARIABLES proc,     \* the task, credentials, executable and mappings of each process
          imode,    \* i_mode of the inode behind a node
          live,     \* nodes whose kernel object exists
          calls,    \* hook calls so far
          confs     \* control file writes so far

confVars == <<policy, epoch, deny, target>>
vars == <<g, confVars, proc, imode, live, calls, confs>>

NoId == -1
Process == [task : Id \cup {NoId}, cred : Id \cup {NoId}, exe : Id \cup {NoId}, maps : Seq(Mapping)]

\* The types of the variables; identifiers from g.next on are not in use.
CaptureTypeOK ==
    /\ g \in Graph
    /\ policy \in Policy
    /\ epoch \in Nat \ {0}
    /\ deny \subseteq RelType
    /\ target \in [Id -> SUBSET SetOp]
    /\ proc \in [Proc -> Process]
    /\ imode \in [Id -> DOMAIN Kind \cup {0}]
    /\ live \subseteq Id
    /\ calls \in Nat /\ confs \in Nat
    /\ \A i \in Id : i >= g.next => g.node[i] = NewNode("free")

Tasks(p) == proc[p].task
Creds(p) == proc[p].cred
Inodes == {i \in live : imode[i] # 0}     \* inodes the file system has filled in
Running == {p \in Proc : proc[p].task # NoId}

-----------------------------------------------------------------------------
(* Getters *)

\* get_cred_provenance and record_task_name: before the credentials are used
\* they get the name of the executable, or turn opaque with it.
GetCred(G, p, mem) ==
    LET c == proc[p].cred
        x == proc[p].exe
        n == G.node[c]
    IN  IF n.opq \/ IsNameRecorded(n) \/ ~IsRecorded(n) \/ x = NoId THEN G
        ELSE IF G.node[x].opq THEN [G EXCEPT !.node[c].opq = TRUE]
        ELSE RecordNodeName(G, c, FALSE, mem)

\* get_task_provenance(true)
GetTask(G, p) ==
    LET t == proc[p].task
    IN  IF G.node[t].opq THEN G ELSE RecordKernelLink(G, t)

\* get_cred_provenance, then get_task_provenance(true): how most hooks begin.
Enter(G, p, mem) == GetTask(GetCred(G, p, mem), p)

\* update_inode_type: a change of mode makes a new version of a recorded inode.
UpdateInodeType(G, i) ==
    LET n == G.node[i]
        m == imode[i]
        t == IF m = 0 THEN "ENT_INODE_UNKNOWN" ELSE Kind[m]
        u == [n EXCEPT !.mode = m, !.type = t]
    IN  IF n.mode # 0 /\ n.mode # m /\ IsRecorded(n)
        THEN NewVersion(G, "RL_VERSION", i, u)
        ELSE [G EXCEPT !.node[i] = u]

\* record_inode_name_from_dentry: it returns early on a node that has a name,
\* whatever force says.
RecordInodeNameFromDentry(G, i, force, mem) ==
    IF IsNameRecorded(G.node[i]) \/ ~IsRecorded(G.node[i]) THEN [G EXCEPT !.rc = OK]
    ELSE RecordNodeName(G, i, force, mem)

\* refresh_inode_provenance
RefreshInode(G, i, mem) ==
    IF G.node[i].opq THEN G
    ELSE UpdateInodeType(RecordInodeNameFromDentry(G, i, FALSE, mem), i)

\* inode_init_provenance on an inode whose extended attribute holds nothing.
InitInode(G, i) ==
    IF G.node[i].init THEN G
    ELSE UpdateInodeType([G EXCEPT !.node[i].init = TRUE], i)

\* get_inode_provenance when the hook may sleep; when it may not, the node is
\* taken as it is.
GetInode(G, i, mem) == RefreshInode(InitInode(G, i), i, mem)

-----------------------------------------------------------------------------
(* Steps *)

\* A hook call leaves the graph G behind.  The bound is part of the guard.
Hook(G) ==
    /\ calls < MaxCalls
    /\ g' = G
    /\ calls' = calls + 1
    /\ UNCHANGED <<confVars, confs>>

\* A hook call that changes no kernel object this model keeps.
PlainHook(G) == Hook(G) /\ UNCHANGED <<proc, imode, live>>

ConfigStep == confs < MaxConfig /\ confs' = confs + 1 /\ UNCHANGED <<proc, live, calls>>

\* __write_flag: enable, all, compress_node, compress_edge, duplicate.
WriteFlag(flag, val) ==
    /\ ConfigStep
    /\ policy' = [policy EXCEPT ![flag] = val]
    /\ UNCHANGED <<g, epoch, deny, target, imode>>

\* __write_filter: add types to a filter or take them out.
WriteFilter(file, types, add) ==
    /\ ConfigStep
    /\ policy' = [policy EXCEPT ![file] = IF add THEN @ \cup types ELSE @ \ types]
    /\ UNCHANGED <<g, epoch, deny, target, imode>>

\* prov_write_epoch
WriteEpoch ==
    /\ ConfigStep
    /\ epoch < MaxEpoch
    /\ epoch' = epoch + 1
    /\ UNCHANGED <<g, policy, deny, target, imode>>

\* register_ and unregister_provenance_query_hooks of a module that refuses
\* the relations of one set of types.
SetQuery(d) ==
    /\ ConfigStep
    /\ deny' = d
    /\ UNCHANGED <<g, policy, epoch, target, imode>>

\* The uid, gid, secctx and namespace filter files: the capture options that
\* match node i become op.
WriteTarget(i, op) ==
    /\ ConfigStep
    /\ target' = [target EXCEPT ![i] = op]
    /\ UNCHANGED <<g, policy, epoch, deny, imode>>

\* update_prov_config: each option named by s.op is set or cleared; a taint is
\* added.
Configured(n, s) ==
    LET val(o, old) == (o \in s.op /\ o \in s.set) \/ (o \notin s.op /\ old)
    IN  [n EXCEPT !.trk = val("tracked", @), !.opq = val("opaque", @), !.prp = val("propagate", @),
                  !.taint = IF "taint" \in s.op THEN @ \cup s.taint ELSE @]

\* prov_write_self and prov_write_process
UpdateProvConfig(p, s) ==
    /\ ConfigStep
    /\ g' = [g EXCEPT !.node[proc[p].cred] = Configured(@, s)]
    /\ UNCHANGED <<confVars, imode>>

\* The file system changes the permission bits of inode i: i_mode gets another
\* value of the same kind.
SetMode(i, m) ==
    /\ ConfigStep
    /\ Kind[m] = Kind[imode[i]]
    /\ imode' = [imode EXCEPT ![i] = m]
    /\ UNCHANGED <<g, confVars>>

\* A write that leaves everything as it is would be a stuttering step.
ConfigNext ==
    \/ \E f \in Flags, b \in BOOLEAN : policy[f] # b /\ WriteFlag(f, b)
    \/ \E t \in NodeFilters, f \in {"node_filter", "pnode_filter"}, add \in BOOLEAN :
          add # (t \in policy[f]) /\ WriteFilter(f, {t}, add)
    \/ \E t \in RelFilters, f \in {"rel_filter", "prel_filter"}, add \in BOOLEAN :
          add # (t \in policy[f]) /\ WriteFilter(f, {t}, add)
    \/ WriteEpoch
    \/ \E d \in DenySets : d # deny /\ SetQuery(d)
    \/ \E i \in live, op \in TargetOps : HasOwner(g.node[i].type) /\ target[i] # op /\ WriteTarget(i, op)
    \/ \E p \in Running, s \in ProcOps : UpdateProvConfig(p, s)
    \/ \E i \in Inodes, m \in DOMAIN Kind : m # imode[i] /\ SetMode(i, m)

\* provenance_add_hooks: the policy the module starts with (WHOLE_SYSTEM build).
InitPolicy == [enabled |-> TRUE, all |-> TRUE, compress_node |-> TRUE, compress_edge |-> TRUE,
               duplicate |-> FALSE, node_filter |-> {}, rel_filter |-> {},
               pnode_filter |-> {}, prel_filter |-> {}]

\* init_prov_machine: the machine node starts at version 1.
MachineNode == [NewNode("AGT_MACHINE") EXCEPT !.ver = 1]

InitConfig ==
    /\ policy = InitPolicy
    /\ epoch = 1
    /\ deny = {}
    /\ target = [i \in Id |-> {}]
    /\ calls = 0 /\ confs = 0

\* A graph in which nothing is recorded and node i has type types[i].
InitGraph(types) ==
    [node |-> [i \in Id |-> IF i = Machine THEN MachineNode
                            ELSE IF i \in DOMAIN types THEN NewNode(types[i]) ELSE NewNode("free")],
     next |-> Len(types) + 1, edges |-> {}, written |-> {}, rc |-> OK, wrapped |-> FALSE]

-----------------------------------------------------------------------------
(* Properties of every module of hooks *)

\* The vertices that edges E lead to from the vertices S, and from a version of
\* node i.
Reached(E, S) ==
    LET after(T) == T \cup {e.rcv : e \in {d \in E : d.snd \in T}}
        reach[n \in Nat] == IF n = 0 THEN S ELSE after(reach[n - 1])
    IN  reach[Cardinality(E)]
Descendants(E, i) == Reached(E, {e.snd : e \in {d \in E : d.snd[1] = i}})

\* The recorded graph has no cycle, as long as no version counter wraps
\* around.  This is what __update_version and set_has_outgoing are for.
NoCycle == ~g.wrapped => Acyclic(g.edges)

\* A consumer of the stream knows both ends of a relation: each was written in
\* the epoch of the relation (__write_node before prov_write in
\* __write_relation; set_recorded, clear_recorded and the epoch decide when a
\* node is written again).
EndsWritten ==
    LET known == {<<w.v, w.ep>> : w \in g.written}
    IN  \A e \in g.edges : {<<e.snd, e.ep>>, <<e.rcv, e.ep>>} \subseteq known

\* What a consumer of the stream relies on: the graph has no cycle and no
\* relation comes with an end it has not been given.
GraphSound == NoCycle /\ EndsWritten

\* Information never flows into a version that has already passed information
\* on: a relation added by a step does not end at a vertex that had an outgoing
\* relation before (__update_version).  Naming is not a flow, nor is a log
\* entry: record_log adds it to the version there is.
FlowsAhead ==
    \A e \in g'.edges \ g.edges :
        e.type \in KeepsVersion \cup {"RL_LOG"} \/ g'.wrapped \/ \A d \in g.edges : d.snd # e.rcv
FlowOnNewVersion == [][FlowsAhead]_vars

\* No relation is recorded from or to a node that is opaque when the hook
\* starts, by whatever path the hook takes (uses, generates, shared mappings,
\* kernel links, version edges, names).
OpaqueLeftOut ==
    \A e \in g'.edges \ g.edges : ~g.node[e.snd[1]].opq /\ ~g.node[e.rcv[1]].opq
OpaqueNotRecorded == [][OpaqueLeftOut]_vars

\* Propagation is complete: a receiver of a relation recorded in a hook has,
\* after it, the labels its sender had before it, if the sender was tracked and
\* propagating and no propagation filter applies (flow in propagate.c).
LabelsReach ==
    \A e \in g'.edges \ g.edges :
        LET f == g.node[e.snd[1]]
            t == g'.node[e.rcv[1]]
        IN  /\ f.trk /\ f.prp
            /\ policy.enabled /\ policy.pnode_filter = {} /\ policy.prel_filter = {}
            => t.trk /\ t.prp /\ f.taint \subseteq t.taint
TaintReaches == [][LabelsReach]_vars

\* Propagation is sound: a node that gains a label in a hook is the receiver of
\* a recorded relation, of a type the propagation filter lets through, from a
\* node that has the label.
LabelsFollow ==
    confs' = confs => \A i \in Id : \A l \in g'.node[i].taint \ g.node[i].taint :
        \E e \in g'.edges : /\ e.rcv[1] = i /\ e.snd[1] # i
                            /\ l \in g'.node[e.snd[1]].taint
                            /\ ~FilterPropagateRelation(e.type)
TaintFollowsEdges == [][LabelsFollow]_vars

\* The history of a node is connected: a version that appears in a relation is
\* tied to the version before it, back to the first, while no filter is set
\* (__update_version, record_terminate, update_inode_type).
VersionChain ==
    policy.node_filter = {} /\ policy.rel_filter = {} /\ ~g.wrapped =>
        \A e \in g.edges : \A v \in {e.snd, e.rcv} :
            v[2] > (IF v[1] = Machine THEN 1 ELSE 0) =>
               \E d \in g.edges : d.snd = <<v[1], v[2] - 1>> /\ d.rcv = v
=============================================================================
