------------------------------- MODULE Record -------------------------------
(***************************************************************************)
(* The recording core of CamFlow: provenance_record.h, the relation writer *)
(* of provenance_relay.h, the filters of provenance_filter.h, the recorded *)
(* marks of provenance.h and the propagation query of propagate.c.         *)
(*                                                                         *)
(* A hook of the security module is one sequential piece of C that calls   *)
(* these functions.  Each of them is an operator from a graph to a graph,  *)
(* so that a hook is a composition and one step of a state machine.  The   *)
(* globals of the code (prov_policy, epoch, the registered query hooks,    *)
(* the capture targets) are variables that the operators read.             *)
(*                                                                         *)
(* A graph is a record:                                                    *)
(*   node     the in-memory nodes, by identifier;                          *)
(*   next     the next identifier prov_next_node_id() returns;             *)
(*   edges    the relations written so far;                                *)
(*   written  the node versions written so far, with their epoch;          *)
(*   rc       what the last call returned;                                 *)
(*   wrapped  history: some version counter went past its width.           *)
(* A vertex of the provenance graph is one version <<id, version>>.        *)
(***************************************************************************)
EXTENDS ProvTypes, Acyclicity, Sequences, FiniteSets

CONSTANTS MaxId,        \* bound: identifiers are 0..MaxId
          VersionMod,   \* versions are counted modulo this; 2^32 in the code
          Taint,        \* taint labels
          MaxMaps       \* bound: shared files a process maps at a time

ASSUME RecordAssumption ==
    /\ MaxId \in Nat
    /\ VersionMod \in Nat /\ VersionMod > 1
    /\ MaxMaps \in 0..2

VARIABLES g,        \* the graph
          policy,   \* struct capture_policy
          epoch,    \* the recording epoch
          deny,     \* relation types a loaded query module refuses
          target    \* capture options that match a node, by identifier

Id == 0..MaxId
Machine == 0                    \* prov_machine
Version == 0..(VersionMod - 1)
Vertex == Id \X Version
OK == 0
EPERM == -1
ENOMEM == -12
EINVAL == -22
SetOp == {"tracked", "propagate", "opaque"}

Node == [type : NodeType, ver : Version, out : BOOLEAN, ep : Nat, nep : Nat, kv : Nat,
         trk : BOOLEAN, prp : BOOLEAN, opq : BOOLEAN, taint : SUBSET Taint,
         pid : Id \cup {-1}, ptype : RelType \cup {"none"}, mode : Nat, init : BOOLEAN]

\* A relation carries the identifiers of its ends: number, version and type.
Edge == [type : RelType, snd : Vertex, rcv : Vertex, stype : NodeType, rtype : NodeType,
         ep : Nat, ok : BOOLEAN]
Written == [v : Vertex, type : NodeType, ep : Nat]

Policy == [enabled : BOOLEAN, all : BOOLEAN, compress_node : BOOLEAN, compress_edge : BOOLEAN,
           duplicate : BOOLEAN, node_filter : SUBSET NodeType, rel_filter : SUBSET RelType,
           pnode_filter : SUBSET NodeType, prel_filter : SUBSET RelType]

Graph == [node : [Id -> Node], next : Nat, edges : SUBSET Edge, written : SUBSET Written,
          rc : {OK, EPERM, ENOMEM, EINVAL}, wrapped : BOOLEAN]

Mapping == [file : Id, rd : BOOLEAN, wr : BOOLEAN]

-----------------------------------------------------------------------------
\* A freshly allocated node: zeroed memory, a type and the next identifier.
NewNode(ntype) == [type |-> ntype, ver |-> 0, out |-> FALSE, ep |-> 0, nep |-> 0, kv |-> 0,
                   trk |-> FALSE, prp |-> FALSE, opq |-> FALSE, taint |-> {},
                   pid |-> -1, ptype |-> "none", mode |-> 0, init |-> FALSE]

\* Mutant of Alloc: the identifier counter is not advanced.
AllocSameId(G, ntype) ==
    [G EXCEPT !.node = [i \in Id |-> IF i = G.next THEN NewNode(ntype) ELSE G.node[i]]]

\* alloc_provenance, alloc_long_provenance: the new node has identifier G.next.
Alloc(G, ntype) ==
    [G EXCEPT !.node = [i \in Id |-> IF i = G.next THEN NewNode(ntype) ELSE G.node[i]],
              !.next = @ + 1]

IsRecorded(n) == ~(epoch > n.ep)
IsNameRecorded(n) == ~(epoch > n.nep)
IsKernelRecorded(G, n) == ~(n.kv < G.node[Machine].ver)

\* Mutant of Then: the result of the first call is dropped.
ThenAlways(G1, G2) == G2

\* Run the second call only if the first one succeeded.
Then(G1, G2) == IF G1.rc < 0 THEN G1 ELSE G2

\* rc = 0 at the top of a function, and a call guarded by a condition.
Start(G) == [G EXCEPT !.rc = OK]
When(cond, G, G1) == IF cond THEN G1 ELSE G

-----------------------------------------------------------------------------
(* Filters *)

\* Mutant of FilterNode: opaque nodes pass.
FilterNodeByType(filter, n) == ~policy.enabled \/ n.type \in filter

FilterNode(filter, n) == ~policy.enabled \/ n.opq \/ n.type \in filter
FilterRelation(type) == type \in Filterable \cap policy.rel_filter
FilterPropagateRelation(type) == type \in Filterable \cap policy.prel_filter

\* Mutant of ShouldRecord: the filters on the two nodes are not consulted.
ShouldRecordAnyNode(type, f, t) == ~FilterRelation(type)

ShouldRecord(type, f, t) ==
    /\ ~FilterRelation(type)
    /\ ~FilterNode(policy.node_filter, f)
    /\ ~FilterNode(policy.node_filter, t)

\* apply_target: the capture options that match the node's owner, security
\* context or namespaces switch its flags on.
ApplyTarget(G, ids) ==
    LET op(i) == IF HasOwner(G.node[i].type) THEN target[i] ELSE {}
    IN  [G EXCEPT !.node = [i \in Id |->
            IF i \in ids
            THEN [G.node[i] EXCEPT !.trk = @ \/ "tracked" \in op(i),
                                   !.prp = @ \/ "propagate" \in op(i),
                                   !.opq = @ \/ "opaque" \in op(i)]
            ELSE G.node[i]]]

Opaque(G, ids) == \E i \in ids : G.node[i].opq
Captured(G, ids) == policy.all \/ \E i \in ids : G.node[i].trk

-----------------------------------------------------------------------------
(* Writing nodes and relations *)

\* Mutants of Flow: any tracked sender passes its labels on; no label is passed.
FlowIgnoresFilter(type, f, t) ==
    IF f.prp /\ f.trk THEN [t EXCEPT !.trk = TRUE, !.prp = TRUE, !.taint = @ \cup f.taint] ELSE t
FlowNoTaint(type, f, t) ==
    IF /\ f.prp /\ f.trk
       /\ ~FilterPropagateRelation(type)
       /\ ~FilterNode(policy.pnode_filter, t)
    THEN [t EXCEPT !.trk = TRUE, !.prp = TRUE] ELSE t

\* propagate.c flow: tracking, propagation and taint pass to the receiver.
Flow(type, f, t) ==
    IF /\ f.prp /\ f.trk
       /\ ~FilterPropagateRelation(type)
       /\ ~FilterNode(policy.pnode_filter, t)
    THEN [t EXCEPT !.trk = TRUE, !.prp = TRUE, !.taint = @ \cup f.taint]
    ELSE t

\* __write_node emits the node unless it is recorded in this epoch already.
Emitted(i, n) == IF IsRecorded(n) /\ ~policy.duplicate THEN {}
                 ELSE {[v |-> <<i, n.ver>>, type |-> n.type, ep |-> epoch]}

\* __write_relation from node f, whose contents are fn, to node t.  When
\* __update_version calls it, fn is the copy of the old version of t.
WriteRelation(G, type, f, fn, t) ==
    LET tn == G.node[t]
        e  == [type |-> type, snd |-> <<f, fn.ver>>, rcv |-> <<t, tn.ver>>,
               stype |-> fn.type, rtype |-> tn.type, ep |-> epoch, ok |-> type \notin deny]
    IN  IF ~ShouldRecord(type, fn, tn)
        THEN [G EXCEPT !.rc = OK]
        ELSE [G EXCEPT !.node[f].ep = epoch,
                       !.node[t] = Flow(type, fn, [tn EXCEPT !.ep = epoch]),
                       !.written = @ \cup Emitted(f, fn) \cup Emitted(t, tn),
                       !.edges = @ \cup {e},
                       !.rc = IF type \in deny THEN EPERM ELSE OK]

\* Mutants of NewVersion: the node keeps its recorded mark; the relation to the
\* old version is not written.
NewVersionStillRecorded(G, type, t, n) ==
    LET ver == (n.ver + 1) % VersionMod
        G1  == [G EXCEPT !.node[t] = [n EXCEPT !.ver = ver],
                         !.wrapped = @ \/ ver = 0]
    IN  [WriteRelation(G1, type, t, G.node[t], t) EXCEPT !.node[t].out = FALSE]

NewVersionUnlinked(G, type, t, n) ==
    LET ver == (n.ver + 1) % VersionMod
    IN  [G EXCEPT !.node[t] = [n EXCEPT !.ver = ver, !.ep = 0, !.out = FALSE],
                  !.wrapped = @ \/ ver = 0]

\* The common part of __update_version, record_terminate and update_inode_type:
\* t becomes a new version with contents n, tied to a copy of the old one by a
\* relation of the given type, and has no outgoing edge.
NewVersion(G, type, t, n) ==
    LET ver == (n.ver + 1) % VersionMod
        G1  == [G EXCEPT !.node[t] = [n EXCEPT !.ver = ver, !.ep = 0],
                         !.wrapped = @ \/ ver = 0]
        G2  == WriteRelation(G1, type, t, G.node[t], t)
    IN  [G2 EXCEPT !.node[t].out = FALSE]

\* __update_version
UpdateVersion(G, type, t) ==
    LET n == G.node[t]
    IN  IF (~n.out /\ policy.compress_node) \/ type \in KeepsVersion
        THEN [G EXCEPT !.rc = OK]
        ELSE NewVersion(G, IF n.type = "ACT_TASK" THEN "RL_VERSION_TASK" ELSE "RL_VERSION", t, n)

\* Mutant of Compressed: the sender is not compared.
CompressedByType(G, type, f, t) == policy.compress_edge /\ G.node[t].ptype = type

\* The edge is the one the receiver got last, and edges are compressed.
Compressed(G, type, f, t) ==
    policy.compress_edge /\ G.node[t].pid = f /\ G.node[t].ptype = type

\* Mutant of RecordRelation: the sender is not marked as having an outgoing edge.
RecordRelationNoOutgoing(G, type, f, t) ==
    LET G1 == IF policy.compress_edge
              THEN [G EXCEPT !.node[t].pid = f, !.node[t].ptype = type] ELSE G
        G2 == UpdateVersion(G1, type, t)
    IN  IF Compressed(G, type, f, t) THEN [G EXCEPT !.rc = OK]
        ELSE Then(G2, WriteRelation(G2, type, f, G2.node[f], t))

\* The end of record_relation: f has an outgoing edge, which is written.
ThenWrite(G, type, f, t) ==
    LET G1 == [G EXCEPT !.node[f].out = TRUE]
    IN  Then(G, WriteRelation(G1, type, f, G1.node[f], t))

\* record_relation
RecordRelation(G, type, f, t) ==
    LET G1 == IF policy.compress_edge
              THEN [G EXCEPT !.node[t].pid = f, !.node[t].ptype = type] ELSE G
    IN  IF Compressed(G, type, f, t) THEN [G EXCEPT !.rc = OK]
        ELSE ThenWrite(UpdateVersion(G1, type, t), type, f, t)

\* record_terminate
RecordTerminate(G, type, t) ==
    LET n == G.node[t]
    IN  IF (~IsRecorded(n) /\ ~policy.all) \/ FilterNode(policy.node_filter, n)
        THEN [G EXCEPT !.rc = OK]
        ELSE NewVersion(G, type, t, n)

\* record_node_name: a new ENT_PATH node names node t.  mem is FALSE when the
\* allocation fails; it fails too when the model is out of identifiers.
RecordNodeName(G, t, force, mem) ==
    LET n    == G.node[t]
        name == G.next
        G1   == RecordRelation(Alloc(G, "ENT_PATH"),
                    IF n.type = "ACT_TASK" THEN "RL_NAMED_PROCESS" ELSE "RL_NAMED", name, t)
    IN  IF n.opq \/ (IsNameRecorded(n) /\ ~force) \/ ~IsRecorded(n) THEN [G EXCEPT !.rc = OK]
        ELSE IF ~mem \/ G.next \notin Id THEN [G EXCEPT !.rc = ENOMEM]
        ELSE [G1 EXCEPT !.node[t].nep = epoch]

\* set_kernel_recorded
SetKernelRecorded(G, t) == [G EXCEPT !.node[t].kv = G.node[Machine].ver]

\* record_kernel_link
RecordKernelLink(G, t) ==
    IF IsKernelRecorded(G, G.node[t]) \/ ~IsRecorded(G.node[t])
    THEN [G EXCEPT !.rc = OK]
    ELSE SetKernelRecorded(RecordRelation(G, "RL_RAN_ON", Machine, t), t)

\* The next call of a function that returns at the first failure.
ThenRelation(G, type, f, t) == Then(G, RecordRelation(G, type, f, t))
ThenLink(G, t) == Then(G, RecordKernelLink(G, t))

-----------------------------------------------------------------------------
(* Shared state: files a process has mapped MAP_SHARED *)

\* One turn of the loop of current_update_shst.
UpdateShst(G, mem, m, read) ==
    IF ~(IF read THEN m.rd ELSE m.wr) THEN G
    ELSE RecordRelation(G, IF read THEN "RL_SH_READ" ELSE "RL_SH_WRITE",
                        IF read THEN m.file ELSE mem, IF read THEN mem ELSE m.file)

\* current_update_shst over the mappings maps of the current process.  What it
\* returns is what the last relation returned.
CurrentUpdateShst(G, mem, maps, read) ==
    LET turn(H, k) == IF Len(maps) >= k THEN UpdateShst(H, mem, maps[k], read) ELSE H
    IN  turn(turn(Start(G), 1), 2)

ThenShst(G, mem, maps, read) == Then(G, CurrentUpdateShst(G, mem, maps, read))

-----------------------------------------------------------------------------
(* The relation functions hooks call.  Each first applies the capture      *)
(* targets, then returns early when a node is opaque, when nothing asks    *)
(* for capture or when a filter says so; a call that fails stops the rest. *)

Uses(G, type, entity, activity, mem, maps) ==
    LET ids == {entity, activity, mem}
        G0  == ApplyTarget(G, ids)
        G1  == ThenLink(RecordRelation(G0, type, entity, activity), activity)
        G2  == ThenRelation(G1, "RL_PROC_WRITE", activity, mem)
    IN  IF \/ Opaque(G0, ids) \/ ~Captured(G0, ids)
           \/ ~ShouldRecord(type, G0.node[entity], G0.node[activity]) THEN [G0 EXCEPT !.rc = OK]
        ELSE ThenShst(G2, mem, maps, FALSE)

UsesTwo(G, type, entity, activity) ==
    LET ids == {entity, activity}
        G0  == ApplyTarget(G, ids)
    IN  IF \/ Opaque(G0, ids) \/ ~Captured(G0, ids)
           \/ ~ShouldRecord(type, G0.node[entity], G0.node[activity]) THEN [G0 EXCEPT !.rc = OK]
        ELSE ThenLink(RecordRelation(G0, type, entity, activity), activity)

Generates(G, type, mem, activity, entity, maps) ==
    LET ids == {mem, activity, entity}
        Ga  == ApplyTarget(G, ids)
        G0  == [Ga EXCEPT !.node[activity].trk = @ \/ Ga.node[mem].trk,
                          !.node[activity].opq = @ \/ Ga.node[mem].opq]
        G1  == ThenRelation(CurrentUpdateShst(G0, mem, maps, TRUE), "RL_PROC_READ", mem, activity)
    IN  IF \/ Opaque(G0, ids) \/ ~Captured(G0, ids)
           \/ ~ShouldRecord(type, G0.node[activity], G0.node[entity]) THEN [G0 EXCEPT !.rc = OK]
        ELSE ThenRelation(ThenLink(G1, activity), type, activity, entity)

Derives(G, type, from, to) ==
    LET ids == {from, to}
        G0  == ApplyTarget(G, ids)
    IN  IF \/ Opaque(G0, ids) \/ ~Captured(G0, ids)
           \/ ~ShouldRecord(type, G0.node[from], G0.node[to]) THEN [G0 EXCEPT !.rc = OK]
        ELSE RecordRelation(G0, type, from, to)

Informs(G, type, from, to) ==
    LET ids == {from, to}
        G0  == ApplyTarget(G, ids)
    IN  IF \/ Opaque(G0, ids) \/ ~Captured(G0, ids)
           \/ ~ShouldRecord(type, G0.node[from], G0.node[to]) THEN [G0 EXCEPT !.rc = OK]
        ELSE ThenRelation(ThenLink(RecordKernelLink(G0, from), to), type, from, to)

InfluencesKernel(G, type, entity, activity) ==
    LET ids == {entity, activity}
        G0  == ApplyTarget(G, ids)
    IN  IF Opaque(G0, ids) \/ ~Captured(G0, ids) THEN [G0 EXCEPT !.rc = OK]
        ELSE ThenRelation(RecordRelation(G0, "RL_LOAD_FILE", entity, activity), type, activity, Machine)

\* The next call of a hook, if cond holds and none has failed so far.
ThenUses(G, cond, type, entity, activity, mem, maps) ==
    Then(G, When(cond, G, Uses(G, type, entity, activity, mem, maps)))
ThenGenerates(G, cond, type, mem, activity, entity, maps) ==
    Then(G, When(cond, G, Generates(G, type, mem, activity, entity, maps)))
ThenDerives(G, cond, type, from, to) == Then(G, When(cond, G, Derives(G, type, from, to)))
=============================================================================
