--------------------------- MODULE CaptureProofs ----------------------------
(* The getters and the control files keep GraphInv, and an invariant of the *)
(* kernel objects that gives the relation functions distinct nodes.         *)
EXTENDS Capture, RecordProofs

\* The nodes of process p.
ProcKnown(G, p) ==
    /\ Known(G, proc[p].task) /\ Known(G, proc[p].cred)
    /\ proc[p].exe # NoId => Known(G, proc[p].exe)
    /\ proc[p].task # Machine /\ proc[p].task # proc[p].cred

\* Node i is that of an inode.
InodeKnown(G, i) == Known(G, i) /\ G.node[i].type \in InodeType

\* get_cred_provenance keeps the invariant: it names the credentials or makes
\* them opaque.
LEMMA GetCredInv ==
    ASSUME Globals, NEW G, GraphInv(G), NEW p, ProcKnown(G, p), NEW mem
    PROVE  Good(G, GetCred(G, p, mem))
<1> DEFINE c == proc[p].cred
           n == [G.node[c] EXCEPT !.opq = TRUE]
           H == [G EXCEPT !.node[c].opq = TRUE]
<1>1. Known(G, c) BY Zenon DEF ProcKnown
<1>2. G.node[c] \in Node BY Zenon, <1>1 DEF GraphInv, Known, Graph
<1>3. n \in Node BY Zenon, <1>2 DEF Node
<1>4. Remark(G.node[c], n) BY Zenon, <1>2 DEF Node, Remark, SameKind, Above
<1>5. H = [G EXCEPT !.node[c] = n] BY Zenon
<1>6. Good(G, H)
  <2> HIDE DEF n, H, c
  <2> QED BY Zenon, <1>1, <1>3, <1>4, <1>5, NodeMarks
<1>7. Good(G, RecordNodeName(G, c, FALSE, mem)) BY Zenon, <1>1, RecordNodeNameInv
<1>8. Good(G, G) BY Zenon, GoodSelf
<1> QED BY Zenon, <1>6, <1>7, <1>8 DEF GetCred

\* get_task_provenance keeps the invariant: it links the task to the machine.
LEMMA GetTaskInv ==
    ASSUME Globals, NEW G, GraphInv(G), NEW p, ProcKnown(G, p)
    PROVE  Good(G, GetTask(G, p))
<1>1. Good(G, G) BY Zenon, GoodSelf
<1>2. Good(G, RecordKernelLink(G, proc[p].task)) BY Zenon, RecordKernelLinkInv DEF ProcKnown
<1> QED BY Zenon, <1>1, <1>2 DEF GetTask

\* The nodes of a process stay known nodes.
LEMMA ProcGrows ==
    ASSUME NEW G, NEW H, GraphInv(G), Good(G, H), NEW p, ProcKnown(G, p)
    PROVE  ProcKnown(H, p)
BY Zenon, GoodKnown DEF ProcKnown

\* The node of an inode stays the node of an inode.
LEMMA InodeGrows ==
    ASSUME NEW G, NEW H, GraphInv(G), Good(G, H), NEW i, InodeKnown(G, i)
    PROVE  InodeKnown(H, i)
<1>1. Known(H, i) BY Zenon, GoodKnown DEF InodeKnown
<1>2. SameKind(G.node[i].type, H.node[i].type) BY Zenon DEF Good, Grows, InodeKnown, Known
<1> QED BY Zenon, <1>1, <1>2 DEF InodeKnown, SameKind

\* The way most hooks begin keeps the invariant.
LEMMA EnterInv ==
    ASSUME Globals, NEW G, GraphInv(G), NEW p, ProcKnown(G, p), NEW mem
    PROVE  Good(G, Enter(G, p, mem))
<1> DEFINE G1 == GetCred(G, p, mem)
<1>1. Good(G, G1) BY Zenon, GetCredInv
<1> HIDE DEF G1
<1>2. GraphInv(G1) /\ ProcKnown(G1, p) BY Zenon, <1>1, GoodFacts, ProcGrows
<1>3. Good(G1, GetTask(G1, p)) BY Zenon, <1>2, GetTaskInv
<1>4. Good(G, GetTask(G1, p)) BY Zenon, <1>1, <1>3, GoodTrans
<1> QED BY Zenon, <1>4 DEF Enter, G1

\* The type of imode.
ModeOK == imode \in [Id -> DOMAIN Kind \cup {0}]

\* update_inode_type keeps the invariant, with or without a new version.
LEMMA UpdateInodeTypeInv ==
    ASSUME Globals, ModeOK, NEW G, GraphInv(G), NEW i, InodeKnown(G, i)
    PROVE  Good(G, UpdateInodeType(G, i))
<1> DEFINE n == G.node[i]
           m == imode[i]
           t == IF m = 0 THEN "ENT_INODE_UNKNOWN" ELSE Kind[m]
           u == [n EXCEPT !.mode = m, !.type = t]
<1>1. Known(G, i) /\ n \in Node /\ i \in Id /\ n.type \in InodeType BY Zenon DEF InodeKnown, Known, GraphInv, Graph
<1>2. t \in InodeType /\ m \in Nat
  <2>1. m \in DOMAIN Kind \cup {0} BY Zenon, <1>1 DEF ModeOK
  <2>2. Kind \in [DOMAIN Kind -> InodeType] /\ DOMAIN Kind \subseteq Nat \ {0} BY Zenon, CaptureAssumption
  <2>3. CASE m = 0 BY <2>3 DEF InodeType
  <2>4. CASE m # 0 BY Zenon, <2>1, <2>2, <2>4
  <2> QED BY Zenon, <2>3, <2>4
<1> HIDE DEF t, m
<1>3. t \in NodeType BY Zenon, <1>2 DEF NodeType
<1>4. /\ u \in Node /\ u.ver = n.ver /\ u.type = t /\ u.out = n.out /\ u.ep = n.ep
      /\ u.opq = n.opq /\ u.trk = n.trk /\ u.prp = n.prp /\ u.taint = n.taint
    BY Zenon, <1>1, <1>2, <1>3 DEF Node
<1>5. SameKind(G.node[i].type, u.type) /\ Remark(G.node[i], u) BY Zenon, <1>1, <1>2, <1>4 DEF SameKind, Remark, Above
<1>6. "RL_VERSION" \in RelType BY Zenon DEF RelType, Derived
<1>7. Good(G, NewVersion(G, "RL_VERSION", i, u))
  <2> HIDE DEF u
  <2> QED BY Zenon, <1>1, <1>4, <1>5, <1>6, NewVersionInv
<1>8. Good(G, [G EXCEPT !.node[i] = u])
  <2> HIDE DEF u
  <2> QED BY Zenon, <1>1, <1>4, <1>5, NodeMarks
<1> QED BY Zenon, <1>7, <1>8 DEF UpdateInodeType, t, m

\* refresh_inode_provenance keeps the invariant.
LEMMA RefreshInodeInv ==
    ASSUME Globals, ModeOK, NEW G, GraphInv(G), NEW i, InodeKnown(G, i), NEW mem
    PROVE  Good(G, RefreshInode(G, i, mem))
<1> DEFINE G1 == RecordInodeNameFromDentry(G, i, FALSE, mem)
<1>1. Good(G, G1)
  <2>1. Good(G, [G EXCEPT !.rc = OK]) BY Zenon, GoodRc
  <2>2. Good(G, RecordNodeName(G, i, FALSE, mem)) BY Zenon, RecordNodeNameInv DEF InodeKnown
  <2> QED BY Zenon, <2>1, <2>2 DEF RecordInodeNameFromDentry
<1> HIDE DEF G1
<1>2. GraphInv(G1) /\ InodeKnown(G1, i) BY Zenon, <1>1, GoodFacts, InodeGrows
<1>3. Good(G1, UpdateInodeType(G1, i)) BY Zenon, <1>2, UpdateInodeTypeInv
<1>4. Good(G, UpdateInodeType(G1, i)) BY Zenon, <1>1, <1>3, GoodTrans
<1>5. Good(G, G) BY Zenon, GoodSelf
<1> QED BY Zenon, <1>4, <1>5 DEF RefreshInode, G1

\* inode_init_provenance keeps the invariant.
LEMMA InitInodeInv ==
    ASSUME Globals, ModeOK, NEW G, GraphInv(G), NEW i, InodeKnown(G, i)
    PROVE  Good(G, InitInode(G, i))
<1> DEFINE n  == [G.node[i] EXCEPT !.init = TRUE]
           G1 == [G EXCEPT !.node[i].init = TRUE]
<1>1. Known(G, i) /\ G.node[i] \in Node BY Zenon DEF InodeKnown, Known, GraphInv, Graph
<1>2. n \in Node BY Zenon, <1>1 DEF Node
<1>3. Remark(G.node[i], n) BY Zenon, <1>1 DEF Node, Remark, SameKind, Above
<1>4. G1 = [G EXCEPT !.node[i] = n] BY Zenon
<1> HIDE DEF n, G1
<1>5. Good(G, G1) BY Zenon, <1>1, <1>2, <1>3, <1>4, NodeMarks
<1>6. GraphInv(G1) /\ InodeKnown(G1, i) BY Zenon, <1>5, GoodFacts, InodeGrows
<1>7. Good(G1, UpdateInodeType(G1, i)) BY Zenon, <1>6, UpdateInodeTypeInv
<1>8. Good(G, UpdateInodeType(G1, i)) BY Zenon, <1>5, <1>7, GoodTrans
<1>9. Good(G, G) BY Zenon, GoodSelf
<1> QED BY Zenon, <1>8, <1>9 DEF InitInode, G1

\* get_inode_provenance keeps the invariant.
LEMMA GetInodeInv ==
    ASSUME Globals, ModeOK, NEW G, GraphInv(G), NEW i, InodeKnown(G, i), NEW mem
    PROVE  Good(G, GetInode(G, i, mem))
<1> DEFINE G1 == InitInode(G, i)
<1>1. Good(G, G1) BY Zenon, InitInodeInv
<1> HIDE DEF G1
<1>2. GraphInv(G1) /\ InodeKnown(G1, i) BY Zenon, <1>1, GoodFacts, InodeGrows
<1>3. Good(G1, RefreshInode(G1, i, mem)) BY Zenon, <1>2, RefreshInodeInv
<1>4. Good(G, RefreshInode(G1, i, mem)) BY Zenon, <1>1, <1>3, GoodTrans
<1> QED BY Zenon, <1>4 DEF GetInode, G1
-----------------------------------------------------------------------------
\* The kernel objects and the types of their nodes in graph G.
ObjectsOK(G) ==
    /\ G.node[Machine].type = "AGT_MACHINE"
    /\ \A i \in live : Known(G, i) /\ (imode[i] # 0 => G.node[i].type \in InodeType)
    /\ \A p \in Running :
          /\ Known(G, proc[p].task) /\ G.node[proc[p].task].type = "ACT_TASK"
          /\ Known(G, proc[p].cred) /\ G.node[proc[p].cred].type = "ENT_PROC"
          /\ proc[p].exe # NoId => Known(G, proc[p].exe)
          /\ \A k \in DOMAIN proc[p].maps : InodeKnown(G, proc[p].maps[k].file)

\* The inductive invariant of a module of hooks.
CaptureInv ==
    /\ Globals
    /\ GraphInv(g)
    /\ ModeOK
    /\ proc \in [Proc -> Process]
    /\ live \subseteq Id
    /\ calls \in Nat /\ confs \in Nat
    /\ ObjectsOK(g)

\* The inductive invariant contains the type invariant.
LEMMA CaptureInvTypes ==
    CaptureInv => CaptureTypeOK
BY Zenon DEF CaptureInv, Globals, GraphInv, ModeOK, CaptureTypeOK

\* The inductive invariant excludes cycles.
LEMMA CaptureInvNoCycle ==
    CaptureInv => NoCycle
BY Zenon, GraphInvAcyclic DEF CaptureInv, NoCycle

\* Every relation of the stream comes with its ends.
LEMMA CaptureInvSound ==
    CaptureInv => EndsWritten /\ GraphSound
<1> SUFFICES ASSUME CaptureInv PROVE EndsWritten BY Zenon, CaptureInvNoCycle DEF GraphSound
<1>1. Stream(g) BY Zenon DEF CaptureInv, GraphInv
<1> QED BY Zenon, <1>1 DEF Stream, Sent, EndsWritten

\* Steps on the graph keep the nodes of the kernel objects in place.
LEMMA ObjectsGrow ==
    ASSUME NEW G, NEW H, GraphInv(G), Keeps(G, H), ObjectsOK(G)
    PROVE  ObjectsOK(H)
<1>1. \A i : Known(G, i) => Known(H, i) /\ SameKind(G.node[i].type, H.node[i].type)
    BY KeepsKnown DEF Keeps, Grows, Known
<1>2. H.node[Machine].type = "AGT_MACHINE"
  <2>1. Known(G, Machine) BY RecordAssumption DEF Known, Machine, GraphInv, Id
  <2> QED BY Zenon, <1>1, <2>1 DEF ObjectsOK, SameKind, InodeType
<1>3. ASSUME NEW i \in live
      PROVE  Known(H, i) /\ (imode[i] # 0 => H.node[i].type \in InodeType)
    BY Zenon, <1>1 DEF ObjectsOK, SameKind
<1>4. ASSUME NEW p \in Running
      PROVE  /\ Known(H, proc[p].task) /\ H.node[proc[p].task].type = "ACT_TASK"
             /\ Known(H, proc[p].cred) /\ H.node[proc[p].cred].type = "ENT_PROC"
             /\ proc[p].exe # NoId => Known(H, proc[p].exe)
             /\ \A k \in DOMAIN proc[p].maps : InodeKnown(H, proc[p].maps[k].file)
  <2>1. Known(H, proc[p].task) /\ H.node[proc[p].task].type = "ACT_TASK"
    BY Zenon, <1>1 DEF ObjectsOK, SameKind, InodeType
  <2>2. Known(H, proc[p].cred) /\ H.node[proc[p].cred].type = "ENT_PROC"
    BY Zenon, <1>1 DEF ObjectsOK, SameKind, InodeType
  <2>3. proc[p].exe # NoId => Known(H, proc[p].exe) BY Zenon, <1>1 DEF ObjectsOK
  <2>4. \A k \in DOMAIN proc[p].maps : InodeKnown(H, proc[p].maps[k].file)
    BY Zenon, <1>1 DEF ObjectsOK, InodeKnown, SameKind
  <2> QED BY Zenon, <2>1, <2>2, <2>3, <2>4
<1> QED BY Zenon, <1>2, <1>3, <1>4 DEF ObjectsOK

\* A step that changes the graph by operations and leaves the objects alone.
LEMMA PlainStep ==
    ASSUME CaptureInv, Keeps(g, g'), Globals', UNCHANGED <<proc, imode, live>>, epoch' >= epoch,
           calls' \in Nat, confs' \in Nat
    PROVE  CaptureInv'
<1>1. GraphInv(g') /\ ObjectsOK(g') BY Zenon, ObjectsGrow DEF CaptureInv, Keeps
<1>2. GraphInv(g)' BY Zenon, <1>1, EpochInv DEF CaptureInv, Globals
<1>3. ObjectsOK(g)' BY Zenon, <1>1 DEF ObjectsOK, InodeKnown, Known, Running
<1> QED BY Zenon, <1>2, <1>3 DEF CaptureInv, ModeOK

\* A hook that changes the graph by operations only keeps the invariant.
LEMMA PlainHookInv ==
    ASSUME CaptureInv, Good(g, g'), UNCHANGED <<confVars, confs, proc, imode, live>>,
           calls' = calls + 1
    PROVE  CaptureInv' /\ Good(g, g')
<1>1. Globals' /\ epoch' >= epoch BY DEF CaptureInv, Globals, confVars
<1>2. calls' \in Nat /\ confs' \in Nat BY DEF CaptureInv
<1>3. Keeps(g, g') BY Zenon DEF Keeps, Good
<1> QED BY Zenon, <1>1, <1>2, <1>3, PlainStep

\* What a hook may assume of a running process and an inode.
LEMMA RunningKnown ==
    ASSUME CaptureInv, NEW p \in Running
    PROVE  ProcKnown(g, p)
BY Zenon DEF CaptureInv, ObjectsOK, ProcKnown, Machine

\* An inode the file system has filled in has the node of an inode.
LEMMA InodesKnown ==
    ASSUME CaptureInv, NEW i \in Inodes
    PROVE  InodeKnown(g, i)
BY Zenon DEF CaptureInv, ObjectsOK, InodeKnown, Inodes

\* The files a process maps are not the credentials of any process.
LEMMA RunningMaps ==
    ASSUME CaptureInv, NEW p \in Running, NEW q \in Running
    PROVE  MapsKnown(g, proc[p].cred, proc[q].maps)
<1>1. proc[q].maps \in Seq(Mapping) BY Zenon DEF CaptureInv, Process, Running
<1>2. \A k \in DOMAIN proc[q].maps :
         Known(g, proc[q].maps[k].file) /\ proc[q].maps[k].file # proc[p].cred
    BY Zenon DEF CaptureInv, ObjectsOK, InodeKnown, InodeType
<1> QED BY Zenon, <1>1, <1>2 DEF MapsKnown

\* An inode is not a task.
LEMMA InodeNotTask ==
    ASSUME CaptureInv, NEW p \in Running, NEW i, InodeKnown(g, i)
    PROVE  i # proc[p].task
BY Zenon DEF CaptureInv, ObjectsOK, InodeKnown, InodeType
-----------------------------------------------------------------------------
\* update_prov_config changes marks only.
LEMMA ConfiguredNode ==
    ASSUME NEW n \in Node, NEW s, s.taint \subseteq Taint
    PROVE  LET c == Configured(n, s)
           IN  c \in Node /\ c.ver = n.ver /\ c.type = n.type /\ c.out = n.out /\ c.ep = n.ep
<1> DEFINE val(o, old) == (o \in s.op /\ o \in s.set) \/ (o \notin s.op /\ old)
           a == val("tracked", n.trk)
           b == val("opaque", n.opq)
           d == val("propagate", n.prp)
           e == IF "taint" \in s.op THEN n.taint \cup s.taint ELSE n.taint
<1>1. a \in BOOLEAN /\ b \in BOOLEAN /\ d \in BOOLEAN BY Zenon
<1>2. n.taint \subseteq Taint BY Zenon DEF Node
<1>3. e \in SUBSET Taint BY Zenon, <1>2
<1>4. Configured(n, s) = [n EXCEPT !.trk = a, !.opq = b, !.prp = d, !.taint = e] BY Zenon DEF Configured
<1> HIDE DEF a, b, d, e
<1> QED BY Zenon, <1>1, <1>3, <1>4 DEF Node

\* prov_write_self and prov_write_process change marks only.
LEMMA UpdateConfigKeeps ==
    ASSUME CaptureInv, NEW p \in Running, NEW s \in ProcOps, UpdateProvConfig(p, s)
    PROVE  Keeps(g, g') /\ g'.edges = g.edges
<1> DEFINE c == proc[p].cred
           n == Configured(g.node[c], s)
<1>1. GraphInv(g) BY Zenon DEF CaptureInv
<1>2. Known(g, c) BY Zenon, RunningKnown DEF ProcKnown
<1>3. g.node[c] \in Node BY Zenon, <1>1, <1>2 DEF GraphInv, Known, Graph
<1>4. s.taint \subseteq Taint BY Zenon, CaptureAssumption
<1>5. g' = [g EXCEPT !.node[c] = n] BY Zenon DEF UpdateProvConfig
<1>6. /\ n \in Node /\ n.ver = g.node[c].ver /\ n.type = g.node[c].type /\ n.out = g.node[c].out
      /\ n.ep = g.node[c].ep
    BY Zenon, <1>3, <1>4, ConfiguredNode
<1>7. SameKind(g.node[c].type, n.type) BY Zenon, <1>6 DEF SameKind
<1> HIDE DEF n
<1> QED BY <1>1, <1>2, <1>5, <1>6, <1>7, NodeInv DEF Keeps

\* Writing a control file keeps the invariant.
LEMMA ConfigNextInv ==
    ASSUME CaptureInv, ConfigNext
    PROVE  CaptureInv'
<1>0. Globals /\ GraphInv(g) /\ confs \in Nat /\ calls \in Nat BY Zenon DEF CaptureInv
<1>1. ConfigStep => confs' \in Nat /\ calls' \in Nat /\ UNCHANGED <<proc, live>>
    BY <1>0 DEF ConfigStep
<1>2. /\ UNCHANGED g => Keeps(g, g')
      /\ UNCHANGED epoch => epoch' >= epoch
    BY <1>0, GoodSelf DEF Good, Keeps, Globals
<1>3. ASSUME NEW f \in Flags, NEW b \in BOOLEAN, WriteFlag(f, b) PROVE CaptureInv'
  <2>1. policy' \in Policy
    <3>1. f \in {"enabled", "all", "compress_node", "compress_edge", "duplicate"} BY Zenon, CaptureAssumption
    <3> QED BY Zenon, <1>0, <1>3, <3>1 DEF WriteFlag, Policy, Globals
  <2>2. Globals' BY Zenon, <1>0, <1>3, <2>1 DEF WriteFlag, Globals
  <2> QED BY Zenon, <1>1, <1>2, <1>3, <2>2, PlainStep DEF WriteFlag
<1>4. ASSUME NEW ts, NEW f, NEW add \in BOOLEAN, WriteFilter(f, ts, add),
             \/ f \in {"node_filter", "pnode_filter"} /\ ts \subseteq NodeType
             \/ f \in {"rel_filter", "prel_filter"} /\ ts \subseteq RelType
      PROVE  CaptureInv'
  <2>1. policy \in Policy BY Zenon, <1>0 DEF Globals
  <2>2. policy' = [policy EXCEPT ![f] = IF add THEN policy[f] \cup ts ELSE policy[f] \ ts]
    BY Zenon, <1>4 DEF WriteFilter
  <2>3. policy' \in Policy
    <3>1. CASE f = "node_filter" BY Zenon, <1>4, <2>1, <2>2, <3>1 DEF Policy
    <3>2. CASE f = "pnode_filter" BY Zenon, <1>4, <2>1, <2>2, <3>2 DEF Policy
    <3>3. CASE f = "rel_filter" BY Zenon, <1>4, <2>1, <2>2, <3>3 DEF Policy
    <3>4. CASE f = "prel_filter" BY Zenon, <1>4, <2>1, <2>2, <3>4 DEF Policy
    <3> QED BY Zenon, <1>4, <3>1, <3>2, <3>3, <3>4
  <2>4. Globals' BY Zenon, <1>0, <1>4, <2>3 DEF WriteFilter, Globals
  <2> QED BY Zenon, <1>1, <1>2, <1>4, <2>4, PlainStep DEF WriteFilter
<1>5. CASE WriteEpoch
  <2>1. Globals' /\ epoch' >= epoch BY <1>0, <1>5 DEF WriteEpoch, Globals
  <2> QED BY Zenon, <1>1, <1>2, <1>5, <2>1, PlainStep DEF WriteEpoch
<1>6. ASSUME NEW d \in DenySets, SetQuery(d) PROVE CaptureInv'
  <2>1. Globals' BY Zenon, <1>0, <1>6, CaptureAssumption DEF SetQuery, Globals
  <2> QED BY Zenon, <1>1, <1>2, <1>6, <2>1, PlainStep DEF SetQuery
<1>7. ASSUME NEW i \in live, NEW op \in TargetOps, WriteTarget(i, op) PROVE CaptureInv'
  <2>1. Globals' BY Zenon, <1>0, <1>7, CaptureAssumption DEF WriteTarget, Globals
  <2> QED BY Zenon, <1>1, <1>2, <1>7, <2>1, PlainStep DEF WriteTarget
<1>8. ASSUME NEW p \in Running, NEW s \in ProcOps, UpdateProvConfig(p, s) PROVE CaptureInv'
  <2>1. Keeps(g, g') BY Zenon, <1>8, UpdateConfigKeeps
  <2>2. Globals' /\ UNCHANGED epoch BY Zenon, <1>0, <1>8 DEF UpdateProvConfig, Globals, confVars
  <2> QED BY Zenon, <1>1, <1>2, <1>8, <2>1, <2>2, PlainStep DEF UpdateProvConfig
<1>9. ASSUME NEW i \in Inodes, NEW m \in DOMAIN Kind, SetMode(i, m) PROVE CaptureInv'
  <2>1. Globals' BY Zenon, <1>0, <1>9 DEF SetMode, Globals, confVars
  <2>2. GraphInv(g)'
    <3>1. g' = g /\ epoch' = epoch BY Zenon, <1>9 DEF SetMode, confVars
    <3> QED BY <1>0, <3>1, EpochInv DEF Globals
  <2>3. ModeOK' /\ \A j \in Id : imode'[j] # 0 => imode[j] # 0 \/ j = i
    BY Zenon, <1>9 DEF CaptureInv, ModeOK, SetMode
  <2>4. InodeKnown(g, i) BY Zenon, <1>9, InodesKnown
  <2>5. ObjectsOK(g)'
    <3>1. g' = g /\ proc' = proc /\ live' = live BY Zenon, <1>1, <1>9 DEF SetMode
    <3>2. ASSUME NEW j \in live PROVE Known(g, j) /\ (imode'[j] # 0 => g.node[j].type \in InodeType)
      BY Zenon, <2>3, <2>4 DEF CaptureInv, ObjectsOK, InodeKnown
    <3> QED BY Zenon, <3>1, <3>2 DEF CaptureInv, ObjectsOK, Running, InodeKnown, Known
  <2> QED BY Zenon, <1>1, <1>9, <2>1, <2>2, <2>3, <2>5 DEF CaptureInv, SetMode
<1>10. NodeFilters \subseteq NodeType /\ RelFilters \subseteq RelType BY Zenon, CaptureAssumption
<1> QED BY Zenon, <1>3, <1>4, <1>5, <1>6, <1>7, <1>8, <1>9, <1>10 DEF ConfigNext

\* What a write to a control file does to the graph and the kernel objects.
LEMMA ConfigKeeps ==
    ASSUME CaptureInv, ConfigNext
    PROVE  /\ Keeps(g, g') /\ g'.edges = g.edges /\ UNCHANGED <<proc, live>>
           /\ \A i \in Id : imode'[i] # 0 <=> imode[i] # 0
<1>1. GraphInv(g) /\ Keeps(g, g) /\ ModeOK BY Zenon, GoodSelf DEF CaptureInv, Good, Keeps
<1>2. ASSUME NEW p \in Running, NEW s \in ProcOps, UpdateProvConfig(p, s)
      PROVE  Keeps(g, g') /\ g'.edges = g.edges
    BY Zenon, <1>2, UpdateConfigKeeps
<1>3. UNCHANGED <<proc, live>>
    BY Zenon DEF ConfigNext, ConfigStep, WriteFlag, WriteFilter, WriteEpoch, SetQuery, WriteTarget, UpdateProvConfig, SetMode
<1>4. UNCHANGED g \/ \E p \in Running, s \in ProcOps : UpdateProvConfig(p, s)
    BY Zenon DEF ConfigNext, WriteFlag, WriteFilter, WriteEpoch, SetQuery, WriteTarget, SetMode
<1>5. UNCHANGED imode \/ \E i \in Inodes, m \in DOMAIN Kind : SetMode(i, m)
    BY Zenon DEF ConfigNext, WriteFlag, WriteFilter, WriteEpoch, SetQuery, WriteTarget, UpdateProvConfig
<1>6. ASSUME NEW i \in Inodes, NEW m \in DOMAIN Kind, SetMode(i, m)
      PROVE  \A j \in Id : imode'[j] # 0 <=> imode[j] # 0
    BY Zenon, <1>1, <1>6, CaptureAssumption DEF SetMode, ModeOK, Inodes
<1> QED BY Zenon, <1>1, <1>2, <1>3, <1>4, <1>5, <1>6
-----------------------------------------------------------------------------
\* What holds in a graph K a hook has made from g so far.
LEMMA HookFacts ==
    ASSUME CaptureInv, NEW K, Good(g, K), NEW p \in Running, NEW q \in Running, NEW i, InodeKnown(g, i)
    PROVE  /\ GraphInv(K) /\ ProcKnown(K, p) /\ InodeKnown(K, i)
           /\ MapsKnown(K, proc[p].cred, proc[q].maps)
           /\ i # proc[p].task /\ Globals /\ ModeOK
<1>1. GraphInv(g) /\ Globals /\ ModeOK BY Zenon DEF CaptureInv
<1>2. ProcKnown(g, p) /\ MapsKnown(g, proc[p].cred, proc[q].maps) /\ i # proc[p].task
    BY Zenon, RunningKnown, RunningMaps, InodeNotTask
<1>3. GraphInv(K) BY Zenon DEF Good
<1>4. ProcKnown(K, p) /\ InodeKnown(K, i) /\ MapsKnown(K, proc[p].cred, proc[q].maps)
    BY Zenon, <1>1, <1>2, ProcGrows, InodeGrows, MapsGrow
<1> QED BY Zenon, <1>1, <1>2, <1>3, <1>4

\* A hook that calls uses on an inode.
LEMMA HookUses ==
    ASSUME CaptureInv, NEW K, Good(g, K), NEW p \in Running, NEW q \in Running, NEW i, InodeKnown(g, i),
           NEW type \in Flows
    PROVE  Good(g, Uses(K, type, i, Tasks(p), Creds(p), proc[q].maps))
<1>1. /\ GraphInv(K) /\ ProcKnown(K, p) /\ Known(K, i)
      /\ MapsKnown(K, proc[p].cred, proc[q].maps)
      /\ i # proc[p].task /\ Globals
    BY Zenon, HookFacts DEF InodeKnown
<1>2. Good(K, Uses(K, type, i, Tasks(p), Creds(p), proc[q].maps))
    BY Zenon, <1>1, UsesInv DEF ProcKnown, Tasks, Creds
<1> QED BY Zenon, <1>2, GoodTrans DEF CaptureInv

\* A hook that calls generates on an inode.
LEMMA HookGenerates ==
    ASSUME CaptureInv, NEW K, Good(g, K), NEW p \in Running, NEW i, InodeKnown(g, i),
           NEW type \in Flows, NEW maps, MapsKnown(K, Creds(p), maps)
    PROVE  Good(g, Generates(K, type, Creds(p), Tasks(p), i, maps))
<1>1. /\ GraphInv(K) /\ ProcKnown(K, p) /\ Known(K, i)
      /\ i # proc[p].task /\ Globals
    BY Zenon, HookFacts DEF InodeKnown
<1>2. Good(K, Generates(K, type, Creds(p), Tasks(p), i, maps))
    BY Zenon, <1>1, GeneratesInv DEF ProcKnown, Tasks, Creds
<1> QED BY Zenon, <1>2, GoodTrans DEF CaptureInv

\* The mappings a hook walks are those of the current process.
LEMMA HookOwnMaps ==
    ASSUME CaptureInv, NEW K, Good(g, K), NEW p \in Running
    PROVE  MapsKnown(K, Creds(p), proc[p].maps)
BY Zenon, RunningMaps, MapsGrow DEF CaptureInv, Creds

\* A hook that fetches the nodes of its process.
LEMMA HookEnter ==
    ASSUME CaptureInv, NEW p \in Running, NEW mem
    PROVE  Good(g, Enter(g, p, mem)) /\ Good(g, GetTask(g, p))
BY Zenon, RunningKnown, EnterInv, GetTaskInv DEF CaptureInv

\* A hook that fetches and refreshes an inode.
LEMMA HookGetInode ==
    ASSUME CaptureInv, NEW K, Good(g, K), NEW p \in Running, NEW i, InodeKnown(g, i), NEW mem
    PROVE  Good(g, GetInode(K, i, mem))
<1>1. GraphInv(K) /\ InodeKnown(K, i) /\ Globals /\ ModeOK BY Zenon, HookFacts
<1>2. Good(K, GetInode(K, i, mem)) BY Zenon, <1>1, GetInodeInv
<1> QED BY Zenon, <1>2, GoodTrans DEF CaptureInv

\* A hook that resets its result.
LEMMA HookStart ==
    ASSUME CaptureInv, NEW K, Good(g, K)
    PROVE  Good(g, Start(K))
BY Zenon, StartInv, GoodTrans DEF CaptureInv, Good

\* A hook that calls derives from an inode to the credentials.
LEMMA HookDerivesCred ==
    ASSUME CaptureInv, NEW K, Good(g, K), NEW p \in Running, NEW i, InodeKnown(g, i), NEW type \in Flows
    PROVE  Good(g, Derives(K, type, i, Creds(p)))
<1>1. GraphInv(K) /\ ProcKnown(K, p) /\ Known(K, i) /\ Globals BY Zenon, HookFacts DEF InodeKnown
<1>2. i # proc[p].cred BY Zenon DEF CaptureInv, ObjectsOK, InodeKnown, InodeType
<1>3. Good(K, Derives(K, type, i, Creds(p))) BY Zenon, <1>1, <1>2, DerivesInv DEF ProcKnown, Creds
<1> QED BY Zenon, <1>3, GoodTrans DEF CaptureInv

\* set_opaque keeps the invariant.
LEMMA MarkOpaque ==
    ASSUME NEW G, GraphInv(G), NEW c, Known(G, c)
    PROVE  Good(G, [G EXCEPT !.node[c].opq = TRUE])
<1> DEFINE n == [G.node[c] EXCEPT !.opq = TRUE]
           H == [G EXCEPT !.node[c].opq = TRUE]
<1>1. G.node[c] \in Node BY Zenon DEF GraphInv, Known, Graph
<1>2. n \in Node BY Zenon, <1>1 DEF Node
<1>3. Remark(G.node[c], n) BY Zenon, <1>1 DEF Node, Remark, SameKind, Above
<1>4. H = [G EXCEPT !.node[c] = n] BY Zenon
<1>5. Good(G, H)
  <2> HIDE DEF n, H
  <2> QED BY Zenon, <1>2, <1>3, <1>4, NodeMarks
<1> QED BY Zenon, <1>5

\* A hook that makes the credentials of its process opaque.
LEMMA HookOpaqueCred ==
    ASSUME CaptureInv, NEW K, Good(g, K), NEW p \in Running
    PROVE  Good(g, [K EXCEPT !.node[Creds(p)].opq = TRUE])
<1>1. GraphInv(K) /\ Known(K, Creds(p))
    BY Zenon, RunningKnown, GoodKnown DEF CaptureInv, ProcKnown, Creds, Good
<1>2. Good(K, [K EXCEPT !.node[Creds(p)].opq = TRUE]) BY Zenon, <1>1, MarkOpaque
<1> QED BY Zenon, <1>2, GoodTrans DEF CaptureInv

\* A hook made of operations keeps the invariant.
LEMMA HookInv ==
    ASSUME CaptureInv, NEW G, Good(g, G), PlainHook(G)
    PROVE  CaptureInv' /\ Good(g, g')
BY Zenon, PlainHookInv DEF PlainHook, Hook

-----------------------------------------------------------------------------
\* What a step of a module of hooks may record.
StepOK == FlowsAhead /\ OpaqueLeftOut /\ LabelsReach /\ LabelsFollow

\* A hook made of operations records only what it may.
LEMMA GoodStep ==
    ASSUME Good(g, g')
    PROVE  StepOK
<1>1. Records(g, g') BY Zenon DEF Good
<1>2. FlowsAhead BY Zenon, <1>1 DEF Records, Ahead, FlowsAhead
<1>3. OpaqueLeftOut BY Zenon, <1>1 DEF Records, OpaqueLeftOut
<1>4. LabelsReach BY Zenon, <1>1 DEF Records, Passes, LabelsReach
<1>5. LabelsFollow BY Zenon, <1>1 DEF Records, Received, LabelsFollow
<1> QED BY Zenon, <1>2, <1>3, <1>4, <1>5 DEF StepOK

\* A step that changes nothing keeps the invariant.
LEMMA UnchangedInv ==
    ASSUME CaptureInv, UNCHANGED vars
    PROVE  CaptureInv'
<1>1. Keeps(g, g') BY Zenon, GoodSelf DEF CaptureInv, Good, Keeps, vars
<1>2. Globals' /\ epoch' >= epoch BY DEF vars, confVars, CaptureInv, Globals
<1> QED BY Zenon, <1>1, <1>2, PlainStep DEF vars, CaptureInv

\* A write to a control file records nothing.
LEMMA ConfigStepOK ==
    ASSUME CaptureInv, ConfigNext
    PROVE  StepOK
<1>1. g'.edges \ g.edges = {} BY Zenon, ConfigKeeps
<1>2. confs' # confs
    BY DEF CaptureInv, ConfigNext, ConfigStep, WriteFlag, WriteFilter, WriteEpoch, SetQuery, WriteTarget,
           UpdateProvConfig, SetMode
<1> QED BY Zenon, <1>1, <1>2 DEF StepOK, FlowsAhead, OpaqueLeftOut, LabelsReach, LabelsFollow

\* A graph in which nothing is recorded satisfies the invariant.
LEMMA InitGraphInv ==
    ASSUME NEW types \in Seq(NodeType), Len(types) <= MaxId
    PROVE  /\ GraphInv(InitGraph(types))
           /\ InitGraph(types).next = Len(types) + 1
           /\ InitGraph(types).node[Machine].type = "AGT_MACHINE"
           /\ \A i \in 1..Len(types) : InitGraph(types).node[i].type = types[i]
<1> DEFINE G  == InitGraph(types)
           nf == [i \in Id |-> IF i = Machine THEN MachineNode
                               ELSE IF i \in DOMAIN types THEN NewNode(types[i]) ELSE NewNode("free")]
<1>0. MaxId \in Nat /\ VersionMod \in Nat /\ VersionMod > 1 BY Zenon, RecordAssumption
<1>1. ASSUME NEW x \in NodeType PROVE NewNode(x) \in Node /\ NewNode(x).type = x /\ NewNode(x).ep = 0
    BY <1>0, <1>1 DEF NewNode, Node, Version
<1>2. "free" \in NodeType /\ "AGT_MACHINE" \in NodeType BY Zenon DEF NodeType
<1>3. MachineNode \in Node /\ MachineNode.type = "AGT_MACHINE" /\ MachineNode.ep = 0
  <2>1. /\ NewNode("AGT_MACHINE") \in Node /\ NewNode("AGT_MACHINE").type = "AGT_MACHINE"
        /\ NewNode("AGT_MACHINE").ep = 0
    BY Zenon, <1>1, <1>2
  <2>2. 1 \in Version BY <1>0 DEF Version
  <2> QED BY Zenon, <2>1, <2>2 DEF MachineNode, Node
<1>4. nf \in [Id -> Node] BY <1>1, <1>2, <1>3
<1>5. G.node = nf /\ G.next = Len(types) + 1 /\ G.edges = {} /\ G.wrapped = FALSE /\ G \in Graph
  <2>1. G = [node |-> nf, next |-> Len(types) + 1, edges |-> {}, written |-> {}, rc |-> OK, wrapped |-> FALSE]
    BY Zenon DEF InitGraph
  <2>2. Len(types) + 1 \in Nat /\ {} \in SUBSET Edge /\ {} \in SUBSET Written
        /\ OK \in {OK, EPERM, ENOMEM, EINVAL} /\ FALSE \in BOOLEAN
    OBVIOUS
  <2> HIDE DEF nf, G
  <2> QED BY Zenon, <1>4, <2>1, <2>2 DEF Graph
<1> HIDE DEF G
<1>6. \A i \in Id : i >= G.next => G.node[i] = NewNode("free")
    BY <1>5 DEF Machine, Id
<1>7. Ranked(Vertex, {}) BY Zenon, RankEmpty
<1>8. Ordered(G) BY Zenon, <1>5, <1>7 DEF Ordered
<1>9. Stream(G)
  <2>1. \A i \in Id : G.node[i].ep = 0 BY <1>1, <1>2, <1>3, <1>5
  <2> QED BY Zenon, <1>5, <2>1 DEF Stream, MarkTrue
<1>10. GraphInv(G) BY <1>3, <1>5, <1>6, <1>8, <1>9, MachineId DEF GraphInv
<1>11. Machine \in Id /\ \A i \in 1..Len(types) : i \in Id /\ i # Machine BY <1>0 DEF Id, Machine
<1> QED BY <1>1, <1>3, <1>5, <1>10, <1>11 DEF G
-----------------------------------------------------------------------------
\* An operation on the graph keeps the kind of a node that is not an inode.
LEMMA KindStays ==
    ASSUME NEW G, NEW H, GraphInv(G), Keeps(G, H), NEW i, Known(G, i)
    PROVE  /\ Known(H, i)
           /\ G.node[i].type \in InodeType => H.node[i].type \in InodeType
           /\ G.node[i].type \notin InodeType => H.node[i].type = G.node[i].type
<1>1. SameKind(G.node[i].type, H.node[i].type) BY Zenon DEF Keeps, Grows, Known
<1> QED BY Zenon, <1>1, KeepsKnown DEF SameKind

\* A node that is allocated, its type, and that it is none of those there were.
LEMMA AllocKnown ==
    ASSUME NEW G, GraphInv(G), G.next \in Id, NEW ntype \in NodeType \ {"ENT_STR"}
    PROVE  /\ Good(G, Alloc(G, ntype)) /\ Known(Alloc(G, ntype), G.next)
           /\ Alloc(G, ntype).node[G.next].type = ntype
           /\ \A i : Known(G, i) => i # G.next
           /\ G.next # Machine
<1> DEFINE H == Alloc(G, ntype)
<1>1. Good(G, H) /\ Known(H, G.next) /\ H.node[G.next] = NewNode(ntype) BY Zenon, AllocInv
<1>2. NewNode(ntype).type = ntype BY Zenon DEF NewNode
<1> HIDE DEF H
<1>3. \A i : Known(G, i) => i # G.next BY DEF Known, GraphInv, Graph, Id
<1>4. G.next # Machine BY DEF GraphInv, Graph, Machine
<1> QED BY Zenon, <1>1, <1>2, <1>3, <1>4 DEF H

\* A hook that calls uses on a node that is not its task; the credentials may be
\* those of another process.
LEMMA NodeUses ==
    ASSUME CaptureInv, NEW K, Good(g, K), NEW p \in Running, NEW q \in Running,
           NEW i, Known(K, i), i # Tasks(p), NEW type \in Flows
    PROVE  Good(g, Uses(K, type, i, Tasks(p), Creds(q), proc[p].maps))
<1>1. GraphInv(g) /\ GraphInv(K) /\ Globals BY Zenon DEF CaptureInv, Good
<1>2. ProcKnown(K, p) /\ ProcKnown(K, q) BY Zenon, <1>1, RunningKnown, ProcGrows
<1>3. MapsKnown(K, Creds(q), proc[p].maps) BY Zenon, <1>1, RunningMaps, MapsGrow DEF Creds
<1>4. Tasks(p) # Creds(q) BY Zenon DEF CaptureInv, ObjectsOK, Tasks, Creds
<1>5. Good(K, Uses(K, type, i, Tasks(p), Creds(q), proc[p].maps))
    BY Zenon, <1>1, <1>2, <1>3, <1>4, UsesInv DEF ProcKnown, Tasks, Creds
<1> QED BY Zenon, <1>1, <1>5, GoodTrans

\* A hook that calls generates on a node that is not its task.
LEMMA NodeGenerates ==
    ASSUME CaptureInv, NEW K, Good(g, K), NEW p \in Running, NEW i, Known(K, i), i # Tasks(p),
           NEW type \in Flows
    PROVE  Good(g, Generates(K, type, Creds(p), Tasks(p), i, proc[p].maps))
<1>1. GraphInv(g) /\ GraphInv(K) /\ Globals BY Zenon DEF CaptureInv, Good
<1>2. ProcKnown(K, p) BY Zenon, <1>1, RunningKnown, ProcGrows
<1>3. MapsKnown(K, Creds(p), proc[p].maps) BY Zenon, HookOwnMaps
<1>4. Good(K, Generates(K, type, Creds(p), Tasks(p), i, proc[p].maps))
    BY Zenon, <1>1, <1>2, <1>3, GeneratesInv DEF ProcKnown, Tasks, Creds
<1> QED BY Zenon, <1>1, <1>4, GoodTrans

\* A hook that adds objects K, which are no inodes, to those that exist, or frees some.
LEMMA LiveStep ==
    ASSUME CaptureInv, NEW G, Good(g, G), Hook(G), UNCHANGED <<proc, imode>>,
           NEW K, \A i \in K : i \in Id /\ Known(G, i) /\ imode[i] = 0, live' \subseteq live \cup K
    PROVE  CaptureInv' /\ Good(g, g')
<1>0. g' = G /\ calls' = calls + 1 /\ UNCHANGED <<confVars, confs>> BY Zenon DEF Hook
<1>1. Globals' /\ epoch' >= epoch
  <2>1. policy' = policy /\ epoch' = epoch /\ deny' = deny /\ target' = target BY Zenon, <1>0 DEF confVars
  <2>2. epoch \in Nat \ {0} BY Zenon DEF CaptureInv, Globals
  <2>3. epoch' >= epoch BY <2>1, <2>2
  <2> QED BY Zenon, <2>1, <2>3 DEF CaptureInv, Globals
<1>2. GraphInv(g') /\ ObjectsOK(g') BY Zenon, <1>0, ObjectsGrow DEF CaptureInv, Good, Keeps
<1>3. GraphInv(g)' BY Zenon, <1>1, <1>2, EpochInv DEF CaptureInv, Globals
<1>4. \A i \in live' : Known(g', i) /\ (imode'[i] # 0 => g'.node[i].type \in InodeType)
    BY Zenon, <1>0, <1>2 DEF ObjectsOK
<1>5. ObjectsOK(g)' BY Zenon, <1>2, <1>4 DEF ObjectsOK, InodeKnown, Known, Running
<1>6. live' \subseteq Id BY Zenon DEF CaptureInv
<1> QED BY <1>0, <1>1, <1>3, <1>5, <1>6 DEF CaptureInv, ModeOK
=============================================================================
