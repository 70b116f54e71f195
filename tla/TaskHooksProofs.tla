-------------------------- MODULE TaskHooksProofs ---------------------------
(* The hooks on processes, credentials and program execution keep the        *)
(* invariant of Capture while they make and free the nodes it is about, and   *)
(* record only what they may.                                                 *)
EXTENDS TaskHooks, CaptureProofs

\* The objects L that exist are allocated nodes; an inode with mode M[i] exists.
LiveOK(G, L, M) ==
    /\ G.node[Machine].type = "AGT_MACHINE"
    /\ \A i \in L : Known(G, i)
    /\ \A i \in Id : M[i] # 0 => i \in L /\ G.node[i].type \in InodeType

\* A process r that runs has a task and credentials among the objects L.
ProcessOK(G, L, r) ==
    r.task # NoId =>
       /\ r.task \in L /\ G.node[r.task].type = "ACT_TASK"
       /\ r.cred \in L /\ G.node[r.cred].type = "ENT_PROC"
       /\ r.exe # NoId => Known(G, r.exe)
       /\ \A k \in DOMAIN r.maps : InodeKnown(G, r.maps[k].file)

\* Prepared credentials c are credentials that exist.
PrepOK(G, L, c) == c # NoId => c \in L /\ G.node[c].type = "ENT_PROC"

\* An execve in progress has credentials c and a file.
BprmOK(M, b, c) == b.stage # "none" => c # NoId /\ b.file \in Id /\ M[b.file] # 0

\* No two processes of P have the same task.
OwnTasks(P) == \A p, q \in Proc : p # q /\ P[p].task # NoId => P[p].task # P[q].task

\* The inductive invariant of the task hooks.
TaskInv ==
    /\ Globals /\ GraphInv(g) /\ ModeOK
    /\ calls \in Nat /\ confs \in Nat /\ live \subseteq Id
    /\ proc \in [Proc -> Process]
    /\ prep \in [Proc -> Id \cup {NoId}] /\ bprm \in [Proc -> Binary]
    /\ LiveOK(g, live, imode)
    /\ OwnTasks(proc)
    /\ \A p \in Proc : /\ ProcessOK(g, live, proc[p])
                       /\ PrepOK(g, live, prep[p])
                       /\ BprmOK(imode, bprm[p], prep[p])

\* The invariant contains that of Capture.
LEMMA TaskInvCapture ==
    TaskInv => CaptureInv
<1> SUFFICES ASSUME TaskInv PROVE CaptureInv BY Zenon
<1>1. \A i \in live : Known(g, i) /\ (imode[i] # 0 => g.node[i].type \in InodeType)
    BY Zenon DEF TaskInv, LiveOK
<1>2. ASSUME NEW p \in Running
      PROVE  /\ Known(g, proc[p].task) /\ g.node[proc[p].task].type = "ACT_TASK"
             /\ Known(g, proc[p].cred) /\ g.node[proc[p].cred].type = "ENT_PROC"
             /\ proc[p].exe # NoId => Known(g, proc[p].exe)
             /\ \A k \in DOMAIN proc[p].maps : InodeKnown(g, proc[p].maps[k].file)
    BY Zenon, <1>1 DEF TaskInv, ProcessOK, Running
<1>3. g.node[Machine].type = "AGT_MACHINE" BY Zenon DEF TaskInv, LiveOK
<1>4. ObjectsOK(g) BY Zenon, <1>1, <1>2, <1>3 DEF ObjectsOK
<1> QED BY Zenon, <1>4 DEF TaskInv, CaptureInv

\* The invariant contains the type invariant.
LEMMA TaskInvTypes ==
    TaskInv => TaskTypeOK
<1> SUFFICES ASSUME TaskInv PROVE TaskTypeOK BY Zenon
<1>1. CaptureTypeOK BY Zenon, TaskInvCapture, CaptureInvTypes
<1>2. \A p \in Running : Tasks(p) \in live /\ Creds(p) \in live
    BY Zenon DEF TaskInv, ProcessOK, Running, Tasks, Creds
<1> QED BY Zenon, <1>1, <1>2 DEF TaskInv, TaskTypeOK

\* A step keeps the invariant if it changes the graph by operations and the
\* objects as these conditions say.
LEMMA TaskStep ==
    ASSUME TaskInv, GraphInv(g'), epoch' >= epoch, Globals', ModeOK', calls' \in Nat, confs' \in Nat, live' \subseteq Id,
           proc' \in [Proc -> Process], prep' \in [Proc -> Id \cup {NoId}], bprm' \in [Proc -> Binary],
           LiveOK(g', live', imode'), OwnTasks(proc'),
           \A p \in Proc : /\ ProcessOK(g', live', proc'[p])
                           /\ PrepOK(g', live', prep'[p])
                           /\ BprmOK(imode', bprm'[p], prep'[p])
    PROVE  TaskInv'
<1>1. GraphInv(g)' BY Zenon, EpochInv DEF TaskInv, Globals
<1>2. LiveOK(g, live, imode)' BY Zenon DEF LiveOK, Known
<1>3. OwnTasks(proc)' BY Zenon DEF OwnTasks
<1>4. \A p \in Proc : ProcessOK(g, live, proc[p])' BY Zenon DEF ProcessOK, Known, InodeKnown
<1>5. \A p \in Proc : PrepOK(g, live, prep[p])' /\ BprmOK(imode, bprm[p], prep[p])'
    BY Zenon DEF PrepOK, BprmOK
<1> QED BY Zenon, <1>1, <1>2, <1>3, <1>4, <1>5 DEF TaskInv

\* The objects that exist, after operations on the graph, with K among them and
\* with the modes M of the inodes there were.
LEMMA LiveGrows ==
    ASSUME TaskInv, NEW H, Keeps(g, H), NEW K, \A i \in K : Known(H, i),
           NEW L, L \subseteq live \cup K, \A i \in live \ L : g.node[i].type \notin InodeType,
           NEW M, \A i \in Id : M[i] # 0 => imode[i] # 0
    PROVE  LiveOK(H, L, M)
<1>1. GraphInv(g) /\ LiveOK(g, live, imode) BY Zenon DEF TaskInv
<1>2. \A i \in L : Known(H, i) BY Zenon, <1>1, KindStays DEF LiveOK
<1>3. \A i \in Id : M[i] # 0 => i \in L /\ H.node[i].type \in InodeType BY Zenon, <1>1, KindStays DEF LiveOK
<1>4. Known(g, Machine) BY Zenon, <1>1, MachineId DEF Known, Machine, GraphInv
<1>5. H.node[Machine].type = "AGT_MACHINE" BY <1>1, <1>4, KindStays DEF LiveOK, InodeType
<1> QED BY Zenon, <1>2, <1>3, <1>5 DEF LiveOK

\* The processes, the prepared credentials and the binaries there were, after
\* operations on the graph, if their objects still exist.
LEMMA ProcessGrows ==
    ASSUME TaskInv, NEW H, Keeps(g, H), NEW L, NEW p \in Proc,
           proc[p].task # NoId => proc[p].task \in L /\ proc[p].cred \in L
    PROVE  ProcessOK(H, L, proc[p])
<1>1. GraphInv(g) /\ LiveOK(g, live, imode) /\ ProcessOK(g, live, proc[p]) BY Zenon DEF TaskInv
<1> SUFFICES ASSUME proc[p].task # NoId
             PROVE  /\ H.node[proc[p].task].type = "ACT_TASK"
                    /\ H.node[proc[p].cred].type = "ENT_PROC"
                    /\ proc[p].exe # NoId => Known(H, proc[p].exe)
                    /\ \A k \in DOMAIN proc[p].maps : InodeKnown(H, proc[p].maps[k].file)
    BY Zenon DEF ProcessOK
<1>2. Known(g, proc[p].task) /\ Known(g, proc[p].cred) BY Zenon, <1>1 DEF ProcessOK, LiveOK
<1>3. H.node[proc[p].task].type = "ACT_TASK" /\ H.node[proc[p].cred].type = "ENT_PROC"
    BY <1>1, <1>2, KindStays DEF ProcessOK, InodeType
<1>4. proc[p].exe # NoId => Known(H, proc[p].exe) BY Zenon, <1>1, KeepsKnown DEF ProcessOK
<1>5. \A k \in DOMAIN proc[p].maps : InodeKnown(H, proc[p].maps[k].file)
    BY Zenon, <1>1, KindStays DEF ProcessOK, InodeKnown
<1> QED BY Zenon, <1>3, <1>4, <1>5

\* Prepared credentials stay credentials.
LEMMA PrepGrows ==
    ASSUME TaskInv, NEW H, Keeps(g, H), NEW L, NEW p \in Proc, prep[p] # NoId => prep[p] \in L
    PROVE  PrepOK(H, L, prep[p])
<1>1. GraphInv(g) /\ LiveOK(g, live, imode) /\ PrepOK(g, live, prep[p]) BY Zenon DEF TaskInv
<1>2. prep[p] # NoId => Known(g, prep[p]) BY Zenon, <1>1 DEF PrepOK, LiveOK
<1> QED BY <1>1, <1>2, KindStays DEF PrepOK, InodeType

\* A step leaves graph G behind, and the globals alone: a hook call, or a step of
\* the kernel without one.
Leaves(G) == g' = G /\ calls' \in Nat /\ UNCHANGED <<confVars, confs>>

\* A hook call is such a step.
LEMMA HookLeaves ==
    ASSUME TaskInv, NEW G, Hook(G)
    PROVE  Leaves(G)
BY DEF TaskInv, Hook, Leaves

\* The globals keep their types in such a step.
LEMMA LeavesGlobals ==
    ASSUME TaskInv, NEW G, Leaves(G), UNCHANGED imode
    PROVE  Globals' /\ ModeOK' /\ calls' \in Nat /\ confs' \in Nat /\ g' = G /\ epoch' >= epoch
BY DEF TaskInv, Leaves, confVars, Globals, ModeOK

\* A hook that makes and frees no object keeps the invariant, if what it leaves
\* of prepared credentials and binaries is in order.
LEMMA PlainTaskStep ==
    ASSUME TaskInv, NEW G, Good(g, G), PlainHook(G),
           prep' \in [Proc -> Id \cup {NoId}], bprm' \in [Proc -> Binary],
           \A p \in Proc : prep'[p] \in {prep[p], NoId} /\ BprmOK(imode, bprm'[p], prep'[p])
    PROVE  TaskInv' /\ Good(g, g')
<1>0. Keeps(g, G) /\ GraphInv(G) BY Zenon DEF Good, Keeps
<1>1. Globals' /\ ModeOK' /\ calls' \in Nat /\ confs' \in Nat /\ g' = G /\ epoch' >= epoch
    BY Zenon, HookLeaves, LeavesGlobals DEF PlainHook
<1>2. UNCHANGED <<proc, imode, live>> BY Zenon DEF PlainHook
<1>3. LiveOK(G, live, imode)
  <2>1. live \subseteq live \cup {} /\ live \ live = {} BY Zenon
  <2> QED BY Zenon, <1>0, <2>1, LiveGrows
<1>4. \A p \in Proc : ProcessOK(G, live, proc[p]) BY Zenon, <1>0, ProcessGrows DEF TaskInv, ProcessOK
<1>5. \A p \in Proc : PrepOK(G, live, prep'[p]) BY <1>0, PrepGrows DEF TaskInv, PrepOK
<1>6. live \subseteq Id /\ proc \in [Proc -> Process] /\ OwnTasks(proc) BY Zenon DEF TaskInv
<1> QED BY Zenon, <1>0, <1>1, <1>2, <1>3, <1>4, <1>5, <1>6, TaskStep

\* A hook outside of execve.
LEMMA PlainTaskHook ==
    ASSUME TaskInv, NEW G, Good(g, G), PlainHook(G), UNCHANGED <<prep, bprm>>
    PROVE  TaskInv' /\ Good(g, g')
<1>1. \A p \in Proc : prep'[p] \in {prep[p], NoId} /\ BprmOK(imode, bprm'[p], prep'[p]) BY Zenon DEF TaskInv
<1>2. prep' \in [Proc -> Id \cup {NoId}] /\ bprm' \in [Proc -> Binary] BY Zenon DEF TaskInv
<1> QED BY Zenon, <1>1, <1>2, PlainTaskStep

\* A hook of execve: it goes on with b or drops the prepared credentials.
LEMMA ProceedInv ==
    ASSUME TaskInv, NEW G, Good(g, G), PlainHook(G), NEW p \in Proc, NEW ok, NEW b, Proceed(p, ok, b),
           b \in Binary, BprmOK(imode, b, prep[p])
    PROVE  TaskInv' /\ Good(g, g')
<1>1. NoBinary \in Binary /\ NoBinary.stage = "none" BY Zenon DEF NoBinary, Binary
<1>2. prep \in [Proc -> Id \cup {NoId}] /\ bprm \in [Proc -> Binary] BY Zenon DEF TaskInv
<1>3. prep' \in [Proc -> Id \cup {NoId}] /\ bprm' \in [Proc -> Binary] BY Zenon, <1>1, <1>2 DEF Proceed
<1>4. ASSUME NEW q \in Proc PROVE prep'[q] \in {prep[q], NoId} /\ BprmOK(imode, bprm'[q], prep'[q])
  <2>1. BprmOK(imode, bprm[q], prep[q]) BY Zenon DEF TaskInv
  <2>2. CASE q # p BY Zenon, <1>2, <2>1, <2>2 DEF Proceed
  <2>3. CASE q = p /\ ok BY Zenon, <1>2, <2>3 DEF Proceed
  <2>4. CASE q = p /\ ~ok BY Zenon, <1>1, <1>2, <2>4 DEF Proceed, BprmOK
  <2> QED BY Zenon, <2>2, <2>3, <2>4
<1> QED BY Zenon, <1>3, <1>4, PlainTaskStep

\* What an execve or a setuid may assume of the prepared credentials.
LEMMA PrepKnown ==
    ASSUME TaskInv, NEW p \in Running, prep[p] # NoId
    PROVE  /\ Known(g, prep[p]) /\ prep[p] \in live /\ g.node[prep[p]].type = "ENT_PROC"
           /\ prep[p] # proc[p].task /\ prep[p] # Machine /\ p \in Proc
<1>1. p \in Proc /\ proc[p].task # NoId BY Zenon DEF Running
<1>2. PrepOK(g, live, prep[p]) /\ LiveOK(g, live, imode) /\ ProcessOK(g, live, proc[p])
    BY Zenon, <1>1 DEF TaskInv
<1> QED BY Zenon, <1>1, <1>2 DEF PrepOK, LiveOK, ProcessOK

\* What it may assume of its binary.
LEMMA BinaryKnown ==
    ASSUME TaskInv, NEW p \in Proc, bprm[p].stage # "none"
    PROVE  InodeKnown(g, bprm[p].file) /\ prep[p] # NoId /\ bprm[p].file \in Id /\ imode[bprm[p].file] # 0
<1>1. LiveOK(g, live, imode) /\ BprmOK(imode, bprm[p], prep[p]) BY Zenon DEF TaskInv
<1> QED BY Zenon, <1>1 DEF LiveOK, BprmOK, InodeKnown

\* The relation types of the task hooks are flows: their receiver is versioned.
LEMMA TaskFlows ==
    {"RL_PROC_READ", "RL_CLONE", "RL_SETGID", "RL_GETGID", "RL_CLONE_MEM", "RL_SETUID", "RL_EXEC",
     "RL_EXEC_TASK"} \subseteq Flows
BY DEF Flows, RelType, Used, Generated, Informed, Derived, KeepsVersion

-----------------------------------------------------------------------------
\* What holds in a graph K a hook of process p has made from g so far.
LEMMA TaskFacts ==
    ASSUME TaskInv, NEW K, Good(g, K), NEW p \in Running
    PROVE  /\ GraphInv(g) /\ GraphInv(K) /\ Globals /\ CaptureInv
           /\ ProcKnown(K, p) /\ MapsKnown(K, Creds(p), proc[p].maps)
           /\ \A i : Known(g, i) => Known(K, i)
<1>1. CaptureInv /\ GraphInv(g) /\ Globals BY Zenon, TaskInvCapture DEF TaskInv
<1>2. ProcKnown(K, p) BY Zenon, <1>1, RunningKnown, ProcGrows
<1>3. MapsKnown(K, Creds(p), proc[p].maps) BY Zenon, <1>1, HookOwnMaps
<1> QED BY Zenon, <1>1, <1>2, <1>3, GoodFacts DEF Good

\* generates on credentials.
LEMMA TaskGenerates ==
    ASSUME TaskInv, NEW K, Good(g, K), NEW p \in Running, NEW c, Known(K, c), c # Tasks(p),
           NEW type \in Flows
    PROVE  Good(g, Generates(K, type, Creds(p), Tasks(p), c, proc[p].maps))
<1>1. /\ GraphInv(g) /\ GraphInv(K) /\ Globals
      /\ ProcKnown(K, p) /\ MapsKnown(K, Creds(p), proc[p].maps)
    BY Zenon, TaskFacts
<1>2. Good(K, Generates(K, type, Creds(p), Tasks(p), c, proc[p].maps))
    BY Zenon, <1>1, GeneratesInv DEF ProcKnown, Tasks, Creds
<1> QED BY Zenon, <1>1, <1>2, GoodTrans

\* The credentials of a process are not the task of another.
LEMMA CredsNotTask ==
    ASSUME TaskInv, NEW p \in Running, NEW q \in Running
    PROVE  Known(g, Creds(q)) /\ Creds(q) # Tasks(p)
BY Zenon, TaskInvCapture DEF CaptureInv, ObjectsOK, Creds, Tasks

\* provenance_task_setpgid keeps the invariant.
LEMMA TaskSetpgidInv ==
    ASSUME TaskInv, NEW p \in Running, NEW q \in Running, NEW mem, TaskSetpgid(p, q, mem)
    PROVE  TaskInv' /\ Good(g, g')
<1> DEFINE Ga == Enter(g, p, mem)
           G1 == Generates(Ga, "RL_SETGID", Creds(p), Tasks(p), Creds(q), proc[p].maps)
<1>1. PlainHook(G1) /\ UNCHANGED <<prep, bprm>> BY Zenon DEF TaskSetpgid
<1>2. Good(g, Ga) BY Zenon, TaskInvCapture, HookEnter
<1> HIDE DEF Ga
<1>3. Known(Ga, Creds(q)) /\ Creds(q) # Tasks(p) BY Zenon, <1>2, CredsNotTask, TaskFacts
<1>4. Good(g, G1) BY Zenon, <1>2, <1>3, TaskFlows, TaskGenerates
<1> HIDE DEF G1
<1> QED BY Zenon, <1>1, <1>4, PlainTaskHook

\* provenance_task_getpgid keeps the invariant.
LEMMA TaskGetpgidInv ==
    ASSUME TaskInv, NEW p \in Running, NEW q \in Running, NEW mem, TaskGetpgid(p, q, mem)
    PROVE  TaskInv' /\ Good(g, g')
<1> DEFINE Ga == Enter(g, p, mem)
           G1 == Uses(Ga, "RL_GETGID", Creds(q), Tasks(p), Creds(p), proc[p].maps)
<1>1. PlainHook(G1) /\ UNCHANGED <<prep, bprm>> BY Zenon DEF TaskGetpgid
<1>2. Good(g, Ga) BY Zenon, TaskInvCapture, HookEnter
<1> HIDE DEF Ga
<1>3. Known(Ga, Creds(q)) /\ Creds(q) # Tasks(p) BY Zenon, <1>2, CredsNotTask, TaskFacts
<1>4. /\ GraphInv(g) /\ GraphInv(Ga) /\ Globals
      /\ ProcKnown(Ga, p) /\ MapsKnown(Ga, Creds(p), proc[p].maps)
    BY Zenon, <1>2, TaskFacts
<1>5. Good(Ga, G1) BY Zenon, <1>3, <1>4, TaskFlows, UsesInv DEF ProcKnown, Tasks, Creds
<1> HIDE DEF G1
<1>6. Good(g, G1) BY Zenon, <1>2, <1>4, <1>5, GoodTrans
<1> QED BY Zenon, <1>1, <1>6, PlainTaskHook

\* record_log keeps the invariant: the entry is a new node, and its relation ends
\* at the version the task has, which gains no outgoing edge.
LEMMA LogInv ==
    ASSUME Globals, NEW G, GraphInv(G), G.next \in Id, NEW t, Known(G, t)
    PROVE  Good(G, WriteRelation(Alloc(G, "ENT_STR"), "RL_LOG", G.next, NewNode("ENT_STR"), t))
<1> DEFINE s  == G.next
           Ga == Alloc(G, "ENT_STR")
           H  == WriteRelation(Ga, "RL_LOG", s, NewNode("ENT_STR"), t)
<1>1. "ENT_STR" \in NodeType /\ "RL_LOG" \in RelType BY Zenon DEF NodeType, RelType, Used
<1>2. /\ Good(G, Ga) /\ Ga.next = s + 1 /\ Ga.edges = G.edges
      /\ Ga.node[s] = NewNode("ENT_STR")
    BY Zenon, <1>1, AllocInv
<1> HIDE DEF Ga
<1>3. GraphInv(Ga) /\ Known(Ga, t) BY Zenon, <1>2, GoodKnown DEF Good
<1>4. s < Ga.next /\ s # t /\ s \in Id BY <1>2, <1>3 DEF Known, GraphInv, Graph, Id
<1>5. MaySend(Ga.node[s]) BY <1>2 DEF MaySend, NewNode
<1>6. \A d \in Ga.edges : d.snd[1] # s /\ d.rcv[1] # s
    BY <1>2 DEF GraphInv, Graph, Edge, Vertex, Id
<1>7. Good(Ga, H)
  <2>1. H = WriteRelation(Ga, "RL_LOG", s, Ga.node[s], t) BY Zenon, <1>2
  <2> HIDE DEF H, s
  <2> QED BY Zenon, <1>1, <1>3, <1>4, <1>5, <1>6, <2>1, WriteRelationGood
<1> QED BY Zenon, <1>2, <1>7, GoodTrans DEF s, Ga, H

\* prov_write_log and prov_write_logp keep the invariant.
LEMMA WriteLogInv ==
    ASSUME TaskInv, NEW p \in Running, NEW propagate \in BOOLEAN, NEW mem, WriteLog(p, propagate, mem)
    PROVE  TaskInv' /\ Good(g, g')
<1> DEFINE t  == Tasks(p)
           n  == [g.node[t] EXCEPT !.trk = TRUE, !.prp = @ \/ propagate]
           G0 == [g EXCEPT !.node[t].trk = TRUE, !.node[t].prp = @ \/ propagate]
           G1 == WriteRelation(Alloc(G0, "ENT_STR"), "RL_LOG", g.next, NewNode("ENT_STR"), t)
           G2 == IF mem THEN G1 ELSE [G0 EXCEPT !.rc = ENOMEM]
<1>1. PlainHook(G2) /\ g.next \in Id /\ UNCHANGED <<prep, bprm>> BY Zenon DEF WriteLog
<1>2. GraphInv(g) /\ Globals /\ Known(g, t)
    BY Zenon, TaskInvCapture, RunningKnown DEF TaskInv, ProcKnown, Tasks
<1>3. g \in Graph /\ g.node[t] \in Node BY Zenon, <1>2 DEF GraphInv, Known, Graph
<1>4. n \in Node BY Zenon, <1>3 DEF Node
<1>5. Remark(g.node[t], n) BY Zenon, <1>3 DEF Node, Remark, SameKind, Above
<1>6. G0 = [g EXCEPT !.node[t] = n] BY Zenon, <1>2, <1>3 DEF Graph, Known, Node
<1> HIDE DEF n, G0
<1>7. Good(g, G0) /\ G0.next = g.next BY <1>2, <1>4, <1>5, <1>6, NodeMarks
<1>8. GraphInv(G0) /\ Known(G0, t) /\ G0.next \in Id BY Zenon, <1>1, <1>2, <1>7, GoodFacts
<1>9. Good(G0, G1) BY Zenon, <1>2, <1>7, <1>8, LogInv
<1>10. Good(G0, [G0 EXCEPT !.rc = ENOMEM]) BY Zenon, <1>8, GoodRc
<1> HIDE DEF G1
<1>11. Good(g, G2) BY Zenon, <1>2, <1>7, <1>9, <1>10, GoodTrans
<1> HIDE DEF G2
<1> QED BY Zenon, <1>1, <1>11, PlainTaskHook

\* prov_write_node keeps the invariant: it adds a node and writes two.
LEMMA DiscloseInv ==
    ASSUME TaskInv, NEW p \in Running, NEW mem, Disclose(p, mem)
    PROVE  TaskInv' /\ Good(g, g')
<1> DEFINE c  == Creds(p)
           d  == g.next
           G  == Alloc(g, "ENT_DISC")
           W  == Emitted(c, g.node[c]) \cup Emitted(d, G.node[d])
           H  == [G EXCEPT !.written = @ \cup Emitted(c, g.node[c]) \cup Emitted(d, G.node[d]),
                           !.node[c].ep = epoch, !.node[d].ep = epoch, !.rc = OK]
           nf == [i \in Id |-> IF i = c \/ i = d THEN [G.node[i] EXCEPT !.ep = epoch] ELSE G.node[i]]
           G2 == IF mem THEN H ELSE [g EXCEPT !.rc = ENOMEM]
<1>1. PlainHook(G2) /\ d \in Id /\ UNCHANGED <<prep, bprm>> BY Zenon DEF Disclose
<1>2. GraphInv(g) /\ Globals /\ Known(g, c)
    BY Zenon, TaskInvCapture, RunningKnown DEF TaskInv, ProcKnown, Creds
<1>3. "ENT_DISC" \in NodeType /\ "ENT_DISC" # "ENT_STR" BY Zenon DEF NodeType
<1>4. /\ Good(g, G) /\ Known(G, d) /\ G.node[d] = NewNode("ENT_DISC")
      /\ \A i \in Id : i # d => G.node[i] = g.node[i]
    BY Zenon, <1>1, <1>2, <1>3, AllocInv
<1>5. g.node[c] \in Node /\ c \in Id BY Zenon, <1>2 DEF GraphInv, Known, Graph
<1> HIDE DEF G
<1>6. GraphInv(G) /\ Known(G, c) /\ G \in Graph BY Zenon, <1>2, <1>4, GoodFacts DEF GraphInv
<1>7. c # d BY <1>2 DEF Known, GraphInv, Graph, Id
<1>8. G.node \in [Id -> Node] /\ G.node[d] \in Node BY Zenon, <1>1, <1>6 DEF Graph
<1>9. W \subseteq Written BY <1>1, <1>2, <1>5, <1>8 DEF Emitted, Written, Vertex, Node, Globals
<1>10. ASSUME NEW i \in Id
       PROVE  /\ nf[i] \in Node /\ nf[i].ver = G.node[i].ver /\ SameKind(G.node[i].type, nf[i].type)
              /\ G.node[i].out => nf[i].out
              /\ i >= G.next => nf[i] = G.node[i]
              /\ Above(G.node[i], nf[i]) /\ nf[i].taint = G.node[i].taint
              /\ nf[i].ep = IF i = c \/ i = d THEN epoch ELSE G.node[i].ep
  <2> DEFINE m == [G.node[i] EXCEPT !.ep = epoch]
  <2>1. G.node[i] \in Node BY Zenon, <1>8
  <2>2. epoch \in Nat BY Zenon, <1>2 DEF Globals
  <2>3. /\ m \in Node /\ m.ver = G.node[i].ver /\ m.type = G.node[i].type /\ m.out = G.node[i].out
        /\ Above(G.node[i], m) /\ m.taint = G.node[i].taint /\ m.ep = epoch
    BY Zenon, <2>1, <2>2 DEF Node, Above
  <2>4. nf[i] = IF i = c \/ i = d THEN m ELSE G.node[i] BY Zenon
  <2>5. i >= G.next => i # c /\ i # d BY <1>4, <1>6 DEF Known, Graph, Id
  <2> HIDE DEF m, nf
  <2> QED BY Zenon, <2>1, <2>3, <2>4, <2>5 DEF SameKind, Above
<1>11. H = [G EXCEPT !.written = @ \cup W, !.node = nf, !.rc = OK]
    BY Zenon, <1>1, <1>5, <1>6, <1>7, <1>8 DEF Graph
<1>11a. nf \in [Id -> Node] BY Zenon, <1>10
<1>11b. Emitted(c, G.node[c]) \subseteq W /\ Emitted(d, G.node[d]) \subseteq W BY Zenon, <1>4, <1>5, <1>7
<1> HIDE DEF W, nf, H
<1>12. /\ H \in Graph /\ H.node = nf /\ H.next = G.next /\ H.edges = G.edges /\ H.wrapped = G.wrapped
       /\ H.written = G.written \cup W
    BY Zenon, <1>6, <1>9, <1>11, <1>11a DEF Graph
<1>13. Marks(G, H) BY Zenon, <1>10, <1>12 DEF Marks
<1>14. Good(G, H)
  <2>1. Stream(G) BY Zenon, <1>6 DEF GraphInv
  <2>2. \A v, ep : Sent(G, v, ep) => Sent(H, v, ep) BY Zenon, <1>12 DEF Sent
  <2>3. ASSUME NEW i \in Id PROVE MarkTrue(H, i, H.node[i])
    <3>1. MarkTrue(G, i, G.node[i]) /\ G.node[i] \in Node BY Zenon, <1>8, <2>1 DEF Stream
    <3>2. CASE i = c \/ i = d
      <4>1. G.written \subseteq H.written /\ Emitted(i, G.node[i]) \subseteq H.written BY Zenon, <1>11b, <1>12, <3>2
      <4>2. Sent(H, <<i, G.node[i].ver>>, epoch) BY ONLY Zenon, <1>2, <3>1, <4>1, EmittedSent
      <4>3. nf[i].ver = G.node[i].ver /\ nf[i].ep = epoch BY Zenon, <1>10, <3>2
      <4>4. epoch <= epoch BY <1>2 DEF Globals
      <4> QED BY Zenon, <1>12, <4>2, <4>3, <4>4 DEF MarkTrue
    <3>3. CASE ~(i = c \/ i = d)
      <4>1. nf[i].ver = G.node[i].ver /\ nf[i].ep = G.node[i].ep BY Zenon, <1>10, <3>3
      <4> QED BY Zenon, <1>12, <2>2, <3>1, <4>1 DEF MarkTrue
    <3> QED BY Zenon, <3>2, <3>3
  <2>4. Stream(H) BY Zenon, <1>12, <2>1, <2>2, <2>3 DEF Stream
  <2>5. GraphInv(H) /\ Grows(G, H) BY Zenon, <1>6, <1>12, <1>13, <2>4, MarksInv
  <2>6. H.edges = G.edges /\ (G.wrapped => H.wrapped) BY Zenon, <1>12
  <2>7. \A i \in Id : Above(G.node[i], H.node[i]) /\ H.node[i].taint = G.node[i].taint BY Zenon, <1>10, <1>12
  <2>8. Records(G, H) BY ONLY Zenon, <2>6, <2>7, QuietRecords
  <2> QED BY Zenon, <2>5, <2>8 DEF Good
<1>15. Good(g, H) BY Zenon, <1>2, <1>4, <1>14, GoodTrans
<1>16. Good(g, G2) BY Zenon, <1>2, <1>15, GoodRc
<1> HIDE DEF G2
<1> QED BY Zenon, <1>1, <1>16, PlainTaskHook

\* provenance_bprm_set_creds keeps the invariant.
LEMMA BprmSetCredsInv ==
    ASSUME TaskInv, NEW p \in Running, NEW i \in Inodes, NEW mem, BprmSetCreds(p, i, mem)
    PROVE  TaskInv' /\ Good(g, g')
<1> DEFINE n  == prep[p]
           Ga == GetInode(g, i, mem)
           G0 == Start(Ga)
           O  == [G0 EXCEPT !.node[n].opq = TRUE]
           D  == Derives(G0, "RL_EXEC", i, n)
           G  == IF G0.node[i].opq THEN O ELSE D
           b  == [file |-> i, stage |-> "set"]
<1>1. n # NoId /\ PlainHook(G) /\ Proceed(p, Ok(G), b) BY Zenon DEF BprmSetCreds
<1>2. CaptureInv /\ Good(g, g) /\ InodeKnown(g, i)
    BY Zenon, TaskInvCapture, GoodSelf, InodesKnown DEF TaskInv
<1>3. Known(g, n) /\ g.node[n].type = "ENT_PROC" /\ p \in Proc BY Zenon, <1>1, PrepKnown
<1>4. Good(g, Ga) BY Zenon, <1>2, HookGetInode
<1> HIDE DEF Ga
<1>5. Good(g, G0) BY Zenon, <1>2, <1>4, HookStart
<1> HIDE DEF G0
<1>6. /\ GraphInv(g) /\ GraphInv(G0) /\ Globals /\ Known(G0, n) /\ Known(G0, i)
    BY Zenon, <1>2, <1>3, <1>5, TaskFacts DEF InodeKnown
<1>7. i # n BY Zenon, <1>2, <1>3 DEF InodeKnown, InodeType
<1>8. Good(G0, O) BY Zenon, <1>6, MarkOpaque
<1>9. Good(G0, D) BY Zenon, <1>6, <1>7, TaskFlows, DerivesInv
<1> HIDE DEF O, D
<1>10. Good(g, G) BY Zenon, <1>5, <1>6, <1>8, <1>9, GoodTrans
<1> HIDE DEF G
<1>11. i \in Id /\ imode[i] # 0 BY Zenon DEF Inodes, TaskInv
<1>12. b \in Binary /\ BprmOK(imode, b, n) BY Zenon, <1>1, <1>11 DEF Binary, BprmOK
<1> HIDE DEF b
<1> QED BY Zenon, <1>1, <1>3, <1>10, <1>12, ProceedInv

\* record_arg keeps the invariant: the argument is a new node.
LEMMA RecordArgInv ==
    ASSUME Globals, NEW G, GraphInv(G), NEW t, Known(G, t),
           NEW ntype \in NodeType \ {"ENT_STR"}, NEW type \in RelType
    PROVE  Good(G, RecordArg(G, t, ntype, type))
<1> DEFINE Ga == Alloc(G, ntype)
           H  == RecordRelation(Ga, type, G.next, t)
<1>1. ASSUME G.next \in Id PROVE Good(G, H)
  <2>1. Good(G, Ga) /\ Known(Ga, G.next) /\ Ga.edges = G.edges BY Zenon, <1>1, AllocInv
  <2> HIDE DEF Ga
  <2>2. GraphInv(Ga) /\ Known(Ga, t) BY Zenon, <2>1, GoodFacts
  <2>3. G.next # t BY DEF Known, Id, GraphInv, Graph
  <2>4. \A d \in Ga.edges : d.snd[1] # G.next /\ d.rcv[1] # G.next
    BY <2>1 DEF GraphInv, Graph, Edge, Vertex, Id
  <2>5. Good(Ga, H) BY Zenon, <2>1, <2>2, <2>3, <2>4, RecordRelationInv
  <2> QED BY Zenon, <2>1, <2>5, GoodTrans
<1> HIDE DEF H
<1>2. Good(G, G) BY Zenon, GoodSelf
<1> QED BY Zenon, <1>1, <1>2 DEF RecordArg, H

\* record_args keeps the invariant.
LEMMA RecordArgsInv ==
    ASSUME Globals, NEW G, GraphInv(G), NEW t, Known(G, t), NEW mem
    PROVE  Good(G, RecordArgs(G, t, mem))
<1> DEFINE G1 == RecordArg(G, t, "ENT_ARG", "RL_ARG")
           G2 == RecordArg(G1, t, "ENT_ENV", "RL_ENV")
<1>1. {"ENT_ARG", "ENT_ENV"} \subseteq NodeType \ {"ENT_STR"} /\ {"RL_ARG", "RL_ENV"} \subseteq RelType
    BY Zenon DEF NodeType, RelType, Derived
<1>2. Good(G, G1) BY Zenon, <1>1, RecordArgInv
<1> HIDE DEF G1
<1>3. GraphInv(G1) /\ Known(G1, t) BY Zenon, <1>2, GoodFacts
<1>4. Good(G1, G2) BY Zenon, <1>1, <1>3, RecordArgInv
<1> HIDE DEF G2
<1>5. Good(G, G2) /\ GraphInv(G2) BY Zenon, <1>2, <1>4, GoodTrans DEF Good
<1>6. Good(G, Start(G2)) BY Zenon, <1>5, StartInv, GoodTrans
<1>7. Good(G, Start(G)) /\ Good(G, [G EXCEPT !.rc = ENOMEM]) BY Zenon, StartInv, GoodRc
<1> QED BY Zenon, <1>6, <1>7 DEF RecordArgs, G1, G2

\* provenance_bprm_check_security keeps the invariant.
LEMMA BprmCheckSecurityInv ==
    ASSUME TaskInv, NEW p \in Running, NEW mem, BprmCheckSecurity(p, mem)
    PROVE  TaskInv' /\ Good(g, g')
<1> DEFINE n  == prep[p]
           i  == bprm[p].file
           m  == [g.node[n] EXCEPT !.trk = @ \/ g.node[i].trk]
           G0 == [g EXCEPT !.node[n].trk = @ \/ g.node[i].trk]
           G1 == RecordArgs(G0, n, mem)
           O  == [g EXCEPT !.node[n].opq = TRUE]
           O1 == [O EXCEPT !.node[Tasks(p)].opq = TRUE]
           G  == IF g.node[i].opq THEN Start(O1) ELSE G1
           b  == [bprm[p] EXCEPT !.stage = "checked"]
<1>1. bprm[p].stage = "set" BY Zenon DEF BprmCheckSecurity
<1>2. /\ InodeKnown(g, i) /\ n # NoId /\ i \in Id /\ imode[i] # 0 /\ p \in Proc
    BY Zenon, <1>1, BinaryKnown DEF Running
<1>3. Known(g, n) /\ GraphInv(g) /\ Globals BY Zenon, <1>2, PrepKnown DEF TaskInv
<1>4. g \in Graph /\ g.node[n] \in Node /\ g.node[i] \in Node BY Zenon, <1>2, <1>3 DEF GraphInv, Known, Graph
<1>5. m \in Node BY Zenon, <1>4 DEF Node
<1>6. Remark(g.node[n], m) BY Zenon, <1>4 DEF Node, Remark, SameKind, Above
<1>7. G0 = [g EXCEPT !.node[n] = m] BY Zenon, <1>3, <1>4 DEF Graph, Known
<1>8. O1 = [g EXCEPT !.node[n].opq = TRUE, !.node[Tasks(p)].opq = TRUE] BY Zenon, <1>4 DEF Graph
<1>9. PlainHook(G) /\ Proceed(p, Ok(G), b) BY Zenon, <1>8 DEF BprmCheckSecurity
<1> HIDE DEF m, G0
<1>10. Good(g, G0) BY Zenon, <1>3, <1>5, <1>6, <1>7, NodeMarks
<1>11. GraphInv(G0) /\ Known(G0, n) BY Zenon, <1>3, <1>10, GoodFacts
<1>12. Good(G0, G1) BY Zenon, <1>3, <1>11, RecordArgsInv
<1> HIDE DEF G1
<1>13. Good(g, O) BY Zenon, <1>3, MarkOpaque
<1> HIDE DEF O
<1>14. GraphInv(O) /\ Known(O, Tasks(p)) BY Zenon, <1>13, TaskFacts DEF ProcKnown, Tasks
<1>15. Good(O, O1) BY Zenon, <1>14, MarkOpaque
<1> HIDE DEF O1
<1>16. Good(g, O1) BY Zenon, <1>3, <1>13, <1>15, GoodTrans
<1>17. Good(g, Start(O1)) BY Zenon, <1>16, TaskInvCapture, HookStart
<1>18. Good(g, G1) BY Zenon, <1>3, <1>10, <1>12, GoodTrans
<1>19. Good(g, G) BY Zenon, <1>17, <1>18
<1> HIDE DEF G
<1>20. b \in Binary /\ BprmOK(imode, b, n)
  <2>1. bprm[p] \in Binary BY Zenon, <1>2 DEF TaskInv
  <2> QED BY Zenon, <1>2, <2>1 DEF Binary, BprmOK
<1> HIDE DEF b
<1> QED BY Zenon, <1>2, <1>9, <1>19, <1>20, ProceedInv

-----------------------------------------------------------------------------
\* A hook that frees no object keeps the invariant if the processes, prepared
\* credentials and binaries it leaves are in order.
LEMMA ObjectStep ==
    ASSUME TaskInv, NEW G, Good(g, G), Leaves(G), UNCHANGED imode,
           NEW K, live' = live \cup K, K \subseteq Id, \A i \in K : Known(G, i),
           proc' \in [Proc -> Process], prep' \in [Proc -> Id \cup {NoId}], bprm' \in [Proc -> Binary],
           OwnTasks(proc'),
           \A p \in Proc : /\ proc'[p] = proc[p] \/ ProcessOK(G, live', proc'[p])
                           /\ prep'[p] \in {prep[p], NoId} \/ PrepOK(G, live', prep'[p])
                           /\ BprmOK(imode, bprm'[p], prep'[p])
    PROVE  TaskInv' /\ Good(g, g')
<1>1. Globals' /\ ModeOK' /\ calls' \in Nat /\ confs' \in Nat /\ g' = G /\ epoch' >= epoch
    BY Zenon, LeavesGlobals
<1>2. live' \subseteq live \cup K /\ live \ live' = {} /\ live' \subseteq Id BY Zenon DEF TaskInv
<1>2a. Keeps(g, G) /\ GraphInv(G) BY Zenon DEF Good, Keeps
<1>3. LiveOK(G, live', imode) BY Zenon, <1>2, <1>2a, LiveGrows
<1>4. ASSUME NEW p \in Proc PROVE ProcessOK(G, live', proc'[p])
  <2>1. ProcessOK(g, live, proc[p]) BY Zenon DEF TaskInv
  <2>2. proc[p].task # NoId => proc[p].task \in live' /\ proc[p].cred \in live' BY Zenon, <2>1 DEF ProcessOK
  <2>3. ProcessOK(G, live', proc[p]) BY Zenon, <1>2a, <2>2, ProcessGrows
  <2> QED BY Zenon, <2>3
<1>5. ASSUME NEW p \in Proc PROVE PrepOK(G, live', prep'[p])
  <2>1. PrepOK(g, live, prep[p]) BY Zenon DEF TaskInv
  <2>2. PrepOK(G, live', prep[p]) BY Zenon, <1>2a, <2>1, PrepGrows DEF PrepOK
  <2> QED BY Zenon, <2>2 DEF PrepOK
<1> QED BY Zenon, <1>1, <1>2, <1>2a, <1>3, <1>4, <1>5, TaskStep

\* provenance_cred_prepare keeps the invariant.
LEMMA CredPrepareInv ==
    ASSUME TaskInv, NEW p \in Running, NEW mem, CredPrepare(p, mem)
    PROVE  TaskInv' /\ Good(g, g')
<1> DEFINE c  == g.next
           Ga == Alloc(g, "ENT_PROC")
           G1 == Generates(Ga, "RL_CLONE_MEM", Creds(p), Tasks(p), c, proc[p].maps)
           E  == [g EXCEPT !.rc = ENOMEM]
           G  == IF mem THEN G1 ELSE E
           K  == IF mem THEN {c} ELSE {}
<1>1. /\ prep[p] = NoId /\ c \in Id /\ Hook(G)
      /\ live' = live \cup K
      /\ prep' = IF Ok(G) THEN [prep EXCEPT ![p] = c] ELSE prep
      /\ UNCHANGED <<proc, imode, bprm>>
    BY Zenon DEF CredPrepare
<1>2. GraphInv(g) /\ p \in Proc BY Zenon DEF TaskInv, Running
<1>3. "ENT_PROC" \in NodeType /\ "ENT_PROC" # "ENT_STR" /\ "ENT_PROC" \notin InodeType
    BY Zenon DEF NodeType, InodeType
<1>4. Good(g, Ga) /\ Known(Ga, c) /\ Ga.node[c].type = "ENT_PROC" BY Zenon, <1>1, <1>2, <1>3, AllocKnown
<1> HIDE DEF Ga
<1>5. GraphInv(Ga) /\ Globals /\ ProcKnown(Ga, p) /\ MapsKnown(Ga, Creds(p), proc[p].maps)
    BY Zenon, <1>4, TaskFacts
<1>6. c # Tasks(p)
  <2>1. Known(g, Tasks(p)) BY Zenon, TaskInvCapture, RunningKnown DEF ProcKnown, Tasks
  <2> QED BY <1>2, <2>1 DEF Known, GraphInv, Graph, Id
<1>7. Good(Ga, G1) BY Zenon, <1>4, <1>5, <1>6, TaskFlows, GeneratesInv DEF ProcKnown, Tasks, Creds
<1> HIDE DEF G1
<1>8. Known(G1, c) /\ G1.node[c].type = "ENT_PROC" BY <1>3, <1>4, <1>5, <1>7, KindStays DEF Good, Keeps
<1>9. Good(g, G1) /\ Good(g, E) BY Zenon, <1>2, <1>4, <1>7, GoodTrans, GoodRc
<1>10. Ok(G) => mem
  <2>1. g \in Graph BY Zenon, <1>2 DEF GraphInv
  <2>2. E.rc = ENOMEM BY Zenon, <2>1 DEF Graph
  <2> QED BY <2>2 DEF Ok, ENOMEM
<1>11. Good(g, G) /\ K \subseteq Id /\ \A i \in K : Known(G, i) BY Zenon, <1>1, <1>8, <1>9
<1>12. Ok(G) => PrepOK(G, live', c) BY Zenon, <1>1, <1>8, <1>10 DEF PrepOK
<1> HIDE DEF G, K
<1>13. proc' \in [Proc -> Process] /\ prep' \in [Proc -> Id \cup {NoId}] /\ bprm' \in [Proc -> Binary]
       /\ OwnTasks(proc')
    BY Zenon, <1>1 DEF TaskInv
<1>14. ASSUME NEW q \in Proc
       PROVE  /\ proc'[q] = proc[q]
              /\ prep'[q] \in {prep[q], NoId} \/ PrepOK(G, live', prep'[q])
              /\ BprmOK(imode, bprm'[q], prep'[q])
  <2>1. prep \in [Proc -> Id \cup {NoId}] /\ BprmOK(imode, bprm[q], prep[q]) BY Zenon DEF TaskInv
  <2>2. prep'[q] = IF Ok(G) /\ q = p THEN c ELSE prep[q] BY Zenon, <1>1, <2>1
  <2>3. c # NoId BY <1>1 DEF Id, NoId
  <2> QED BY Zenon, <1>1, <1>12, <2>1, <2>2, <2>3 DEF BprmOK
<1> QED BY Zenon, <1>1, <1>11, <1>13, <1>14, HookLeaves, ObjectStep

\* The prepared credentials are dropped or become those of the process, or the
\* process gets another executable and no mappings: r is what it becomes.
LEMMA OwnProcess ==
    ASSUME TaskInv, NEW G, Good(g, G), Leaves(G), UNCHANGED <<imode, live>>, NEW p \in Running,
           NEW r \in Process, proc' = [proc EXCEPT ![p] = r], r.task = proc[p].task,
           ProcessOK(G, live, r),
           prep' \in [Proc -> Id \cup {NoId}], bprm' \in [Proc -> Binary],
           \A q \in Proc : prep'[q] \in {prep[q], NoId} /\ BprmOK(imode, bprm'[q], prep'[q])
    PROVE  TaskInv' /\ Good(g, g')
<1>1. proc \in [Proc -> Process] /\ OwnTasks(proc) /\ p \in Proc BY Zenon DEF TaskInv, Running
<1>2. proc' \in [Proc -> Process] /\ \A q \in Proc : proc'[q].task = proc[q].task BY Zenon, <1>1
<1>3. OwnTasks(proc') BY <1>1, <1>2 DEF OwnTasks
<1>4. \A q \in Proc : proc'[q] = proc[q] \/ ProcessOK(G, live', proc'[q]) BY Zenon, <1>1
<1> DEFINE K == {}
<1>5. live' = live \cup K /\ K \subseteq Id /\ \A i \in K : Known(G, i) BY Zenon
<1>6. UNCHANGED imode BY Zenon
<1>7. \A q \in Proc : /\ proc'[q] = proc[q] \/ ProcessOK(G, live', proc'[q])
                      /\ prep'[q] \in {prep[q], NoId} \/ PrepOK(G, live', prep'[q])
                      /\ BprmOK(imode, bprm'[q], prep'[q])
    BY Zenon, <1>4
<1> HIDE DEF K
<1> QED BY <1>2, <1>3, <1>5, <1>6, <1>7, ObjectStep, Zenon

\* Credentials installed in a process that keeps its executable and mappings.
LEMMA InstallProcess ==
    ASSUME TaskInv, NEW G, Good(g, G), NEW p \in Running, prep[p] # NoId
    PROVE  LET r == [proc[p] EXCEPT !.cred = prep[p]]
           IN  r \in Process /\ r.task = proc[p].task /\ ProcessOK(G, live, r)
<1> DEFINE r == [proc[p] EXCEPT !.cred = prep[p]]
<1>1. p \in Proc /\ proc[p] \in Process /\ ProcessOK(g, live, proc[p]) BY Zenon DEF TaskInv, Running
<1>2. ProcessOK(G, live, proc[p]) BY Zenon, <1>1, ProcessGrows DEF ProcessOK, Good, Keeps
<1>3. PrepOK(G, live, prep[p]) BY Zenon, <1>1, PrepGrows DEF TaskInv, PrepOK, Good, Keeps
<1>4. prep[p] \in Id \cup {NoId} BY Zenon, <1>1 DEF TaskInv
<1>5. /\ r \in Process /\ r.task = proc[p].task /\ r.cred = prep[p] /\ r.exe = proc[p].exe
      /\ r.maps = proc[p].maps
    BY Zenon, <1>1, <1>4 DEF Process
<1> HIDE DEF r
<1> QED BY Zenon, <1>2, <1>3, <1>5 DEF ProcessOK, PrepOK, r

\* A hook whose process installs or drops its prepared credentials, with no
\* execve in progress afterwards.
LEMMA InstallInv ==
    ASSUME TaskInv, NEW G, Good(g, G), Leaves(G), UNCHANGED <<imode, live>>, NEW p \in Running,
           prep[p] # NoId, NEW ok, Install(p, ok),
           bprm' = [bprm EXCEPT ![p] = NoBinary]
    PROVE  TaskInv' /\ Good(g, g')
<1> DEFINE r == IF ok THEN [proc[p] EXCEPT !.cred = prep[p]] ELSE proc[p]
<1>1. p \in Proc /\ proc[p] \in Process /\ proc \in [Proc -> Process] /\ ProcessOK(g, live, proc[p])
    BY Zenon DEF TaskInv, Running
<1>2. ProcessOK(G, live, proc[p]) BY Zenon, <1>1, ProcessGrows DEF ProcessOK, Good, Keeps
<1>3. r \in Process /\ r.task = proc[p].task /\ ProcessOK(G, live, r) BY Zenon, <1>1, <1>2, InstallProcess
<1>4. proc' = [proc EXCEPT ![p] = r] BY Zenon, <1>1 DEF Install
<1> HIDE DEF r
<1>5. NoBinary \in Binary /\ NoBinary.stage = "none" BY Zenon DEF NoBinary, Binary
<1>6. prep \in [Proc -> Id \cup {NoId}] /\ bprm \in [Proc -> Binary] BY Zenon DEF TaskInv
<1>7. prep' \in [Proc -> Id \cup {NoId}] /\ bprm' \in [Proc -> Binary] BY Zenon, <1>5, <1>6 DEF Install
<1>8. ASSUME NEW q \in Proc PROVE prep'[q] \in {prep[q], NoId} /\ BprmOK(imode, bprm'[q], prep'[q])
  <2>1. BprmOK(imode, bprm[q], prep[q]) BY Zenon DEF TaskInv
  <2> QED BY Zenon, <1>5, <1>6, <2>1 DEF Install, BprmOK
<1> QED BY Zenon, <1>3, <1>4, <1>7, <1>8, OwnProcess

\* provenance_task_fix_setuid keeps the invariant.
LEMMA TaskFixSetuidInv ==
    ASSUME TaskInv, NEW p \in Running, TaskFixSetuid(p)
    PROVE  TaskInv' /\ Good(g, g')
<1> DEFINE Ga == GetTask(g, p)
           G  == Generates(Ga, "RL_SETUID", Creds(p), Tasks(p), prep[p], proc[p].maps)
<1>1. /\ prep[p] # NoId /\ bprm[p] = NoBinary /\ Hook(G) /\ Install(p, Ok(G))
      /\ UNCHANGED <<imode, live, bprm>>
    BY Zenon DEF TaskFixSetuid
<1>2. Known(g, prep[p]) /\ prep[p] # Tasks(p) /\ p \in Proc BY Zenon, <1>1, PrepKnown DEF Tasks
<1>3. Good(g, Ga) BY Zenon, TaskInvCapture, HookEnter
<1> HIDE DEF Ga
<1>4. Known(Ga, prep[p]) BY Zenon, <1>2, <1>3, TaskFacts
<1>5. Good(g, G) BY Zenon, <1>2, <1>3, <1>4, TaskFlows, TaskGenerates
<1> HIDE DEF G
<1>6. bprm' = [bprm EXCEPT ![p] = NoBinary] BY Zenon, <1>1, <1>2 DEF TaskInv
<1> QED BY Zenon, <1>1, <1>5, <1>6, HookLeaves, InstallInv

\* commit_creds and abort_creds keep the invariant.
LEMMA CommitCredsInv ==
    ASSUME TaskInv, NEW p \in Running, NEW ok, CommitCreds(p, ok)
    PROVE  TaskInv' /\ Good(g, g')
<1>1. Good(g, g) BY Zenon, GoodSelf DEF TaskInv
<1>2. Leaves(g) BY Zenon DEF CommitCreds, Leaves, TaskInv
<1>3. bprm' = [bprm EXCEPT ![p] = NoBinary] BY Zenon DEF CommitCreds, TaskInv, Running
<1> QED BY Zenon, <1>1, <1>2, <1>3, InstallInv DEF CommitCreds

\* provenance_bprm_committing_creds keeps the invariant.
LEMMA BprmCommittingCredsInv ==
    ASSUME TaskInv, NEW p \in Running, NEW mem, BprmCommittingCreds(p, mem)
    PROVE  TaskInv' /\ Good(g, g')
<1> DEFINE c  == Creds(p)
           Ga == GetTask(g, p)
           Gb == GetCred(Ga, p, mem)
           G0 == RecordNodeName(Gb, c, FALSE, mem)
           G1 == Generates(G0, "RL_EXEC_TASK", c, Tasks(p), prep[p], proc[p].maps)
           G  == Start(G1)
<1>1. /\ bprm[p].stage = "mapped" /\ Hook(G) /\ Install(p, TRUE)
      /\ bprm' = [bprm EXCEPT ![p] = NoBinary]
      /\ UNCHANGED <<imode, live>>
    BY Zenon DEF BprmCommittingCreds
<1>2. prep[p] # NoId BY Zenon, <1>1, BinaryKnown DEF Running
<1>3. Known(g, prep[p]) /\ prep[p] # Tasks(p) BY Zenon, <1>2, PrepKnown DEF Tasks
<1>4. Good(g, Ga) BY Zenon, TaskInvCapture, HookEnter
<1> HIDE DEF Ga
<1>5. GraphInv(g) /\ GraphInv(Ga) /\ Globals /\ ProcKnown(Ga, p) BY Zenon, <1>4, TaskFacts
<1>6. Good(Ga, Gb) BY Zenon, <1>5, GetCredInv
<1> HIDE DEF Gb
<1>7. Good(g, Gb) BY Zenon, <1>4, <1>5, <1>6, GoodTrans
<1>8. GraphInv(Gb) /\ Known(Gb, c) BY Zenon, <1>7, TaskFacts DEF ProcKnown, Creds
<1>9. Good(Gb, G0) BY Zenon, <1>5, <1>8, RecordNodeNameInv
<1> HIDE DEF G0
<1>10. Good(g, G0) BY Zenon, <1>5, <1>7, <1>9, GoodTrans
<1>11. Known(G0, prep[p]) BY Zenon, <1>3, <1>10, TaskFacts
<1>12. Good(g, G1) BY Zenon, <1>3, <1>10, <1>11, TaskFlows, TaskGenerates
<1> HIDE DEF G1
<1>13. Good(g, G) BY Zenon, <1>12, TaskInvCapture, HookStart
<1> HIDE DEF G
<1> QED BY Zenon, <1>1, <1>2, <1>13, HookLeaves, InstallInv

\* Execve gives a process its new memory: no mappings, another executable.
LEMMA ExecMmapInv ==
    ASSUME TaskInv, NEW p \in Running, ExecMmap(p)
    PROVE  TaskInv' /\ Good(g, g')
<1> DEFINE r == [proc[p] EXCEPT !.maps = <<>>, !.exe = bprm[p].file]
           b == [bprm[p] EXCEPT !.stage = "mapped"]
<1>1. /\ bprm[p].stage = "checked" /\ UNCHANGED <<imode, live, prep>>
      /\ proc' = [proc EXCEPT ![p].maps = <<>>, ![p].exe = bprm[p].file]
      /\ bprm' = [bprm EXCEPT ![p].stage = "mapped"]
    BY Zenon DEF ExecMmap
<1>2. /\ p \in Proc /\ proc \in [Proc -> Process] /\ bprm \in [Proc -> Binary]
      /\ prep \in [Proc -> Id \cup {NoId}]
      /\ ProcessOK(g, live, proc[p])
    BY Zenon DEF TaskInv, Running
<1>3. InodeKnown(g, bprm[p].file) /\ prep[p] # NoId /\ bprm[p].file \in Id /\ imode[bprm[p].file] # 0
    BY Zenon, <1>1, <1>2, BinaryKnown
<1>4. proc' = [proc EXCEPT ![p] = r] BY Zenon, <1>1, <1>2 DEF Process
<1>5. <<>> \in Seq(Mapping) OBVIOUS
<1>6. r \in Process /\ r.task = proc[p].task /\ r.cred = proc[p].cred /\ r.exe = bprm[p].file /\ r.maps = <<>>
    BY Zenon, <1>2, <1>3, <1>5 DEF Process
<1> HIDE DEF r
<1>7. ProcessOK(g, live, r)
  <2>1. DOMAIN r.maps = {} BY <1>6
  <2>2. Known(g, r.exe) BY Zenon, <1>3, <1>6 DEF InodeKnown
  <2> QED BY Zenon, <1>2, <1>6, <2>1, <2>2 DEF ProcessOK
<1>8. bprm' = [bprm EXCEPT ![p] = b] BY Zenon, <1>1, <1>2
<1>9. b \in Binary /\ BprmOK(imode, b, prep[p]) BY Zenon, <1>2, <1>3 DEF Binary, BprmOK
<1> HIDE DEF b
<1>10. prep' \in [Proc -> Id \cup {NoId}] /\ bprm' \in [Proc -> Binary] BY Zenon, <1>1, <1>2, <1>8, <1>9
<1>11. ASSUME NEW q \in Proc PROVE prep'[q] \in {prep[q], NoId} /\ BprmOK(imode, bprm'[q], prep'[q])
  <2>1. BprmOK(imode, bprm[q], prep[q]) BY Zenon DEF TaskInv
  <2> QED BY Zenon, <1>1, <1>2, <1>8, <1>9, <2>1
<1>12. Good(g, g) BY Zenon, GoodSelf DEF TaskInv
<1>13. Leaves(g) BY Zenon DEF ExecMmap, Leaves, TaskInv
<1> QED BY Zenon, <1>1, <1>4, <1>6, <1>7, <1>10, <1>11, <1>12, <1>13, OwnProcess

\* An execve that fails drops its credentials and its binary.
LEMMA AbortExecInv ==
    ASSUME TaskInv, NEW p \in Running, AbortExec(p)
    PROVE  TaskInv' /\ Good(g, g')
<1>1. /\ UNCHANGED <<g, confVars, proc, imode, live, calls, confs>>
      /\ bprm' = [bprm EXCEPT ![p] = NoBinary] /\ prep' = [prep EXCEPT ![p] = NoId]
    BY Zenon DEF AbortExec, Proceed, vars
<1>2. NoBinary \in Binary /\ NoBinary.stage = "none" BY Zenon DEF NoBinary, Binary
<1>3. /\ prep \in [Proc -> Id \cup {NoId}] /\ bprm \in [Proc -> Binary] /\ proc \in [Proc -> Process]
      /\ p \in Proc /\ ProcessOK(g, live, proc[p])
    BY Zenon DEF TaskInv, Running
<1>4. prep' \in [Proc -> Id \cup {NoId}] /\ bprm' \in [Proc -> Binary] BY Zenon, <1>1, <1>2, <1>3
<1>5. ASSUME NEW q \in Proc PROVE prep'[q] \in {prep[q], NoId} /\ BprmOK(imode, bprm'[q], prep'[q])
  <2>1. BprmOK(imode, bprm[q], prep[q]) BY Zenon DEF TaskInv
  <2> QED BY Zenon, <1>1, <1>2, <1>3, <2>1 DEF BprmOK
<1>6. Good(g, g) BY Zenon, GoodSelf DEF TaskInv
<1>7. Leaves(g) BY Zenon, <1>1 DEF Leaves, TaskInv
<1>8. proc' = [proc EXCEPT ![p] = proc[p]] /\ proc[p] \in Process BY Zenon, <1>1, <1>3
<1> QED BY Zenon, <1>1, <1>3, <1>4, <1>5, <1>6, <1>7, <1>8, OwnProcess

\* A hook that frees object c, which nothing that is left refers to.
LEMMA FreeStep ==
    ASSUME TaskInv, NEW G, Good(g, G), Leaves(G), UNCHANGED <<imode, prep, bprm>>,
           NEW c, live' = live \ {c}, g.node[c].type \notin InodeType,
           proc' \in [Proc -> Process], OwnTasks(proc'),
           \A p \in Proc : /\ \/ proc'[p] = proc[p] /\ proc[p].task # c /\ proc[p].cred # c
                              \/ proc'[p].task = NoId
                           /\ prep[p] # c
    PROVE  TaskInv' /\ Good(g, g')
<1>1. Globals' /\ ModeOK' /\ calls' \in Nat /\ confs' \in Nat /\ g' = G /\ epoch' >= epoch
    BY Zenon, LeavesGlobals
<1>2. live' \subseteq Id BY Zenon DEF TaskInv
<1>2a. Keeps(g, G) /\ GraphInv(G) BY Zenon DEF Good, Keeps
<1>3. LiveOK(G, live', imode)
  <2>1. live \subseteq live \cup {} /\ live \ live = {} BY Zenon
  <2>2. LiveOK(G, live, imode) BY Zenon, <1>2a, <2>1, LiveGrows
  <2>3. \A i \in Id : imode[i] # 0 => i # c BY Zenon DEF TaskInv, LiveOK
  <2> QED BY Zenon, <2>2, <2>3 DEF LiveOK
<1>4. ASSUME NEW p \in Proc PROVE ProcessOK(G, live', proc'[p])
  <2>1. ProcessOK(g, live, proc[p]) BY Zenon DEF TaskInv
  <2>2. CASE proc'[p] = proc[p] /\ proc[p].task # c /\ proc[p].cred # c
    <3>1. proc[p].task # NoId => proc[p].task \in live' /\ proc[p].cred \in live'
      BY Zenon, <2>1, <2>2 DEF ProcessOK
    <3> QED BY Zenon, <1>2a, <2>2, <3>1, ProcessGrows
  <2>3. CASE proc'[p].task = NoId BY Zenon, <2>3 DEF ProcessOK
  <2> QED BY Zenon, <2>2, <2>3
<1>5. ASSUME NEW p \in Proc PROVE PrepOK(G, live', prep'[p]) /\ BprmOK(imode', bprm'[p], prep'[p])
  <2>1. PrepOK(g, live, prep[p]) /\ BprmOK(imode, bprm[p], prep[p]) BY Zenon DEF TaskInv
  <2>2. prep[p] # NoId => prep[p] \in live' BY Zenon, <2>1 DEF PrepOK
  <2> QED BY Zenon, <1>2a, <2>1, <2>2, PrepGrows
<1>6. prep' \in [Proc -> Id \cup {NoId}] /\ bprm' \in [Proc -> Binary] /\ imode' = imode BY Zenon DEF TaskInv
<1> QED BY Zenon, <1>1, <1>2, <1>2a, <1>3, <1>4, <1>5, <1>6, TaskStep

\* provenance_cred_free keeps the invariant.
LEMMA CredFreeInv ==
    ASSUME TaskInv, NEW c \in live, CredFree(c)
    PROVE  TaskInv' /\ Good(g, g')
<1> DEFINE G1 == RecordTerminate(g, "RL_TERMINATE_PROC", c)
           G  == Start(G1)
<1>1. /\ g.node[c].type = "ENT_PROC" /\ \A p \in Proc : Creds(p) # c /\ prep[p] # c
      /\ Hook(G) /\ live' = live \ {c} /\ UNCHANGED <<proc, imode, prep, bprm>>
    BY Zenon DEF CredFree
<1>2. GraphInv(g) /\ Globals /\ Known(g, c) BY Zenon DEF TaskInv, LiveOK
<1>3. "RL_TERMINATE_PROC" \in RelType BY Zenon DEF RelType, Derived
<1>4. Good(g, G1) BY Zenon, <1>2, <1>3, RecordTerminateInv
<1> HIDE DEF G1
<1>5. Good(g, G) BY Zenon, <1>4, TaskInvCapture, HookStart
<1> HIDE DEF G
<1>6. proc' \in [Proc -> Process] /\ OwnTasks(proc') BY Zenon, <1>1 DEF TaskInv
<1>7. ASSUME NEW p \in Proc
      PROVE  /\ \/ proc'[p] = proc[p] /\ proc[p].task # c /\ proc[p].cred # c
                \/ proc'[p].task = NoId
             /\ prep[p] # c
  <2>1. ProcessOK(g, live, proc[p]) BY Zenon DEF TaskInv
  <2> QED BY Zenon, <1>1, <2>1 DEF ProcessOK, Creds
<1>8. g.node[c].type \notin InodeType BY Zenon, <1>1 DEF InodeType
<1> QED BY Zenon, <1>1, <1>5, <1>6, <1>7, <1>8, HookLeaves, FreeStep

\* provenance_task_free keeps the invariant.
LEMMA TaskFreeInv ==
    ASSUME TaskInv, NEW p \in Running, TaskFree(p)
    PROVE  TaskInv' /\ Good(g, g')
<1> DEFINE c  == Tasks(p)
           G1 == RecordTerminate(g, "RL_TERMINATE_TASK", c)
           G  == Start(G1)
<1>1. /\ Hook(G) /\ live' = live \ {c} /\ proc' = [proc EXCEPT ![p] = NoProcess]
      /\ UNCHANGED <<imode, prep, bprm>>
    BY Zenon DEF TaskFree
<1>2. GraphInv(g) /\ Globals /\ p \in Proc /\ c # NoId /\ proc \in [Proc -> Process] /\ OwnTasks(proc)
    BY Zenon DEF TaskInv, Running, Tasks
<1>3. Known(g, c) /\ g.node[c].type = "ACT_TASK" BY Zenon, <1>2 DEF TaskInv, LiveOK, ProcessOK, Tasks
<1>4. "RL_TERMINATE_TASK" \in RelType BY Zenon DEF RelType, Informed
<1>5. Good(g, G1) BY Zenon, <1>2, <1>3, <1>4, RecordTerminateInv
<1> HIDE DEF G1
<1>6. Good(g, G) BY Zenon, <1>5, TaskInvCapture, HookStart
<1> HIDE DEF G
<1>7. NoProcess \in Process /\ NoProcess.task = NoId
  <2>1. <<>> \in Seq(Mapping) OBVIOUS
  <2> QED BY Zenon, <2>1 DEF NoProcess, Process
<1>8. proc' \in [Proc -> Process] BY Zenon, <1>1, <1>2, <1>7
<1>9. \A q \in Proc : proc'[q] = IF q = p THEN NoProcess ELSE proc[q] BY Zenon, <1>1, <1>2
<1>10. OwnTasks(proc') BY Zenon, <1>2, <1>7, <1>9 DEF OwnTasks
<1>11. ASSUME NEW q \in Proc
       PROVE  /\ \/ proc'[q] = proc[q] /\ proc[q].task # c /\ proc[q].cred # c
                 \/ proc'[q].task = NoId
              /\ prep[q] # c
  <2>1. ProcessOK(g, live, proc[q]) /\ PrepOK(g, live, prep[q]) BY Zenon DEF TaskInv
  <2>2. prep[q] # c BY Zenon, <1>2, <1>3, <2>1 DEF PrepOK
  <2>3. CASE q = p BY Zenon, <1>7, <1>9, <2>2, <2>3
  <2>4. CASE q # p /\ proc[q].task = NoId BY Zenon, <1>9, <2>2, <2>4
  <2>5. CASE q # p /\ proc[q].task # NoId
    <3>1. proc[q].task # c BY Zenon, <1>2, <2>5 DEF OwnTasks, Tasks
    <3> QED BY Zenon, <1>3, <1>9, <2>1, <2>2, <2>5, <3>1 DEF ProcessOK
  <2> QED BY Zenon, <2>3, <2>4, <2>5
<1>12. g.node[c].type \notin InodeType BY Zenon, <1>3 DEF InodeType
<1> HIDE DEF c
<1> QED BY Zenon, <1>1, <1>6, <1>8, <1>10, <1>11, <1>12, HookLeaves, FreeStep

\* provenance_task_alloc keeps the invariant: the new task is a node of its own.
LEMMA TaskAllocInv ==
    ASSUME TaskInv, NEW p \in Running, NEW q \in Proc, NEW thread \in BOOLEAN, TaskAlloc(p, q, thread)
    PROVE  TaskInv' /\ Good(g, g')
<1> DEFINE t  == Tasks(p)
           n  == g.next
           Ga == Alloc(g, "ACT_TASK")
           G1 == UsesTwo(Ga, "RL_PROC_READ", Creds(p), t)
           G2 == Informs(G1, "RL_CLONE", t, n)
           G  == Start(G2)
           c  == IF thread THEN proc[p].cred ELSE prep[p]
           r  == [proc[p] EXCEPT !.task = n, !.cred = c]
           K  == {n}
<1>1. /\ q \notin Running /\ bprm[p] = NoBinary /\ (thread \/ prep[p] # NoId)
      /\ n \in Id /\ Hook(G) /\ live' = live \cup K
      /\ prep' = (IF thread THEN prep ELSE [prep EXCEPT ![p] = NoId])
      /\ UNCHANGED <<imode, bprm>>
    BY Zenon DEF TaskAlloc
<1>2. proc' = [proc EXCEPT ![q] = r] BY Zenon DEF TaskAlloc, TaskInv, Running, Process
<1>3. /\ GraphInv(g) /\ p \in Proc /\ proc \in [Proc -> Process] /\ OwnTasks(proc)
      /\ prep \in [Proc -> Id \cup {NoId}] /\ bprm \in [Proc -> Binary]
      /\ LiveOK(g, live, imode) /\ ProcessOK(g, live, proc[p]) /\ PrepOK(g, live, prep[p])
      /\ proc[p].task # NoId /\ proc[q].task = NoId
    BY Zenon, <1>1 DEF TaskInv, Running
<1>4. "ACT_TASK" \in NodeType \ {"ENT_STR"} /\ "ACT_TASK" \notin InodeType BY Zenon DEF NodeType, InodeType
<1>5. /\ Good(g, Ga) /\ Known(Ga, n) /\ Ga.node[n].type = "ACT_TASK" /\ n # Machine
      /\ \A i : Known(g, i) => i # n
    BY Zenon, <1>1, <1>3, <1>4, AllocKnown
<1> HIDE DEF Ga
<1>6. GraphInv(Ga) /\ Globals /\ ProcKnown(Ga, p) BY Zenon, <1>5, TaskFacts
<1>7. Good(Ga, G1) BY Zenon, <1>6, TaskFlows, UsesTwoInv DEF ProcKnown, Tasks, Creds
<1> HIDE DEF G1
<1>8. GraphInv(G1) /\ ProcKnown(G1, p) /\ Known(G1, n) BY Zenon, <1>5, <1>6, <1>7, GoodFacts, ProcGrows
<1>9. Known(g, t) BY Zenon, TaskInvCapture, RunningKnown DEF ProcKnown, Tasks
<1>10. Good(G1, G2) BY Zenon, <1>5, <1>6, <1>8, <1>9, TaskFlows, InformsInv DEF ProcKnown, Tasks
<1> HIDE DEF G2
<1>11. Good(Ga, G2) /\ GraphInv(G2) BY Zenon, <1>6, <1>7, <1>10, GoodTrans DEF Good
<1>12. Good(Ga, G) BY Zenon, <1>6, <1>11, StartInv, GoodTrans
<1> HIDE DEF G
<1>13. Good(g, G) BY Zenon, <1>3, <1>5, <1>12, GoodTrans
<1>14. Known(G, n) /\ G.node[n].type = "ACT_TASK"
  <2>1. /\ GraphInv(Ga) /\ Keeps(Ga, G) /\ Known(Ga, n)
        /\ Ga.node[n].type \notin InodeType /\ Ga.node[n].type = "ACT_TASK"
    BY Zenon, <1>4, <1>5, <1>6, <1>12 DEF Good, Keeps
  <2> HIDE DEF n
  <2>2. Known(G, n) /\ G.node[n].type = Ga.node[n].type BY ONLY <2>1, KindStays
  <2> QED BY Zenon, <2>1, <2>2
<1>15. c # NoId /\ c \in live' /\ G.node[c].type = "ENT_PROC"
  <2>1. c \in live /\ g.node[c].type = "ENT_PROC" BY Zenon, <1>1, <1>3 DEF ProcessOK, PrepOK
  <2>2. Known(g, c) BY Zenon, <1>3, <2>1 DEF LiveOK
  <2>3. c # NoId BY <2>2 DEF Known, Id, NoId
  <2>4. c \in live' BY Zenon, <1>1, <2>1
  <2>5. "ENT_PROC" \notin InodeType BY Zenon DEF InodeType
  <2> HIDE DEF c
  <2>6. GraphInv(g) /\ Keeps(g, G) /\ Known(g, c) /\ g.node[c].type \notin InodeType
    BY Zenon, <1>3, <1>13, <2>1, <2>2, <2>5 DEF Good, Keeps
  <2>7. G.node[c].type = g.node[c].type BY ONLY <2>6, KindStays
  <2> QED BY Zenon, <2>1, <2>3, <2>4, <2>7
<1>16. c \in Id BY Zenon, <1>1, <1>3, <1>15 DEF TaskInv
<1> HIDE DEF c
<1>17. /\ r \in Process /\ r.task = n /\ r.cred = c /\ r.exe = proc[p].exe /\ r.maps = proc[p].maps
    BY Zenon, <1>1, <1>3, <1>16 DEF Process
<1> HIDE DEF r
<1>18. ProcessOK(G, live', r)
  <2>1. ProcessOK(G, live, proc[p]) BY Zenon, <1>3, <1>13, ProcessGrows DEF ProcessOK, Good, Keeps
  <2> QED BY Zenon, <1>1, <1>3, <1>14, <1>15, <1>17, <2>1 DEF ProcessOK
<1>19. proc' \in [Proc -> Process] /\ \A x \in Proc : proc'[x] = IF x = q THEN r ELSE proc[x]
    BY Zenon, <1>2, <1>3, <1>17
<1>20. OwnTasks(proc')
  <2>1. \A x \in Proc : proc[x].task # n
    <3> SUFFICES ASSUME NEW x \in Proc, proc[x].task = n PROVE FALSE BY Zenon
    <3>1. n # NoId BY <1>1 DEF Id, NoId
    <3>2. ProcessOK(g, live, proc[x]) BY Zenon DEF TaskInv
    <3>3. Known(g, proc[x].task) BY Zenon, <1>3, <3>1, <3>2 DEF ProcessOK, LiveOK
    <3> QED BY Zenon, <1>5, <3>3
  <2>2. ASSUME NEW x \in Proc, NEW y \in Proc, x # y, proc'[x].task # NoId
        PROVE  proc'[x].task # proc'[y].task
    <3>1. CASE x = q BY Zenon, <1>17, <1>19, <2>1, <2>2, <3>1
    <3>2. CASE y = q BY Zenon, <1>17, <1>19, <2>1, <2>2, <3>2
    <3>3. CASE x # q /\ y # q BY Zenon, <1>3, <1>19, <2>2, <3>3 DEF OwnTasks
    <3> QED BY Zenon, <3>1, <3>2, <3>3
  <2> QED BY Zenon, <2>2 DEF OwnTasks
<1>21. prep' \in [Proc -> Id \cup {NoId}] /\ bprm' \in [Proc -> Binary] BY Zenon, <1>1, <1>3
<1>22. ASSUME NEW x \in Proc
       PROVE  /\ proc'[x] = proc[x] \/ ProcessOK(G, live', proc'[x])
              /\ prep'[x] \in {prep[x], NoId} \/ PrepOK(G, live', prep'[x])
              /\ BprmOK(imode, bprm'[x], prep'[x])
  <2>1. BprmOK(imode, bprm[x], prep[x]) BY Zenon DEF TaskInv
  <2>2. prep'[x] = IF ~thread /\ x = p THEN NoId ELSE prep[x] BY Zenon, <1>1, <1>3
  <2>3. BprmOK(imode, bprm'[x], prep'[x]) BY <1>1, <2>1, <2>2 DEF BprmOK, NoBinary
  <2> QED BY Zenon, <1>18, <1>19, <2>2, <2>3
<1>23. K \subseteq Id /\ \A i \in K : Known(G, i) BY Zenon, <1>1, <1>14
<1> HIDE DEF K
<1>24. Leaves(G) /\ UNCHANGED imode BY Zenon, <1>1, HookLeaves
<1> QED BY Zenon, <1>1, <1>13, <1>19, <1>20, <1>21, <1>22, <1>23, <1>24, ObjectStep

\* A write to a control file keeps the invariant.
LEMMA TaskConfigInv ==
    ASSUME TaskInv, ConfigNext, UNCHANGED <<prep, bprm>>
    PROVE  TaskInv' /\ StepOK
<1>1. CaptureInv /\ CaptureInv' /\ StepOK BY Zenon, TaskInvCapture, ConfigNextInv, ConfigStepOK
<1>2. /\ Keeps(g, g') /\ GraphInv(g') /\ UNCHANGED <<proc, live>>
      /\ \A i \in Id : imode'[i] # 0 <=> imode[i] # 0
    BY Zenon, <1>1, ConfigKeeps DEF Keeps
<1>3. epoch' >= epoch /\ Globals' /\ ModeOK' /\ calls' \in Nat /\ confs' \in Nat
  <2>1. epoch' = epoch \/ epoch' = epoch + 1
    BY Zenon DEF ConfigNext, WriteFlag, WriteFilter, WriteEpoch, SetQuery, WriteTarget, UpdateProvConfig, SetMode,
           confVars
  <2> QED BY <1>1, <2>1 DEF CaptureInv, Globals
<1>4. LiveOK(g', live, imode')
  <2>1. live \subseteq live \cup {} /\ live \ live = {} BY Zenon
  <2>2. \A i \in Id : imode'[i] # 0 => imode[i] # 0 BY Zenon, <1>2
  <2> QED BY Zenon, <1>2, <2>1, <2>2, LiveGrows
<1>5. \A p \in Proc : ProcessOK(g', live, proc[p]) BY Zenon, <1>2, ProcessGrows DEF TaskInv, ProcessOK
<1>6. \A p \in Proc : PrepOK(g', live, prep[p]) BY Zenon, <1>2, PrepGrows DEF TaskInv, PrepOK
<1>7. \A p \in Proc : BprmOK(imode', bprm[p], prep[p]) BY Zenon, <1>2 DEF TaskInv, BprmOK
<1>8. /\ live \subseteq Id /\ proc \in [Proc -> Process] /\ OwnTasks(proc)
      /\ prep \in [Proc -> Id \cup {NoId}] /\ bprm \in [Proc -> Binary]
    BY Zenon DEF TaskInv
<1> QED BY Zenon, <1>1, <1>2, <1>3, <1>4, <1>5, <1>6, <1>7, <1>8, TaskStep

\* The initial state satisfies the invariant.
LEMMA TaskInitInv ==
    Init => TaskInv
<1> SUFFICES ASSUME Init PROVE TaskInv BY Zenon
<1> DEFINE nf    == Len(Files)
           types == [k \in 1..(nf + 2) |-> IF k <= nf THEN "ENT_INODE_UNKNOWN"
                                           ELSE IF k = FirstTask THEN "ACT_TASK" ELSE "ENT_PROC"]
           first == [task |-> FirstTask, cred |-> FirstCred, exe |-> NoId, maps |-> FirstMaps]
<1>1. /\ InitConfig
      /\ g = InitGraph(types)
      /\ live = 1..Len(types)
      /\ imode = [i \in Id |-> IF i \in 1..nf THEN Files[i] ELSE 0]
      /\ proc = [p \in Proc |-> IF p = 1 THEN first ELSE NoProcess]
      /\ prep = [p \in Proc |-> NoId]
      /\ bprm = [p \in Proc |-> NoBinary]
    BY Zenon DEF Init
<1>2. /\ nf \in Nat /\ MaxId \in Nat /\ nf + 2 <= MaxId /\ Files \in Seq(DOMAIN Kind)
      /\ FirstMaps \in Seq(Mapping) /\ \A k \in DOMAIN FirstMaps : FirstMaps[k].file \in 1..nf
      /\ FirstTask = nf + 1 /\ FirstCred = nf + 2
    BY TaskHooksAssumption, RecordAssumption DEF FirstTask, FirstCred
<1>3. /\ {"ENT_INODE_UNKNOWN", "ACT_TASK", "ENT_PROC"} \subseteq NodeType \ {"ENT_STR"}
      /\ "ENT_INODE_UNKNOWN" \in InodeType
    BY Zenon DEF NodeType, InodeType
<1>4. types \in Seq(NodeType) /\ Len(types) = nf + 2 BY <1>2, <1>3
<1>5. /\ \A k \in 1..nf : types[k] = "ENT_INODE_UNKNOWN"
      /\ types[FirstTask] = "ACT_TASK" /\ types[FirstCred] = "ENT_PROC"
      /\ \A k \in 1..(nf + 2) : types[k] # "ENT_STR"
    BY <1>2
<1> HIDE DEF types
<1>6. /\ GraphInv(g) /\ g.next = nf + 3 /\ g.node[Machine].type = "AGT_MACHINE"
      /\ \A i \in 1..(nf + 2) : g.node[i].type = types[i]
    BY SMTT(30), <1>1, <1>2, <1>4, InitGraphInv
<1>7. Globals
  <2>1. policy \in Policy BY Zenon, <1>1 DEF InitConfig, InitPolicy, Policy
  <2> QED BY <1>1, <2>1 DEF InitConfig, Globals
<1>8. ModeOK BY <1>1, <1>2 DEF ModeOK
<1>9. live = 1..(nf + 2) /\ live \subseteq Id BY <1>1, <1>2, <1>4 DEF Id
<1>10. calls \in Nat /\ confs \in Nat BY Zenon, <1>1 DEF InitConfig
<1>11. \A i \in live : Known(g, i) BY <1>5, <1>6, <1>9 DEF Known
<1>12. LiveOK(g, live, imode)
  <2>1. \A i \in Id : imode[i] # 0 => i \in 1..nf BY Zenon, <1>1
  <2>2. \A i \in 1..nf : i \in 1..(nf + 2) BY <1>2
  <2> QED BY Zenon, <1>3, <1>5, <1>6, <1>9, <1>11, <2>1, <2>2 DEF LiveOK
<1>13. first \in Process
  <2>1. FirstTask \in Id /\ FirstCred \in Id BY <1>2 DEF Id
  <2> QED BY Zenon, <1>2, <2>1 DEF Process
<1>14. ProcessOK(g, live, first)
  <2>1. FirstTask \in live /\ FirstCred \in live BY <1>2, <1>9
  <2>2. g.node[FirstTask].type = "ACT_TASK" /\ g.node[FirstCred].type = "ENT_PROC"
    BY Zenon, <1>5, <1>6, <1>9, <2>1
  <2>3. ASSUME NEW k \in DOMAIN FirstMaps PROVE InodeKnown(g, FirstMaps[k].file)
    <3>1. FirstMaps[k].file \in 1..nf BY Zenon, <1>2
    <3>2. FirstMaps[k].file \in 1..(nf + 2) BY <1>2, <3>1
    <3> QED BY Zenon, <1>3, <1>5, <1>6, <1>9, <1>11, <3>1, <3>2 DEF InodeKnown
  <2> QED BY Zenon, <2>1, <2>2, <2>3 DEF ProcessOK
<1>15. NoProcess \in Process /\ NoProcess.task = NoId /\ ProcessOK(g, live, NoProcess)
  <2>1. <<>> \in Seq(Mapping) OBVIOUS
  <2> QED BY Zenon, <2>1 DEF NoProcess, Process, ProcessOK
<1>16. first.task # NoId BY <1>2 DEF NoId
<1> HIDE DEF first
<1>17. proc \in [Proc -> Process] /\ \A p \in Proc : ProcessOK(g, live, proc[p])
    BY Zenon, <1>1, <1>13, <1>14, <1>15
<1>18. OwnTasks(proc) BY Zenon, <1>1, <1>15, <1>16 DEF OwnTasks
<1>19. NoBinary \in Binary /\ NoBinary.stage = "none" BY Zenon DEF NoBinary, Binary
<1>20. prep \in [Proc -> Id \cup {NoId}] /\ bprm \in [Proc -> Binary] BY Zenon, <1>1, <1>19
<1>21. \A p \in Proc : PrepOK(g, live, prep[p]) /\ BprmOK(imode, bprm[p], prep[p])
    BY Zenon, <1>1, <1>19 DEF PrepOK, BprmOK
<1> QED BY Zenon, <1>6, <1>7, <1>8, <1>9, <1>10, <1>12, <1>17, <1>18, <1>20, <1>21 DEF TaskInv

\* Every hook keeps the invariant and is made of operations.
LEMMA TaskHookInv ==
    ASSUME TaskInv, HookNext
    PROVE  TaskInv' /\ Good(g, g')
<1>1. CASE \E c \in live : CredFree(c) BY Zenon, <1>1, CredFreeInv
<1>2. ASSUME NEW p \in Running, NEW mem \in MemOK,
             \/ \E q \in Proc, thread \in BOOLEAN : TaskAlloc(p, q, thread)
             \/ TaskFree(p)
             \/ \E q \in Running : TaskSetpgid(p, q, mem)
             \/ \E q \in Running : TaskGetpgid(p, q, mem)
             \/ \E propagate \in BOOLEAN : WriteLog(p, propagate, mem)
             \/ Disclose(p, mem)
             \/ CredPrepare(p, mem)
             \/ TaskFixSetuid(p)
             \/ \E ok \in BOOLEAN : CommitCreds(p, ok)
             \/ \E i \in Inodes : BprmSetCreds(p, i, mem)
             \/ BprmCheckSecurity(p, mem)
             \/ ExecMmap(p)
             \/ BprmCommittingCreds(p, mem)
             \/ AbortExec(p)
      PROVE  TaskInv' /\ Good(g, g')
    BY Zenon, <1>2, TaskAllocInv, TaskFreeInv, TaskSetpgidInv, TaskGetpgidInv, WriteLogInv, DiscloseInv,
       CredPrepareInv, TaskFixSetuidInv, CommitCredsInv, BprmSetCredsInv, BprmCheckSecurityInv,
       ExecMmapInv, BprmCommittingCredsInv, AbortExecInv
<1> QED BY <1>1, <1>2 DEF HookNext

\* Every step keeps the invariant and records only what it may.
LEMMA TaskNextInv ==
    TaskInv /\ [Next]_taskVars => TaskInv' /\ [StepOK]_vars
<1> SUFFICES ASSUME TaskInv, [Next]_taskVars PROVE TaskInv' /\ [StepOK]_vars BY Zenon
<1>1. CASE UNCHANGED taskVars
  <2>1. UNCHANGED <<g, policy, epoch, deny, target, proc, imode, live, calls, confs, prep, bprm>> /\ UNCHANGED vars
    BY Zenon, <1>1 DEF taskVars, vars, confVars
  <2>2. GraphInv(g') BY Zenon, <2>1 DEF TaskInv
  <2>3. /\ Globals' /\ ModeOK' /\ calls' \in Nat /\ confs' \in Nat /\ epoch' >= epoch
    BY <2>1 DEF TaskInv, Globals, ModeOK
  <2> QED BY Zenon, <2>1, <2>2, <2>3, TaskStep DEF TaskInv
<1>2. CASE ConfigNext /\ UNCHANGED <<prep, bprm>> BY Zenon, <1>2, TaskConfigInv
<1>3. CASE HookNext BY Zenon, <1>3, TaskHookInv, GoodStep
<1> QED BY Zenon, <1>1, <1>2, <1>3 DEF Next

\* The invariant holds in every reachable state.
LEMMA TaskSpecInv ==
    Spec => []TaskInv
BY TaskInitInv, TaskNextInv, PTL DEF Spec

\* Every step records only what it may.
LEMMA TaskSpecSteps ==
    Spec => [][StepOK]_vars
BY TaskSpecInv, TaskNextInv, PTL DEF Spec

\* A process that runs has a task node and credentials that exist, through any
\* sequence of fork, clone, exit, setuid and execve, and every hook that fails
\* leaves the credentials it prepared in order.
THEOREM TaskTypes ==
    Spec => []TaskTypeOK
BY TaskSpecInv, TaskInvTypes, PTL

\* The graph that the life of processes leaves has no cycle, with the nodes that
\* fork, exec, logs and disclosures add to it, as long as no version counter has
\* wrapped around.
THEOREM TaskNoCycle ==
    Spec => []NoCycle
<1>1. TaskInv => NoCycle BY Zenon, TaskInvCapture, CaptureInvNoCycle
<1> QED BY <1>1, TaskSpecInv, PTL

\* The stream that the life of processes leaves can be read back into a graph:
\* every relation comes after both its ends, log entries, disclosed nodes and
\* nodes of freed credentials included, and there is no cycle.
THEOREM TaskGraphSound ==
    Spec => []GraphSound
<1>1. TaskInv => GraphSound BY Zenon, TaskInvCapture, CaptureInvSound
<1> QED BY <1>1, TaskSpecInv, PTL

\* No flow recorded by a hook on a process enters a version that has passed
\* information on, fork, setuid and execve with all their relations included;
\* log entries, which record_log writes without a new version, are the exception.
THEOREM TaskFlowOnNewVersion ==
    Spec => FlowOnNewVersion
<1>1. [StepOK]_vars => [FlowsAhead]_vars BY Zenon DEF StepOK
<1> QED BY <1>1, TaskSpecSteps, PTL DEF FlowOnNewVersion

\* A node that is opaque when a hook on a process starts gets no relation.
THEOREM TaskOpaqueNotRecorded ==
    Spec => OpaqueNotRecorded
<1>1. [StepOK]_vars => [OpaqueLeftOut]_vars BY Zenon DEF StepOK
<1> QED BY <1>1, TaskSpecSteps, PTL DEF OpaqueNotRecorded

\* Labels pass along every relation of fork, setuid and execve, and along
\* nothing else.
THEOREM TaskTaint ==
    Spec => TaintReaches /\ TaintFollowsEdges
<1>1. [StepOK]_vars => [LabelsReach]_vars /\ [LabelsFollow]_vars BY Zenon DEF StepOK
<1> QED BY <1>1, TaskSpecSteps, PTL DEF TaintReaches, TaintFollowsEdges
=============================================================================
