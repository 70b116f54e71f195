--------------------------- MODULE IpcHooksProofs ---------------------------
(* The hooks on messages and shared memory keep the invariant of Capture      *)
(* while messages and segments come and go, and record only what they may.    *)
EXTENDS IpcHooks, CaptureProofs

\* The messages M in use and the segments A attached exist and have their nodes
\* in G; a message has a sender.
QueueOK(G, L, M, A) ==
    /\ A \subseteq Proc \X {s \in L : G.node[s].type = "ENT_SHM"}
    /\ \A i \in Id : M[i] # NoMsg => i \in L /\ G.node[i].type = "ENT_MSG" /\ M[i].by \in Proc

\* The inductive invariant of the IPC hooks: there are no inodes, and every
\* process runs.
IpcInv ==
    /\ CaptureInv
    /\ \A i \in Id : imode[i] = 0
    /\ \A p \in Proc : proc[p].task # NoId
    /\ msg \in [Id -> Msg] /\ took \in [Proc -> SUBSET Id]
    /\ QueueOK(g, live, msg, attached)

\* The invariant contains the type invariant.
LEMMA IpcInvTypes ==
    IpcInv => IpcTypeOK
<1> SUFFICES ASSUME IpcInv PROVE IpcTypeOK BY Zenon
<1>1. CaptureTypeOK BY Zenon, CaptureInvTypes DEF IpcInv
<1> QED BY Zenon, <1>1 DEF IpcInv, QueueOK, IpcTypeOK, Segments

\* Every process runs.
LEMMA IpcRunning ==
    ASSUME IpcInv PROVE CaptureInv /\ Running = Proc
BY Zenon DEF IpcInv, Running

\* Operations on the graph keep the nodes of messages and segments in place.
LEMMA QueueGrows ==
    ASSUME IpcInv, NEW H, Keeps(g, H)
    PROVE  QueueOK(H, live, msg, attached)
<1>1. GraphInv(g) /\ QueueOK(g, live, msg, attached) /\ \A i \in live : Known(g, i)
    BY Zenon DEF IpcInv, CaptureInv, ObjectsOK
<1>2. "ENT_MSG" \notin InodeType /\ "ENT_SHM" \notin InodeType BY Zenon DEF InodeType
<1>3. \A i \in live : g.node[i].type \in {"ENT_MSG", "ENT_SHM"} => H.node[i].type = g.node[i].type
    BY <1>1, <1>2, KindStays
<1> QED BY Zenon, <1>1, <1>3 DEF QueueOK

\* A step of which the parts are known to be in order keeps the invariant.
LEMMA IpcStep ==
    ASSUME IpcInv, CaptureInv', UNCHANGED proc, \A i \in Id : imode'[i] = 0,
           msg' \in [Id -> Msg], took' \in [Proc -> SUBSET Id], QueueOK(g', live', msg', attached')
    PROVE  IpcInv'
<1>1. QueueOK(g, live, msg, attached)' BY Zenon DEF QueueOK
<1> QED BY Zenon, <1>1 DEF IpcInv

\* A hook that makes and frees no object keeps the invariant, if it leaves the
\* messages and the attached segments in order.
LEMMA PlainIpcStep ==
    ASSUME IpcInv, NEW G, Good(g, G), PlainHook(G),
           msg' \in [Id -> Msg], took' \in [Proc -> SUBSET Id],
           QueueOK(G, live, msg', attached')
    PROVE  IpcInv' /\ Good(g, g')
<1>1. CaptureInv' /\ Good(g, g') BY Zenon, HookInv DEF IpcInv
<1>2. g' = G /\ UNCHANGED <<proc, imode, live>> BY Zenon DEF PlainHook, Hook
<1> QED BY Zenon, <1>1, <1>2, IpcStep DEF IpcInv

\* The relation types of the IPC hooks are flows: their receiver is versioned.
LEMMA IpcFlows ==
    {"RL_MSG_CREATE", "RL_SND_MSG_Q", "RL_RCV_MSG_Q", "RL_SH_CREATE_READ", "RL_SH_CREATE_WRITE",
     "RL_SH_ATTACH_READ", "RL_SH_ATTACH_WRITE", "RL_SHMDT"} \subseteq Flows
BY DEF Flows, RelType, Used, Generated, Informed, Derived, KeepsVersion

\* A message in use, or a segment, is a known node and not a task.
LEMMA IpcNode ==
    ASSUME IpcInv, NEW i \in live, g.node[i].type \in {"ENT_MSG", "ENT_SHM"}, NEW p \in Proc,
           NEW K, Good(g, K)
    PROVE  Known(g, i) /\ Known(K, i) /\ i # Tasks(p)
<1>1. CaptureInv /\ p \in Running BY Zenon, IpcRunning
<1>2. Known(g, i) /\ i # Tasks(p) BY Zenon, <1>1 DEF CaptureInv, ObjectsOK, Tasks
<1> QED BY Zenon, <1>1, <1>2, GoodFacts DEF CaptureInv

\* Graph with a node of type ntype added after the hook of process p has begun.
LEMMA IpcAlloc ==
    ASSUME IpcInv, NEW p \in Proc, NEW K, Good(g, K), K.next \in Id, NEW ntype \in {"ENT_MSG", "ENT_SHM"}
    PROVE  LET H == Alloc(K, ntype) IN
           /\ Good(g, H) /\ Known(H, K.next) /\ H.node[K.next].type = ntype /\ K.next # Tasks(p)
<1> DEFINE H == Alloc(K, ntype)
<1>1. CaptureInv /\ p \in Running BY Zenon, IpcRunning
<1>2. GraphInv(g) /\ GraphInv(K) BY Zenon, <1>1 DEF CaptureInv, Good
<1>3. ntype \in NodeType \ {"ENT_STR"} BY Zenon DEF NodeType
<1>4. /\ Good(K, H) /\ Known(H, K.next) /\ H.node[K.next].type = ntype
      /\ \A i : Known(K, i) => i # K.next
    BY Zenon, <1>2, <1>3, AllocKnown
<1> HIDE DEF H
<1>5. ProcKnown(K, p) BY Zenon, <1>1, <1>2, RunningKnown, ProcGrows
<1>6. K.next # Tasks(p) BY Zenon, <1>4, <1>5 DEF ProcKnown, Tasks
<1>7. Good(g, H) BY Zenon, <1>2, <1>4, GoodTrans
<1> QED BY Zenon, <1>4, <1>6, <1>7 DEF H

\* A hook that adds at most the object n, of which G has the node.
LEMMA IpcLive ==
    ASSUME IpcInv, NEW G, Good(g, G), Hook(G), UNCHANGED <<proc, imode>>,
           NEW n \in Id, n \in live' => Known(G, n), live' \subseteq live \cup {n},
           msg' \in [Id -> Msg], UNCHANGED took, QueueOK(G, live', msg', attached')
    PROVE  IpcInv' /\ Good(g, g')
<1> DEFINE K == {n} \cap live'
<1>1. CaptureInv BY Zenon DEF IpcInv
<1>2. \A i \in K : i \in Id /\ Known(G, i) /\ imode[i] = 0 BY Zenon DEF IpcInv
<1>3. live' \subseteq live \cup K BY Zenon
<1> HIDE DEF K
<1>4. CaptureInv' /\ Good(g, g') BY <1>1, <1>2, <1>3, LiveStep
<1>5. g' = G BY Zenon DEF Hook
<1> QED BY Zenon, <1>4, <1>5, IpcStep DEF IpcInv
-----------------------------------------------------------------------------
\* provenance_msg_msg_alloc_security keeps the invariant, whether the message
\* comes to be or not.
LEMMA MsgAllocInv ==
    ASSUME IpcInv, NEW p \in Proc, NEW mem, MsgAlloc(p, mem)
    PROVE  IpcInv' /\ Good(g, g')
<1> DEFINE G0 == Enter(g, p, mem)
           m  == G0.next
           Ga == Alloc(G0, "ENT_MSG")
           G1 == Generates(Ga, "RL_MSG_CREATE", Creds(p), Tasks(p), m, proc[p].maps)
           E  == [G0 EXCEPT !.rc = ENOMEM]
           G  == IF mem THEN G1 ELSE E
           st == IF G.rc = OK THEN "new" ELSE "done"
           nm == [NoMsg EXCEPT !.stage = st, !.by = p]
<1>1. /\ m \in Id /\ Hook(G) /\ UNCHANGED <<proc, imode, attached, took>>
      /\ msg' = IF mem THEN [msg EXCEPT ![m] = nm] ELSE msg
      /\ live' = IF mem THEN live \cup {m} ELSE live
    BY Zenon DEF MsgAlloc
<1>2. CaptureInv /\ p \in Running /\ GraphInv(g) BY Zenon, IpcRunning DEF CaptureInv
<1>3. Good(g, G0) BY Zenon, <1>2, HookEnter
<1> HIDE DEF G0
<1>4. Good(g, Ga) /\ Known(Ga, m) /\ Ga.node[m].type = "ENT_MSG" /\ m # Tasks(p) BY Zenon, <1>1, <1>3, IpcAlloc
<1> HIDE DEF Ga
<1>5. Good(g, G1) BY Zenon, <1>2, <1>4, IpcFlows, NodeGenerates
<1>6. GraphInv(G0) /\ GraphInv(Ga) BY Zenon, <1>3, <1>4 DEF Good
<1>7. Good(Ga, G1)
  <2>1. Globals /\ ProcKnown(Ga, p) /\ MapsKnown(Ga, Creds(p), proc[p].maps)
    BY Zenon, <1>2, <1>4, RunningKnown, ProcGrows, HookOwnMaps DEF CaptureInv
  <2> QED BY Zenon, <1>4, <1>6, <2>1, IpcFlows, GeneratesInv DEF ProcKnown, Tasks, Creds
<1> HIDE DEF G1
<1>8. Known(G1, m) /\ G1.node[m].type = "ENT_MSG"
  <2>1. Keeps(Ga, G1) /\ "ENT_MSG" \notin InodeType BY Zenon, <1>7 DEF Good, Keeps, InodeType
  <2> QED BY <1>4, <1>6, <2>1, KindStays
<1>9. Good(g, E)
  <2>1. Good(G0, E) BY Zenon, <1>6, GoodRc
  <2> QED BY Zenon, <1>2, <1>3, <2>1, GoodTrans
<1>10. Good(g, G) BY Zenon, <1>5, <1>9
<1>11. mem => Known(G, m) /\ G.node[m].type = "ENT_MSG" BY Zenon, <1>8
<1> HIDE DEF G
<1>st. st \in {"none", "new", "sent", "queued", "done"} BY Zenon
<1> HIDE DEF st
<1>12. nm \in Msg /\ nm.by = p BY Zenon, <1>st DEF Msg, NoMsg
<1> HIDE DEF nm, m
<1>13. msg \in [Id -> Msg] BY Zenon DEF IpcInv
<1>14. msg' \in [Id -> Msg] BY Zenon, <1>1, <1>12, <1>13
<1>15. QueueOK(G, live, msg, attached) BY Zenon, <1>10, QueueGrows DEF Good, Keeps
<1>16. QueueOK(G, live', msg', attached') BY Zenon, <1>1, <1>11, <1>12, <1>13, <1>15 DEF QueueOK
<1>17. live' \subseteq live \cup {m} /\ (m \in live' => Known(G, m))
  <2>1. \A i \in live : Known(g, i) BY Zenon, <1>2 DEF CaptureInv, ObjectsOK
  <2> QED BY Zenon, <1>1, <1>2, <1>10, <1>11, <2>1, GoodFacts
<1> QED BY Zenon, <1>1, <1>10, <1>14, <1>16, <1>17, IpcLive

\* Freeing a message or a segment f keeps the invariant.
LEMMA IpcFree ==
    ASSUME IpcInv, NEW f \in live, g.node[f].type \in {"ENT_MSG", "ENT_SHM"},
           Hook(Start(RecordTerminate(g, "RL_FREED", f))),
           live' = live \ {f}, UNCHANGED <<proc, imode, took>>, msg' \in [Id -> Msg],
           \A i \in Id : msg'[i] # NoMsg => msg'[i] = msg[i] /\ i # f,
           attached' = attached, \A p \in Proc : <<p, f>> \notin attached
    PROVE  IpcInv' /\ Good(g, g')
<1> DEFINE G1 == RecordTerminate(g, "RL_FREED", f)
           G  == Start(G1)
<1>1. CaptureInv /\ GraphInv(g) /\ Globals /\ Known(g, f) /\ f \in Id
    BY Zenon DEF IpcInv, CaptureInv, ObjectsOK
<1>2. "RL_FREED" \in RelType BY Zenon DEF RelType, Derived, Used, Generated, Informed
<1>3. Good(g, G1) BY Zenon, <1>1, <1>2, RecordTerminateInv
<1> HIDE DEF G1
<1>4. Good(g, G) BY Zenon, <1>1, <1>3, HookStart
<1>5. Hook(G) BY Zenon DEF G1
<1> HIDE DEF G
<1>6. QueueOK(G, live, msg, attached) BY Zenon, <1>4, QueueGrows DEF Good, Keeps
<1>7. QueueOK(G, live', msg', attached')
  <2>1. attached' \subseteq Proc \X {s \in live' : G.node[s].type = "ENT_SHM"} BY <1>6 DEF QueueOK
  <2>2. ASSUME NEW i \in Id, msg'[i] # NoMsg
        PROVE  i \in live' /\ G.node[i].type = "ENT_MSG" /\ msg'[i].by \in Proc
    BY Zenon, <1>6, <2>2 DEF QueueOK
  <2> QED BY Zenon, <2>1, <2>2 DEF QueueOK
<1>8. live' \subseteq live \cup {f} /\ f \notin live' BY Zenon
<1> QED BY Zenon, <1>1, <1>4, <1>5, <1>7, <1>8, IpcLive

\* provenance_msg_msg_free_security keeps the invariant.
LEMMA MsgFreeInv ==
    ASSUME IpcInv, NEW m \in Id, msg[m].stage \in {"queued", "done"}, MsgFree(m)
    PROVE  IpcInv' /\ Good(g, g')
<1>1. msg[m] # NoMsg /\ NoMsg \in Msg BY DEF NoMsg, Msg
<1>2. m \in live /\ g.node[m].type = "ENT_MSG" /\ msg \in [Id -> Msg] BY Zenon, <1>1 DEF IpcInv, QueueOK
<1>3. \A p \in Proc : <<p, m>> \notin attached BY Zenon, <1>2 DEF IpcInv, QueueOK
<1>4. msg' = [msg EXCEPT ![m] = NoMsg] BY Zenon DEF MsgFree
<1>5. msg' \in [Id -> Msg] /\ \A i \in Id : msg'[i] # NoMsg => msg'[i] = msg[i] /\ i # m
    BY Zenon, <1>1, <1>2, <1>4
<1>6. /\ Hook(Start(RecordTerminate(g, "RL_FREED", m))) /\ live' = live \ {m}
      /\ UNCHANGED <<proc, imode, took>> /\ attached' = attached
    BY Zenon DEF MsgFree
<1> QED BY Zenon, <1>2, <1>3, <1>5, <1>6, IpcFree

\* provenance_shm_free_security keeps the invariant.
LEMMA ShmFreeInv ==
    ASSUME IpcInv, NEW s \in Segments, ShmFree(s)
    PROVE  IpcInv' /\ Good(g, g')
<1>1. s \in live /\ g.node[s].type = "ENT_SHM" BY Zenon DEF Segments
<1>2. msg \in [Id -> Msg] /\ \A i \in Id : msg[i] # NoMsg => i # s BY Zenon, <1>1 DEF IpcInv, QueueOK
<1>3. /\ Hook(Start(RecordTerminate(g, "RL_FREED", s))) /\ live' = live \ {s}
      /\ UNCHANGED <<proc, imode, took>> /\ attached' = attached /\ msg' = msg
      /\ \A p \in Proc : <<p, s>> \notin attached
    BY Zenon DEF ShmFree
<1> QED BY Zenon, <1>1, <1>2, <1>3, IpcFree

\* A message that moves to another stage keeps its node and its sender.
LEMMA MsgMoves ==
    ASSUME IpcInv, NEW G, Good(g, G), NEW m \in Id, msg[m] # NoMsg, NEW r \in Msg, r.by = msg[m].by
    PROVE  /\ [msg EXCEPT ![m] = r] \in [Id -> Msg]
           /\ QueueOK(G, live, [msg EXCEPT ![m] = r], attached)
<1>1. QueueOK(G, live, msg, attached) BY Zenon, QueueGrows DEF Good, Keeps
<1>2. msg \in [Id -> Msg] BY Zenon DEF IpcInv
<1> QED BY Zenon, <1>1, <1>2 DEF QueueOK

\* provenance_msg_queue_msgsnd and provenance_mq_timedsend keep the invariant.
LEMMA MqMsgsndInv ==
    ASSUME IpcInv, NEW m \in Id, NEW mem, MqMsgsnd(m, mem)
    PROVE  IpcInv' /\ Good(g, g')
<1> DEFINE p  == msg[m].by
           G0 == Enter(g, p, mem)
           G  == Generates(G0, "RL_SND_MSG_Q", Creds(p), Tasks(p), m, proc[p].maps)
           st == IF G.rc = OK THEN "sent" ELSE "done"
           r  == [msg[m] EXCEPT !.stage = st]
<1>1. /\ msg[m].stage = "new" /\ PlainHook(G)
      /\ msg' = [msg EXCEPT ![m].stage = st] /\ UNCHANGED <<attached, took>>
    BY Zenon DEF MqMsgsnd
<1>2. msg[m] # NoMsg BY <1>1 DEF NoMsg
<1>3. /\ m \in live /\ g.node[m].type = "ENT_MSG" /\ p \in Proc /\ msg[m] \in Msg
      /\ took \in [Proc -> SUBSET Id]
    BY Zenon, <1>2 DEF IpcInv, QueueOK
<1>4. CaptureInv /\ p \in Running BY Zenon, <1>3, IpcRunning
<1> HIDE DEF p
<1>5. Good(g, G0) BY Zenon, <1>4, HookEnter
<1> HIDE DEF G0
<1>6. Known(G0, m) /\ m # Tasks(p) BY Zenon, <1>3, <1>5, IpcNode
<1>7. Good(g, G) BY Zenon, <1>4, <1>5, <1>6, IpcFlows, NodeGenerates
<1> HIDE DEF G
<1>8. st \in {"sent", "done"} BY Zenon
<1> HIDE DEF st
<1>9. r \in Msg /\ r.by = msg[m].by BY Zenon, <1>3, <1>8 DEF Msg
<1>10. msg' = [msg EXCEPT ![m] = r] BY Zenon, <1>1
<1> HIDE DEF r
<1>11. msg' \in [Id -> Msg] /\ QueueOK(G, live, msg', attached) BY Zenon, <1>2, <1>7, <1>9, <1>10, MsgMoves
<1> QED BY Zenon, <1>1, <1>3, <1>7, <1>11, PlainIpcStep

\* A message put on its queue keeps the invariant.
LEMMA EnqueueInv ==
    ASSUME IpcInv, NEW m \in Id, Enqueue(m)
    PROVE  IpcInv' /\ Good(g, g')
<1> DEFINE r == [msg[m] EXCEPT !.stage = "queued"]
<1>1. /\ msg[m].stage = "sent" /\ UNCHANGED <<vars, attached, took>>
      /\ msg' = [msg EXCEPT ![m] = r]
    BY Zenon DEF Enqueue
<1>2. msg[m] # NoMsg /\ msg[m] \in Msg BY <1>1 DEF NoMsg, IpcInv
<1>3. r \in Msg /\ r.by = msg[m].by BY Zenon, <1>2 DEF Msg
<1> HIDE DEF r
<1>4. CaptureInv /\ GraphInv(g) /\ UNCHANGED <<g, proc, imode, live, vars>> BY Zenon, <1>1 DEF IpcInv, CaptureInv, vars
<1>5. Good(g, g) BY Zenon, <1>4, GoodSelf
<1>6. msg' \in [Id -> Msg] /\ QueueOK(g, live, msg', attached) BY Zenon, <1>1, <1>2, <1>3, <1>5, MsgMoves
<1>7. CaptureInv' BY Zenon, <1>4, UnchangedInv
<1> QED BY Zenon, <1>1, <1>4, <1>5, <1>6, <1>7, IpcStep DEF IpcInv

\* provenance_msg_queue_msgrcv and provenance_mq_timedreceive keep the
\* invariant, also when the sender calls them with the receiver's credentials.
LEMMA MqMsgrcvInv ==
    ASSUME IpcInv, NEW m \in Id, NEW p \in Proc, NEW q \in Proc, MqMsgrcv(m, p, q)
    PROVE  IpcInv' /\ Good(g, g')
<1> DEFINE G0 == GetTask(g, p)
           G  == Uses(G0, "RL_RCV_MSG_Q", m, Tasks(p), Creds(q), proc[p].maps)
           r  == [msg[m] EXCEPT !.stage = "done", !.to = q]
<1>1. /\ msg[m].stage \in {"queued", "sent"} /\ PlainHook(G) /\ UNCHANGED attached
      /\ msg' = IF G.rc = OK THEN [msg EXCEPT ![m] = r] ELSE msg
      /\ took' = IF G.rc = OK /\ p = q THEN [took EXCEPT ![p] = took[p] \cup {m}] ELSE took
    BY Zenon DEF MqMsgrcv
<1>2. msg[m] # NoMsg BY <1>1 DEF NoMsg
<1>3. /\ m \in live /\ g.node[m].type = "ENT_MSG" /\ msg \in [Id -> Msg]
      /\ took \in [Proc -> SUBSET Id]
    BY Zenon, <1>2 DEF IpcInv, QueueOK
<1>4. CaptureInv /\ p \in Running /\ q \in Running BY Zenon, IpcRunning
<1>5. Good(g, G0) BY Zenon, <1>4, HookEnter
<1> HIDE DEF G0
<1>6. Known(G0, m) /\ m # Tasks(p) BY Zenon, <1>3, <1>5, IpcNode
<1>7. Good(g, G) BY Zenon, <1>4, <1>5, <1>6, IpcFlows, NodeUses
<1> HIDE DEF G
<1>8. r \in Msg /\ r.by = msg[m].by BY Zenon, <1>3 DEF Msg
<1> HIDE DEF r
<1>9. /\ [msg EXCEPT ![m] = r] \in [Id -> Msg]
      /\ QueueOK(G, live, [msg EXCEPT ![m] = r], attached)
    BY Zenon, <1>2, <1>7, <1>8, MsgMoves
<1>10. QueueOK(G, live, msg, attached) BY Zenon, <1>7, QueueGrows DEF Good, Keeps
<1>11. msg' \in [Id -> Msg] /\ QueueOK(G, live, msg', attached) BY Zenon, <1>1, <1>3, <1>9, <1>10
<1>12. took' \in [Proc -> SUBSET Id] BY Zenon, <1>1, <1>3
<1> QED BY Zenon, <1>1, <1>7, <1>11, <1>12, PlainIpcStep

\* provenance_shm_alloc_security keeps the invariant.
LEMMA ShmAllocInv ==
    ASSUME IpcInv, NEW p \in Proc, NEW mem, ShmAlloc(p, mem)
    PROVE  IpcInv' /\ Good(g, g')
<1> DEFINE G0 == Enter(g, p, mem)
           s  == G0.next
           Ga == Alloc(G0, "ENT_SHM")
           G1 == Generates(Ga, "RL_SH_CREATE_READ", Creds(p), Tasks(p), s, proc[p].maps)
           W  == Generates(G1, "RL_SH_CREATE_WRITE", Creds(p), Tasks(p), s, proc[p].maps)
           G2 == Then(G1, W)
           E  == [G0 EXCEPT !.rc = ENOMEM]
           G  == IF mem THEN Start(G2) ELSE E
<1>1. /\ s \in Id /\ Hook(G) /\ UNCHANGED <<proc, imode, msg, attached, took>>
      /\ live' = IF mem THEN live \cup {s} ELSE live
    BY Zenon DEF ShmAlloc, ThenGenerates, When
<1>2. CaptureInv /\ p \in Running /\ GraphInv(g) BY Zenon, IpcRunning DEF CaptureInv
<1>3. Good(g, G0) BY Zenon, <1>2, HookEnter
<1> HIDE DEF G0
<1>4. Good(g, Ga) /\ Known(Ga, s) /\ s # Tasks(p) BY Zenon, <1>1, <1>3, IpcAlloc
<1> HIDE DEF Ga
<1>5. GraphInv(G0) /\ GraphInv(Ga) BY Zenon, <1>3, <1>4 DEF Good
<1>6. Good(g, G1) BY Zenon, <1>2, <1>4, IpcFlows, NodeGenerates
<1>7. Good(Ga, G1)
  <2>1. Globals /\ ProcKnown(Ga, p) /\ MapsKnown(Ga, Creds(p), proc[p].maps)
    BY Zenon, <1>2, <1>4, RunningKnown, ProcGrows, HookOwnMaps DEF CaptureInv
  <2> QED BY Zenon, <1>4, <1>5, <2>1, IpcFlows, GeneratesInv DEF ProcKnown, Tasks, Creds
<1> HIDE DEF G1
<1>8. Known(G1, s) BY Zenon, <1>4, <1>5, <1>7, GoodFacts
<1>9. Good(g, W) BY Zenon, <1>2, <1>4, <1>6, <1>8, IpcFlows, NodeGenerates
<1>10. Good(G1, W)
  <2>1. Globals /\ GraphInv(G1) /\ ProcKnown(G1, p) /\ MapsKnown(G1, Creds(p), proc[p].maps)
    BY Zenon, <1>2, <1>6, RunningKnown, ProcGrows, HookOwnMaps DEF CaptureInv, Good
  <2> QED BY Zenon, <1>4, <1>8, <2>1, IpcFlows, GeneratesInv DEF ProcKnown, Tasks, Creds
<1> HIDE DEF W
<1>11. GraphInv(G1) /\ Known(W, s) BY Zenon, <1>6, <1>8, <1>10, GoodFacts DEF Good
<1>12. Good(g, G2) /\ Known(G2, s) BY Zenon, <1>6, <1>8, <1>9, <1>11, ThenInv DEF Then
<1> HIDE DEF G2
<1>13. Good(g, Start(G2)) /\ Known(Start(G2), s)
  <2>1. GraphInv(G2) BY Zenon, <1>12 DEF Good
  <2> QED BY Zenon, <1>2, <1>12, <2>1, HookStart, StartInv, GoodFacts
<1>14. Good(g, E) BY Zenon, <1>2, <1>3, <1>5, GoodRc, GoodTrans
<1>15. Good(g, G) /\ (mem => Known(G, s)) BY Zenon, <1>13, <1>14
<1> HIDE DEF G, s
<1>16. QueueOK(G, live, msg, attached) BY Zenon, <1>15, QueueGrows DEF Good, Keeps
<1>17. QueueOK(G, live', msg', attached') BY Zenon, <1>1, <1>16 DEF QueueOK
<1>18. live' \subseteq live \cup {s} /\ (s \in live' => Known(G, s))
  <2>1. \A i \in live : Known(g, i) BY Zenon, <1>2 DEF CaptureInv, ObjectsOK
  <2> QED BY Zenon, <1>1, <1>2, <1>15, <2>1, GoodFacts
<1>19. msg' \in [Id -> Msg] /\ UNCHANGED took BY Zenon, <1>1 DEF IpcInv
<1> QED BY Zenon, <1>1, <1>15, <1>17, <1>18, <1>19, IpcLive

\* provenance_shm_shmat keeps the invariant.
LEMMA ShmShmatInv ==
    ASSUME IpcInv, NEW p \in Proc, NEW s \in Segments, NEW rdonly \in BOOLEAN, NEW mem,
           ShmShmat(p, s, rdonly, mem)
    PROVE  IpcInv' /\ Good(g, g')
<1> DEFINE G0 == Enter(g, p, mem)
           G1 == Uses(G0, "RL_SH_ATTACH_READ", s, Tasks(p), Creds(p), proc[p].maps)
           W  == Generates(G1, "RL_SH_ATTACH_WRITE", Creds(p), Tasks(p), s, proc[p].maps)
           G  == Then(G1, When(~rdonly, G1, W))
<1>1. /\ PlainHook(G) /\ UNCHANGED <<msg, took>>
      /\ attached' = IF G.rc = OK THEN attached \cup {<<p, s>>} ELSE attached
    BY Zenon DEF ShmShmat, ThenGenerates
<1>2. CaptureInv /\ p \in Running BY Zenon, IpcRunning
<1>3. s \in live /\ g.node[s].type = "ENT_SHM" BY Zenon DEF Segments
<1>4. Good(g, G0) BY Zenon, <1>2, HookEnter
<1> HIDE DEF G0
<1>5. Known(G0, s) /\ s # Tasks(p) BY Zenon, <1>3, <1>4, IpcNode
<1>6. Good(g, G1) BY Zenon, <1>2, <1>4, <1>5, IpcFlows, NodeUses
<1> HIDE DEF G1
<1>7. Known(G1, s) BY Zenon, <1>3, <1>6, IpcNode
<1>8. Good(g, W) BY Zenon, <1>2, <1>5, <1>6, <1>7, IpcFlows, NodeGenerates
<1> HIDE DEF W
<1>9. Good(g, G) BY Zenon, <1>6, <1>8, WhenInv, ThenInv
<1> HIDE DEF G
<1>10. QueueOK(G, live, msg, attached) BY Zenon, <1>9, QueueGrows DEF Good, Keeps
<1>11. G.node[s].type = "ENT_SHM"
  <2>1. Keeps(g, G) /\ Known(g, s) /\ GraphInv(g) /\ "ENT_SHM" \notin InodeType
    BY Zenon, <1>2, <1>3, <1>9 DEF CaptureInv, ObjectsOK, Good, Keeps, InodeType
  <2> QED BY <1>3, <2>1, KindStays
<1>12. QueueOK(G, live, msg', attached') BY <1>1, <1>3, <1>10, <1>11 DEF QueueOK
<1>13. msg' \in [Id -> Msg] /\ took' \in [Proc -> SUBSET Id] BY Zenon, <1>1 DEF IpcInv
<1> QED BY Zenon, <1>1, <1>9, <1>12, <1>13, PlainIpcStep

\* provenance_shm_shmdt keeps the invariant.
LEMMA ShmShmdtInv ==
    ASSUME IpcInv, NEW p \in Proc, NEW s \in Segments, NEW mem, ShmShmdt(p, s, mem)
    PROVE  IpcInv' /\ Good(g, g')
<1> DEFINE G0 == Enter(g, p, mem)
           G1 == Generates(G0, "RL_SHMDT", Creds(p), Tasks(p), s, proc[p].maps)
           G  == Start(G1)
<1>1. PlainHook(G) /\ UNCHANGED <<msg, took>> /\ attached' \subseteq attached BY Zenon DEF ShmShmdt
<1>2. CaptureInv /\ p \in Running BY Zenon, IpcRunning
<1>3. s \in live /\ g.node[s].type = "ENT_SHM" BY Zenon DEF Segments
<1>4. Good(g, G0) BY Zenon, <1>2, HookEnter
<1> HIDE DEF G0
<1>5. Known(G0, s) /\ s # Tasks(p) BY Zenon, <1>3, <1>4, IpcNode
<1>6. Good(g, G1) BY Zenon, <1>2, <1>4, <1>5, IpcFlows, NodeGenerates
<1> HIDE DEF G1
<1>7. Good(g, G) BY Zenon, <1>2, <1>6, HookStart
<1> HIDE DEF G
<1>8. QueueOK(G, live, msg, attached) BY Zenon, <1>7, QueueGrows DEF Good, Keeps
<1>9. QueueOK(G, live, msg', attached') BY Zenon, <1>1, <1>8 DEF QueueOK
<1>10. msg' \in [Id -> Msg] /\ took' \in [Proc -> SUBSET Id] BY Zenon, <1>1 DEF IpcInv
<1> QED BY Zenon, <1>1, <1>7, <1>9, <1>10, PlainIpcStep
-----------------------------------------------------------------------------
\* Writing a control file keeps the invariant.
LEMMA IpcConfigInv ==
    ASSUME IpcInv, ConfigNext, UNCHANGED <<msg, attached, took>>
    PROVE  IpcInv' /\ StepOK
<1>1. CaptureInv BY Zenon DEF IpcInv
<1>2. CaptureInv' /\ StepOK BY Zenon, <1>1, ConfigNextInv, ConfigStepOK
<1>3. Keeps(g, g') /\ UNCHANGED <<proc, live>> /\ \A i \in Id : imode'[i] # 0 <=> imode[i] # 0
    BY Zenon, <1>1, ConfigKeeps
<1>4. QueueOK(g', live, msg, attached) BY Zenon, <1>3, QueueGrows
<1> QED BY Zenon, <1>2, <1>3, <1>4, IpcStep DEF IpcInv

\* The initial state satisfies the invariant.
LEMMA IpcInitInv ==
    Init => IpcInv
<1> SUFFICES ASSUME Init PROVE IpcInv BY Zenon
<1> DEFINE types == [k \in 1..(2 * NProc) |-> IF k <= NProc THEN "ACT_TASK" ELSE "ENT_PROC"]
<1>1. /\ InitConfig
      /\ g = InitGraph(types)
      /\ live = 1..Len(types)
      /\ imode = [i \in Id |-> 0]
      /\ proc = [p \in Proc |-> [task |-> p, cred |-> NProc + p, exe |-> NoId, maps |-> <<>>]]
      /\ msg = [i \in Id |-> NoMsg]
      /\ attached = {}
      /\ took = [p \in Proc |-> {}]
    BY Zenon DEF Init
<1>2. NProc \in Nat /\ MaxId \in Nat /\ 2 * NProc <= MaxId
    BY Zenon, IpcHooksAssumption, CaptureAssumption, RecordAssumption
<1>3. {"ACT_TASK", "ENT_PROC"} \subseteq NodeType \ {"ENT_STR"} BY Zenon DEF NodeType
<1>4. types \in Seq(NodeType) /\ Len(types) = 2 * NProc BY <1>2, <1>3
<1>5. \A k \in 1..(2 * NProc) : types[k] = IF k <= NProc THEN "ACT_TASK" ELSE "ENT_PROC" BY Zenon, <1>2
<1> HIDE DEF types
<1>6. /\ GraphInv(g) /\ g.next = 2 * NProc + 1 /\ g.node[Machine].type = "AGT_MACHINE"
      /\ \A i \in 1..(2 * NProc) : g.node[i].type = types[i]
  <2>1. Len(types) <= MaxId BY Zenon, <1>2, <1>4
  <2>2. /\ GraphInv(InitGraph(types)) /\ InitGraph(types).next = Len(types) + 1
        /\ InitGraph(types).node[Machine].type = "AGT_MACHINE"
        /\ \A i \in 1..Len(types) : InitGraph(types).node[i].type = types[i]
    BY ONLY Zenon, <1>4, <2>1, InitGraphInv
  <2> QED BY Zenon, <1>1, <1>4, <2>2
<1>7. Globals
  <2>1. policy \in Policy BY Zenon, <1>1 DEF InitConfig, InitPolicy, Policy
  <2> QED BY <1>1, <2>1 DEF InitConfig, Globals
<1>8. ModeOK /\ \A i \in Id : imode[i] = 0 BY Zenon, <1>1 DEF ModeOK
<1>9. live = 1..(2 * NProc) /\ live \subseteq Id BY <1>1, <1>2, <1>4 DEF Id
<1>10. calls \in Nat /\ confs \in Nat BY Zenon, <1>1 DEF InitConfig
<1>11. ASSUME NEW i \in live PROVE Known(g, i)
  <2>1. i \in Id /\ i < g.next BY <1>2, <1>6, <1>9
  <2>2. g.node[i].type # "ENT_STR" BY Zenon, <1>5, <1>6, <1>9
  <2> QED BY Zenon, <2>1, <2>2 DEF Known
<1>12. \A p \in Proc : /\ p \in live /\ types[p] = "ACT_TASK"
                       /\ NProc + p \in live /\ types[NProc + p] = "ENT_PROC"
    BY <1>2, <1>5, <1>9 DEF Proc
<1>13. \A p \in Proc : p # NoId BY <1>2 DEF Proc, NoId
<1>14. proc \in [Proc -> Process]
  <2>1. <<>> \in Seq(Mapping) OBVIOUS
  <2> QED BY Zenon, <1>1, <1>9, <1>12, <2>1 DEF Process
<1>15. \A p \in Proc : /\ proc[p].task = p /\ proc[p].cred = NProc + p /\ proc[p].exe = NoId
                       /\ proc[p].maps = <<>>
    BY Zenon, <1>1
<1>16. ASSUME NEW p \in Running
       PROVE  /\ Known(g, proc[p].task) /\ g.node[proc[p].task].type = "ACT_TASK"
              /\ Known(g, proc[p].cred) /\ g.node[proc[p].cred].type = "ENT_PROC"
              /\ proc[p].exe # NoId => Known(g, proc[p].exe)
              /\ \A k \in DOMAIN proc[p].maps : InodeKnown(g, proc[p].maps[k].file)
    BY <1>6, <1>9, <1>11, <1>12, <1>15 DEF Running
<1>17. ObjectsOK(g) BY Zenon, <1>6, <1>8, <1>9, <1>11, <1>16 DEF ObjectsOK
<1>18. CaptureInv BY Zenon, <1>6, <1>7, <1>8, <1>9, <1>10, <1>14, <1>17 DEF CaptureInv
<1>19. \A p \in Proc : proc[p].task # NoId BY Zenon, <1>13, <1>15
<1>20. msg \in [Id -> Msg] /\ took \in [Proc -> SUBSET Id] BY Zenon, <1>1 DEF Msg, NoMsg
<1>21. QueueOK(g, live, msg, attached) BY Zenon, <1>1 DEF QueueOK
<1> QED BY Zenon, <1>8, <1>18, <1>19, <1>20, <1>21 DEF IpcInv

\* Every hook keeps the invariant and is made of operations.
LEMMA IpcHookInv ==
    ASSUME IpcInv, HookNext
    PROVE  IpcInv' /\ Good(g, g')
<1>1. ShmProcs \subseteq Proc BY Zenon, IpcHooksAssumption
<1> QED BY Zenon, <1>1, MsgAllocInv, MsgFreeInv, MqMsgsndInv, EnqueueInv, MqMsgrcvInv, ShmAllocInv, ShmFreeInv,
           ShmShmatInv, ShmShmdtInv DEF HookNext

\* Every step keeps the invariant and records only what it may.
LEMMA IpcNextInv ==
    IpcInv /\ [Next]_ipcVars => IpcInv' /\ [StepOK]_vars
<1> SUFFICES ASSUME IpcInv, [Next]_ipcVars PROVE IpcInv' /\ [StepOK]_vars BY Zenon
<1>1. CASE UNCHANGED ipcVars
  <2>1. UNCHANGED <<g, proc, imode, live, msg, attached, took, vars>> BY Zenon, <1>1 DEF ipcVars, vars
  <2>2. CaptureInv' BY Zenon, <2>1, UnchangedInv DEF IpcInv
  <2>3. QueueOK(g', live', msg', attached') BY Zenon, <2>1 DEF IpcInv
  <2> QED BY Zenon, <2>1, <2>2, <2>3, IpcStep DEF IpcInv
<1>2. CASE ConfigNext /\ UNCHANGED <<msg, attached, took>> BY Zenon, <1>2, IpcConfigInv
<1>3. CASE HookNext BY Zenon, <1>3, IpcHookInv, GoodStep
<1> QED BY Zenon, <1>1, <1>2, <1>3 DEF Next

\* The invariant holds in every reachable state.
LEMMA IpcSpecInv ==
    Spec => []IpcInv
BY IpcInitInv, IpcNextInv, PTL DEF Spec

\* Every step records only what it may.
LEMMA IpcSpecSteps ==
    Spec => [][StepOK]_vars
BY IpcSpecInv, IpcNextInv, PTL DEF Spec

\* A message that is queued, in flight or received and a segment that is
\* attached have a node of their own, which exists, however the hooks of senders
\* and receivers interleave and whichever of them fail.
THEOREM IpcTypes ==
    Spec => []IpcTypeOK
BY IpcSpecInv, IpcInvTypes, PTL

\* Every relation that messages and shared memory leave in the stream comes
\* after both its ends, those of freed messages and segments included, and
\* there is no cycle.
THEOREM IpcEndsWritten ==
    Spec => []EndsWritten /\ []NoCycle
<1>1. IpcInv => EndsWritten /\ NoCycle BY Zenon, CaptureInvSound, CaptureInvNoCycle DEF IpcInv
<1> QED BY <1>1, IpcSpecInv, PTL

\* No flow through a message or a segment enters a version that has passed
\* information on, the receive hook that a sender calls for its receiver
\* included.
THEOREM IpcFlowOnNewVersion ==
    Spec => FlowOnNewVersion
<1>1. [StepOK]_vars => [FlowsAhead]_vars BY Zenon DEF StepOK
<1> QED BY <1>1, IpcSpecSteps, PTL DEF FlowOnNewVersion

\* A node that is opaque when a hook on messages or shared memory starts gets no
\* relation, and labels pass along the recorded relations and nothing else.
THEOREM IpcPolicy ==
    Spec => OpaqueNotRecorded /\ TaintReaches /\ TaintFollowsEdges
<1>1. [StepOK]_vars => [OpaqueLeftOut]_vars /\ [LabelsReach]_vars /\ [LabelsFollow]_vars BY Zenon DEF StepOK
<1> QED BY <1>1, IpcSpecSteps, PTL DEF OpaqueNotRecorded, TaintReaches, TaintFollowsEdges
=============================================================================
