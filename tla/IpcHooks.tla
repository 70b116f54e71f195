------------------------------ MODULE IpcHooks ------------------------------
(***************************************************************************)
(* The hooks on System V and POSIX message queues and on System V shared   *)
(* memory.                                                                 *)
(*                                                                         *)
(* A message is allocated and sent by one process and received by another. *)
(* When the receiver already waits, the sender hands the message over and  *)
(* calls the receive hook itself.  The memory of an attached segment is a  *)
(* file mapping of the kernel: FileHooks models the flows through it.      *)
(***************************************************************************)
EXTENDS Capture

CONSTANTS ShmProcs,     \* processes that use shared memory
          MaxSegments   \* bound on the segments there are

ASSUME IpcHooksAssumption ==
    /\ 2 * NProc <= MaxId
    /\ ShmProcs \subseteq Proc /\ MaxSegments \in Nat

VARIABLES msg,      \* messages: their stage, sender and receiver
          attached, \* pairs of a process and a segment it has attached
          took      \* history: the messages a process took from a queue itself

ipcVars == <<vars, msg, attached, took>>

NoMsg == [stage |-> "none", by |-> 0, to |-> 0]
Msg == [stage : {"none", "new", "sent", "queued", "done"}, by : Proc \cup {0}, to : Proc \cup {0}]
Segments == {s \in live : g.node[s].type = "ENT_SHM"}

\* The types of the variables; a message or a segment in use has its node.
IpcTypeOK ==
    /\ CaptureTypeOK
    /\ msg \in [Id -> Msg]
    /\ attached \subseteq Proc \X Segments
    /\ took \in [Proc -> SUBSET Id]
    /\ \A m \in Id : msg[m] # NoMsg => m \in live /\ g.node[m].type = "ENT_MSG"

\* Process p is not in the middle of sending a message.
Idle(p) == \A m \in Id : msg[m].by = p => msg[m].stage \notin {"new", "sent"}

-----------------------------------------------------------------------------
(* Messages *)

\* provenance_msg_msg_alloc_security.  A message that is refused has its node until
\* the kernel frees it.
MsgAlloc(p, mem) ==
    LET G0 == Enter(g, p, mem)
        m  == G0.next
        G  == IF mem THEN Generates(Alloc(G0, "ENT_MSG"), "RL_MSG_CREATE", Creds(p), Tasks(p), m, proc[p].maps)
              ELSE [G0 EXCEPT !.rc = ENOMEM]
    IN  /\ m \in Id
        /\ Hook(G)
        /\ msg' = IF mem THEN [msg EXCEPT ![m] = [NoMsg EXCEPT !.stage = IF G.rc = OK THEN "new" ELSE "done",
                                                               !.by = p]] ELSE msg
        /\ live' = IF mem THEN live \cup {m} ELSE live
        /\ UNCHANGED <<proc, imode, attached, took>>

\* provenance_msg_msg_free_security, after a message was received or refused,
\* or with its queue.
MsgFree(m) ==
    /\ Hook(Start(RecordTerminate(g, "RL_FREED", m)))
    /\ msg' = [msg EXCEPT ![m] = NoMsg]
    /\ live' = live \ {m}
    /\ UNCHANGED <<proc, imode, attached, took>>

\* __mq_msgsnd: provenance_msg_queue_msgsnd and provenance_mq_timedsend.
MqMsgsnd(m, mem) ==
    LET p == msg[m].by
        G == Generates(Enter(g, p, mem), "RL_SND_MSG_Q", Creds(p), Tasks(p), m, proc[p].maps)
    IN  /\ msg[m].stage = "new"
        /\ PlainHook(G)
        /\ msg' = [msg EXCEPT ![m].stage = IF G.rc = OK THEN "sent" ELSE "done"]
        /\ UNCHANGED <<attached, took>>

\* No receiver waits, or none may have the message: the kernel queues it.
Enqueue(m) ==
    /\ msg[m].stage = "sent"
    /\ msg' = [msg EXCEPT ![m].stage = "queued"]
    /\ UNCHANGED <<vars, attached, took>>

\* __mq_msgrcv in process p: provenance_msg_queue_msgrcv for receiver q, which
\* is p itself or waits for the message p sends, provenance_mq_timedreceive.
MqMsgrcv(m, p, q) ==
    LET G == Uses(GetTask(g, p), "RL_RCV_MSG_Q", m, Tasks(p), Creds(q), proc[p].maps)
    IN  /\ \/ msg[m].stage = "queued" /\ p = q /\ Idle(p)
           \/ msg[m].stage = "sent" /\ p = msg[m].by
        /\ PlainHook(G)
        /\ msg' = IF G.rc = OK THEN [msg EXCEPT ![m].stage = "done", ![m].to = q] ELSE msg
        /\ took' = IF G.rc = OK /\ p = q THEN [took EXCEPT ![p] = @ \cup {m}] ELSE took
        /\ UNCHANGED attached

-----------------------------------------------------------------------------
(* Shared memory *)

\* provenance_shm_alloc_security: returns 0 whatever the relations return.
ShmAlloc(p, mem) ==
    LET G0 == Enter(g, p, mem)
        s  == G0.next
        G1 == Generates(Alloc(G0, "ENT_SHM"), "RL_SH_CREATE_READ", Creds(p), Tasks(p), s, proc[p].maps)
        G2 == ThenGenerates(G1, TRUE, "RL_SH_CREATE_WRITE", Creds(p), Tasks(p), s, proc[p].maps)
    IN  /\ s \in Id /\ Cardinality(Segments) < MaxSegments
        /\ Hook(IF mem THEN Start(G2) ELSE [G0 EXCEPT !.rc = ENOMEM])
        /\ live' = IF mem THEN live \cup {s} ELSE live
        /\ UNCHANGED <<proc, imode, msg, attached, took>>

\* provenance_shm_free_security, once the segment is attached nowhere.
ShmFree(s) ==
    /\ \A p \in Proc : <<p, s>> \notin attached
    /\ Hook(Start(RecordTerminate(g, "RL_FREED", s)))
    /\ live' = live \ {s}
    /\ UNCHANGED <<proc, imode, msg, attached, took>>

\* provenance_shm_shmat
ShmShmat(p, s, rdonly, mem) ==
    LET G1 == Uses(Enter(g, p, mem), "RL_SH_ATTACH_READ", s, Tasks(p), Creds(p), proc[p].maps)
        G  == ThenGenerates(G1, ~rdonly, "RL_SH_ATTACH_WRITE", Creds(p), Tasks(p), s, proc[p].maps)
    IN  /\ PlainHook(G)
        /\ attached' = IF G.rc = OK THEN attached \cup {<<p, s>>} ELSE attached
        /\ UNCHANGED <<msg, took>>

\* provenance_shm_shmdt
ShmShmdt(p, s, mem) ==
    /\ <<p, s>> \in attached
    /\ PlainHook(Start(Generates(Enter(g, p, mem), "RL_SHMDT", Creds(p), Tasks(p), s, proc[p].maps)))
    /\ attached' = attached \ {<<p, s>>}
    /\ UNCHANGED <<msg, took>>

-----------------------------------------------------------------------------
\* The task of each process, then their credentials.
Init ==
    LET types == [k \in 1..(2 * NProc) |-> IF k <= NProc THEN "ACT_TASK" ELSE "ENT_PROC"]
    IN  /\ InitConfig
        /\ g = InitGraph(types)
        /\ live = 1..Len(types)
        /\ imode = [i \in Id |-> 0]
        /\ proc = [p \in Proc |-> [task |-> p, cred |-> NProc + p, exe |-> NoId, maps |-> <<>>]]
        /\ msg = [i \in Id |-> NoMsg]
        /\ attached = {}
        /\ took = [p \in Proc |-> {}]

HookNext ==
    \E mem \in MemOK :
        \/ \E p \in Proc : Idle(p) /\ MsgAlloc(p, mem)
        \/ \E m \in Id : msg[m].stage \in {"queued", "done"} /\ MsgFree(m)
        \/ \E m \in Id : MqMsgsnd(m, mem)
        \/ \E m \in Id : Enqueue(m)
        \/ \E m \in Id, p, q \in Proc : MqMsgrcv(m, p, q)
        \/ \E p \in ShmProcs : Idle(p) /\ ShmAlloc(p, mem)
        \/ \E s \in Segments : ShmFree(s)
        \/ \E p \in ShmProcs, s \in Segments, rdonly \in BOOLEAN : Idle(p) /\ ShmShmat(p, s, rdonly, mem)
        \/ \E p \in ShmProcs, s \in Segments : Idle(p) /\ ShmShmdt(p, s, mem)

Next == HookNext \/ (ConfigNext /\ UNCHANGED <<msg, attached, took>>)

Spec == Init /\ [][Next]_ipcVars

-----------------------------------------------------------------------------
(* Properties of the IPC hooks *)

\* What a process takes from a queue is in the past of whatever it sends later:
\* while everything is captured, a message that is created or sent descends in
\* the graph from every message its sender had taken, whatever edges and
\* versions were compressed in between (__mq_msgrcv, __mq_msgsnd,
\* provenance_msg_msg_alloc_security, record_relation).
ForwardedLineage ==
    [][\A m \in Id : msg'[m].stage \in {"new", "sent"} \ {msg[m].stage} /\ confs = 0 =>
          \A k \in took[msg'[m].by] : \E v \in Descendants(g'.edges, k) : v[1] = m]_ipcVars
=============================================================================
