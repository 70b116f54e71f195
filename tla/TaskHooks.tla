----------------------------- MODULE TaskHooks ------------------------------
(***************************************************************************)
(* The life of processes: the hooks on tasks, on credentials and on        *)
(* program execution.                                                      *)
(*                                                                         *)
(* A process is a task node and a credentials node; threads share their    *)
(* credentials.  New credentials are prepared first (prep) and installed   *)
(* or dropped later; an execve in progress has a binary (bprm).            *)
(***************************************************************************)
EXTENDS Capture

CONSTANTS Files,        \* the i_mode of each file there is
          FirstMaps,    \* shared mappings of the first process
          PgidProcs,    \* processes whose process group is set and read
          Writers       \* processes that write logs and disclose nodes

ASSUME TaskHooksAssumption ==
    /\ NProc > 0
    /\ Files \in Seq(DOMAIN Kind) /\ Len(Files) + 2 <= MaxId
    /\ PgidProcs \subseteq Proc /\ Writers \subseteq Proc
    /\ FirstMaps \in Seq(Mapping) /\ \A k \in DOMAIN FirstMaps : FirstMaps[k].file \in 1..Len(Files)

VARIABLES prep,     \* credentials process p prepares, or NoId
          bprm      \* the binary process p is about to execute

taskVars == <<vars, prep, bprm>>

NoBinary == [file |-> NoId, stage |-> "none"]
Binary == [file : Id \cup {NoId}, stage : {"none", "set", "checked", "mapped"}]
NoProcess == [task |-> NoId, cred |-> NoId, exe |-> NoId, maps |-> <<>>]

\* The types of the variables; a process that runs has both its nodes.
TaskTypeOK ==
    /\ CaptureTypeOK
    /\ prep \in [Proc -> Id \cup {NoId}]
    /\ bprm \in [Proc -> Binary]
    /\ \A p \in Running : Tasks(p) \in live /\ Creds(p) \in live

\* The hook leaves graph G and does not fail: what the kernel does next.
Ok(G) == G.rc >= 0

-----------------------------------------------------------------------------
(* Tasks *)

\* provenance_task_alloc in fork or clone: the new process q has the prepared
\* credentials, or shares those of p if it is a thread.
TaskAlloc(p, q, thread) ==
    LET t  == Tasks(p)
        G1 == UsesTwo(Alloc(g, "ACT_TASK"), "RL_PROC_READ", Creds(p), t)
    IN  /\ q \notin Running /\ bprm[p] = NoBinary
        /\ thread \/ prep[p] # NoId
        /\ g.next \in Id
        /\ Hook(Start(Informs(G1, "RL_CLONE", t, g.next)))
        /\ live' = live \cup {g.next}
        /\ proc' = [proc EXCEPT ![q] = [proc[p] EXCEPT !.task = g.next,
                                        !.cred = IF thread THEN @ ELSE prep[p]]]
        /\ prep' = IF thread THEN prep ELSE [prep EXCEPT ![p] = NoId]
        /\ UNCHANGED <<imode, bprm>>

\* provenance_task_free: the last reference to the task of p is gone.
TaskFree(p) ==
    /\ prep[p] = NoId /\ bprm[p] = NoBinary
    /\ Hook(Start(RecordTerminate(g, "RL_TERMINATE_TASK", Tasks(p))))
    /\ live' = live \ {Tasks(p)}
    /\ proc' = [proc EXCEPT ![p] = NoProcess]
    /\ UNCHANGED <<imode, prep, bprm>>

\* provenance_task_setpgid and provenance_task_getpgid on process q.  That
\* setpgid writes the group of q's credentials is a WriteTarget here: a capture
\* target may match them differently afterwards.
TaskSetpgid(p, q, mem) ==
    /\ PlainHook(Generates(Enter(g, p, mem), "RL_SETGID", Creds(p), Tasks(p), Creds(q), proc[p].maps))
    /\ UNCHANGED <<prep, bprm>>
TaskGetpgid(p, q, mem) ==
    /\ PlainHook(Uses(Enter(g, p, mem), "RL_GETGID", Creds(q), Tasks(p), Creds(p), proc[p].maps))
    /\ UNCHANGED <<prep, bprm>>

\* prov_write_log and prov_write_logp, which also switches propagation on: the
\* task becomes tracked and gets its log entry.  record_log writes the relation
\* without a new version of the task.  The buffer of the caller is readable.
WriteLog(p, propagate, mem) ==
    LET t  == Tasks(p)
        G0 == [g EXCEPT !.node[t].trk = TRUE, !.node[t].prp = @ \/ propagate]
        s  == g.next
    IN  /\ s \in Id
        /\ PlainHook(IF mem THEN WriteRelation(Alloc(G0, "ENT_STR"), "RL_LOG", s, NewNode("ENT_STR"), t)
                     ELSE [G0 EXCEPT !.rc = ENOMEM])
        /\ UNCHANGED <<prep, bprm>>

\* Mutant of Disclose: the parent is marked but not written.
DiscloseNodeOnly(p, mem) ==
    LET c == Creds(p)
        d == g.next
        G == Alloc(g, "ENT_DISC")
    IN  /\ d \in Id
        /\ PlainHook(IF mem THEN [G EXCEPT !.written = @ \cup Emitted(d, G.node[d]),
                                           !.node[c].ep = epoch, !.node[d].ep = epoch, !.rc = OK]
                     ELSE [g EXCEPT !.rc = ENOMEM])
        /\ UNCHANGED <<prep, bprm>>

\* prov_write_node: the credentials of p are written, as the parent, and then
\* the node that p discloses, with an identifier of its own.  No filter applies.
Disclose(p, mem) ==
    LET c == Creds(p)
        d == g.next
        G == Alloc(g, "ENT_DISC")
    IN  /\ d \in Id
        /\ PlainHook(IF mem THEN [G EXCEPT !.written = @ \cup Emitted(c, g.node[c]) \cup Emitted(d, G.node[d]),
                                           !.node[c].ep = epoch, !.node[d].ep = epoch, !.rc = OK]
                     ELSE [g EXCEPT !.rc = ENOMEM])
        /\ UNCHANGED <<prep, bprm>>

-----------------------------------------------------------------------------
(* Credentials *)

\* provenance_cred_prepare.  If it fails the kernel drops the new credentials.
CredPrepare(p, mem) ==
    LET c == g.next
        G == IF mem THEN Generates(Alloc(g, "ENT_PROC"), "RL_CLONE_MEM", Creds(p), Tasks(p), c, proc[p].maps)
             ELSE [g EXCEPT !.rc = ENOMEM]
    IN  /\ prep[p] = NoId /\ c \in Id
        /\ Hook(G)
        /\ live' = IF mem THEN live \cup {c} ELSE live
        /\ prep' = IF Ok(G) THEN [prep EXCEPT ![p] = c] ELSE prep
        /\ UNCHANGED <<proc, imode, bprm>>

\* The prepared credentials of p become its own, or are dropped.
Install(p, ok) ==
    /\ proc' = IF ok THEN [proc EXCEPT ![p].cred = prep[p]] ELSE proc
    /\ prep' = [prep EXCEPT ![p] = NoId]

\* provenance_task_fix_setuid in setuid, then commit_creds or abort_creds.
TaskFixSetuid(p) ==
    LET G == Generates(GetTask(g, p), "RL_SETUID", Creds(p), Tasks(p), prep[p], proc[p].maps)
    IN  /\ prep[p] # NoId /\ bprm[p] = NoBinary
        /\ Hook(G)
        /\ Install(p, Ok(G))
        /\ UNCHANGED <<imode, live, bprm>>

\* commit_creds or abort_creds with no hook of this module (setgid, capset).
CommitCreds(p, ok) ==
    /\ prep[p] # NoId /\ bprm[p] = NoBinary
    /\ Install(p, ok)
    /\ UNCHANGED <<g, confVars, imode, live, calls, confs, bprm>>

\* provenance_cred_free, once nothing refers to the credentials.
CredFree(c) ==
    /\ g.node[c].type = "ENT_PROC"
    /\ \A p \in Proc : Creds(p) # c /\ prep[p] # c
    /\ Hook(Start(RecordTerminate(g, "RL_TERMINATE_PROC", c)))
    /\ live' = live \ {c}
    /\ UNCHANGED <<proc, imode, prep, bprm>>

-----------------------------------------------------------------------------
(* Program execution *)

\* An execve goes on with binary b, or fails and drops the new credentials.
Proceed(p, ok, b) ==
    /\ bprm' = [bprm EXCEPT ![p] = IF ok THEN b ELSE NoBinary]
    /\ prep' = IF ok THEN prep ELSE [prep EXCEPT ![p] = NoId]

\* Mutant of BprmSetCreds: the two ends of the relation are swapped.
BprmSetCredsBackwards(p, i, mem) ==
    LET G == Derives(Start(GetInode(g, i, mem)), "RL_EXEC", prep[p], i)
    IN  /\ prep[p] # NoId /\ bprm[p].stage \in {"none", "checked"}
        /\ PlainHook(G)
        /\ Proceed(p, Ok(G), [file |-> i, stage |-> "set"])

\* provenance_bprm_set_creds, once for a binary and again for its interpreter.
BprmSetCreds(p, i, mem) ==
    LET n  == prep[p]
        G0 == Start(GetInode(g, i, mem))
        G  == IF G0.node[i].opq THEN [G0 EXCEPT !.node[n].opq = TRUE] ELSE Derives(G0, "RL_EXEC", i, n)
    IN  /\ n # NoId /\ bprm[p].stage \in {"none", "checked"}
        /\ PlainHook(G)
        /\ Proceed(p, Ok(G), [file |-> i, stage |-> "set"])

\* record_args: one argument and one environment string.  What record_arg
\* returns is ignored.
RecordArg(G, t, ntype, type) ==
    IF G.next \in Id THEN RecordRelation(Alloc(G, ntype), type, G.next, t) ELSE G
RecordArgs(G, t, mem) ==
    IF ~G.node[t].trk /\ ~policy.all THEN Start(G)
    ELSE IF ~mem THEN [G EXCEPT !.rc = ENOMEM]
    ELSE Start(RecordArg(RecordArg(G, t, "ENT_ARG", "RL_ARG"), t, "ENT_ENV", "RL_ENV"))

\* Mutant of BprmCheckSecurity: the check on the opaque binary is missing.
BprmCheckAnyBinary(p, mem) ==
    LET G == RecordArgs(g, prep[p], mem)
    IN  /\ bprm[p].stage = "set"
        /\ PlainHook(G)
        /\ Proceed(p, Ok(G), [bprm[p] EXCEPT !.stage = "checked"])

\* provenance_bprm_check_security
BprmCheckSecurity(p, mem) ==
    LET n  == prep[p]
        i  == bprm[p].file
        G0 == [g EXCEPT !.node[n].trk = @ \/ g.node[i].trk]
        G  == IF g.node[i].opq
              THEN Start([g EXCEPT !.node[n].opq = TRUE, !.node[Tasks(p)].opq = TRUE])
              ELSE RecordArgs(G0, n, mem)
    IN  /\ bprm[p].stage = "set"
        /\ PlainHook(G)
        /\ Proceed(p, Ok(G), [bprm[p] EXCEPT !.stage = "checked"])

\* The kernel gives the process its new memory: the mappings are gone.
ExecMmap(p) ==
    /\ bprm[p].stage = "checked"
    /\ proc' = [proc EXCEPT ![p].maps = <<>>, ![p].exe = bprm[p].file]
    /\ bprm' = [bprm EXCEPT ![p].stage = "mapped"]
    /\ UNCHANGED <<g, confVars, imode, live, calls, confs, prep>>

\* provenance_bprm_committing_creds, then commit_creds.
BprmCommittingCreds(p, mem) ==
    LET c  == Creds(p)
        G0 == RecordNodeName(GetCred(GetTask(g, p), p, mem), c, FALSE, mem)
    IN  /\ bprm[p].stage = "mapped"
        /\ Hook(Start(Generates(G0, "RL_EXEC_TASK", c, Tasks(p), prep[p], proc[p].maps)))
        /\ Install(p, TRUE)
        /\ bprm' = [bprm EXCEPT ![p] = NoBinary]
        /\ UNCHANGED <<imode, live>>

\* No handler takes the binary: execve fails.
AbortExec(p) ==
    /\ bprm[p].stage = "checked"
    /\ Proceed(p, FALSE, NoBinary)
    /\ UNCHANGED vars

-----------------------------------------------------------------------------
\* The files, then the task and the credentials of the first process, which
\* executes no file yet.
FirstTask == Len(Files) + 1
FirstCred == Len(Files) + 2
Init ==
    LET nf    == Len(Files)
        types == [k \in 1..(nf + 2) |-> IF k <= nf THEN "ENT_INODE_UNKNOWN"
                                        ELSE IF k = FirstTask THEN "ACT_TASK" ELSE "ENT_PROC"]
    IN  /\ InitConfig
        /\ g = InitGraph(types)
        /\ live = 1..Len(types)
        /\ imode = [i \in Id |-> IF i \in 1..nf THEN Files[i] ELSE 0]
        /\ proc = [p \in Proc |-> IF p = 1 THEN [task |-> FirstTask, cred |-> FirstCred,
                                                 exe |-> NoId, maps |-> FirstMaps]
                                  ELSE NoProcess]
        /\ prep = [p \in Proc |-> NoId]
        /\ bprm = [p \in Proc |-> NoBinary]

HookNext ==
    \/ \E p \in Running, mem \in MemOK :
        \/ \E q \in Proc, thread \in BOOLEAN : TaskAlloc(p, q, thread)
        \/ Cardinality(Running) > 1 /\ TaskFree(p)
        \/ \E q \in Running \cap PgidProcs : prep[p] = NoId /\ TaskSetpgid(p, q, mem)
        \/ \E q \in Running \cap PgidProcs : prep[p] = NoId /\ TaskGetpgid(p, q, mem)
        \/ \E propagate \in BOOLEAN : p \in Writers /\ prep[p] = NoId /\ WriteLog(p, propagate, mem)
        \/ p \in Writers /\ prep[p] = NoId /\ Disclose(p, mem)
        \/ CredPrepare(p, mem)
        \/ TaskFixSetuid(p)
        \/ \E ok \in BOOLEAN : CommitCreds(p, ok)
        \/ \E i \in Inodes : BprmSetCreds(p, i, mem)
        \/ BprmCheckSecurity(p, mem)
        \/ ExecMmap(p)
        \/ BprmCommittingCreds(p, mem)
        \/ AbortExec(p)
    \/ \E c \in live : CredFree(c)

Next == HookNext \/ (ConfigNext /\ UNCHANGED <<prep, bprm>>)

Spec == Init /\ [][Next]_taskVars

-----------------------------------------------------------------------------
(* Properties of the task hooks *)

\* Nothing about a process is lost: while everything is captured, the
\* credentials of each running process descend in the graph from the file it
\* executes, and its task and credentials from those of the first process,
\* through any sequence of fork, clone, setuid and execve
\* (provenance_cred_prepare, _task_alloc, _task_fix_setuid, _bprm_set_creds and
\* _bprm_committing_creds together).
ProcessLineage ==
    confs = 0 => \A p \in Running :
        LET ids(i) == {v[1] : v \in Descendants(g.edges, i)} \cup {i}
        IN  /\ Creds(p) \in ids(FirstCred) /\ Tasks(p) \in ids(FirstTask)
            /\ proc[p].exe # NoId /\ bprm[p] = NoBinary => Creds(p) \in ids(proc[p].exe)

\* Once a binary that is opaque has passed the check, the execve leaves no
\* trace: neither the arguments nor the change of credentials is recorded ("we
\* do not track any of the relations" of provenance_bprm_committing_creds).
OpaqueExec ==
    [][\A p \in Proc :
          bprm[p].file # NoId /\ bprm'[p] # bprm[p] /\ g.node[bprm[p].file].opq
          /\ bprm[p].stage \in {"set", "mapped"}
          => g'.edges = g.edges]_taskVars
=============================================================================
