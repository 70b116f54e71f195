------------------------------ MODULE Locking -------------------------------
(***************************************************************************)
(* The hooks as several threads run them at once, and those that come in   *)
(* an interrupt, of a packet or a signal: the spinlock of a node           *)
(* (prov_lock), the steps of record_relation, of __write_relation and of   *)
(* __write_node between which other threads run, and the nodes that hooks  *)
(* change without their lock.                                              *)
(*                                                                         *)
(* Everything is tracked, nothing is filtered or refused, nodes and edges  *)
(* are compressed, and no node is written twice; Record is about the rest. *)
(* The stream is the set of what was written.                              *)
(***************************************************************************)
EXTENDS Naturals, Sequences, FiniteSets, SequencesExt

CONSTANTS Thread,     \* threads of processes
          Inode,      \* inodes: files, pipes and sockets
          Plans,      \* the runs considered: the hook and credentials of each thread,
                      \* and the hooks that may come in an interrupt
          Mapped,     \* the inodes each credentials' process has mapped shared
          Peer,       \* the inode of a socket's peer
          Socket,     \* a new socket
          MaxIrqs     \* bound: interrupts

CredsOf(plans) == UNION {{p[t].cred : t \in Thread} : p \in plans}
Cred == CredsOf(Plans)
Node == Inode \cup Cred \cup Thread \cup {"machine"}
Actor == Thread \cup {"irq"}

ASSUME LockingAssumption ==
    /\ MaxIrqs \in Nat
    /\ Mapped \in [Cred -> SUBSET Inode]
    /\ Cardinality(Node) = Cardinality(Inode) + Cardinality(Cred) + Cardinality(Thread) + 1

VARIABLES plan,    \* the hooks and the credentials
          node,    \* the nodes: version and flags
          lock,    \* the holder of each node's lock
          run,     \* what each actor has yet to do
          on,      \* the thread the interrupt came upon
          nodes,   \* the stream: node versions
          rels,    \* the stream: relations
          sent,    \* node versions from which a relation was written
          late,    \* nodes that got a relation into a version of sent
          irqs     \* how many interrupts there were

vars == <<plan, node, lock, run, on, nodes, rels, sent, late, irqs>>

-----------------------------------------------------------------------------
(* What a hook does, as a list of operations.  A thread's own task node is   *)
(* named after the thread.                                                   *)

Lock(n, irq) == [op |-> "lock", n |-> n, irq |-> irq]
Unlock(n, irq) == [op |-> "unlock", n |-> n, irq |-> irq]
Rel(type, from, to) == [op |-> "rel", type |-> type, from |-> from, n |-> to]
Link(t) == [op |-> "link", n |-> t]
Name(n) == [op |-> "name", n |-> n]
Initialize(n) == [op |-> "init", n |-> n]
Mark(n, flag) == [op |-> "mark", n |-> n, flag |-> flag]

\* current_update_shst for the credentials c, with the files M that the current
\* process has mapped: it holds no lock of these.
ShstWrite(c, M) == [i \in 1..Cardinality(M) |-> Rel("sh_write", c, SetToSeq(M)[i])]
ShstRead(c, M) == [i \in 1..Cardinality(M) |-> Rel("sh_read", SetToSeq(M)[i], c)]

Uses(type, e, t, c, M) ==
    <<Rel(type, e, t), Link(t), Rel("proc_write", t, c)>> \o ShstWrite(c, M)
Generates(type, c, t, e) ==
    ShstRead(c, Mapped[c]) \o <<Rel("proc_read", c, t), Link(t), Rel(type, t, e)>>

\* get_cred_provenance, get_task_provenance(true), get_file_provenance(file, true).
GetCred(c) == <<Name(c), Lock(c, TRUE), Unlock(c, TRUE)>>
GetTask(t) == <<Link(t)>>
GetFile(i) == <<Initialize(i), Name(i), Lock(i, TRUE), Unlock(i, TRUE)>>

\* Mutant of Both: the lock of the inode is forgotten.
BothCred(c, i, body) == <<Lock(c, TRUE)>> \o body \o <<Unlock(c, TRUE)>>

\* The section of most hooks: the credentials, then the inode.
Both(c, i, body) ==
    <<Lock(c, TRUE), Lock(i, FALSE)>> \o body \o <<Unlock(i, FALSE), Unlock(c, TRUE)>>

\* file_permission with MAY_READ and with MAY_WRITE.
Read(t, c, i) ==
    GetCred(c) \o GetTask(t) \o GetFile(i) \o Both(c, i, Uses("read", i, t, c, Mapped[c]))
Write(t, c, i) ==
    GetCred(c) \o GetTask(t) \o GetFile(i) \o Both(c, i, Generates("write", c, t, i))

\* file_splice_pipe_to_pipe: two inodes, and not the credentials.
Splice(t, c, in, out) ==
    GetCred(c) \o GetTask(t) \o GetFile(in) \o GetFile(out)
    \o <<Lock(in, TRUE), Lock(out, FALSE)>>
    \o Uses("splice_in", in, t, c, Mapped[c]) \o Generates("splice_out", c, t, out)
    \o <<Unlock(out, FALSE), Unlock(in, TRUE)>>

\* kernel_read_file.
Load(t, i) ==
    GetTask(t) \o GetFile(i)
    \o <<Lock(i, TRUE), Rel("load_file", i, t), Rel("load", t, "machine"), Unlock(i, TRUE)>>

\* socket_sendmsg to a Unix peer, whose inode is not locked.
SendMsg(t, c, s) ==
    GetCred(c) \o GetTask(t)
    \o Both(c, s, Append(Generates("snd_msg", c, t, s), Rel("rcv_unix", s, Peer[s])))

\* Mutant of MaySend: the inode is locked first.
MaySendSwapped(c, s) ==
    <<Lock(s, TRUE), Lock(c, FALSE), Rel("snd_unix", c, s), Unlock(c, FALSE), Unlock(s, TRUE)>>

\* unix_may_send: the credentials of the sending socket's creator, and the inode
\* of the other.
MaySend(c, s) == Both(c, s, <<Rel("snd_unix", c, s)>>)

\* file_send_sigiotask: the task t that is signalled and its credentials c, but
\* the files M mapped by the process that runs.
SigIO(t, c, i, M) == Both(c, i, Uses("file_sigio", i, t, c, M))

\* socket_sock_rcv_skb.
RcvSkb(s) == <<Lock(s, TRUE), Rel("rcv_packet", "packet", s), Unlock(s, TRUE)>>

\* The hook h, a record, when thread t with credentials c runs or is interrupted.
Script(t, c, h) ==
    CASE h.hook = "read" -> Read(t, c, h.i)
      [] h.hook = "write" -> Write(t, c, h.i)
      [] h.hook = "splice" -> Splice(t, c, h.i, h.o)
      [] h.hook = "load" -> Load(t, h.i)
      [] h.hook = "sendmsg" -> SendMsg(t, c, h.i)
      [] h.hook = "may_send" -> MaySend(c, h.i)
      [] h.hook = "sigio" -> SigIO(h.o, plan[h.o].cred, h.i, Mapped[c])
      [] h.hook = "rcv_skb" -> RcvSkb(h.i)

-----------------------------------------------------------------------------
(* Steps *)

Idle == [todo |-> <<>>, at |-> "start", old |-> 0, rec |-> FALSE]

\* The nodes have taken part in earlier hooks: they are recorded, and the inodes
\* have passed information on.  The socket is new.  It has no path to be named after.
Init ==
    /\ plan \in Plans
    /\ node = [n \in Node |->
                 [v |-> 0, out |-> n \in Inode, rec |-> n # Socket, init |-> n # Socket,
                  named |-> n \in Thread \cup {"machine", Socket}, kern |-> n \notin Thread,
                  prev |-> <<>>]]
    /\ lock = [n \in Node |-> {}]
    /\ run = [a \in Actor |-> IF a = "irq" THEN Idle
                              ELSE [Idle EXCEPT !.todo = Script(a, plan[a].cred, plan[a].does)]]
    /\ on = {}
    /\ nodes = {<<n, 0>> : n \in {m \in Node : node[m].rec}}
    /\ rels = {}
    /\ sent = {<<i, 0>> : i \in Inode}
    /\ late = {}
    /\ irqs = 0

Op(a) == Head(run[a].todo)

\* Interrupts are off for a thread inside an irqsave section.
IrqOff(a) == \E i \in DOMAIN run[a].todo :
                /\ run[a].todo[i].op = "unlock" /\ run[a].todo[i].irq
                /\ \A j \in 1..(i - 1) : run[a].todo[j].op # "lock" \/ ~run[a].todo[j].irq

\* An actor can step that has something to do and is not interrupted.
Runs(a, op, at) ==
    /\ run[a].todo # <<>> /\ a \notin on
    /\ Op(a).op = op /\ run[a].at = at

Done(a) == run' = [run EXCEPT ![a].todo = Tail(@), ![a].at = "start"]
GoTo(a, at) == run' = [run EXCEPT ![a].at = at]
Expand(a, ops) == run' = [run EXCEPT ![a].todo = ops \o Tail(@)]

\* spin_lock: it waits until the lock is free, also when the holder is itself.
DoLock(a) ==
    /\ Runs(a, "lock", "start")
    /\ lock[Op(a).n] = {}
    /\ lock' = [lock EXCEPT ![Op(a).n] = {a}]
    /\ Done(a)
    /\ UNCHANGED <<plan, node, on, nodes, rels, sent, late, irqs>>

DoUnlock(a) ==
    /\ Runs(a, "unlock", "start")
    /\ lock' = [lock EXCEPT ![Op(a).n] = {}]
    /\ Done(a)
    /\ on' = IF a = "irq" /\ Len(run[a].todo) = 1 THEN {} ELSE on
    /\ UNCHANGED <<plan, node, nodes, rels, sent, late, irqs>>

\* set_initialized, set_name_recorded, set_kernel_recorded.
DoMark(a) ==
    /\ Runs(a, "mark", "start")
    /\ node' = [node EXCEPT ![Op(a).n] =
                   CASE Op(a).flag = "init" -> [@ EXCEPT !.init = TRUE]
                     [] Op(a).flag = "named" -> [@ EXCEPT !.named = TRUE]
                     [] Op(a).flag = "kern" -> [@ EXCEPT !.kern = TRUE]]
    /\ Done(a)
    /\ UNCHANGED <<plan, lock, on, nodes, rels, sent, late, irqs>>

\* inode_init_provenance, record_node_name and record_kernel_link look at a flag
\* before they take the lock, or without one.
DoTest(a) ==
    /\ run[a].todo # <<>> /\ a \notin on
    /\ LET n == Op(a).n
       IN  \/ /\ Op(a).op = "init"
              /\ Expand(a, IF node[n].init THEN <<>>
                           ELSE <<Lock(n, FALSE), Mark(n, "init"), Unlock(n, FALSE)>>)
           \/ /\ Op(a).op = "name"
              /\ Expand(a, IF node[n].named \/ ~node[n].rec THEN <<>>
                           ELSE <<Lock(n, FALSE), Rel("named", "path", n), Mark(n, "named"),
                                  Unlock(n, FALSE)>>)
           \/ /\ Op(a).op = "link"
              /\ Expand(a, IF node[n].kern \/ ~node[n].rec THEN <<>>
                           ELSE <<Rel("ran_on", "machine", n), Mark(n, "kern")>>)
    /\ UNCHANGED <<plan, node, lock, on, nodes, rels, sent, late, irqs>>
-----------------------------------------------------------------------------
(* record_relation *)

\* Relations that leave their receiver's version alone (filter_update_node).
KeepsVersion(type) == type = "named"

\* The relation equal to the last one into its receiver is dropped.  Names and
\* packets are new nodes each time.
Compress(a) ==
    LET r == Op(a)
        last == <<r.type, r.from>>
    IN  /\ Runs(a, "rel", "start")
        /\ IF r.from \in Node /\ node[r.n].prev = last
           THEN Done(a) /\ UNCHANGED node
           ELSE GoTo(a, "version") /\ node' = [node EXCEPT ![r.n].prev = last]
        /\ UNCHANGED <<plan, lock, on, nodes, rels, sent, late, irqs>>

\* __update_version: the test, and the copy of the old version.
UpdateVersion(a) ==
    LET n == Op(a).n
    IN  /\ Runs(a, "rel", "version")
        /\ IF ~node[n].out \/ KeepsVersion(Op(a).type)
           THEN GoTo(a, "out")
           ELSE run' = [run EXCEPT ![a].at = "bump", ![a].old = node[n].v, ![a].rec = node[n].rec]
        /\ UNCHANGED <<plan, node, lock, on, nodes, rels, sent, late, irqs>>

\* version++, clear_recorded, and the old version is written.
Bump(a) ==
    LET n == Op(a).n
    IN  /\ Runs(a, "rel", "bump")
        /\ node' = [node EXCEPT ![n].v = @ + 1, ![n].rec = FALSE]
        /\ nodes' = IF run[a].rec THEN nodes ELSE nodes \cup {<<n, run[a].old>>}
        /\ GoTo(a, "vmark")
        /\ UNCHANGED <<plan, lock, on, rels, sent, late, irqs>>

\* The steps of writing end n (__write_node): the mark, then the write.
WriteMark(a, n, at, next, skip) ==
    /\ Runs(a, "rel", at)
    /\ IF n \in Node /\ ~node[n].rec
       THEN GoTo(a, next) /\ node' = [node EXCEPT ![n].rec = TRUE]
       ELSE GoTo(a, skip) /\ UNCHANGED node
    /\ UNCHANGED <<plan, lock, on, nodes, rels, sent, late, irqs>>
WriteNode(a, n, at, next) ==
    /\ Runs(a, "rel", at)
    /\ nodes' = nodes \cup {<<n, node[n].v>>}
    /\ GoTo(a, next)
    /\ UNCHANGED <<plan, node, lock, on, rels, sent, late, irqs>>

Edge(type, from, to) == [type |-> type, from |-> from, to |-> to]

\* The relation between the versions, and clear_has_outgoing.
WriteVersion(a) ==
    LET n == Op(a).n
    IN  /\ Runs(a, "rel", "vrel")
        /\ rels' = rels \cup {Edge("version", <<n, run[a].old>>, <<n, node[n].v>>)}
        /\ GoTo(a, "clear")
        /\ UNCHANGED <<plan, node, lock, on, nodes, sent, late, irqs>>
Clear(a) ==
    /\ Runs(a, "rel", "clear")
    /\ node' = [node EXCEPT ![Op(a).n].out = FALSE]
    /\ run' = [run EXCEPT ![a].at = "out", ![a].old = 0, ![a].rec = FALSE]
    /\ UNCHANGED <<plan, lock, on, nodes, rels, sent, late, irqs>>

\* set_has_outgoing on the sender.
Outgoing(a) ==
    LET f == Op(a).from
    IN  /\ Runs(a, "rel", "out")
        /\ node' = IF f \in Node THEN [node EXCEPT ![f].out = TRUE] ELSE node
        /\ GoTo(a, "fmark")
        /\ UNCHANGED <<plan, lock, on, nodes, rels, sent, late, irqs>>

\* prepare_relation takes the identifiers of both ends, then the relation is written.
WriteRelation(a) ==
    LET r == Op(a)
        to == <<r.n, node[r.n].v>>
        from == <<r.from, IF r.from \in Node THEN node[r.from].v ELSE 0>>
    IN  /\ Runs(a, "rel", "rel")
        /\ rels' = IF r.from \in Node THEN rels \cup {Edge(r.type, from, to)} ELSE rels
        /\ sent' = sent \cup {from}
        /\ late' = IF to \in sent /\ ~KeepsVersion(r.type) THEN late \cup {r.n} ELSE late
        /\ Done(a)
        /\ UNCHANGED <<plan, node, lock, on, nodes, irqs>>

\* __update_version, then __write_relation of the relation itself.
Relation(a) ==
    \/ Compress(a)
    \/ UpdateVersion(a)
    \/ Bump(a)
    \/ WriteMark(a, Op(a).n, "vmark", "vnode", "vrel")
    \/ WriteNode(a, Op(a).n, "vnode", "vrel")
    \/ WriteVersion(a)
    \/ Clear(a)
    \/ Outgoing(a)
    \/ WriteMark(a, Op(a).from, "fmark", "fnode", "tmark")
    \/ WriteNode(a, Op(a).from, "fnode", "tmark")
    \/ WriteMark(a, Op(a).n, "tmark", "tnode", "rel")
    \/ WriteNode(a, Op(a).n, "tnode", "rel")
    \/ WriteRelation(a)

Step(a) == DoLock(a) \/ DoUnlock(a) \/ DoMark(a) \/ DoTest(a) \/ Relation(a)

\* An interrupt, which calls a hook, while thread t runs with interrupts on.
Arrive(t) ==
    /\ on = {} /\ irqs < MaxIrqs /\ ~IrqOff(t)
    /\ \E h \in plan.irq : run' = [run EXCEPT !["irq"] = [Idle EXCEPT !.todo = Script(t, plan[t].cred, h)]]
    /\ on' = {t}
    /\ irqs' = irqs + 1
    /\ UNCHANGED <<plan, node, lock, nodes, rels, sent, late>>

Next ==
    \/ \E a \in Actor : Step(a)
    \/ \E t \in Thread : Arrive(t)

Spec == Init /\ [][Next]_vars /\ \A a \in Actor : WF_vars(Step(a))

-----------------------------------------------------------------------------
(* Properties *)

\* The nodes that hook h changes without their lock when thread t runs.
BareOf(t, h) ==
    {"machine"}
    \cup (IF h.hook \in {"load", "may_send", "rcv_skb"} THEN {} ELSE Mapped[plan[t].cred])
    \cup (IF h.hook = "splice" THEN {plan[t].cred} ELSE {})
    \cup (IF h.hook = "sendmsg" THEN {Peer[h.i]} ELSE {})
    \cup (IF h.hook = "sigio" THEN {h.o} ELSE {})
Bare == UNION {BareOf(t, h) : <<t, h>> \in UNION {{t} \X ({plan[t].does} \cup plan.irq) : t \in Thread}}

Quiet(n) == lock[n] = {} /\ (n \in Thread => run[n].todo = <<>>)
VersionsOf(n) == {r \in rels : r.type = "version" /\ r.to[1] = n}

\* Hooks of several threads on the same nodes leave the graph as if they had run
\* one after the other, as far as the nodes are only changed under their lock: no
\* relation into a version that has passed information on, one relation between
\* each version and the next, and an end is in the stream before its relations.
LockedSound ==
    \A n \in Node \ Bare :
        /\ n \notin late
        /\ \A r \in rels : \A e \in {r.from, r.to} : e[1] = n => e \in nodes
        /\ Quiet(n) => VersionsOf(n) =
                          {Edge("version", <<n, k>>, <<n, k + 1>>) : k \in 0..(node[n].v - 1)}

Waits(a, u) == run[a].todo # <<>> /\ Op(a).op = "lock" /\ lock[Op(a).n] = {u}

\* Two splices in opposite directions, each with the pipe the other waits for.
OppositeSplices ==
    \E t, u \in Thread : /\ plan[t].does.hook = "splice" /\ plan[u].does.hook = "splice"
                         /\ Waits(t, u) /\ Waits(u, t)

\* Thread t is initialising n, or naming it: it holds the lock of n, and no other,
\* with interrupts on.
Exposed(t, n) ==
    /\ {m \in Node : lock[m] = {t}} = {n}
    /\ Op(t) \in {Mark(n, "init"), Mark(n, "named"), Unlock(n, FALSE)} \/ Op(t) = Rel("named", "path", n)

\* An interrupt upon such a thread waits for it, or for a thread that does.
IrqOnHolder ==
    \E t \in on, n \in Node : /\ Exposed(t, n)
                              /\ Waits("irq", t) \/ \E u \in Thread : Waits("irq", u) /\ Waits(u, t)

\* Every hook returns: the locks are taken in one order, credentials before
\* inodes, and what comes in an interrupt does not wait for the thread that was
\* interrupted, but for the two cases above.
HooksReturn ==
    \A a \in Actor : run[a].todo # <<>> ~> (run[a].todo = <<>> \/ OppositeSplices \/ IrqOnHolder)
=============================================================================
