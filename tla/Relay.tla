------------------------------- MODULE Relay --------------------------------
(***************************************************************************)
(* The way of a record from prov_write to the consumers: the boot buffers, *)
(* the hand-over to the relay once the machine and boot identifiers are    *)
(* known, the asynchronous drains and the relay channels (relay.c and      *)
(* provenance_relay.h; the machine_id, boot_id, channel and epoch files of *)
(* fs.c; machine.c).                                                       *)
(*                                                                         *)
(* Nothing here is protected by a lock, so every access of another         *)
(* thread's data is a step of its own.  A writer writes relations about    *)
(* one vertex; Owner says which writers hold the vertex's lock.  The       *)
(* per-CPU buffers of a relay channel are one bounded buffer.  Of the two  *)
(* identifiers records carry the boot identifier: the machine identifier   *)
(* goes the same way, except that tighten_identifier always overwrites it. *)
(***************************************************************************)
EXTENDS Naturals, Sequences, FiniteSets

CONSTANTS Writer,      \* threads that record
          Config,      \* processes that write the control files
          Shares,      \* ways to share the control files among them
          Vertex,      \* nodes, the machine's aside
          Long,        \* the nodes that are long entries
          Owner,       \* the writers that may write a node
          Extra,       \* names of channels a consumer may create
          MaxEntry,    \* entries of a boot buffer; 16384 and 512 in the code
          Capacity,    \* records a channel holds unread
          MaxRel,      \* bound: relations each writer writes
          MaxEpoch,    \* bound: epochs
          MaxConf,     \* bound: control file writes of each process
          SleepCovers  \* a drain's msleep(1000) outlasts an insertion under way, and
                       \* lets the consumer catch up

Class == {"short", "long"}            \* regular and long provenance entries
Handler == Config \cup {"init"}       \* who may run write_boot_buffer

ASSUME RelayAssumption ==
    /\ MaxEntry \in Nat \ {0} /\ Capacity \in Nat /\ Capacity >= MaxEntry
    /\ MaxRel \in Nat /\ MaxEpoch \in Nat /\ MaxConf \in Nat
    /\ SleepCovers \in BOOLEAN
    /\ "machine" \notin Vertex /\ "base" \notin Extra /\ "init" \notin Config
    /\ Long \subseteq Vertex \cup {"machine"} /\ "machine" \in Long
    /\ Shares \subseteq [Handler -> SUBSET {"boot", "machine", "channel", "epoch"}]
    /\ Owner \in [Vertex \cup {"machine"} -> SUBSET Writer]

ClassOf(n) == IF n \in Long THEN "long" ELSE "short"
Name == Extra \cup {"base"}
Stream == Name \X Class

VARIABLES id,       \* prov_boot_id and prov_machine_id
          ready,    \* relay_ready
          inited,   \* relay_initialized
          epoch,    \* the recording epoch
          mem,      \* the nodes in memory: identifier and epoch of recording
          thread,   \* what each writer is doing
          conf,     \* what each handler is doing, the files it writes, and whether it
                    \* began when another was at work
          head,     \* boot_buffer and long_boot_buffer; 0 is NULL
          buf,      \* the chain of boot buffers, by class
          freed,    \* positions in the chain that were freed
          drain,    \* the asynchronous task each handler scheduled, by class
          chans,    \* names on relay_list
          files,    \* names of relay files that exist
          sent,     \* all that was written to a stream
          unread,   \* how many of them are not consumed
          crashed,  \* the kernel oopsed or panicked
          since,    \* history: the epoch in which a channel began to get all records
          lost      \* history: streams that dropped a record

bufVars == <<head, buf, freed>>
chanVars == <<sent, unread, lost>>
vars == <<id, ready, inited, epoch, mem, thread, conf, bufVars, drain, chans, files, chanVars, crashed, since>>

\* A record; "no" tells it from every other one, and "begun" is the epoch in which
\* its writing began.  These two are not in the record the consumers get.
Empty == [no |-> <<>>, kind |-> "zero", n |-> "none", boot |-> 0, end |-> 0, ep |-> 0, begun |-> 0]
NewBuffer == [slot |-> [i \in 1..MaxEntry |-> Empty], nb |-> 0]
NoTask == [st |-> "none", at |-> 0, i |-> 0]

Init ==
    /\ id = [boot |-> 0, machine |-> 0] /\ ready = FALSE /\ inited = FALSE /\ epoch = 1
    /\ mem = [n \in Vertex \cup {"machine"} |-> [boot |-> 0, ep |-> 0]]
    /\ thread = [w \in Writer |-> [pc |-> "idle", n |-> "none", msg |-> Empty, at |-> 0, ep |-> 0,
                                 left |-> MaxRel]]
    /\ \E share \in Shares :
          conf = [h \in Handler |-> [pc |-> "idle", tmp |-> [k \in Class |-> 0], left |-> MaxConf,
                                     files |-> share[h], met |-> FALSE]]
    /\ head = [k \in Class |-> 1] /\ buf = [k \in Class |-> <<NewBuffer>>]
    /\ freed = [k \in Class |-> {}]
    /\ drain = [h \in Handler |-> [k \in Class |-> NoTask]]
    /\ chans = {} /\ files = {}
    /\ sent = [s \in Stream |-> <<>>] /\ unread = [s \in Stream |-> 0]
    /\ crashed = FALSE
    /\ since = [c \in Name |-> 0] /\ lost = {}

-----------------------------------------------------------------------------
(* Channels *)

Full(s) == unread[s] = Capacity

\* relay_write of r to the streams S: a full stream drops it.
RelayWrite(S, r) ==
    LET room == {s \in S : ~Full(s)}
    IN  /\ sent' = [s \in Stream |-> IF s \in room THEN Append(sent[s], r) ELSE sent[s]]
        /\ unread' = [s \in Stream |-> IF s \in room THEN unread[s] + 1 ELSE unread[s]]
        /\ lost' = lost \cup (S \ room)

\* A consumer reads what the two streams of its channel hold.
Consume(c) ==
    /\ \E k \in Class : unread[<<c, k>>] > 0
    /\ unread' = [s \in Stream |-> IF s[1] = c THEN 0 ELSE unread[s]]
    /\ UNCHANGED <<id, ready, inited, epoch, mem, thread, conf, bufVars, drain, chans, files,
                   sent, lost, crashed, since>>

\* The initcalls, relay_prov_init among them, are over before a process runs.
Userspace == inited /\ conf["init"].pc = "idle"

\* prov_write_channel and prov_create_channel.  A name that has a relay file
\* is refused; a failure to open the long one leaves the short one behind.
CreateChannel(h, c) ==
    /\ "channel" \in conf[h].files /\ Userspace /\ conf[h].pc = "idle" /\ conf[h].left > 0
    /\ c \notin files
    /\ files' = files \cup {c}
    /\ \/ chans' = chans \cup {c} /\ since' = [since EXCEPT ![c] = epoch]
       \/ UNCHANGED <<chans, since>>
    /\ conf' = [conf EXCEPT ![h].left = @ - 1]
    /\ UNCHANGED <<id, ready, inited, epoch, mem, thread, bufVars, drain, chanVars, crashed>>

\* prov_write_epoch
WriteEpoch(h) ==
    /\ "epoch" \in conf[h].files /\ Userspace /\ conf[h].pc = "idle" /\ conf[h].left > 0
    /\ epoch < MaxEpoch /\ epoch' = epoch + 1
    /\ conf' = [conf EXCEPT ![h].left = @ - 1]
    /\ UNCHANGED <<id, ready, inited, mem, thread, bufVars, drain, chans, files, chanVars,
                   crashed, since>>

-----------------------------------------------------------------------------
(* Writers *)

\* tighten_identifier
TightenIdentifier(b) == IF b = 0 THEN id.boot ELSE b

\* __write_node up to its call of prov_write or long_prov_write.
WriteNode(w, n) ==
    LET i == TightenIdentifier(mem[n].boot)
    IN  /\ mem' = [mem EXCEPT ![n] = [boot |-> i, ep |-> epoch]]
        /\ thread' = [thread EXCEPT ![w].pc = "check", ![w].n = n, ![w].ep = epoch, ![w].msg =
              [no |-> <<w, thread[w].left, "node">>, kind |-> "node", n |-> n, boot |-> i, end |-> i, ep |-> epoch,
               begun |-> epoch]]

\* Mutant of Begin: a node is recorded once, whatever the epoch.
BeginOnce(w, n) ==
    /\ thread[w].pc = "idle" /\ thread[w].left > 0 /\ w \in Owner[n]
    /\ \/ mem[n].ep = 0 /\ WriteNode(w, n)
       \/ /\ mem[n].ep # 0
          /\ thread' = [thread EXCEPT ![w].pc = "prepare", ![w].n = n, ![w].ep = epoch]
          /\ UNCHANGED mem
    /\ UNCHANGED <<id, ready, inited, epoch, conf, bufVars, drain, chans, files, chanVars, crashed, since>>

\* __write_relation begins: a node recorded in this epoch is not written again.
Begin(w, n) ==
    /\ thread[w].pc = "idle" /\ thread[w].left > 0 /\ w \in Owner[n]
    /\ \/ mem[n].ep < epoch /\ WriteNode(w, n)
       \/ /\ ~(mem[n].ep < epoch)
          /\ thread' = [thread EXCEPT ![w].pc = "prepare", ![w].n = n, ![w].ep = epoch]
          /\ UNCHANGED <<mem>>
    /\ UNCHANGED <<id, ready, inited, epoch, conf, bufVars, drain, chans, files, chanVars, crashed, since>>

\* prepare_relation: the relation copies the identifier of its end as it is, and
\* carries the epoch of this moment.
PrepareRelation(w) ==
    /\ thread[w].pc = "prepare"
    /\ thread' = [thread EXCEPT ![w].pc = "check", ![w].msg =
          [no |-> <<w, thread[w].left, "rel">>, kind |-> "rel", n |-> thread[w].n, boot |-> id.boot,
           end |-> mem[thread[w].n].boot, ep |-> epoch, begun |-> thread[w].ep]]
    /\ UNCHANGED <<id, ready, inited, epoch, mem, conf, bufVars, drain, chans, files, chanVars, crashed, since>>

MsgClass(w) == IF thread[w].msg.kind = "rel" THEN "short" ELSE ClassOf(thread[w].n)

\* Back from prov_write: after a node the relation follows.
Written(w) ==
    LET node == thread[w].msg.kind = "node"
    IN  thread' = [thread EXCEPT ![w].pc = IF node THEN "prepare" ELSE "idle",
                                 ![w].left = IF node THEN @ ELSE @ - 1,
                                 ![w].msg = Empty, ![w].at = 0]

\* What is copied out: a node as it is by now, the relation as it was prepared.
Outgoing(w) ==
    LET m == thread[w].msg
    IN  IF m.kind = "node" THEN [m EXCEPT !.boot = mem[m.n].boot, !.end = mem[m.n].boot] ELSE m

\* prov_write and long_prov_write with the relay ready: to every channel.
WriteLive(w) ==
    /\ thread[w].pc = "check" /\ ready
    /\ RelayWrite(chans \X {MsgClass(w)}, Outgoing(w))
    /\ Written(w)
    /\ UNCHANGED <<id, ready, inited, epoch, mem, conf, bufVars, drain, chans, files, crashed, since>>

\* The same with the relay not ready: the record goes to a boot buffer.
WriteBoot(w) ==
    /\ thread[w].pc = "check" /\ ~ready
    /\ thread' = [thread EXCEPT ![w].pc = "insert"]
    /\ UNCHANGED <<id, ready, inited, epoch, mem, conf, bufVars, drain, chans, files, chanVars,
                   crashed, since>>

\* insert_boot_buffer: walk to the last buffer, chain a new one when it is
\* full, store the record at nb_entry.  A NULL boot buffer is dereferenced,
\* a failed allocation panics.
Insert(w) ==
    /\ thread[w].pc = "insert"
    /\ LET k == MsgClass(w)
           last == Len(buf[k])
           full == buf[k][last].nb >= MaxEntry
           chain == IF full THEN Append(buf[k], NewBuffer) ELSE buf[k]
           here == Len(chain)
       IN  \/ /\ head[k] # 0
              /\ buf' = [buf EXCEPT ![k] = [chain EXCEPT ![here].slot[chain[here].nb + 1] = Outgoing(w)]]
              /\ thread' = [thread EXCEPT ![w].pc = "count", ![w].at = here]
              /\ UNCHANGED crashed
           \/ (head[k] = 0 \/ full) /\ crashed' = TRUE /\ UNCHANGED <<buf, thread>>
    /\ UNCHANGED <<id, ready, inited, epoch, mem, conf, head, freed, drain, chans, files, chanVars, since>>

\* insert_boot_buffer: nb_entry++.
Count(w) ==
    /\ thread[w].pc = "count"
    /\ buf' = [buf EXCEPT ![MsgClass(w)][thread[w].at].nb = @ + 1]
    /\ Written(w)
    /\ UNCHANGED <<id, ready, inited, epoch, mem, conf, head, freed, drain, chans, files, chanVars,
                   crashed, since>>

-----------------------------------------------------------------------------
(* Identifiers and the hand-over *)

\* prov_write_machine_id and prov_write_boot_id: an identifier is set once;
\* a 0, stored before it is refused, changes nothing.
SetId(h, f) ==
    /\ f \in conf[h].files /\ Userspace /\ conf[h].pc = "idle" /\ conf[h].left > 0
    /\ id[f] = 0
    /\ id' = [id EXCEPT ![f] = 1]
    /\ conf' = [conf EXCEPT ![h].pc = "handover", ![h].left = @ - 1,
                            ![h].met = @ \/ \E g \in Config \ {h} : conf[g].pc # "idle"]
    /\ UNCHANGED <<ready, inited, epoch, mem, thread, bufVars, drain, chans, files, chanVars,
                   crashed, since>>

\* relay_prov_init
RelayProvInit ==
    /\ ~inited
    /\ inited' = TRUE
    /\ chans' = {"base"} /\ files' = {"base"}
    /\ conf' = [conf EXCEPT !["init"].pc = "handover"]
    /\ UNCHANGED <<id, ready, epoch, mem, thread, bufVars, drain, chanVars, crashed, since>>

\* Mutant of Identified: the boot identifier is not waited for.
MachineIdentified == id.machine # 0 /\ inited

Identified == id.machine # 0 /\ id.boot # 0 /\ inited

\* write_boot_buffer begins: nothing until both identifiers are known; then
\* the relay is declared ready and the boot buffers are remembered.
HandOver(h) ==
    /\ conf[h].pc = "handover"
    /\ \/ /\ ~Identified
          /\ conf' = [conf EXCEPT ![h].pc = "idle"]
          /\ UNCHANGED <<ready, since>>
       \/ /\ Identified
          /\ ready' = TRUE
          /\ conf' = [conf EXCEPT ![h].pc = "schedule", ![h].tmp = head]
          /\ since' = [c \in Name |-> IF c \in chans /\ ~ready THEN epoch ELSE since[c]]
    /\ UNCHANGED <<id, inited, epoch, mem, thread, bufVars, drain, chans, files, chanVars, crashed>>

\* async_schedule of a drain; one of a NULL buffer ends at once.
TaskOn(b) == IF b = 0 THEN NoTask ELSE [st |-> "sleep", at |-> b, i |-> 0]

\* Mutant of Schedule: the boot buffers stay reachable for the writers.
ScheduleKeepsHead(h) ==
    /\ conf[h].pc = "schedule"
    /\ mem' = [mem EXCEPT !["machine"] = [boot |-> id.boot, ep |-> 0]]
    /\ RelayWrite({<<"base", "long">>}, [no |-> <<h, conf[h].left, "machine">>, kind |-> "node", n |-> "machine",
                                         boot |-> id.boot, end |-> id.boot, ep |-> epoch,
                                         begun |-> epoch])
    /\ drain' = [drain EXCEPT ![h] = [k \in Class |-> TaskOn(conf[h].tmp[k])]]
    /\ conf' = [conf EXCEPT ![h].pc = "idle"]
    /\ UNCHANGED <<id, ready, inited, epoch, thread, head, buf, freed, chans, files, crashed, since>>

\* write_boot_buffer ends: the global pointers are cleared, refresh_prov_machine,
\* the machine node is written, and two asynchronous drains are scheduled.
Schedule(h) ==
    /\ conf[h].pc = "schedule"
    /\ head' = [k \in Class |-> 0]
    /\ mem' = [mem EXCEPT !["machine"] = [boot |-> id.boot, ep |-> 0]]
    /\ RelayWrite({<<"base", "long">>}, [no |-> <<h, conf[h].left, "machine">>, kind |-> "node", n |-> "machine",
                                         boot |-> id.boot, end |-> id.boot, ep |-> epoch,
                                         begun |-> epoch])
    /\ drain' = [drain EXCEPT ![h] = [k \in Class |-> TaskOn(conf[h].tmp[k])]]
    /\ conf' = [conf EXCEPT ![h].pc = "idle"]
    /\ UNCHANGED <<id, ready, inited, epoch, thread, buf, freed, chans, files, crashed, since>>

-----------------------------------------------------------------------------
(* The asynchronous drains *)

Busy(k) == \E w \in Writer : thread[w].pc \in {"insert", "count"} /\ MsgClass(w) = k

\* __async_handle_boot_buffer has been run by the scheduler and has slept.
Awake(h, k) ==
    \/ drain[h][k].st = "run"
    \/ drain[h][k].st = "sleep" /\ (SleepCovers => ~Busy(k) /\ unread[<<"base", k>>] = 0)

\* The drain's buffers are another drain's too, or were.
Shared(h, k) ==
    \/ drain[h][k].at \in freed[k]
    \/ \E g \in Handler \ {h} : drain[g][k].st # "none"

\* What a drain reads; past the end of the array it is not a record.
Entry(k, b, i) == IF i <= MaxEntry THEN buf[k][b].slot[i] ELSE Empty

\* The drains complete the identifiers of an entry before they write it.
Tightened(r) == [r EXCEPT !.boot = TightenIdentifier(@), !.end = TightenIdentifier(@)]

\* Mutant of DrainEntry: a retry resumes after the entry that found no room.
DrainEntrySkips(h, k) ==
    LET t == drain[h][k]
        r == Tightened(Entry(k, t.at, t.i + 1))
    IN  /\ Awake(h, k) /\ ~Shared(h, k) /\ t.i < buf[k][t.at].nb
        /\ buf' = [buf EXCEPT ![k][t.at].slot[t.i + 1] = r]
        /\ RelayWrite({<<"base", k>>} \ {s \in Stream : Full(s)}, r)
        /\ drain' = [drain EXCEPT ![h][k] = [st |-> "run", at |-> t.at, i |-> t.i + 1]]
        /\ UNCHANGED <<id, ready, inited, epoch, mem, thread, conf, head, freed, chans, files,
                       crashed, since>>

\* Mutant of DrainEntry: the boot records are broadcast to every channel.
DrainEntryAll(h, k) ==
    LET t == drain[h][k]
        r == Tightened(Entry(k, t.at, t.i + 1))
        full == Full(<<"base", k>>)
    IN  /\ Awake(h, k) /\ ~Shared(h, k) /\ t.i < buf[k][t.at].nb
        /\ buf' = [buf EXCEPT ![k][t.at].slot[t.i + 1] = r]
        /\ \/ /\ ~full
              /\ RelayWrite(chans \X {k}, r)
              /\ drain' = [drain EXCEPT ![h][k] = [st |-> "run", at |-> t.at, i |-> t.i + 1]]
           \/ full /\ drain' = [drain EXCEPT ![h][k] = TaskOn(t.at)] /\ UNCHANGED chanVars
        /\ UNCHANGED <<id, ready, inited, epoch, mem, thread, conf, head, freed, chans, files, crashed, since>>

\* One entry of a buffer: written to the base channel, or, when that is full,
\* the task is scheduled anew for the whole buffer.
DrainEntry(h, k) ==
    LET t == drain[h][k]
        r == Tightened(Entry(k, t.at, t.i + 1))
        full == Full(<<"base", k>>)
    IN  /\ Awake(h, k) /\ ~Shared(h, k) /\ t.i < buf[k][t.at].nb
        /\ buf' = [buf EXCEPT ![k][t.at].slot[t.i + 1] = r]
        /\ \/ /\ ~full
              /\ RelayWrite({<<"base", k>>}, r)
              /\ drain' = [drain EXCEPT ![h][k] = [st |-> "run", at |-> t.at, i |-> t.i + 1]]
           \/ /\ full
              /\ drain' = [drain EXCEPT ![h][k] = TaskOn(t.at)]
              /\ UNCHANGED chanVars
        /\ UNCHANGED <<id, ready, inited, epoch, mem, thread, conf, head, freed, chans, files,
                       crashed, since>>

\* Mutant of DrainNext: the buffers chained to the first are forgotten.
DrainNextStops(h, k) ==
    LET t == drain[h][k]
    IN  /\ Awake(h, k) /\ ~Shared(h, k) /\ t.i >= buf[k][t.at].nb
        /\ freed' = [freed EXCEPT ![k] = @ \cup {t.at}]
        /\ drain' = [drain EXCEPT ![h][k] = NoTask]
        /\ UNCHANGED <<id, ready, inited, epoch, mem, thread, conf, head, buf, chans, files, chanVars,
                       crashed, since>>

\* The end of a buffer: it is freed and the next one follows.
DrainNext(h, k) ==
    LET t == drain[h][k]
    IN  /\ Awake(h, k) /\ ~Shared(h, k) /\ t.i >= buf[k][t.at].nb
        /\ freed' = [freed EXCEPT ![k] = @ \cup {t.at}]
        /\ drain' = [drain EXCEPT ![h][k] = IF t.at < Len(buf[k])
                        THEN [st |-> "run", at |-> t.at + 1, i |-> 0] ELSE NoTask]
        /\ UNCHANGED <<id, ready, inited, epoch, mem, thread, conf, head, buf, chans, files, chanVars, crashed, since>>

\* Two drains of one chain free its buffers twice: the model ends there.
DrainShared(h, k) ==
    /\ Awake(h, k) /\ Shared(h, k)
    /\ crashed' = TRUE
    /\ UNCHANGED <<id, ready, inited, epoch, mem, thread, conf, bufVars, drain, chans, files, chanVars, since>>

-----------------------------------------------------------------------------
WriterNext(w) ==
    \/ \E n \in Vertex \cup {"machine"} : Begin(w, n)
    \/ PrepareRelation(w) \/ WriteLive(w) \/ WriteBoot(w) \/ Insert(w) \/ Count(w)

ConfigNext(h) ==
    \/ \E f \in {"boot", "machine"} : SetId(h, f)
    \/ \E c \in Extra : CreateChannel(h, c)
    \/ WriteEpoch(h)

DrainStep(h, k) == DrainEntry(h, k) \/ DrainNext(h, k) \/ DrainShared(h, k)

Next ==
    /\ ~crashed
    /\ \/ \E w \in Writer : WriterNext(w)
       \/ \E h \in Config : ConfigNext(h)
       \/ RelayProvInit
       \/ \E h \in Handler : HandOver(h) \/ Schedule(h) \/ \E k \in Class : DrainStep(h, k)
       \/ \E c \in Name : Consume(c)

Spec == Init /\ [][Next]_vars

\* A thread inside prov_write runs on, write_boot_buffer runs to its end, the
\* scheduler runs what async_schedule queued, and the base channel is read.
Fairness ==
    /\ \A w \in Writer : WF_vars(~crashed /\ (WriteLive(w) \/ WriteBoot(w) \/ Insert(w) \/ Count(w)))
    /\ \A h \in Config : WF_vars(~crashed /\ (HandOver(h) \/ Schedule(h)))
    /\ \A h \in Config, k \in Class : WF_vars(~crashed /\ DrainStep(h, k))
    /\ WF_vars(~crashed /\ Consume("base"))

FairSpec == Spec /\ Fairness

-----------------------------------------------------------------------------
(* Properties *)

Range1(f) == {f[x] : x \in DOMAIN f}
Numbers(q) == {q[i].no : i \in DOMAIN q}
BootNumbers(k) == (UNION {Numbers(buf[k][b].slot) : b \in DOMAIN buf[k]}) \ {<<>>}

\* Two processes were writing the two identifiers at the same time: either may
\* find both set, and both take the boot buffers before one has cleared the
\* pointers.
Overlap == \E h \in Config : conf[h].met

\* The chain of boot buffers has one owner at a time: the writers through the
\* global pointer, then one drain, whichever process wrote the identifier that
\* was missing; and no writer or drain is left with a buffer that was freed
\* (write_boot_buffer, the drains' kfree).  The code fails it when the identifiers
\* are written at the same time.
OneOwner ==
    Overlap \/ \A k \in Class :
        LET holders == {h \in Handler : drain[h][k].st # "none"}
        IN  /\ \A h1, h2 \in holders : h1 = h2
            /\ holders # {} => head[k] = 0
            /\ \A h \in holders : drain[h][k].at \notin freed[k]
            /\ head[k] \notin freed[k]
            /\ \A w \in Writer : thread[w].pc = "count" /\ MsgClass(w) = k => thread[w].at \notin freed[k]

\* No record of the boot buffers reaches a consumer with an incomplete
\* identifier, its own or its ends': the drains begin when both are known and
\* complete what was recorded before (write_boot_buffer, tighten_identifier).
BootIdentified ==
    \A k \in Class : \A r \in Range1(sent[<<"base", k>>]) : r.no \in BootNumbers(k) =>
        r.boot # 0 /\ r.end # 0

\* Replays keep the order of the boot: when a record of the boot buffers has
\* been delivered, every earlier one of its class was delivered before it.
BootOrder ==
    \A k \in Class : \A b, c \in DOMAIN buf[k] : \A i, j \in 1..MaxEntry :
        LET x == buf[k][b].slot[i].no
            y == buf[k][c].slot[j].no
            q == sent[<<"base", k>>]
        IN  x # <<>> /\ y # <<>> /\ (b < c \/ (b = c /\ i < j)) =>
                \A v \in DOMAIN q : q[v].no = y => \E u \in 1..v : q[u].no = x

\* What the epoch is for: a consumer whose channel exists and who then
\* advances the epoch gets, with every relation of the new epoch, a record of its
\* end that carries the identifier the relation names, unless a stream of the
\* channel was full.  A relation may carry the new epoch though its ends were
\* written before (prepare_relation): those that began by then are excepted.
ChannelComplete ==
    \A c \in chans \cap Extra : ({c} \X Class) \cap lost = {} =>
        \A r \in Range1(sent[<<c, "short">>]) : r.kind = "rel" /\ r.ep > since[c] =>
            \/ r.begun <= since[c]
            \/ \E m \in Range1(sent[<<c, ClassOf(r.n)>>]) : m.kind = "node" /\ m.n = r.n /\ m.boot = r.end

\* Once the relay is ready, every record of the boot buffers is delivered to
\* the base channel, unless the kernel stopped.
BootDelivered ==
    <>[](ready /\ ~crashed => \A k \in Class : BootNumbers(k) \subseteq Numbers(sent[<<"base", k>>]))

\* What the consumers are promised: see RelayStream.
Promise == INSTANCE RelayStream WITH
    log <- [k \in Class |-> BootNumbers(k)],
    out <- [s \in Stream |-> [i \in DOMAIN sent[s] |-> sent[s][i].no]]
PromiseSpec == Promise!Spec
=============================================================================
