---------------------------- MODULE RelayProofs -----------------------------
(* The boot buffers have one owner at a time, and what the consumers get from *)
(* them is complete and in order, for any number of writers and any sizes of  *)
(* the buffers and channels.                                                  *)
EXTENDS Relay, TLAPS

\* Records, and the numbers that tell them apart.
WriterNo == Writer \X Nat \X {"node", "rel"}
HandlerNo == Handler \X Nat \X {"machine"}
Number == {<<>>} \cup WriterNo \cup HandlerNo
Node == Vertex \cup {"machine"}
Rec == [no : Number, kind : {"zero", "node", "rel"}, n : Node \cup {"none"}, boot : {0, 1}, end : {0, 1},
        ep : Nat, begun : Nat]
Buffer == [slot : [1..MaxEntry -> Rec], nb : Nat]
Thread == [pc : {"idle", "check", "prepare", "insert", "count"}, n : Node \cup {"none"}, msg : Rec,
           at : Nat, ep : Nat, left : Nat]
Handling == [pc : {"idle", "handover", "schedule"}, tmp : [Class -> {0, 1}], left : Nat,
             files : SUBSET {"boot", "machine", "channel", "epoch"}, met : BOOLEAN]
Task == [st : {"none", "sleep", "run"}, at : Nat, i : Nat]

\* A writer in state r that is not idle has a node and a relation to write.
WorkOK(r) ==
    /\ r.pc # "idle" => r.left > 0 /\ r.n \in Node
    /\ r.msg.kind = "node" => r.msg.n \in Node

\* The types of the variables.
Types ==
    /\ id \in [boot : {0, 1}, machine : {0, 1}]
    /\ ready \in BOOLEAN /\ inited \in BOOLEAN /\ epoch \in Nat
    /\ mem \in [Node -> [boot : {0, 1}, ep : Nat]]
    /\ thread \in [Writer -> Thread]
    /\ conf \in [Handler -> Handling]
    /\ head \in [Class -> {0, 1}]
    /\ buf \in [Class -> Seq(Buffer)] /\ \A k \in Class : Len(buf[k]) >= 1
    /\ freed \in [Class -> SUBSET Nat]
    /\ drain \in [Handler -> [Class -> Task]]
    /\ sent \in [Stream -> Seq(Rec)] /\ unread \in [Stream -> Nat]
    /\ \A w \in Writer : WorkOK(thread[w])

\* How far the hand-over is: relay_prov_init comes before any identifier and
\* finds none, the relay is ready when both are known, and only the handler that
\* found them so takes the boot buffers.
Phase ==
    /\ ~inited => id.boot = 0 /\ id.machine = 0
    /\ conf["init"].pc # "idle" => conf["init"].pc = "handover" /\ id.boot = 0 /\ id.machine = 0
    /\ ready => Identified
    /\ \A h \in Config : /\ conf[h].pc = "handover" => ~ready
                         /\ conf[h].pc = "schedule" => ready /\ \A k \in Class : conf[h].tmp[k] = 1

\* The global pointers lead to the chains until a handler has taken them; a
\* drain holds what is not freed of its chain; from the moment it runs no writer
\* is at work on the chain.
Ownership ==
    \A k \in Class :
        /\ head[k] = 1 <=> ~ready \/ \E h \in Config : conf[h].pc = "schedule"
        /\ head[k] = 1 => freed[k] = {} /\ \A h \in Handler : drain[h][k].st = "none"
        /\ drain["init"][k].st = "none"
        /\ freed[k] \subseteq 1..Len(buf[k])
        /\ \A h \in Config : drain[h][k].st # "none" =>
              drain[h][k].at \in 1..Len(buf[k]) /\ freed[k] = 1..(drain[h][k].at - 1)
        /\ (freed[k] # {} \/ \E h \in Config : drain[h][k].st = "run") => ~Busy(k)
        /\ \A w \in Writer : thread[w].pc = "count" /\ MsgClass(w) = k => thread[w].at \in 1..Len(buf[k])

\* One process at a time is inside write_boot_buffer, and one has the drain of a
\* chain: so it is as long as no two processes write identifiers at a time.
Sole(C, D) ==
    /\ \A g, h \in Config : C[g].pc # "idle" /\ C[h].pc # "idle" => g = h
    /\ \A k \in Class : \A g, h \in Config : D[g][k].st # "none" /\ D[h][k].st # "none" => g = h

OwnerInv == Types /\ Phase /\ Ownership /\ Sole(conf, drain)

\* The number of entry j of buffer b, and what was written to the base channel.
No(k, b, j) == buf[k][b].slot[j].no
Out(k) == sent[<<"base", k>>]

\* The numbers a writer in state t has put in a buffer or a stream, or passed over.
SpentIn(t, l, kd) ==
    \/ l > t.left
    \/ l = t.left /\ kd = "node" /\ (t.pc = "prepare" \/ (t.pc \in {"check", "insert", "count"} /\ t.msg.kind = "rel"))
    \/ l = t.left /\ t.pc = "count" /\ kd = t.msg.kind
Spent(T, x) == x \in WriterNo => SpentIn(T[x[1]], x[2], x[3])

\* A record about to be written has a number of its own.
NumberOK(w, t) ==
    t.pc \in {"check", "insert", "count"} => t.msg.kind \in {"node", "rel"} /\ t.msg.no = <<w, t.left, t.msg.kind>>

\* The buffers hold records of the writers, and whatever is in a buffer or a
\* stream was numbered before.
Numbered ==
    /\ \A w \in Writer : NumberOK(w, thread[w])
    /\ \A k \in Class : \A b \in 1..Len(buf[k]), j \in 1..MaxEntry :
          No(k, b, j) # <<>> => No(k, b, j) \in WriterNo /\ Spent(thread, No(k, b, j))
    /\ \A s \in Stream : \A u \in 1..Len(sent[s]) : Spent(thread, sent[s][u].no)

\* No record is in two entries.
Distinct ==
    \A k \in Class : \A b, c \in 1..Len(buf[k]) : \A i, j \in 1..MaxEntry :
        No(k, b, i) # <<>> /\ No(k, b, i) = No(k, c, j) => b = c /\ i = j

\* What is stored is counted, or will be by a writer at work.
Counting(k, b) == \E w \in Writer : thread[w].pc = "count" /\ MsgClass(w) = k /\ thread[w].at = b
Filled ==
    \A k \in Class : \A b \in 1..Len(buf[k]), j \in 1..MaxEntry : No(k, b, j) # <<>> =>
        j <= buf[k][b].nb \/ (j = buf[k][b].nb + 1 /\ Counting(k, b))

\* As long as the pointers lead to the chains nothing of them is delivered, and
\* the machine's node is not written.
Untouched ==
    \A k \in Class : head[k] = 1 =>
        /\ \A u \in 1..Len(Out(k)) : \A b \in 1..Len(buf[k]), j \in 1..MaxEntry :
              No(k, b, j) # <<>> => Out(k)[u].no # No(k, b, j)
        /\ \A s \in Stream : \A u \in 1..Len(sent[s]) : sent[s][u].no \notin HandlerNo

\* What lies behind the drains D is delivered.
Replayed(D) ==
    \A k \in Class, h \in Config : D[h][k].st # "none" =>
        \A b \in 1..Len(buf[k]), j \in 1..MaxEntry :
            No(k, b, j) # <<>> /\ (b < D[h][k].at \/ (b = D[h][k].at /\ j <= D[h][k].i)) =>
                \E u \in 1..Len(Out(k)) : Out(k)[u].no = No(k, b, j)

\* BootOrder and BootIdentified, entry by entry.
Before(b, i, c, j) == b < c \/ (b = c /\ i < j)
InOrder ==
    \A k \in Class : \A b, c \in 1..Len(buf[k]) : \A i, j \in 1..MaxEntry :
        No(k, b, i) # <<>> /\ No(k, c, j) # <<>> /\ Before(b, i, c, j) =>
            \A v \in 1..Len(Out(k)) : Out(k)[v].no = No(k, c, j) => \E u \in 1..v : Out(k)[u].no = No(k, b, i)
Complete ==
    \A k \in Class : \A b \in 1..Len(buf[k]), j \in 1..MaxEntry, v \in 1..Len(Out(k)) :
        No(k, b, j) # <<>> /\ Out(k)[v].no = No(k, b, j) => Out(k)[v].boot # 0 /\ Out(k)[v].end # 0

\* One thread writes, so the entries that are counted are filled.
OneWriter == \A v, w \in Writer : v = w
Packed ==
    \A k \in Class : \A b \in 1..Len(buf[k]) :
        /\ buf[k][b].nb <= MaxEntry /\ \A j \in 1..MaxEntry : j <= buf[k][b].nb => No(k, b, j) # <<>>
        /\ Counting(k, b) => buf[k][b].nb < MaxEntry /\ No(k, b, buf[k][b].nb + 1) # <<>>

ReplayInv ==
    /\ OwnerInv /\ Numbered /\ Distinct /\ Filled
    /\ Untouched /\ Replayed(drain) /\ InOrder /\ Complete
-----------------------------------------------------------------------------
(* Types *)

\* The classes and the streams.
LEMMA ClassFacts ==
    /\ "short" \in Class /\ "long" \in Class
    /\ \A n : ClassOf(n) \in Class
    /\ \A k \in Class : <<"base", k>> \in Stream
    /\ \A w : MsgClass(w) \in Class
BY Zenon DEF Class, ClassOf, Stream, Name, MsgClass

\* A buffer has at least one entry.
LEMMA SizeFacts == MaxEntry \in Nat /\ MaxEntry > 0
BY RelayAssumption

\* The chains are sequences of buffers and the streams have lengths.
LEMMA ChainFacts ==
    ASSUME Types
    PROVE  /\ \A k \in Class : buf[k] \in Seq(Buffer) /\ Len(buf[k]) \in Nat /\ Len(buf[k]) >= 1 /\ 1 \in 1..Len(buf[k])
           /\ \A k \in Class : \A b \in 1..Len(buf[k]) : buf[k][b] \in Buffer /\ buf[k][b].nb \in Nat
           /\ \A s \in Stream : Len(sent[s]) \in Nat
<1>1. ASSUME NEW k \in Class
      PROVE  buf[k] \in Seq(Buffer) /\ Len(buf[k]) \in Nat /\ Len(buf[k]) >= 1 /\ 1 \in 1..Len(buf[k])
  <2>1. buf[k] \in Seq(Buffer) /\ Len(buf[k]) >= 1 BY Zenon DEF Types
  <2> QED BY ONLY <2>1
<1>2. ASSUME NEW k \in Class, NEW b \in 1..Len(buf[k]) PROVE buf[k][b] \in Buffer /\ buf[k][b].nb \in Nat
  <2>1. buf[k][b] \in Buffer BY <1>1
  <2> QED BY Zenon, <2>1 DEF Buffer
<1>3. ASSUME NEW s \in Stream PROVE Len(sent[s]) \in Nat
  <2>1. sent[s] \in Seq(Rec) BY Zenon DEF Types
  <2> QED BY ONLY <2>1
<1> QED BY Zenon, <1>1, <1>2, <1>3

\* The same after a step.
LEMMA ChainNextFacts ==
    ASSUME Types'
    PROVE  /\ \A k \in Class : /\ buf'[k] \in Seq(Buffer) /\ Len(buf'[k]) \in Nat
                               /\ Len(buf'[k]) >= 1 /\ 1 \in 1..Len(buf'[k])
           /\ \A k \in Class : \A b \in 1..Len(buf'[k]) : buf'[k][b] \in Buffer /\ buf'[k][b].nb \in Nat
           /\ \A s \in Stream : Len(sent'[s]) \in Nat
<1>1. ASSUME NEW k \in Class
      PROVE  buf'[k] \in Seq(Buffer) /\ Len(buf'[k]) \in Nat /\ Len(buf'[k]) >= 1 /\ 1 \in 1..Len(buf'[k])
  <2>1. buf'[k] \in Seq(Buffer) /\ Len(buf'[k]) >= 1 BY Zenon DEF Types
  <2> QED BY ONLY <2>1
<1>2. ASSUME NEW k \in Class, NEW b \in 1..Len(buf'[k]) PROVE buf'[k][b] \in Buffer /\ buf'[k][b].nb \in Nat
  <2>1. buf'[k][b] \in Buffer BY <1>1
  <2> QED BY Zenon, <2>1 DEF Buffer
<1>3. ASSUME NEW s \in Stream PROVE Len(sent'[s]) \in Nat
  <2>1. sent'[s] \in Seq(Rec) BY Zenon DEF Types
  <2> QED BY ONLY <2>1
<1> QED BY Zenon, <1>1, <1>2, <1>3

\* The records a thread makes and the ones it copies out are records.
LEMMA RecFacts ==
    ASSUME Types
    PROVE  /\ Empty \in Rec
           /\ \A w \in Writer : Outgoing(w) \in Rec /\ Outgoing(w).no = thread[w].msg.no
           /\ \A r \in Rec : Tightened(r) \in Rec /\ Tightened(r).no = r.no
<1>1. Empty \in Rec BY Zenon DEF Empty, Rec, Number
<1>2. ASSUME NEW w \in Writer PROVE Outgoing(w) \in Rec /\ Outgoing(w).no = thread[w].msg.no
  <2>1. thread[w].msg \in Rec BY Zenon DEF Types, Thread
  <2>2. thread[w].msg.kind = "node" => mem[thread[w].msg.n].boot \in {0, 1} BY Zenon DEF Types, WorkOK
  <2> QED BY Zenon, <2>1, <2>2 DEF Outgoing, Rec
<1>3. ASSUME NEW r \in Rec PROVE Tightened(r) \in Rec /\ Tightened(r).no = r.no
  <2>1. id.boot \in {0, 1} BY Zenon DEF Types
  <2>2. r.boot \in {0, 1} /\ r.end \in {0, 1} BY Zenon DEF Rec
  <2>3. TightenIdentifier(r.boot) \in {0, 1} /\ TightenIdentifier(r.end) \in {0, 1}
    BY Zenon, <2>1, <2>2 DEF TightenIdentifier
  <2> QED BY Zenon, <2>3 DEF Tightened, Rec
<1> QED BY Zenon, <1>1, <1>2, <1>3

\* relay_write keeps the types of the streams.
LEMMA WriteTypes ==
    ASSUME Types, NEW S, NEW r \in Rec, RelayWrite(S, r)
    PROVE  sent' \in [Stream -> Seq(Rec)] /\ unread' \in [Stream -> Nat]
BY DEF Types, RelayWrite

\* A writer's state changes to r.
LEMMA ThreadTypes ==
    ASSUME Types, NEW w \in Writer, NEW r \in Thread, thread' = [thread EXCEPT ![w] = r],
           WorkOK(r)
    PROVE  thread' \in [Writer -> Thread] /\ \A v \in Writer : WorkOK(thread'[v])
BY Zenon DEF Types

\* The state in which __write_node leaves writer w, and the one in which
\* prepare_relation does.
LEMMA BeginTypes ==
    ASSUME Types, NEW w \in Writer, NEW n \in Node, Begin(w, n)
    PROVE  /\ Types'
           /\ \E r \in Thread : /\ thread' = [thread EXCEPT ![w] = r] /\ WorkOK(r)
                                /\ r.pc \in {"check", "prepare"} /\ r.left = thread[w].left /\ r.n = n
                                /\ r.pc = "check" => r.msg.no = <<w, r.left, "node">> /\ r.msg.kind = "node"
<1> DEFINE t == thread[w]
           i == TightenIdentifier(mem[n].boot)
           m == [no |-> <<w, t.left, "node">>, kind |-> "node", n |-> n, boot |-> i, end |-> i, ep |-> epoch,
                 begun |-> epoch]
           a == [t EXCEPT !.pc = "check", !.n = n, !.ep = epoch, !.msg = m]
           b == [t EXCEPT !.pc = "prepare", !.n = n, !.ep = epoch]
<1>1. t \in Thread /\ t.left \in Nat /\ WorkOK(t) /\ epoch \in Nat BY Zenon DEF Types, Thread
<1>2. i \in {0, 1} BY Zenon DEF Types, TightenIdentifier
<1>3. m \in Rec /\ m.no = <<w, t.left, "node">> /\ m.kind = "node" /\ m.n = n
  <2>1. <<w, t.left, "node">> \in Number BY Zenon, <1>1 DEF Number, WriterNo
  <2> HIDE DEF i, t
  <2> QED BY Zenon, <1>1, <1>2, <2>1 DEF Rec
<1> HIDE DEF m, i
<1>4. t.left > 0 /\ t.pc = "idle" BY Zenon DEF Begin
<1>5. a \in Thread /\ a.pc = "check" /\ a.left = t.left /\ a.n = n /\ a.msg = m
    BY Zenon, <1>1, <1>3 DEF Thread
<1>6. b \in Thread /\ b.pc = "prepare" /\ b.left = t.left /\ b.n = n /\ b.msg = t.msg
    BY Zenon, <1>1 DEF Thread
<1>7. WorkOK(a) /\ WorkOK(b) BY Zenon, <1>1, <1>3, <1>4, <1>5, <1>6 DEF WorkOK
<1>8. \/ thread' = [thread EXCEPT ![w] = a] /\ mem' = [mem EXCEPT ![n] = [boot |-> i, ep |-> epoch]]
      \/ thread' = [thread EXCEPT ![w] = b] /\ UNCHANGED mem
    BY Zenon DEF Begin, WriteNode, m, i
<1>9. UNCHANGED <<id, ready, inited, epoch, conf, bufVars, drain, chans, files, chanVars, crashed, since>>
    BY Zenon DEF Begin
<1> HIDE DEF a, b, t
<1>10. thread' \in [Writer -> Thread] /\ \A v \in Writer : WorkOK(thread'[v])
    BY Zenon, <1>5, <1>6, <1>7, <1>8, ThreadTypes
<1>11. mem' \in [Node -> [boot : {0, 1}, ep : Nat]]
  <2> DEFINE v == [boot |-> i, ep |-> epoch]
  <2>1. v \in [boot : {0, 1}, ep : Nat] BY Zenon, <1>1, <1>2
  <2>2. mem \in [Node -> [boot : {0, 1}, ep : Nat]] BY Zenon DEF Types
  <2>3. mem' = [mem EXCEPT ![n] = v] \/ mem' = mem BY Zenon, <1>8
  <2> HIDE DEF v
  <2> QED BY Zenon, <2>1, <2>2, <2>3
<1>12. Types' BY Zenon, <1>9, <1>10, <1>11 DEF Types, bufVars, chanVars
<1> QED BY Zenon, <1>3, <1>5, <1>6, <1>7, <1>8, <1>12 DEF t

\* prepare_relation.
LEMMA PrepareTypes ==
    ASSUME Types, NEW w \in Writer, PrepareRelation(w)
    PROVE  /\ Types'
           /\ \E r \in Thread : /\ thread' = [thread EXCEPT ![w] = r] /\ WorkOK(r)
                                /\ r.pc = "check" /\ r.left = thread[w].left /\ r.n = thread[w].n
                                /\ r.msg.no = <<w, r.left, "rel">> /\ r.msg.kind = "rel"
<1> DEFINE t == thread[w]
           e == mem[t.n].boot
           m == [no |-> <<w, t.left, "rel">>, kind |-> "rel", n |-> t.n, boot |-> id.boot, end |-> e,
                 ep |-> epoch, begun |-> t.ep]
           a == [t EXCEPT !.pc = "check", !.msg = m]
<1>1. t \in Thread /\ t.left \in Nat /\ t.ep \in Nat /\ WorkOK(t)
      /\ id.boot \in {0, 1} /\ epoch \in Nat
    BY Zenon DEF Types, Thread
<1>2. t.pc = "prepare" BY Zenon DEF PrepareRelation
<1>3. t.n \in Node /\ t.left > 0 BY Zenon, <1>1, <1>2 DEF WorkOK
<1>4. e \in {0, 1} BY Zenon, <1>3 DEF Types
<1>5. m \in Rec /\ m.no = <<w, t.left, "rel">> /\ m.kind = "rel"
  <2>1. <<w, t.left, "rel">> \in Number BY Zenon, <1>1 DEF Number, WriterNo
  <2> HIDE DEF e, t
  <2> QED BY Zenon, <1>1, <1>3, <1>4, <2>1 DEF Rec
<1>6. thread' = [thread EXCEPT ![w] = a] BY Zenon DEF PrepareRelation
<1> HIDE DEF m, e
<1>7. a \in Thread /\ a.pc = "check" /\ a.left = t.left /\ a.n = t.n /\ a.msg = m
    BY Zenon, <1>1, <1>5 DEF Thread
<1>8. WorkOK(a) BY Zenon, <1>3, <1>5, <1>7 DEF WorkOK
<1>9. UNCHANGED <<id, ready, inited, epoch, mem, conf, bufVars, drain, chans, files, chanVars, crashed, since>>
    BY Zenon DEF PrepareRelation
<1> HIDE DEF a, t
<1>10. thread' \in [Writer -> Thread] /\ \A v \in Writer : WorkOK(thread'[v])
    BY Zenon, <1>6, <1>7, <1>8, ThreadTypes
<1>11. Types' BY Zenon, <1>9, <1>10 DEF Types, bufVars, chanVars
<1> QED BY Zenon, <1>5, <1>6, <1>7, <1>8, <1>11 DEF t

\* The state in which prov_write leaves its caller.
LEMMA WrittenTypes ==
    ASSUME Types, NEW w \in Writer, thread[w].pc # "idle", Written(w)
    PROVE  \E r \in Thread : /\ thread' = [thread EXCEPT ![w] = r] /\ WorkOK(r)
                             /\ r.n = thread[w].n
                             /\ thread[w].msg.kind = "node" => r.pc = "prepare" /\ r.left = thread[w].left
                             /\ thread[w].msg.kind # "node" => r.pc = "idle" /\ r.left = thread[w].left - 1
<1> DEFINE t    == thread[w]
           node == t.msg.kind = "node"
           pc   == IF node THEN "prepare" ELSE "idle"
           left == IF node THEN t.left ELSE t.left - 1
           a    == [t EXCEPT !.pc = pc, !.left = left, !.msg = Empty, !.at = 0]
<1>1. t \in Thread /\ t.left \in Nat /\ WorkOK(t) BY Zenon DEF Types, Thread
<1>2. t.n \in Node /\ t.left > 0 BY Zenon, <1>1 DEF WorkOK
<1>3. thread' = [thread EXCEPT ![w] = a] BY Zenon DEF Written
<1>4. pc \in {"prepare", "idle"} /\ left \in Nat BY <1>1, <1>2
<1>5. Empty \in Rec /\ Empty.kind = "zero" BY Zenon, RecFacts DEF Empty
<1>6. (pc = "prepare" => left = t.left) /\ (node => pc = "prepare" /\ left = t.left)
      /\ (~node => pc = "idle" /\ left = t.left - 1)
    BY Zenon
<1> HIDE DEF pc, left, node
<1>7. a \in Thread /\ a.pc = pc /\ a.left = left /\ a.n = t.n /\ a.msg = Empty
    BY Zenon, <1>1, <1>4, <1>5 DEF Thread
<1>8. WorkOK(a) BY Zenon, <1>2, <1>4, <1>5, <1>6, <1>7 DEF WorkOK
<1> QED BY Zenon, <1>3, <1>6, <1>7, <1>8 DEF node

\* prov_write with the relay ready.
LEMMA LiveTypes ==
    ASSUME Types, NEW w \in Writer, WriteLive(w)
    PROVE  Types'
<1>1. thread[w].pc = "check" /\ Written(w) /\ RelayWrite(chans \X {MsgClass(w)}, Outgoing(w)) BY Zenon DEF WriteLive
<1>2. sent' \in [Stream -> Seq(Rec)] /\ unread' \in [Stream -> Nat] BY Zenon, <1>1, RecFacts, WriteTypes
<1>3. thread' \in [Writer -> Thread] /\ \A v \in Writer : WorkOK(thread'[v])
    BY Zenon, <1>1, WrittenTypes, ThreadTypes
<1>4. UNCHANGED <<id, ready, inited, epoch, mem, conf, head, buf, freed, drain>> BY Zenon DEF WriteLive, bufVars
<1> QED BY Zenon, <1>2, <1>3, <1>4 DEF Types

\* prov_write with the relay not ready.
LEMMA BootTypes ==
    ASSUME Types, NEW w \in Writer, WriteBoot(w)
    PROVE  /\ Types'
           /\ \E r \in Thread : /\ thread' = [thread EXCEPT ![w] = r] /\ WorkOK(r) /\ r.pc = "insert"
                                /\ r.n = thread[w].n /\ r.left = thread[w].left /\ r.msg = thread[w].msg
<1> DEFINE t == thread[w]
           a == [t EXCEPT !.pc = "insert"]
<1>1. t \in Thread /\ WorkOK(t) /\ t.pc = "check" BY Zenon DEF Types, WriteBoot
<1>2. thread' = [thread EXCEPT ![w] = a] BY Zenon DEF WriteBoot
<1>3. a \in Thread /\ a.pc = "insert" /\ a.left = t.left /\ a.n = t.n /\ a.msg = t.msg
    BY Zenon, <1>1 DEF Thread
<1>4. WorkOK(a) BY Zenon, <1>1, <1>3 DEF WorkOK
<1>5. UNCHANGED <<id, ready, inited, epoch, mem, conf, head, buf, freed, drain, sent, unread>>
    BY Zenon DEF WriteBoot, bufVars, chanVars
<1> HIDE DEF a, t
<1>6. thread' \in [Writer -> Thread] /\ \A v \in Writer : WorkOK(thread'[v])
    BY Zenon, <1>2, <1>3, <1>4, ThreadTypes
<1>7. Types' BY Zenon, <1>5, <1>6 DEF Types
<1> QED BY Zenon, <1>2, <1>3, <1>4, <1>7 DEF t

\* A chain C in which buffer b becomes v.
LEMMA ChainTypes ==
    ASSUME Types, NEW k \in Class, NEW C \in Seq(Buffer), Len(C) >= 1, NEW b \in 1..Len(C), NEW v \in Buffer,
           buf' = [buf EXCEPT ![k] = [C EXCEPT ![b] = v]]
    PROVE  /\ buf' \in [Class -> Seq(Buffer)] /\ \A c \in Class : Len(buf'[c]) >= 1
           /\ Len(buf'[k]) = Len(C) /\ buf'[k][b] = v
           /\ \A j \in 1..Len(C) : j # b => buf'[k][j] = C[j]
           /\ \A c \in Class : c # k => buf'[c] = buf[c]
<1> DEFINE D == [C EXCEPT ![b] = v]
<1>1. D \in Seq(Buffer) /\ Len(D) = Len(C) /\ D[b] = v /\ \A j \in 1..Len(C) : j # b => D[j] = C[j] OBVIOUS
<1> HIDE DEF D
<1>2. buf' = [buf EXCEPT ![k] = D] BY Zenon DEF D
<1>3. buf \in [Class -> Seq(Buffer)] /\ \A c \in Class : Len(buf[c]) >= 1 BY Zenon DEF Types
<1> QED BY Zenon, <1>1, <1>2, <1>3

\* Storing record r in entry i of a buffer.
LEMMA StoreTypes ==
    ASSUME NEW u \in Buffer, NEW i \in Nat, NEW r \in Rec
    PROVE  LET v == [u EXCEPT !.slot[i] = r]
           IN  /\ v \in Buffer /\ v.nb = u.nb
               /\ \A j \in 1..MaxEntry : v.slot[j] = IF j = i THEN r ELSE u.slot[j]
BY Zenon DEF Buffer

\* A new boot buffer.
LEMMA NewBufferType ==
    NewBuffer \in Buffer /\ NewBuffer.nb = 0 /\ \A j \in 1..MaxEntry : NewBuffer.slot[j] = Empty
<1>1. Empty \in Rec BY Zenon DEF Empty, Rec, Number
<1> QED BY Zenon, <1>1 DEF NewBuffer, Buffer

\* insert_boot_buffer has stored the record of writer w as entry i of buffer
\* here, the last of its chain, and changed nothing else.
Stored(w, here, i) ==
    LET k == MsgClass(w)
    IN  /\ head[k] # 0
        /\ here = Len(buf'[k]) /\ Len(buf[k]) <= here /\ here <= Len(buf[k]) + 1
        /\ i \in 1..MaxEntry /\ i = buf'[k][here].nb + 1 /\ (here > Len(buf[k]) => i = 1)
        /\ buf'[k][here].slot[i] = Outgoing(w)
        /\ \A b \in 1..here, j \in 1..MaxEntry : b # here \/ j # i =>
              buf'[k][b].slot[j] = IF b <= Len(buf[k]) THEN buf[k][b].slot[j] ELSE Empty
        /\ \A b \in 1..Len(buf[k]) : buf'[k][b].nb = buf[k][b].nb
        /\ \A c \in Class : c # k => buf'[c] = buf[c]
        /\ UNCHANGED crashed

\* Insert either stores the record or stops the kernel.
LEMMA InsertTypes ==
    ASSUME Types, NEW w \in Writer, Insert(w)
    PROVE  /\ Types'
           /\ \/ UNCHANGED <<buf, thread>>
              \/ \E here \in Nat, i \in Nat :
                    /\ Stored(w, here, i)
                    /\ \E r \in Thread : /\ thread' = [thread EXCEPT ![w] = r] /\ r.pc = "count" /\ r.at = here
                                         /\ r.n = thread[w].n /\ r.left = thread[w].left
                                         /\ r.msg = thread[w].msg
<1> DEFINE t     == thread[w]
           k     == MsgClass(w)
           last  == Len(buf[k])
           full  == buf[k][last].nb >= MaxEntry
           chain == IF full THEN Append(buf[k], NewBuffer) ELSE buf[k]
           here  == Len(chain)
           i     == chain[here].nb + 1
           o     == Outgoing(w)
           v     == [chain[here] EXCEPT !.slot[i] = o]
           a     == [t EXCEPT !.pc = "count", !.at = here]
<1>1. k \in Class /\ buf[k] \in Seq(Buffer) /\ last >= 1 /\ last \in Nat BY ClassFacts DEF Types
<1>2. NewBuffer \in Buffer /\ NewBuffer.nb = 0 /\ \A j \in 1..MaxEntry : NewBuffer.slot[j] = Empty
    BY Zenon, NewBufferType
<1>3. MaxEntry \in Nat /\ MaxEntry >= 1 BY RelayAssumption
<1>4. /\ chain \in Seq(Buffer) /\ here \in Nat /\ here >= last /\ here >= 1 /\ here <= last + 1
      /\ \A b \in 1..last : chain[b] = buf[k][b]
      /\ \A b \in 1..here : ~(b <= last) => chain[b] = NewBuffer
  <2> HIDE DEF k
  <2> QED BY <1>1, <1>2
<1>5. chain[here].nb \in Nat /\ chain[here].nb < MaxEntry /\ chain[here] \in Buffer
  <2>1. chain[here] \in Buffer BY <1>4
  <2>2. chain[here].nb \in Nat BY Zenon, <2>1 DEF Buffer
  <2>3. CASE full
    <3>1. chain[here] = NewBuffer BY <1>1, <1>2, <2>3
    <3> QED BY <1>2, <1>3, <2>1, <2>2, <3>1
  <2>4. CASE ~full BY <1>1, <1>3, <2>1, <2>2, <2>4
  <2> QED BY Zenon, <2>3, <2>4
<1>6. t \in Thread /\ WorkOK(t) /\ t.pc = "insert" /\ o \in Rec BY Zenon, RecFacts DEF Types, Insert
<1>7. UNCHANGED <<id, ready, inited, epoch, mem, conf, head, freed, drain, sent, unread>>
    BY Zenon DEF Insert, chanVars
<1>8. \/ /\ head[k] # 0
         /\ buf' = [buf EXCEPT ![k] = [chain EXCEPT ![here] = v]]
         /\ thread' = [thread EXCEPT ![w] = a]
         /\ UNCHANGED crashed
      \/ UNCHANGED <<buf, thread>>
    BY Zenon DEF Insert
<1> HIDE DEF k, chain, here, o
<1>9. i \in Nat /\ i \in 1..MaxEntry BY <1>3, <1>5
<1>10. /\ v \in Buffer /\ v.nb = chain[here].nb
       /\ \A j \in 1..MaxEntry : v.slot[j] = IF j = i THEN o ELSE chain[here].slot[j]
    BY Zenon, <1>5, <1>6, <1>9, StoreTypes
<1> HIDE DEF v
<1>11. a \in Thread /\ a.pc = "count" /\ a.at = here /\ a.n = t.n /\ a.left = t.left /\ a.msg = t.msg
    BY Zenon, <1>4, <1>6 DEF Thread
<1>12. WorkOK(a) BY Zenon, <1>6, <1>11 DEF WorkOK
<1> HIDE DEF a, t
<1>13. CASE UNCHANGED <<buf, thread>>
  <2>1. Types' BY Zenon, <1>7, <1>13 DEF Types
  <2> QED BY Zenon, <1>13, <2>1
<1>14. CASE /\ head[k] # 0 /\ thread' = [thread EXCEPT ![w] = a]
            /\ buf' = [buf EXCEPT ![k] = [chain EXCEPT ![here] = v]]
            /\ UNCHANGED crashed
  <2>1. /\ buf' \in [Class -> Seq(Buffer)] /\ \A c \in Class : Len(buf'[c]) >= 1
        /\ Len(buf'[k]) = here /\ buf'[k][here] = v
        /\ \A j \in 1..here : j # here => buf'[k][j] = chain[j]
        /\ \A c \in Class : c # k => buf'[c] = buf[c]
    <3>0. Len(chain) = here BY Zenon DEF here
    <3>1. here \in 1..Len(chain) /\ Len(chain) >= 1 BY <1>4 DEF here
    <3>2. /\ Types /\ k \in Class /\ chain \in Seq(Buffer) /\ v \in Buffer
          /\ buf' = [buf EXCEPT ![k] = [chain EXCEPT ![here] = v]]
        BY Zenon, <1>1, <1>4, <1>10, <1>14
    <3>3. /\ buf' \in [Class -> Seq(Buffer)] /\ \A c \in Class : Len(buf'[c]) >= 1
          /\ Len(buf'[k]) = Len(chain) /\ buf'[k][here] = v
          /\ \A j \in 1..Len(chain) : j # here => buf'[k][j] = chain[j]
          /\ \A c \in Class : c # k => buf'[c] = buf[c]
        BY ONLY Zenon, <3>1, <3>2, ChainTypes
    <3> QED BY Zenon, <3>0, <3>3
  <2>2. thread' \in [Writer -> Thread] /\ \A u \in Writer : WorkOK(thread'[u])
    BY Zenon, <1>11, <1>12, <1>14, ThreadTypes
  <2>3. Types' BY Zenon, <1>7, <2>1, <2>2 DEF Types
  <2>4. \A b \in 1..here, j \in 1..MaxEntry : b # here \/ j # i =>
            buf'[k][b].slot[j] = IF b <= last THEN buf[k][b].slot[j] ELSE Empty
    <3> SUFFICES ASSUME NEW b \in 1..here, NEW j \in 1..MaxEntry, b # here \/ j # i
                 PROVE  buf'[k][b].slot[j] = IF b <= last THEN buf[k][b].slot[j] ELSE Empty
        BY Zenon
    <3>1. buf'[k][b].slot[j] = chain[b].slot[j] BY Zenon, <1>10, <2>1
    <3> QED BY <1>1, <1>2, <1>4, <3>1
  <2>5. \A b \in 1..last : buf'[k][b].nb = buf[k][b].nb BY <1>1, <1>4, <1>10, <2>1
  <2>6. i = buf'[k][here].nb + 1 /\ buf'[k][here].slot[i] = o BY Zenon, <1>9, <1>10, <2>1
  <2>8. here > last => i = 1
    <3>1. here > last => chain[here] = NewBuffer BY <1>1, <1>4
    <3> QED BY <1>2, <3>1
  <2>7. Stored(w, here, i) BY Zenon, <1>4, <1>9, <1>14, <2>1, <2>4, <2>5, <2>6, <2>8 DEF Stored, k, o
  <2> QED BY Zenon, <1>4, <1>9, <1>11, <1>14, <2>3, <2>7 DEF t
<1> QED BY Zenon, <1>8, <1>13, <1>14

\* insert_boot_buffer counts the entry it has stored.
LEMMA CountTypes ==
    ASSUME Types, NEW w \in Writer, Count(w), thread[w].at \in 1..Len(buf[MsgClass(w)])
    PROVE  /\ Types'
           /\ LET k == MsgClass(w) IN
              /\ Len(buf'[k]) = Len(buf[k])
              /\ \A b \in 1..Len(buf[k]) :
                    /\ buf'[k][b].slot = buf[k][b].slot
                    /\ buf'[k][b].nb = IF b = thread[w].at THEN buf[k][b].nb + 1 ELSE buf[k][b].nb
              /\ \A c \in Class : c # k => buf'[c] = buf[c]
<1> DEFINE k == MsgClass(w)
           b == thread[w].at
           n == buf[k][b].nb + 1
           v == [buf[k][b] EXCEPT !.nb = n]
<1>1. k \in Class /\ buf[k] \in Seq(Buffer) /\ b \in 1..Len(buf[k]) /\ Len(buf[k]) >= 1
    BY Zenon, ClassFacts DEF Types
<1>2. buf[k][b] \in Buffer /\ buf[k][b].nb \in Nat
  <2>1. buf[k][b] \in Buffer
    <3> HIDE DEF k, b
    <3> QED BY <1>1
  <2> QED BY Zenon, <2>1 DEF Buffer
<1>3. buf' = [buf EXCEPT ![k] = [buf[k] EXCEPT ![b] = v]] BY Zenon DEF Count
<1>4. thread[w].pc = "count" /\ Written(w) BY Zenon DEF Count
<1>5. UNCHANGED <<id, ready, inited, epoch, mem, conf, head, freed, drain, sent, unread>>
    BY Zenon DEF Count, chanVars
<1>6. thread' \in [Writer -> Thread] /\ \A u \in Writer : WorkOK(thread'[u])
    BY Zenon, <1>4, WrittenTypes, ThreadTypes
<1> HIDE DEF k, b
<1>7. n \in Nat BY <1>2
<1> HIDE DEF n
<1>8. v \in Buffer /\ v.slot = buf[k][b].slot /\ v.nb = n BY Zenon, <1>2, <1>7 DEF Buffer
<1> HIDE DEF v
<1>9. /\ buf' \in [Class -> Seq(Buffer)] /\ \A c \in Class : Len(buf'[c]) >= 1
      /\ Len(buf'[k]) = Len(buf[k]) /\ buf'[k][b] = v
      /\ \A j \in 1..Len(buf[k]) : j # b => buf'[k][j] = buf[k][j]
      /\ \A c \in Class : c # k => buf'[c] = buf[c]
  <2>1. Types BY Zenon
  <2> QED BY ONLY Zenon, <1>1, <1>3, <1>8, <2>1, ChainTypes
<1>10. Types' BY Zenon, <1>5, <1>6, <1>9 DEF Types
<1>11. ASSUME NEW j \in 1..Len(buf[k])
       PROVE  /\ buf'[k][j].slot = buf[k][j].slot
              /\ buf'[k][j].nb = IF j = b THEN buf[k][j].nb + 1 ELSE buf[k][j].nb
    BY Zenon, <1>8, <1>9 DEF n
<1> QED BY Zenon, <1>9, <1>10, <1>11 DEF k, b
-----------------------------------------------------------------------------
\* A handler's state changes to r.
LEMMA ConfTypes ==
    ASSUME Types, NEW h \in Handler, NEW r \in Handling, conf' = [conf EXCEPT ![h] = r]
    PROVE  conf' \in [Handler -> Handling]
BY Zenon DEF Types

\* prov_write_machine_id and prov_write_boot_id.
LEMMA SetIdTypes ==
    ASSUME Types, NEW h \in Config, NEW f \in {"boot", "machine"}, SetId(h, f)
    PROVE  /\ Types' /\ conf'[h].pc = "handover"
           /\ \A g \in Handler : g # h => conf'[g] = conf[g]
           /\ ~conf'[h].met => \A g \in Config : g # h => conf[g].pc = "idle"
<1> DEFINE b == conf[h].met \/ \E g \in Config \ {h} : conf[g].pc # "idle"
           a == [conf[h] EXCEPT !.pc = "handover", !.left = conf[h].left - 1, !.met = b]
<1>1. conf' = [conf EXCEPT ![h] = a] BY Zenon DEF SetId
<1>2. conf[h] \in Handling /\ h \in Handler /\ conf[h].left > 0 BY Zenon DEF Types, Handler, SetId
<1>3. conf[h].left - 1 \in Nat BY <1>2 DEF Handling
<1>4. a \in Handling /\ a.pc = "handover" /\ a.met = b
  <2>1. b \in BOOLEAN BY Zenon, <1>2 DEF Handling
  <2> HIDE DEF b
  <2> QED BY Zenon, <1>2, <1>3, <2>1 DEF Handling
<1> HIDE DEF a
<1>5. conf' \in [Handler -> Handling] BY Zenon, <1>1, <1>2, <1>4, ConfTypes
<1>6. id' \in [boot : {0, 1}, machine : {0, 1}] BY Zenon DEF Types, SetId
<1>7. UNCHANGED <<ready, inited, epoch, mem, thread, head, buf, freed, drain, sent, unread>>
    BY Zenon DEF SetId, bufVars, chanVars
<1>8. Types' BY Zenon, <1>5, <1>6, <1>7 DEF Types
<1> QED BY Zenon, <1>1, <1>2, <1>4, <1>8 DEF Types

\* The channel and epoch files.
LEMMA ChanFileTypes ==
    ASSUME Types, NEW h \in Config, WriteEpoch(h) \/ \E c \in Extra : CreateChannel(h, c)
    PROVE  /\ Types' /\ \A g \in Handler : conf'[g].pc = conf[g].pc /\ conf'[g].tmp = conf[g].tmp
           /\ UNCHANGED <<id, ready, inited, mem, thread, head, buf, freed, drain, sent, unread>>
<1> DEFINE a == [conf[h] EXCEPT !.left = conf[h].left - 1]
<1>1. conf' = [conf EXCEPT ![h] = a] BY Zenon DEF WriteEpoch, CreateChannel
<1>2. conf[h] \in Handling /\ h \in Handler /\ conf[h].left > 0 BY Zenon DEF Types, Handler, WriteEpoch, CreateChannel
<1>3. conf[h].left - 1 \in Nat BY <1>2 DEF Handling
<1>4. a \in Handling /\ a.pc = conf[h].pc /\ a.tmp = conf[h].tmp BY Zenon, <1>2, <1>3 DEF Handling
<1> HIDE DEF a
<1>5. conf' \in [Handler -> Handling] BY Zenon, <1>1, <1>2, <1>4, ConfTypes
<1>6. epoch' \in Nat BY DEF Types, WriteEpoch, CreateChannel
<1>7. UNCHANGED <<id, ready, inited, mem, thread, head, buf, freed, drain, sent, unread>>
    BY Zenon DEF WriteEpoch, CreateChannel, bufVars, chanVars
<1>8. Types' BY Zenon, <1>5, <1>6, <1>7 DEF Types
<1> QED BY Zenon, <1>1, <1>2, <1>4, <1>7, <1>8 DEF Types

\* relay_prov_init.
LEMMA InitcallTypes ==
    ASSUME Types, RelayProvInit
    PROVE  /\ Types' /\ conf'["init"].pc = "handover" /\ \A g \in Config : conf'[g] = conf[g]
<1> DEFINE a == [conf["init"] EXCEPT !.pc = "handover"]
<1>1. conf' = [conf EXCEPT !["init"] = a] BY Zenon DEF RelayProvInit
<1>2. "init" \in Handler /\ conf["init"] \in Handling /\ \A g \in Config : g # "init" /\ g \in Handler
    BY Zenon, RelayAssumption DEF Types, Handler
<1>3. a \in Handling /\ a.pc = "handover" BY Zenon, <1>2 DEF Handling
<1> HIDE DEF a
<1>4. conf' \in [Handler -> Handling] BY Zenon, <1>1, <1>2, <1>3, ConfTypes
<1>5. /\ inited' = TRUE
      /\ UNCHANGED <<id, ready, epoch, mem, thread, head, buf, freed, drain, sent, unread>>
    BY Zenon DEF RelayProvInit, bufVars, chanVars
<1>6. Types' BY Zenon, <1>4, <1>5 DEF Types
<1> QED BY Zenon, <1>1, <1>2, <1>3, <1>6 DEF Types

\* write_boot_buffer begins.
LEMMA HandOverTypes ==
    ASSUME Types, NEW h \in Handler, HandOver(h)
    PROVE  /\ Types' /\ \A g \in Handler : g # h => conf'[g] = conf[g]
           /\ \/ ~Identified /\ conf'[h].pc = "idle" /\ UNCHANGED ready
              \/ Identified /\ ready' = TRUE /\ conf'[h].pc = "schedule" /\ conf'[h].tmp = head
           /\ UNCHANGED <<id, inited, mem, thread, head, buf, freed, drain, sent, unread>>
<1> DEFINE a == [conf[h] EXCEPT !.pc = "idle"]
           b == [conf[h] EXCEPT !.pc = "schedule", !.tmp = head]
<1>1. \/ ~Identified /\ conf' = [conf EXCEPT ![h] = a] /\ UNCHANGED ready
      \/ Identified /\ conf' = [conf EXCEPT ![h] = b] /\ ready' = TRUE
    BY Zenon DEF HandOver
<1>2. conf[h] \in Handling /\ head \in [Class -> {0, 1}] BY Zenon DEF Types
<1>3. a \in Handling /\ a.pc = "idle" BY Zenon, <1>2 DEF Handling
<1>4. b \in Handling /\ b.pc = "schedule" /\ b.tmp = head BY Zenon, <1>2 DEF Handling
<1> HIDE DEF a, b
<1>5. conf' \in [Handler -> Handling] BY Zenon, <1>1, <1>3, <1>4, ConfTypes
<1>6. UNCHANGED <<id, inited, epoch, mem, thread, head, buf, freed, drain, sent, unread>>
    BY Zenon DEF HandOver, bufVars, chanVars
<1>7. Types'
  <2>1. ready' \in BOOLEAN BY Zenon, <1>1 DEF Types
  <2> QED BY Zenon, <1>5, <1>6, <2>1 DEF Types
<1>8. conf \in [Handler -> Handling] BY Zenon DEF Types
<1> QED BY Zenon, <1>1, <1>3, <1>4, <1>6, <1>7, <1>8

\* write_boot_buffer ends.
LEMMA ScheduleTypes ==
    ASSUME Types, NEW h \in Handler, Schedule(h)
    PROVE  /\ Types' /\ \A g \in Handler : g # h => conf'[g] = conf[g]
           /\ conf'[h].pc = "idle"
           /\ \A g \in Handler : g # h => drain'[g] = drain[g]
           /\ \A k \in Class : drain'[h][k] = TaskOn(conf[h].tmp[k])
           /\ \E r \in Rec : RelayWrite({<<"base", "long">>}, r) /\ r.no \in HandlerNo
<1> DEFINE a == [conf[h] EXCEPT !.pc = "idle"]
           d == [k \in Class |-> TaskOn(conf[h].tmp[k])]
           r == [no |-> <<h, conf[h].left, "machine">>, kind |-> "node", n |-> "machine",
                 boot |-> id.boot, end |-> id.boot, ep |-> epoch, begun |-> epoch]
           m == [boot |-> id.boot, ep |-> 0]
<1>1. /\ conf' = [conf EXCEPT ![h] = a] /\ drain' = [drain EXCEPT ![h] = d]
      /\ mem' = [mem EXCEPT !["machine"] = m]
      /\ RelayWrite({<<"base", "long">>}, r) /\ head' = [k \in Class |-> 0]
      /\ UNCHANGED <<id, ready, inited, epoch, thread, buf, freed>>
    BY Zenon DEF Schedule
<1>2. conf[h] \in Handling /\ conf[h].tmp \in [Class -> {0, 1}] /\ conf[h].left \in Nat
      /\ epoch \in Nat /\ id.boot \in {0, 1}
    BY Zenon DEF Types, Handling
<1>3. a \in Handling /\ a.pc = "idle" BY Zenon, <1>2 DEF Handling
<1>4. \A b \in {0, 1} : TaskOn(b) \in Task BY DEF TaskOn, Task, NoTask
<1>5. d \in [Class -> Task] BY Zenon, <1>2, <1>4
<1>6. r.no \in HandlerNo /\ r \in Rec
  <2>1. <<h, conf[h].left, "machine">> \in HandlerNo BY Zenon, <1>2 DEF HandlerNo
  <2>2. "machine" \in Node \cup {"none"} BY Zenon DEF Node
  <2> QED BY Zenon, <1>2, <2>1, <2>2 DEF Rec, Number
<1>7. m \in [boot : {0, 1}, ep : Nat] BY Zenon, <1>2
<1>8. \A k \in Class : d[k] = TaskOn(conf[h].tmp[k]) BY Zenon
<1> HIDE DEF a, d, r, m
<1>9. conf' \in [Handler -> Handling] BY Zenon, <1>1, <1>3, ConfTypes
<1>10. drain' \in [Handler -> [Class -> Task]] BY Zenon, <1>1, <1>5 DEF Types
<1>11. mem' \in [Node -> [boot : {0, 1}, ep : Nat]] BY Zenon, <1>1, <1>7 DEF Types
<1>12. sent' \in [Stream -> Seq(Rec)] /\ unread' \in [Stream -> Nat] BY Zenon, <1>1, <1>6, WriteTypes
<1>13. head' \in [Class -> {0, 1}] BY Zenon, <1>1
<1>14. Types' BY Zenon, <1>1, <1>9, <1>10, <1>11, <1>12, <1>13 DEF Types
<1>15. conf \in [Handler -> Handling] /\ drain \in [Handler -> [Class -> Task]] BY Zenon DEF Types
<1> QED BY Zenon, <1>1, <1>3, <1>6, <1>8, <1>14, <1>15

\* One entry of a buffer: the drain completes it, and writes it or starts anew.
LEMMA EntryTypes ==
    ASSUME Types, NEW h \in Handler, NEW k \in Class, DrainEntry(h, k), drain[h][k].at \in 1..Len(buf[k])
    PROVE  LET t == drain[h][k] IN
           /\ Types' /\ UNCHANGED <<id, ready, inited, mem, thread, conf, head, freed>>
           /\ Len(buf'[k]) = Len(buf[k]) /\ \A c \in Class : c # k => buf'[c] = buf[c]
           /\ \A b \in 1..Len(buf[k]) :
                 /\ buf'[k][b].nb = buf[k][b].nb
                 /\ \A j \in 1..MaxEntry : buf'[k][b].slot[j].no = buf[k][b].slot[j].no
           /\ \A g \in Handler, c \in Class : g # h \/ c # k => drain'[g][c] = drain[g][c]
           /\ drain'[h][k].at = t.at
           /\ \/ /\ \E r \in Rec : /\ RelayWrite({<<"base", k>>}, r) /\ r.no = Entry(k, t.at, t.i + 1).no
                                   /\ id.boot # 0 => r.boot # 0 /\ r.end # 0
                 /\ ~Full(<<"base", k>>)
                 /\ drain'[h][k].st = "run" /\ drain'[h][k].i = t.i + 1
              \/ drain'[h][k].st = "sleep" /\ drain'[h][k].i = 0 /\ UNCHANGED chanVars
<1> DEFINE t == drain[h][k]
           n == t.i + 1
           e == Entry(k, t.at, n)
           r == Tightened(e)
           u == buf[k][t.at]
           v == [u EXCEPT !.slot[n] = r]
           a == [st |-> "run", at |-> t.at, i |-> n]
           b == TaskOn(t.at)
<1>1. t \in Task /\ t.i \in Nat /\ n \in Nat /\ t.at \in Nat /\ t.at # 0 BY DEF Types, Task
<1>2. u \in Buffer /\ buf[k] \in Seq(Buffer) /\ Len(buf[k]) >= 1 BY DEF Types
<1>3. e \in Rec /\ r \in Rec /\ r.no = e.no
  <2>1. \A j \in 1..MaxEntry : u.slot[j] \in Rec BY Zenon, <1>2 DEF Buffer
  <2>3. n <= MaxEntry => n \in 1..MaxEntry BY <1>1, RelayAssumption
  <2>4. n <= MaxEntry => e = u.slot[n] BY Zenon DEF Entry
  <2>5. ~(n <= MaxEntry) => e = Empty BY Zenon DEF Entry
  <2>6. Empty \in Rec BY Zenon, RecFacts
  <2>7. e \in Rec BY Zenon, <2>1, <2>3, <2>4, <2>5, <2>6
  <2> HIDE DEF e
  <2> QED BY Zenon, <2>7, RecFacts
<1>4. id.boot # 0 => r.boot # 0 /\ r.end # 0
  <2> HIDE DEF e
  <2> QED BY Zenon, <1>3 DEF Tightened, TightenIdentifier, Rec
<1>5. /\ buf' = [buf EXCEPT ![k] = [buf[k] EXCEPT ![t.at] = v]]
      /\ UNCHANGED <<id, ready, inited, epoch, mem, thread, conf, head, freed, chans, files, crashed, since>>
  <2>1. buf' = [buf EXCEPT ![k] = [buf[k] EXCEPT ![t.at] = v]] BY Zenon DEF DrainEntry
  <2>2. UNCHANGED <<id, ready, inited, epoch, mem, thread, conf, head, freed, chans, files, crashed, since>>
    BY Zenon DEF DrainEntry
  <2> QED BY Zenon, <2>1, <2>2
<1>6. \/ /\ ~Full(<<"base", k>>) /\ RelayWrite({<<"base", k>>}, r)
         /\ drain' = [drain EXCEPT ![h] = [drain[h] EXCEPT ![k] = a]]
      \/ drain' = [drain EXCEPT ![h] = [drain[h] EXCEPT ![k] = b]] /\ UNCHANGED chanVars
    BY Zenon DEF DrainEntry
<1>7. a \in Task /\ a.st = "run" /\ a.i = n /\ a.at = t.at BY Zenon, <1>1 DEF Task
<1>8. b \in Task /\ b.st = "sleep" /\ b.i = 0 /\ b.at = t.at BY Zenon, <1>1 DEF Task, TaskOn
<1>9. /\ v \in Buffer /\ v.nb = u.nb
      /\ \A j \in 1..MaxEntry : v.slot[j] = IF j = n THEN r ELSE u.slot[j]
    BY Zenon, <1>1, <1>2, <1>3, StoreTypes
<1>10. \A j \in 1..MaxEntry : v.slot[j].no = u.slot[j].no
  <2>1. n \in 1..MaxEntry => e = u.slot[n]
    <3>1. n \in 1..MaxEntry => n <= MaxEntry BY RelayAssumption
    <3> QED BY Zenon, <3>1 DEF Entry
  <2> HIDE DEF e, v, u, r
  <2> QED BY Zenon, <1>3, <1>9, <2>1
<1> HIDE DEF e, r, v, a, b
<1>11. /\ buf' \in [Class -> Seq(Buffer)] /\ \A c \in Class : Len(buf'[c]) >= 1
       /\ Len(buf'[k]) = Len(buf[k]) /\ buf'[k][t.at] = v
       /\ \A j \in 1..Len(buf[k]) : j # t.at => buf'[k][j] = buf[k][j]
       /\ \A c \in Class : c # k => buf'[c] = buf[c]
  <2>1. Types /\ k \in Class /\ t.at \in 1..Len(buf[k]) BY Zenon
  <2> HIDE DEF t
  <2> QED BY ONLY Zenon, <1>2, <1>5, <1>9, <2>1, ChainTypes
<1>12. \A j \in 1..Len(buf[k]) : /\ buf'[k][j].nb = buf[k][j].nb
                                 /\ \A l \in 1..MaxEntry : buf'[k][j].slot[l].no = buf[k][j].slot[l].no
  <2> HIDE DEF t, u
  <2> QED BY Zenon, <1>9, <1>10, <1>11 DEF u
<1>13. /\ drain' \in [Handler -> [Class -> Task]]
       /\ \A g \in Handler, c \in Class : g # h \/ c # k => drain'[g][c] = drain[g][c]
       /\ \/ ~Full(<<"base", k>>) /\ RelayWrite({<<"base", k>>}, r) /\ drain'[h][k] = a
          \/ drain'[h][k] = b /\ UNCHANGED chanVars
  <2> HIDE DEF t
  <2>1. Types /\ h \in Handler /\ k \in Class BY Zenon
  <2>2. CASE drain' = [drain EXCEPT ![h] = [drain[h] EXCEPT ![k] = a]]
    <3>1. a \in Task BY Zenon, <1>7
    <3>2. /\ drain' \in [Handler -> [Class -> Task]] /\ drain'[h][k] = a
          /\ \A g \in Handler, c \in Class : g # h \/ c # k => drain'[g][c] = drain[g][c]
        BY ONLY Zenon, <2>1, <2>2, <3>1 DEF Types
    <3>3. drain' = [drain EXCEPT ![h] = [drain[h] EXCEPT ![k] = b]] => a = b BY <2>2 DEF Types
    <3> QED BY Zenon, <1>6, <3>2, <3>3
  <2>3. CASE drain' = [drain EXCEPT ![h] = [drain[h] EXCEPT ![k] = b]] /\ UNCHANGED chanVars
    <3>0. b \in Task BY Zenon, <1>8
    <3>1. drain' = [drain EXCEPT ![h] = [drain[h] EXCEPT ![k] = b]] BY Zenon, <2>3
    <3>2. /\ drain' \in [Handler -> [Class -> Task]] /\ drain'[h][k] = b
          /\ \A g \in Handler, c \in Class : g # h \/ c # k => drain'[g][c] = drain[g][c]
        BY ONLY Zenon, <2>1, <3>0, <3>1 DEF Types
    <3> QED BY Zenon, <2>3, <3>2
  <2> QED BY Zenon, <1>6, <2>2, <2>3
<1>14. sent' \in [Stream -> Seq(Rec)] /\ unread' \in [Stream -> Nat]
  <2>1. CASE RelayWrite({<<"base", k>>}, r) BY Zenon, <1>3, <2>1, WriteTypes
  <2>2. CASE UNCHANGED chanVars BY Zenon, <2>2 DEF chanVars, Types
  <2> QED BY Zenon, <1>13, <2>1, <2>2
<1>15. Types' BY Zenon, <1>5, <1>11, <1>13, <1>14 DEF Types
<1> QED BY Zenon, <1>3, <1>4, <1>5, <1>7, <1>8, <1>11, <1>12, <1>13, <1>15 DEF e

\* The end of a buffer.
LEMMA NextTypes ==
    ASSUME Types, NEW h \in Handler, NEW k \in Class, DrainNext(h, k)
    PROVE  LET t == drain[h][k] IN
           /\ Types' /\ UNCHANGED <<id, ready, inited, mem, thread, conf, head, buf, chanVars>>
           /\ freed'[k] = freed[k] \cup {t.at} /\ \A c \in Class : c # k => freed'[c] = freed[c]
           /\ \A g \in Handler, c \in Class : g # h \/ c # k => drain'[g][c] = drain[g][c]
           /\ \/ t.at < Len(buf[k]) /\ drain'[h][k] = [st |-> "run", at |-> t.at + 1, i |-> 0]
              \/ ~(t.at < Len(buf[k])) /\ drain'[h][k] = NoTask
<1> DEFINE t == drain[h][k]
           a == IF t.at < Len(buf[k]) THEN [st |-> "run", at |-> t.at + 1, i |-> 0] ELSE NoTask
<1>1. t.at \in Nat BY Zenon DEF Types, Task
<1>2. a \in Task BY <1>1 DEF Task, NoTask
<1>3. drain' = [drain EXCEPT ![h] = [drain[h] EXCEPT ![k] = a]] BY Zenon DEF DrainNext
<1>4. UNCHANGED <<id, ready, inited, epoch, mem, thread, conf, head, buf, chans, files, chanVars, crashed, since>>
    BY Zenon DEF DrainNext
<1>5. freed' = [freed EXCEPT ![k] = freed[k] \cup {t.at}] BY Zenon DEF DrainNext
<1>6. a = IF t.at < Len(buf[k]) THEN [st |-> "run", at |-> t.at + 1, i |-> 0] ELSE NoTask BY Zenon
<1> HIDE DEF t, a
<1>7. /\ drain' \in [Handler -> [Class -> Task]] /\ drain'[h][k] = a
      /\ \A g \in Handler, c \in Class : g # h \/ c # k => drain'[g][c] = drain[g][c]
  <2>1. Types /\ h \in Handler /\ k \in Class BY Zenon
  <2> QED BY ONLY Zenon, <1>2, <1>3, <2>1 DEF Types
<1>8. /\ freed' \in [Class -> SUBSET Nat] /\ freed'[k] = freed[k] \cup {t.at}
      /\ \A c \in Class : c # k => freed'[c] = freed[c]
    BY Zenon, <1>1, <1>5 DEF Types
<1>9. Types' BY Zenon, <1>4, <1>7, <1>8 DEF Types, chanVars
<1> QED BY Zenon, <1>4, <1>6, <1>7, <1>8, <1>9 DEF t

\* A consumer reads.
LEMMA ConsumeTypes ==
    ASSUME Types, NEW c \in Name, Consume(c)
    PROVE  /\ Types'
           /\ UNCHANGED <<id, ready, inited, epoch, mem, thread, conf, head, buf, freed, drain, sent>>
<1>1. UNCHANGED <<id, ready, inited, epoch, mem, thread, conf, head, buf, freed, drain, sent>>
    BY Zenon DEF Consume, bufVars
<1>2. unread' \in [Stream -> Nat] BY Zenon DEF Types, Consume
<1> QED BY Zenon, <1>1, <1>2 DEF Types

\* The initial state.
LEMMA InitTypes ==
    ASSUME Init
    PROVE  Types
<1>1. Empty \in Rec BY Zenon DEF Empty, Rec, Number
<1>2. NewBuffer \in Buffer BY Zenon, NewBufferType
<1>3. buf \in [Class -> Seq(Buffer)] /\ \A k \in Class : Len(buf[k]) >= 1 BY <1>2 DEF Init
<1>4. thread \in [Writer -> Thread] /\ \A w \in Writer : WorkOK(thread[w])
  <2> DEFINE r == [pc |-> "idle", n |-> "none", msg |-> Empty, at |-> 0, ep |-> 0, left |-> MaxRel]
  <2>1. r \in Thread BY Zenon, <1>1, RelayAssumption DEF Thread
  <2>2. WorkOK(r) BY Zenon DEF WorkOK, Empty
  <2>3. thread = [w \in Writer |-> r] BY Zenon DEF Init
  <2> HIDE DEF r
  <2> QED BY Zenon, <2>1, <2>2, <2>3
<1>5. conf \in [Handler -> Handling]
  <2> PICK share \in Shares :
          conf = [h \in Handler |-> [pc |-> "idle", tmp |-> [k \in Class |-> 0], left |-> MaxConf,
                                     files |-> share[h], met |-> FALSE]]
      BY Zenon DEF Init
  <2>1. share \in [Handler -> SUBSET {"boot", "machine", "channel", "epoch"}] BY Zenon, RelayAssumption
  <2>2. MaxConf \in Nat BY Zenon, RelayAssumption
  <2> QED BY Zenon, <2>1, <2>2 DEF Handling
<1>6. drain \in [Handler -> [Class -> Task]] BY Zenon DEF Init, Task, NoTask
<1>7. mem \in [Node -> [boot : {0, 1}, ep : Nat]] BY Zenon DEF Init, Node
<1>8. sent \in [Stream -> Seq(Rec)] /\ unread \in [Stream -> Nat] BY DEF Init
<1>9. /\ id \in [boot : {0, 1}, machine : {0, 1}] /\ ready \in BOOLEAN /\ inited \in BOOLEAN /\ epoch \in Nat
      /\ head \in [Class -> {0, 1}] /\ freed \in [Class -> SUBSET Nat]
  <2>1. ready \in BOOLEAN /\ inited \in BOOLEAN BY Zenon DEF Init
  <2>2. id \in [boot : {0, 1}, machine : {0, 1}] /\ epoch \in Nat BY Zenon DEF Init
  <2>3. head \in [Class -> {0, 1}] /\ freed \in [Class -> SUBSET Nat] BY Zenon DEF Init
  <2> QED BY Zenon, <2>1, <2>2, <2>3
<1> QED BY Zenon, <1>3, <1>4, <1>5, <1>6, <1>7, <1>8, <1>9 DEF Types
-----------------------------------------------------------------------------
(* Who owns the boot buffers *)

\* A step of writer w to state r.  A writer gets to work on a chain only through
\* the global pointer.
LEMMA WriterOwner ==
    ASSUME OwnerInv, NEW w \in Writer, NEW r \in Thread, thread' = [thread EXCEPT ![w] = r],
           UNCHANGED <<id, inited, ready, conf, head, freed, drain>>,
           \A k \in Class : Len(buf'[k]) \in Nat /\ Len(buf'[k]) >= Len(buf[k]),
           r.pc \in {"insert", "count"} => head[MsgClass(w)'] = 1,
           r.pc = "count" => r.at \in 1..Len(buf'[MsgClass(w)'])
    PROVE  Phase' /\ Ownership' /\ Sole(conf', drain')
<1>0. Sole(conf', drain') BY Zenon DEF OwnerInv
<1>1. Phase' BY Zenon DEF OwnerInv, Phase, Identified
<1>2. thread'[w] = r /\ \A v \in Writer : v # w => thread'[v] = thread[v] BY Zenon DEF OwnerInv, Types
<1>3. \A v \in Writer : v # w => MsgClass(v)' = MsgClass(v) BY <1>2 DEF MsgClass
<1>4. ASSUME NEW k \in Class PROVE Len(buf[k]) \in Nat BY Zenon, ChainFacts DEF OwnerInv
<1>5. ASSUME NEW k \in Class, freed[k] # {} \/ \E h \in Config : drain[h][k].st = "run" PROVE ~Busy(k)'
  <2>1. ~Busy(k) BY Zenon, <1>5 DEF OwnerInv, Ownership
  <2>2. head[k] # 1 BY Zenon, <1>5 DEF OwnerInv, Ownership, Handler
  <2>3. ASSUME NEW v \in Writer, thread'[v].pc \in {"insert", "count"}, MsgClass(v)' = k PROVE FALSE
    <3>1. CASE v = w BY Zenon, <1>2, <2>2, <2>3, <3>1
    <3>2. CASE v # w BY Zenon, <1>2, <1>3, <2>1, <2>3, <3>2 DEF Busy
    <3> QED BY Zenon, <3>1, <3>2
  <2> QED BY Zenon, <2>3 DEF Busy
<1>6. ASSUME NEW k \in Class, NEW v \in Writer, thread'[v].pc = "count", MsgClass(v)' = k
      PROVE  thread'[v].at \in 1..Len(buf'[k])
  <2>1. CASE v = w BY Zenon, <1>2, <1>6, <2>1
  <2>2. CASE v # w
    <3>1. thread[v].pc = "count" /\ MsgClass(v) = k BY Zenon, <1>2, <1>3, <1>6, <2>2
    <3>2. thread[v].at \in 1..Len(buf[k]) BY Zenon, <3>1 DEF OwnerInv, Ownership
    <3> QED BY <1>2, <1>4, <2>2, <3>2
  <2> QED BY Zenon, <2>1, <2>2
<1>7. ASSUME NEW k \in Class
      PROVE  /\ freed[k] \subseteq 1..Len(buf'[k])
             /\ \A h \in Config : drain[h][k].st # "none" => drain[h][k].at \in 1..Len(buf'[k])
  <2>1. 1..Len(buf[k]) \subseteq 1..Len(buf'[k]) BY <1>4
  <2> QED BY Zenon, <2>1 DEF OwnerInv, Ownership
<1>8. Ownership'
  <2> SUFFICES ASSUME NEW k \in Class
               PROVE  (/\ head[k] = 1 <=> ~ready \/ \E h \in Config : conf[h].pc = "schedule"
                       /\ head[k] = 1 => freed[k] = {} /\ \A h \in Handler : drain[h][k].st = "none"
                       /\ drain["init"][k].st = "none"
                       /\ freed[k] \subseteq 1..Len(buf[k])
                       /\ \A h \in Config : drain[h][k].st # "none" =>
                             drain[h][k].at \in 1..Len(buf[k]) /\ freed[k] = 1..(drain[h][k].at - 1)
                       /\ (freed[k] # {} \/ \E h \in Config : drain[h][k].st = "run") => ~Busy(k)
                       /\ \A v \in Writer : thread[v].pc = "count" /\ MsgClass(v) = k =>
                             thread[v].at \in 1..Len(buf[k]))'
      BY Zenon DEF Ownership
  <2>1. (freed[k] # {} \/ \E h \in Config : drain[h][k].st = "run")' => ~Busy(k)' BY Zenon, <1>5
  <2>2. \A v \in Writer : thread'[v].pc = "count" /\ MsgClass(v)' = k => thread'[v].at \in 1..Len(buf'[k])
    BY Zenon, <1>6
  <2>3. /\ head[k] = 1 <=> ~ready \/ \E h \in Config : conf[h].pc = "schedule"
        /\ head[k] = 1 => freed[k] = {} /\ \A h \in Handler : drain[h][k].st = "none"
        /\ drain["init"][k].st = "none"
        /\ \A h \in Config : drain[h][k].st # "none" => freed[k] = 1..(drain[h][k].at - 1)
      BY Zenon DEF OwnerInv, Ownership
  <2> QED BY Zenon, <1>7, <2>1, <2>2, <2>3
<1> QED BY Zenon, <1>0, <1>1, <1>8

\* A step that leaves the chains, the drains and the writers alone.
LEMMA IdleOwner ==
    ASSUME OwnerInv,
           UNCHANGED <<id, inited, ready, thread, head, buf, freed, drain>>,
           \A h \in Handler : conf'[h].pc = conf[h].pc /\ conf'[h].tmp = conf[h].tmp
    PROVE  Phase' /\ Ownership' /\ Sole(conf', drain')
<1>0. "init" \in Handler /\ Config \subseteq Handler BY Zenon DEF Handler
<1>1. Phase' BY Zenon, <1>0 DEF OwnerInv, Phase, Identified
<1>2. \A k \in Class : Busy(k)' = Busy(k) /\ \A w \in Writer : MsgClass(w)' = MsgClass(w) BY Zenon DEF Busy, MsgClass
<1>3. Ownership' BY <1>0, <1>2 DEF OwnerInv, Ownership
<1>4. Sole(conf', drain') BY Zenon, <1>0 DEF OwnerInv, Sole
<1> QED BY Zenon, <1>1, <1>3, <1>4

\* A step of a writer outside insert_boot_buffer, or into it while the relay is
\* not ready.
LEMMA AsideOwner ==
    ASSUME OwnerInv, Types', NEW w \in Writer, NEW r \in Thread, thread' = [thread EXCEPT ![w] = r],
           UNCHANGED <<id, inited, ready, conf, head, freed, drain>>,
           \A k \in Class : Len(buf'[k]) = Len(buf[k]),
           r.pc # "count", r.pc = "insert" => ~ready
    PROVE  OwnerInv'
<1>1. \A k \in Class : Len(buf'[k]) \in Nat /\ Len(buf'[k]) >= Len(buf[k]) BY DEF OwnerInv, Types
<1>2. MsgClass(w)' \in Class BY Zenon DEF MsgClass, ClassOf, Class
<1>3. r.pc \in {"insert", "count"} => head[MsgClass(w)'] = 1 BY Zenon, <1>2 DEF OwnerInv, Ownership
<1>4. r.pc = "count" => r.at \in 1..Len(buf'[MsgClass(w)']) BY Zenon
<1>5. Phase' /\ Ownership' /\ Sole(conf', drain') BY Zenon, <1>1, <1>3, <1>4, WriterOwner
<1> QED BY Zenon, <1>5 DEF OwnerInv

\* Each step of a writer.
LEMMA WriterStepOwner ==
    ASSUME OwnerInv, NEW w \in Writer, WriterNext(w)
    PROVE  OwnerInv'
<1>0. Types /\ Len(buf["short"]) \in Nat /\ Len(buf["long"]) \in Nat BY ClassFacts DEF OwnerInv, Types
<1>1. \A k \in Class : Len(buf[k]) \in Nat BY Zenon, <1>0 DEF Class
<1>2. ASSUME NEW n \in Node, Begin(w, n) PROVE OwnerInv'
  <2>1. Types' /\ \E r \in Thread : thread' = [thread EXCEPT ![w] = r] /\ r.pc \in {"check", "prepare"}
    BY Zenon, <1>0, <1>2, BeginTypes
  <2>2. UNCHANGED <<id, inited, ready, conf, head, buf, freed, drain>> BY Zenon, <1>2 DEF Begin, bufVars
  <2> QED BY Zenon, <2>1, <2>2, AsideOwner
<1>3. CASE PrepareRelation(w)
  <2>1. Types' /\ \E r \in Thread : thread' = [thread EXCEPT ![w] = r] /\ r.pc = "check"
    BY Zenon, <1>0, <1>3, PrepareTypes
  <2>2. UNCHANGED <<id, inited, ready, conf, head, buf, freed, drain>> BY Zenon, <1>3 DEF PrepareRelation, bufVars
  <2> QED BY Zenon, <2>1, <2>2, AsideOwner
<1>4. CASE WriteLive(w)
  <2>1. Types' BY Zenon, <1>0, <1>4, LiveTypes
  <2>2. \E r \in Thread : thread' = [thread EXCEPT ![w] = r] /\ r.pc \in {"idle", "prepare"}
    <3>1. thread[w].pc # "idle" /\ Written(w) BY Zenon, <1>4 DEF WriteLive
    <3> QED BY Zenon, <1>0, <3>1, WrittenTypes
  <2>3. UNCHANGED <<id, inited, ready, conf, head, buf, freed, drain>> BY Zenon, <1>4 DEF WriteLive, bufVars
  <2> QED BY Zenon, <2>1, <2>2, <2>3, AsideOwner
<1>5. CASE WriteBoot(w)
  <2>1. Types' /\ \E r \in Thread : thread' = [thread EXCEPT ![w] = r] /\ r.pc = "insert"
    BY Zenon, <1>0, <1>5, BootTypes
  <2>2. UNCHANGED <<id, inited, ready, conf, head, buf, freed, drain>> BY Zenon, <1>5 DEF WriteBoot, bufVars
  <2>3. ~ready BY Zenon, <1>5 DEF WriteBoot
  <2> QED BY Zenon, <2>1, <2>2, <2>3, AsideOwner
<1>6. CASE Insert(w)
  <2>1. UNCHANGED <<id, inited, ready, conf, head, freed, drain>> BY Zenon, <1>6 DEF Insert
  <2>2. Types' BY Zenon, <1>0, <1>6, InsertTypes
  <2>3. CASE UNCHANGED <<buf, thread>> BY Zenon, <2>1, <2>2, <2>3, IdleOwner DEF OwnerInv
  <2>4. ASSUME NEW here \in Nat, NEW i \in Nat, NEW r \in Thread, Stored(w, here, i),
               thread' = [thread EXCEPT ![w] = r], r.pc = "count", r.at = here, r.n = thread[w].n,
               r.msg = thread[w].msg
        PROVE  OwnerInv'
    <3> DEFINE k == MsgClass(w)
    <3>1. k \in Class /\ head[k] = 1 BY Zenon, <2>4, ClassFacts DEF Stored, OwnerInv, Types
    <3>2. MsgClass(w)' = k
      <4>1. thread'[w] = r BY Zenon, <1>0, <2>4 DEF Types
      <4> QED BY <2>4, <4>1 DEF MsgClass
    <3>3. here = Len(buf'[k]) /\ Len(buf[k]) <= here /\ \A c \in Class : c # k => buf'[c] = buf[c]
      BY Zenon, <2>4 DEF Stored
    <3>4. Len(buf[k]) >= 1 BY Zenon, <1>0, <3>1 DEF Types
    <3> HIDE DEF k
    <3>5. \A c \in Class : Len(buf'[c]) \in Nat /\ Len(buf'[c]) >= Len(buf[c]) BY <1>1, <3>1, <3>3
    <3>6. r.at \in 1..Len(buf'[k]) BY <1>1, <2>4, <3>1, <3>3, <3>4
    <3>7. Phase' /\ Ownership' /\ Sole(conf', drain') BY Zenon, <2>1, <2>4, <3>1, <3>2, <3>5, <3>6, WriterOwner
    <3> QED BY Zenon, <2>2, <3>7 DEF OwnerInv
  <2>5. \/ UNCHANGED <<buf, thread>>
        \/ \E here \in Nat, i \in Nat, r \in Thread :
              /\ Stored(w, here, i) /\ thread' = [thread EXCEPT ![w] = r] /\ r.pc = "count" /\ r.at = here
              /\ r.n = thread[w].n /\ r.msg = thread[w].msg
    BY Zenon, <1>0, <1>6, InsertTypes
  <2> QED BY Zenon, <2>3, <2>4, <2>5
<1>7. CASE Count(w)
  <2> DEFINE k == MsgClass(w)
  <2>1. k \in Class /\ thread[w].at \in 1..Len(buf[k])
    BY Zenon, <1>7, ClassFacts DEF Count, OwnerInv, Ownership
  <2>2. Types' /\ Len(buf'[k]) = Len(buf[k]) /\ \A c \in Class : c # k => buf'[c] = buf[c]
    BY Zenon, <1>0, <1>7, <2>1, CountTypes
  <2>3. \E r \in Thread : thread' = [thread EXCEPT ![w] = r] /\ r.pc \in {"idle", "prepare"}
    <3>1. thread[w].pc # "idle" /\ Written(w) BY Zenon, <1>7 DEF Count
    <3> QED BY Zenon, <1>0, <3>1, WrittenTypes
  <2>4. UNCHANGED <<id, inited, ready, conf, head, freed, drain>> BY Zenon, <1>7 DEF Count
  <2> HIDE DEF k
  <2>5. \A c \in Class : Len(buf'[c]) = Len(buf[c]) BY Zenon, <2>2
  <2> QED BY Zenon, <2>2, <2>3, <2>4, <2>5, AsideOwner
<1> QED BY Zenon, <1>2, <1>3, <1>4, <1>5, <1>6, <1>7 DEF WriterNext, Node

\* A step of a handler that takes no boot buffer: the relay is not ready, before
\* and after it.
LEMMA EarlyOwner ==
    ASSUME OwnerInv, ~ready, UNCHANGED <<ready, thread, head, buf, freed, drain>>
    PROVE  Ownership'
<1>1. \A k \in Class : Busy(k)' = Busy(k) /\ \A w \in Writer : MsgClass(w)' = MsgClass(w) BY Zenon DEF Busy, MsgClass
<1>2. \A k \in Class : head[k] = 1 BY Zenon DEF OwnerInv, Ownership
<1> QED BY Zenon, <1>1, <1>2 DEF OwnerInv, Ownership

\* The control files.
LEMMA ConfigOwner ==
    ASSUME OwnerInv, ~Overlap', NEW h \in Config, ConfigNext(h)
    PROVE  OwnerInv'
<1>0. Types /\ "init" \in Handler /\ h \in Handler /\ h # "init" /\ Config \subseteq Handler
    BY Zenon, RelayAssumption DEF OwnerInv, Handler
<1>1. ASSUME NEW f \in {"boot", "machine"}, SetId(h, f) PROVE OwnerInv'
  <2>1. Types' /\ conf'[h].pc = "handover" /\ \A g \in Handler : g # h => conf'[g] = conf[g]
    BY Zenon, <1>0, <1>1, SetIdTypes
  <2>0. \A g \in Config : g # h => conf'[g].pc = "idle"
    <3>1. ~conf'[h].met BY Zenon DEF Overlap
    <3> QED BY Zenon, <1>0, <1>1, <2>1, <3>1, SetIdTypes
  <2>2. UNCHANGED <<ready, inited, thread, head, buf, freed, drain>> /\ id[f] = 0 /\ inited /\ conf["init"].pc = "idle"
    BY Zenon, <1>1 DEF SetId, bufVars, Userspace
  <2>3. ~ready BY Zenon, <2>2 DEF OwnerInv, Phase, Identified
  <2>4. Phase' BY Zenon, <1>0, <2>1, <2>2, <2>3 DEF OwnerInv, Phase
  <2>5. Ownership' BY Zenon, <2>2, <2>3, EarlyOwner
  <2>6. Sole(conf', drain') BY Zenon, <2>0, <2>2 DEF OwnerInv, Sole
  <2> QED BY Zenon, <2>1, <2>4, <2>5, <2>6 DEF OwnerInv
<1>2. CASE WriteEpoch(h) \/ \E c \in Extra : CreateChannel(h, c)
  <2>1. /\ Types' /\ \A g \in Handler : conf'[g].pc = conf[g].pc /\ conf'[g].tmp = conf[g].tmp
        /\ UNCHANGED <<id, ready, inited, thread, head, buf, freed, drain>>
    BY Zenon, <1>0, <1>2, ChanFileTypes
  <2> QED BY Zenon, <2>1, IdleOwner DEF OwnerInv
<1> QED BY Zenon, <1>1, <1>2 DEF ConfigNext

\* relay_prov_init.
LEMMA InitcallOwner ==
    ASSUME OwnerInv, RelayProvInit
    PROVE  OwnerInv'
<1>1. Types' /\ conf'["init"].pc = "handover" /\ \A g \in Config : conf'[g] = conf[g]
    BY Zenon, InitcallTypes DEF OwnerInv
<1>2. ~inited /\ inited' /\ UNCHANGED <<id, ready, thread, head, buf, freed, drain>> BY Zenon DEF RelayProvInit, bufVars
<1>3. ~ready /\ id.boot = 0 /\ id.machine = 0 BY Zenon, <1>2 DEF OwnerInv, Phase, Identified
<1>4. Phase' BY Zenon, <1>1, <1>2, <1>3 DEF OwnerInv, Phase
<1>5. Ownership' BY Zenon, <1>2, <1>3, EarlyOwner
<1>6. Sole(conf', drain')
  <2>1. \A g \in Config : conf'[g].pc = conf[g].pc BY Zenon, <1>1
  <2>2. Sole(conf', drain) BY Zenon, <2>1 DEF OwnerInv, Sole
  <2> QED BY Zenon, <1>2, <2>2
<1> QED BY Zenon, <1>1, <1>4, <1>5, <1>6 DEF OwnerInv

\* write_boot_buffer begins.
LEMMA HandOverOwner ==
    ASSUME OwnerInv, NEW h \in Handler, HandOver(h)
    PROVE  OwnerInv'
<1>0. Types /\ conf[h].pc = "handover" /\ "init" \in Handler /\ Config \subseteq Handler /\ "init" \notin Config
    BY Zenon, RelayAssumption DEF OwnerInv, HandOver, Handler
<1>1. /\ Types' /\ \A g \in Handler : g # h => conf'[g] = conf[g]
      /\ UNCHANGED <<id, inited, thread, head, buf, freed, drain>>
    BY Zenon, <1>0, HandOverTypes
<1>4. Sole(conf', drain')
  <2>1. \A g \in Config : conf'[g].pc # "idle" => conf[g].pc # "idle" BY Zenon, <1>0, <1>1
  <2> QED BY Zenon, <1>1, <2>1 DEF OwnerInv, Sole
<1>2. CASE ~Identified /\ conf'[h].pc = "idle" /\ UNCHANGED ready
  <2>1. ~ready BY Zenon, <1>2 DEF OwnerInv, Phase
  <2>2. Ownership' BY Zenon, <1>1, <1>2, <2>1, EarlyOwner
  <2>3. Phase' BY Zenon, <1>0, <1>1, <1>2, <2>1 DEF OwnerInv, Phase
  <2> QED BY Zenon, <1>1, <1>4, <2>2, <2>3 DEF OwnerInv
<1>3. CASE Identified /\ ready' = TRUE /\ conf'[h].pc = "schedule" /\ conf'[h].tmp = head
  <2>1. h # "init" BY Zenon, <1>0, <1>3 DEF OwnerInv, Phase, Identified
  <2>2. h \in Config /\ ~ready BY Zenon, <1>0, <2>1 DEF Handler, OwnerInv, Phase
  <2>3. \A k \in Class : head[k] = 1 BY Zenon, <2>2 DEF OwnerInv, Ownership
  <2>4. \A g \in Config : g # h => conf[g].pc = "idle" BY Zenon, <1>0, <2>2 DEF OwnerInv, Sole
  <2>5. Identified' BY Zenon, <1>1, <1>3 DEF Identified
  <2>6. Phase'
    <3>1. conf'["init"] = conf["init"] BY Zenon, <1>0, <1>1, <2>1
    <3>2. \A g \in Config : g # h => conf'[g].pc = "idle" BY Zenon, <1>0, <1>1, <2>4
    <3> QED BY Zenon, <1>1, <1>3, <2>3, <2>5, <3>1, <3>2 DEF OwnerInv, Phase
  <2>7. \A k \in Class : Busy(k)' = Busy(k) /\ \A w \in Writer : MsgClass(w)' = MsgClass(w)
    BY Zenon, <1>1 DEF Busy, MsgClass
  <2>8. Ownership' BY Zenon, <1>1, <1>3, <2>2, <2>3, <2>7 DEF OwnerInv, Ownership
  <2> QED BY Zenon, <1>1, <1>4, <2>6, <2>8 DEF OwnerInv
<1> QED BY Zenon, <1>0, <1>2, <1>3, HandOverTypes

\* write_boot_buffer ends.
LEMMA ScheduleOwner ==
    ASSUME OwnerInv, NEW h \in Handler, Schedule(h)
    PROVE  OwnerInv'
<1>0. Types /\ conf[h].pc = "schedule" /\ "init" \in Handler /\ Config \subseteq Handler /\ "init" \notin Config
    BY Zenon, RelayAssumption DEF OwnerInv, Schedule, Handler
<1>1. /\ Types' /\ conf'[h].pc = "idle" /\ \A g \in Handler : g # h => conf'[g] = conf[g]
      /\ \A g \in Handler : g # h => drain'[g] = drain[g]
      /\ \A k \in Class : drain'[h][k] = TaskOn(conf[h].tmp[k])
    BY Zenon, <1>0, ScheduleTypes
<1>2. UNCHANGED <<id, inited, ready, thread, buf, freed>> /\ head' = [k \in Class |-> 0] BY Zenon DEF Schedule
<1>3. h # "init" BY Zenon, <1>0 DEF OwnerInv, Phase
<1>4. h \in Config BY Zenon, <1>3 DEF Handler
<1>5. ready /\ \A k \in Class : conf[h].tmp[k] = 1 BY Zenon, <1>0, <1>4 DEF OwnerInv, Phase
<1>6. \A g \in Config : conf'[g].pc = "idle"
  <2>1. \A g \in Config : g # h => conf[g].pc = "idle" BY Zenon, <1>0, <1>4 DEF OwnerInv, Sole
  <2> QED BY Zenon, <1>0, <1>1, <2>1
<1>7. \A k \in Class : freed[k] = {} /\ \A g \in Handler : drain[g][k].st = "none"
    BY Zenon, <1>0, <1>4 DEF OwnerInv, Ownership
<1>8. Phase'
  <2>1. conf'["init"] = conf["init"] BY Zenon, <1>0, <1>1, <1>3
  <2> QED BY Zenon, <1>1, <1>2, <1>6, <2>1 DEF OwnerInv, Phase, Identified
<1>9. \A k \in Class : drain'[h][k] = [st |-> "sleep", at |-> 1, i |-> 0] BY <1>1, <1>5 DEF TaskOn
<1>10. \A k \in Class : Busy(k)' = Busy(k) /\ \A w \in Writer : MsgClass(w)' = MsgClass(w)
    BY Zenon, <1>2 DEF Busy, MsgClass
<1>11. ASSUME NEW k \in Class
       PROVE  (/\ head[k] = 1 <=> ~ready \/ \E g \in Config : conf[g].pc = "schedule"
               /\ head[k] = 1 => freed[k] = {} /\ \A g \in Handler : drain[g][k].st = "none"
               /\ drain["init"][k].st = "none"
               /\ freed[k] \subseteq 1..Len(buf[k])
               /\ \A g \in Config : drain[g][k].st # "none" =>
                     drain[g][k].at \in 1..Len(buf[k]) /\ freed[k] = 1..(drain[g][k].at - 1)
               /\ (freed[k] # {} \/ \E g \in Config : drain[g][k].st = "run") => ~Busy(k)
               /\ \A v \in Writer : thread[v].pc = "count" /\ MsgClass(v) = k =>
                     thread[v].at \in 1..Len(buf[k]))'
  <2>1. head'[k] = 0 /\ ready' /\ \A g \in Config : conf'[g].pc # "schedule" BY Zenon, <1>1, <1>2, <1>5, <1>6
  <2>2. drain'["init"][k].st = "none" BY Zenon, <1>0, <1>1, <1>3, <1>7
  <2>3. freed'[k] = {} BY Zenon, <1>2, <1>7
  <2>4. \A g \in Config : drain'[g][k].st # "none" => drain'[g][k].at = 1 /\ drain'[g][k].st = "sleep"
    <3>1. drain'[h][k].at = 1 /\ drain'[h][k].st = "sleep" BY <1>9
    <3> QED BY Zenon, <1>0, <1>1, <1>7, <3>1
  <2>5. 1 \in 1..Len(buf'[k]) BY Zenon, <1>1, ChainNextFacts
  <2>6. freed'[k] = 1..(1 - 1) BY <2>3
  <2>7. \A v \in Writer : thread'[v].pc = "count" /\ MsgClass(v)' = k => thread'[v].at \in 1..Len(buf'[k])
    BY Zenon, <1>2, <1>10 DEF OwnerInv, Ownership
  <2> QED BY <2>1, <2>2, <2>3, <2>4, <2>5, <2>6, <2>7
<1>12. Ownership' BY Zenon, <1>11 DEF Ownership
<1>13. Sole(conf', drain')
  <2>1. \A k \in Class, g \in Config : g # h => drain'[g][k].st = "none" BY Zenon, <1>0, <1>1, <1>7
  <2> QED BY Zenon, <1>6, <2>1 DEF Sole
<1> QED BY Zenon, <1>1, <1>8, <1>12, <1>13 DEF OwnerInv

\* What a drain that runs or wakes up finds: it is the only one of its chain, the
\* pointer is cleared, and no writer is at work.
LEMMA AwakeFacts ==
    ASSUME OwnerInv, SleepCovers, NEW h \in Handler, NEW k \in Class, Awake(h, k)
    PROVE  /\ h \in Config /\ drain[h][k].st # "none" /\ ~Busy(k) /\ head[k] = 0
           /\ drain[h][k].at \in 1..Len(buf[k]) /\ freed[k] = 1..(drain[h][k].at - 1)
           /\ ready /\ Identified /\ \A g \in Handler : g # h => drain[g][k].st = "none"
<1>1. drain[h][k].st # "none" BY Zenon DEF Awake
<1>2. h # "init" BY Zenon, <1>1 DEF OwnerInv, Ownership
<1>3. h \in Config BY Zenon, <1>2 DEF Handler
<1>4. \A g \in Config : g # h => drain[g][k].st = "none" BY Zenon, <1>1, <1>3 DEF OwnerInv, Sole
<1>5. ~Busy(k)
  <2>1. CASE drain[h][k].st = "run" BY Zenon, <1>3, <2>1 DEF OwnerInv, Ownership
  <2>2. CASE drain[h][k].st # "run" BY Zenon, <2>2 DEF Awake
  <2> QED BY Zenon, <2>1, <2>2
<1>6. head[k] # 1 BY Zenon, <1>1 DEF OwnerInv, Ownership
<1>7. head[k] = 0 BY Zenon, <1>6 DEF OwnerInv, Types
<1>8. drain[h][k].at \in 1..Len(buf[k]) /\ freed[k] = 1..(drain[h][k].at - 1) BY Zenon, <1>1, <1>3 DEF OwnerInv, Ownership
<1>9. ready /\ Identified BY Zenon, <1>6 DEF OwnerInv, Ownership, Phase
<1>10. \A g \in Handler : g # h => drain[g][k].st = "none" BY Zenon, <1>4 DEF Handler, OwnerInv, Ownership
<1> QED BY Zenon, <1>1, <1>3, <1>5, <1>7, <1>8, <1>9, <1>10

\* A step of the drain of chain k.
LEMMA TaskOwner ==
    ASSUME OwnerInv, Types', SleepCovers, NEW h \in Handler, NEW k \in Class, Awake(h, k),
           UNCHANGED <<id, ready, inited, thread, conf, head>>,
           \A c \in Class : Len(buf'[c]) = Len(buf[c]),
           \A c \in Class : c # k => freed'[c] = freed[c],
           \A g \in Handler, c \in Class : g # h \/ c # k => drain'[g][c] = drain[g][c],
           freed'[k] \subseteq 1..Len(buf[k]),
           drain'[h][k].st # "none" =>
              drain'[h][k].at \in 1..Len(buf[k]) /\ freed'[k] = 1..(drain'[h][k].at - 1)
    PROVE  OwnerInv'
<1>1. /\ h \in Config /\ ~Busy(k) /\ head[k] = 0 /\ drain[h][k].st # "none"
      /\ \A g \in Handler : g # h => drain[g][k].st = "none"
    BY Zenon, AwakeFacts
<1>2. Phase' BY Zenon DEF OwnerInv, Phase, Identified
<1>3. \A c \in Class : Busy(c)' = Busy(c) /\ \A w \in Writer : MsgClass(w)' = MsgClass(w) BY Zenon DEF Busy, MsgClass
<1>4. "init" \in Handler /\ "init" # h /\ Config \subseteq Handler BY Zenon, <1>1, RelayAssumption DEF Handler
<1>5. ASSUME NEW c \in Class
      PROVE  (/\ head[c] = 1 <=> ~ready \/ \E g \in Config : conf[g].pc = "schedule"
              /\ head[c] = 1 => freed[c] = {} /\ \A g \in Handler : drain[g][c].st = "none"
              /\ drain["init"][c].st = "none"
              /\ freed[c] \subseteq 1..Len(buf[c])
              /\ \A g \in Config : drain[g][c].st # "none" =>
                    drain[g][c].at \in 1..Len(buf[c]) /\ freed[c] = 1..(drain[g][c].at - 1)
              /\ (freed[c] # {} \/ \E g \in Config : drain[g][c].st = "run") => ~Busy(c)
              /\ \A v \in Writer : thread[v].pc = "count" /\ MsgClass(v) = c =>
                    thread[v].at \in 1..Len(buf[c]))'
  <2>1. CASE c = k
    <3>1. drain'["init"][c].st = "none" BY Zenon, <1>4 DEF OwnerInv, Ownership
    <3>2. head'[c] = 0 /\ (ready' /\ \A g \in Config : conf'[g].pc # "schedule") BY <1>1, <2>1 DEF OwnerInv, Ownership
    <3>3. \A g \in Config : drain'[g][c].st # "none" =>
             drain'[g][c].at \in 1..Len(buf'[c]) /\ freed'[c] = 1..(drain'[g][c].at - 1)
      <4>1. ASSUME NEW g \in Config, drain'[g][c].st # "none" PROVE g = h
        <5>1. g \in Handler BY Zenon, <1>4
        <5> QED BY Zenon, <1>1, <2>1, <4>1, <5>1
      <4> QED BY Zenon, <2>1, <4>1
    <3>4. ~Busy(c)' BY Zenon, <1>1, <1>3, <2>1
    <3>5. \A v \in Writer : thread'[v].pc = "count" /\ MsgClass(v)' = c => thread'[v].at \in 1..Len(buf'[c])
        BY Zenon, <1>3 DEF OwnerInv, Ownership
    <3>6. freed'[c] \subseteq 1..Len(buf'[c]) BY Zenon, <2>1
    <3> QED BY <3>1, <3>2, <3>3, <3>4, <3>5, <3>6
  <2>2. CASE c # k
    <3>1. freed'[c] = freed[c] /\ \A g \in Handler : drain'[g][c] = drain[g][c] BY Zenon, <2>2
    <3> QED BY <1>3, <1>4, <3>1 DEF OwnerInv, Ownership
  <2> QED BY Zenon, <2>1, <2>2
<1>6. Ownership' BY Zenon, <1>5 DEF Ownership
<1>7. Sole(conf', drain')
  <2>1. \A c \in Class, g \in Config : drain'[g][c].st # "none" => drain[g][c].st # "none" BY Zenon, <1>1, <1>4
  <2> QED BY Zenon, <2>1 DEF OwnerInv, Sole
<1> QED BY Zenon, <1>2, <1>6, <1>7 DEF OwnerInv

\* The drains.
LEMMA DrainOwner ==
    ASSUME OwnerInv, SleepCovers, NEW h \in Handler, NEW k \in Class, DrainStep(h, k)
    PROVE  OwnerInv'
<1>1. Awake(h, k) BY Zenon DEF DrainStep, DrainEntry, DrainNext, DrainShared
<1>2. /\ drain[h][k].at \in 1..Len(buf[k]) /\ freed[k] = 1..(drain[h][k].at - 1)
      /\ Types /\ Len(buf[k]) \in Nat
    BY <1>1, AwakeFacts DEF OwnerInv, Types
<1>3. CASE DrainEntry(h, k)
  <2>1. /\ Types' /\ UNCHANGED <<id, ready, inited, thread, conf, head, freed>>
        /\ Len(buf'[k]) = Len(buf[k]) /\ \A c \in Class : c # k => buf'[c] = buf[c]
        /\ \A g \in Handler, c \in Class : g # h \/ c # k => drain'[g][c] = drain[g][c]
        /\ drain'[h][k].at = drain[h][k].at
    BY Zenon, <1>2, <1>3, EntryTypes
  <2>2. \A c \in Class : Len(buf'[c]) = Len(buf[c]) BY Zenon, <2>1
  <2>3. freed'[k] \subseteq 1..Len(buf[k]) BY Zenon, <2>1 DEF OwnerInv, Ownership
  <2>4. drain'[h][k].at \in 1..Len(buf[k]) /\ freed'[k] = 1..(drain'[h][k].at - 1) BY Zenon, <1>2, <2>1
  <2>5. \A c \in Class : c # k => freed'[c] = freed[c] BY Zenon, <2>1
  <2> QED BY Zenon, <1>1, <2>1, <2>2, <2>3, <2>4, <2>5, TaskOwner
<1>4. CASE DrainNext(h, k)
  <2> DEFINE t == drain[h][k]
  <2>1. /\ Types' /\ UNCHANGED <<id, ready, inited, thread, conf, head, buf>>
        /\ freed'[k] = freed[k] \cup {t.at} /\ \A c \in Class : c # k => freed'[c] = freed[c]
        /\ \A g \in Handler, c \in Class : g # h \/ c # k => drain'[g][c] = drain[g][c]
    BY Zenon, <1>2, <1>4, NextTypes
  <2>2. \/ t.at < Len(buf[k]) /\ drain'[h][k] = [st |-> "run", at |-> t.at + 1, i |-> 0]
        \/ ~(t.at < Len(buf[k])) /\ drain'[h][k] = NoTask
    BY Zenon, <1>2, <1>4, NextTypes
  <2> HIDE DEF t
  <2>3. t.at \in 1..Len(buf[k]) /\ freed[k] = 1..(t.at - 1) BY Zenon, <1>2 DEF t
  <2>4. freed'[k] = 1..t.at /\ freed'[k] \subseteq 1..Len(buf[k]) BY <1>2, <2>1, <2>3
  <2>5. drain'[h][k].st # "none" =>
           drain'[h][k].at \in 1..Len(buf[k]) /\ freed'[k] = 1..(drain'[h][k].at - 1)
    <3>1. CASE t.at < Len(buf[k]) /\ drain'[h][k] = [st |-> "run", at |-> t.at + 1, i |-> 0]
      <4>1. drain'[h][k].at = t.at + 1 BY <3>1
      <4>2. (t.at + 1) - 1 = t.at /\ t.at + 1 \in 1..Len(buf[k]) BY <1>2, <2>3, <3>1
      <4> QED BY Zenon, <2>4, <4>1, <4>2
    <3>2. CASE drain'[h][k] = NoTask BY <3>2 DEF NoTask
    <3> QED BY Zenon, <2>2, <3>1, <3>2
  <2>6. \A c \in Class : Len(buf'[c]) = Len(buf[c]) BY Zenon, <2>1
  <2> QED BY Zenon, <1>1, <2>1, <2>4, <2>5, <2>6, TaskOwner
<1>5. CASE DrainShared(h, k)
  <2>1. UNCHANGED <<id, ready, inited, epoch, mem, thread, conf, head, buf, freed, drain, sent, unread>>
    BY Zenon, <1>5 DEF DrainShared, bufVars, chanVars
  <2>2. Types' BY Zenon, <1>2, <2>1 DEF Types
  <2> QED BY Zenon, <2>1, <2>2, IdleOwner DEF OwnerInv
<1> QED BY Zenon, <1>3, <1>4, <1>5 DEF DrainStep

\* Every step keeps the ownership of the chains.
LEMMA NextOwner ==
    ASSUME OwnerInv, SleepCovers, ~Overlap', [Next]_vars
    PROVE  OwnerInv'
<1>1. ASSUME NEW w \in Writer, WriterNext(w) PROVE OwnerInv' BY Zenon, <1>1, WriterStepOwner
<1>2. ASSUME NEW h \in Config, ConfigNext(h) PROVE OwnerInv' BY Zenon, <1>2, ConfigOwner
<1>3. CASE RelayProvInit BY Zenon, <1>3, InitcallOwner
<1>4. ASSUME NEW h \in Handler, HandOver(h) PROVE OwnerInv' BY Zenon, <1>4, HandOverOwner
<1>5. ASSUME NEW h \in Handler, Schedule(h) PROVE OwnerInv' BY Zenon, <1>5, ScheduleOwner
<1>6. ASSUME NEW h \in Handler, NEW k \in Class, DrainStep(h, k) PROVE OwnerInv' BY Zenon, <1>6, DrainOwner
<1>7. ASSUME NEW c \in Name, Consume(c) PROVE OwnerInv'
  <2>1. Types' /\ UNCHANGED <<id, ready, inited, thread, conf, head, buf, freed, drain>>
    BY Zenon, <1>7, ConsumeTypes DEF OwnerInv
  <2> QED BY Zenon, <2>1, IdleOwner DEF OwnerInv
<1>8. CASE UNCHANGED vars
  <2>1. UNCHANGED <<id, ready, inited, epoch, mem, thread, conf, head, buf, freed, drain, sent, unread>>
    BY Zenon, <1>8 DEF vars, bufVars, chanVars
  <2>2. Types' BY Zenon, <2>1 DEF OwnerInv, Types
  <2> QED BY Zenon, <2>1, <2>2, IdleOwner DEF OwnerInv
<1> QED BY Zenon, <1>1, <1>2, <1>3, <1>4, <1>5, <1>6, <1>7, <1>8 DEF Next

\* It holds at the start.
LEMMA InitOwner ==
    ASSUME Init
    PROVE  OwnerInv
<1>0. Types BY Zenon, InitTypes
<1>1. /\ ready = FALSE /\ id.boot = 0 /\ id.machine = 0 /\ head = [k \in Class |-> 1]
      /\ freed = [k \in Class |-> {}]
    BY Zenon DEF Init
<1>2. \A h \in Handler : conf[h].pc = "idle" /\ \A k \in Class : drain[h][k].st = "none"
  <2>1. \A h \in Handler : conf[h].pc = "idle"
    <3> PICK share \in Shares :
            conf = [h \in Handler |-> [pc |-> "idle", tmp |-> [k \in Class |-> 0], left |-> MaxConf,
                                       files |-> share[h], met |-> FALSE]]
        BY Zenon DEF Init
    <3> QED BY Zenon
  <2>2. drain = [h \in Handler |-> [k \in Class |-> NoTask]] BY Zenon DEF Init
  <2> QED BY Zenon, <2>1, <2>2 DEF NoTask
<1>3. \A w \in Writer : thread[w].pc = "idle" BY Zenon DEF Init
<1>4. "init" \in Handler /\ Config \subseteq Handler BY Zenon DEF Handler
<1>5. Phase BY Zenon, <1>1, <1>2, <1>4 DEF Phase
<1>6. Ownership BY Zenon, <1>1, <1>2, <1>3, <1>4 DEF Ownership, Busy
<1>7. Sole(conf, drain) BY Zenon, <1>2, <1>4 DEF Sole
<1> QED BY Zenon, <1>0, <1>5, <1>6, <1>7 DEF OwnerInv

\* The invariant says that a chain has one owner.
LEMMA OwnerOne ==
    ASSUME OwnerInv
    PROVE  OneOwner
<1> SUFFICES ASSUME NEW k \in Class
             PROVE  LET holders == {h \in Handler : drain[h][k].st # "none"}
                    IN  /\ \A h1, h2 \in holders : h1 = h2
                        /\ holders # {} => head[k] = 0
                        /\ \A h \in holders : drain[h][k].at \notin freed[k]
                        /\ head[k] \notin freed[k]
                        /\ \A w \in Writer : thread[w].pc = "count" /\ MsgClass(w) = k => thread[w].at \notin freed[k]
    BY Zenon DEF OneOwner
<1> DEFINE holders == {h \in Handler : drain[h][k].st # "none"}
<1>1. head[k] \in {0, 1} BY Zenon DEF OwnerInv, Types
<1>2. \A h \in holders : h \in Config BY Zenon DEF Handler, OwnerInv, Ownership
<1>3. \A h1, h2 \in holders : h1 = h2 BY Zenon, <1>2 DEF OwnerInv, Sole
<1>4. holders # {} => head[k] = 0 BY Zenon, <1>1 DEF OwnerInv, Ownership
<1>5. \A h \in holders : drain[h][k].at \notin freed[k]
  <2> TAKE h \in holders
  <2>1. h \in Config /\ drain[h][k].at \in Nat BY <1>2 DEF OwnerInv, Types, Handler, Task
  <2>2. freed[k] = 1..(drain[h][k].at - 1) BY Zenon, <2>1 DEF OwnerInv, Ownership
  <2> QED BY <2>1, <2>2
<1>6. head[k] \notin freed[k]
  <2>1. freed[k] \subseteq 1..Len(buf[k]) /\ (head[k] = 1 => freed[k] = {}) BY Zenon DEF OwnerInv, Ownership
  <2>2. Len(buf[k]) \in Nat BY Zenon, ChainFacts DEF OwnerInv
  <2>3. 0 \notin 1..Len(buf[k]) BY <2>2
  <2> QED BY Zenon, <1>1, <2>1, <2>3
<1>7. ASSUME NEW w \in Writer, thread[w].pc = "count", MsgClass(w) = k PROVE thread[w].at \notin freed[k]
  <2>1. Busy(k) BY Zenon, <1>7 DEF Busy
  <2>2. freed[k] = {} BY Zenon, <2>1 DEF OwnerInv, Ownership
  <2> QED BY Zenon, <2>2
<1> QED BY Zenon, <1>3, <1>4, <1>5, <1>6, <1>7

\* A handler's state changes to r: that it began while another was at work is not
\* forgotten.
ConfOK == conf \in [Handler -> Handling] /\ head \in [Class -> {0, 1}]
LEMMA MetStays ==
    ASSUME ConfOK, NEW h \in Handler, NEW r \in Handling, conf' = [conf EXCEPT ![h] = r],
           conf[h].met => r.met, head' \in [Class -> {0, 1}]
    PROVE  ConfOK' /\ (Overlap => Overlap')
<1>1. /\ conf' \in [Handler -> Handling] /\ conf'[h] = r
      /\ \A g \in Handler : g # h => conf'[g] = conf[g]
    BY Zenon DEF ConfOK
<1>2. Overlap => Overlap' BY Zenon, <1>1 DEF Overlap, Handler
<1> QED BY Zenon, <1>1, <1>2 DEF ConfOK

\* Once two processes were writing identifiers at a time, they were.
LEMMA OverlapStays ==
    ASSUME ConfOK, [Next]_vars
    PROVE  ConfOK' /\ (Overlap => Overlap')
<1>0. "init" \in Handler /\ Config \subseteq Handler /\ \A h \in Handler : conf[h] \in Handling
    BY Zenon DEF Handler, ConfOK
<1>1. ASSUME UNCHANGED <<conf, head>> PROVE ConfOK' /\ (Overlap => Overlap')
    BY Zenon, <1>1 DEF ConfOK, Overlap
<1>2. ASSUME NEW w \in Writer, WriterNext(w) PROVE UNCHANGED <<conf, head>>
    BY Zenon, <1>2 DEF WriterNext, Begin, PrepareRelation, WriteLive, WriteBoot, Insert, Count, bufVars
<1>3. ASSUME NEW h \in Config, ConfigNext(h) PROVE ConfOK' /\ (Overlap => Overlap')
  <2> DEFINE m == conf[h].met \/ \E g \in Config \ {h} : conf[g].pc # "idle"
             l == conf[h].left - 1
             a == [conf[h] EXCEPT !.pc = "handover", !.left = l, !.met = m]
             b == [conf[h] EXCEPT !.left = l]
  <2>1. conf' = [conf EXCEPT ![h] = a] \/ conf' = [conf EXCEPT ![h] = b]
      BY Zenon, <1>3 DEF ConfigNext, SetId, CreateChannel, WriteEpoch
  <2>2. UNCHANGED head /\ conf[h].left > 0
      BY Zenon, <1>3 DEF ConfigNext, SetId, CreateChannel, WriteEpoch, bufVars
  <2>3. conf[h] \in Handling /\ conf[h].left \in Nat /\ conf[h].met \in BOOLEAN BY Zenon, <1>0 DEF Handling
  <2>4. l \in Nat BY <2>2, <2>3
  <2>5. m \in BOOLEAN /\ (conf[h].met => m) BY Zenon, <2>3
  <2> HIDE DEF l, m
  <2>6. a \in Handling /\ a.met = m BY Zenon, <2>3, <2>4, <2>5 DEF Handling
  <2>7. b \in Handling /\ b.met = conf[h].met BY Zenon, <2>3, <2>4 DEF Handling
  <2> HIDE DEF a, b
  <2>8. head' \in [Class -> {0, 1}] BY Zenon, <2>2 DEF ConfOK
  <2> QED BY Zenon, <1>0, <2>1, <2>5, <2>6, <2>7, <2>8, MetStays
<1>4. CASE RelayProvInit
  <2> DEFINE a == [conf["init"] EXCEPT !.pc = "handover"]
  <2>1. conf' = [conf EXCEPT !["init"] = a] /\ UNCHANGED head BY Zenon, <1>4 DEF RelayProvInit, bufVars
  <2>2. a \in Handling /\ a.met = conf["init"].met BY Zenon, <1>0 DEF Handling
  <2> HIDE DEF a
  <2> QED BY Zenon, <1>0, <2>1, <2>2, MetStays DEF ConfOK
<1>5. ASSUME NEW h \in Handler, HandOver(h) \/ Schedule(h) PROVE ConfOK' /\ (Overlap => Overlap')
  <2> DEFINE a == [conf[h] EXCEPT !.pc = "idle"]
             b == [conf[h] EXCEPT !.pc = "schedule", !.tmp = head]
  <2>1. conf' = [conf EXCEPT ![h] = a] \/ conf' = [conf EXCEPT ![h] = b] BY Zenon, <1>5 DEF HandOver, Schedule
  <2>2. a \in Handling /\ a.met = conf[h].met BY Zenon, <1>0 DEF Handling
  <2>3. b \in Handling /\ b.met = conf[h].met BY Zenon, <1>0 DEF Handling, ConfOK
  <2> HIDE DEF a, b
  <2>4. head' \in [Class -> {0, 1}] BY Zenon, <1>5 DEF HandOver, Schedule, bufVars, ConfOK
  <2> QED BY Zenon, <2>1, <2>2, <2>3, <2>4, MetStays
<1>6. ASSUME NEW h \in Handler, NEW k \in Class, DrainStep(h, k) PROVE UNCHANGED <<conf, head>>
    BY Zenon, <1>6 DEF DrainStep, DrainEntry, DrainNext, DrainShared, bufVars
<1>7. ASSUME NEW c \in Name, Consume(c) PROVE UNCHANGED <<conf, head>> BY Zenon, <1>7 DEF Consume, bufVars
<1>8. CASE UNCHANGED vars BY Zenon, <1>1, <1>8 DEF vars, bufVars
<1> QED BY Zenon, <1>1, <1>2, <1>3, <1>4, <1>5, <1>6, <1>7, <1>8 DEF Next

\* The handlers have their types throughout.
THEOREM RelayConf == Spec => []ConfOK
<1>1. Init => ConfOK BY Zenon, InitTypes DEF Types, ConfOK
<1>2. ConfOK /\ [Next]_vars => ConfOK' BY Zenon, OverlapStays
<1> QED BY <1>1, <1>2, PTL DEF Spec

\* The ownership invariant holds as long as no two processes write identifiers at
\* the same time.
THEOREM RelayOwnerInv ==
    ASSUME SleepCovers
    PROVE  Spec => [](Overlap \/ OwnerInv)
<1>1. Init => OwnerInv BY Zenon, InitOwner
<1>2. OwnerInv /\ [Next]_vars => Overlap' \/ OwnerInv' BY Zenon, NextOwner
<1>3. ConfOK /\ Overlap /\ [Next]_vars => Overlap' BY Zenon, OverlapStays
<1> QED BY <1>1, <1>2, <1>3, RelayConf, PTL DEF Spec

\* When a drain's sleep outlasts the insertions under way, each chain of boot
\* buffers has one owner at a time, and nobody is left with a freed buffer, unless
\* two processes wrote identifiers at the same time: for any number of writers and
\* of processes that write the control files, and any sizes of the buffers and
\* channels.
THEOREM RelayOneOwner ==
    ASSUME SleepCovers
    PROVE  Spec => []OneOwner
<1>1. Overlap \/ OwnerInv => OneOwner BY Zenon, OwnerOne DEF OneOwner
<1> QED BY <1>1, RelayOwnerInv, PTL
-----------------------------------------------------------------------------
(* What the drains deliver *)

\* The numbers in the chains stay; a stream gets, at most, numbers of X.
SameChains ==
    \A k \in Class : /\ Len(buf'[k]) = Len(buf[k])
                     /\ \A b \in 1..Len(buf[k]), j \in 1..MaxEntry : buf'[k][b].slot[j].no = No(k, b, j)
Grows(s, X) ==
    /\ Len(sent[s]) <= Len(sent'[s]) /\ \A u \in 1..Len(sent[s]) : sent'[s][u] = sent[s][u]
    /\ \A u \in 1..Len(sent'[s]) : u > Len(sent[s]) => sent'[s][u].no \in X

\* relay_write.
LEMMA WriteGrows ==
    ASSUME Types, NEW S, NEW r \in Rec, RelayWrite(S, r)
    PROVE  /\ \A s \in Stream : Grows(s, {r.no}) /\ (s \notin S => sent'[s] = sent[s])
           /\ \A s \in Stream \cap S : ~Full(s) => sent'[s] = Append(sent[s], r)
<1> SUFFICES ASSUME NEW s \in Stream
             PROVE  /\ Grows(s, {r.no}) /\ (s \notin S => sent'[s] = sent[s])
                    /\ s \in S /\ ~Full(s) => sent'[s] = Append(sent[s], r)
    BY Zenon
<1> DEFINE q == sent[s]
<1>1. q \in Seq(Rec) BY Zenon DEF Types
<1>2. sent'[s] = (IF s \in S /\ ~Full(s) THEN Append(q, r) ELSE q) BY Zenon DEF RelayWrite
<1> HIDE DEF q
<1>3. Grows(s, {r.no})
  <2>1. CASE sent'[s] = q BY <1>1, <2>1 DEF Grows, q
  <2>2. CASE sent'[s] = Append(q, r)
    <3>1. Len(sent'[s]) = Len(q) + 1 /\ Len(q) \in Nat /\ sent'[s][Len(q) + 1] = r
          /\ \A u \in 1..Len(q) : sent'[s][u] = q[u]
        BY <1>1, <2>2
    <3> QED BY <3>1 DEF Grows, q
  <2> QED BY Zenon, <1>2, <2>1, <2>2
<1> QED BY Zenon, <1>2, <1>3 DEF q

\* Chains that keep their numbers keep them apart.
LEMMA DistinctSame ==
    ASSUME Distinct,
           \A k \in Class : /\ Len(buf'[k]) = Len(buf[k])
                            /\ \A b \in 1..Len(buf[k]), j \in 1..MaxEntry : No(k, b, j)' = No(k, b, j)
    PROVE  Distinct'
BY DEF Distinct

\* A step that writes no record of the chains.
LEMMA BeyondChains ==
    ASSUME ReplayInv, OwnerInv', Numbered', Filled', SameChains,
           NEW X, \A s \in Stream : Grows(s, X),
           \A k \in Class : \A b \in 1..Len(buf[k]), j \in 1..MaxEntry : No(k, b, j) # <<>> => No(k, b, j) \notin X,
           \A k \in Class : head'[k] = 1 => head[k] = 1 /\ X \cap HandlerNo = {},
           Replayed(drain')
    PROVE  ReplayInv'
<1>0. \A k \in Class : <<"base", k>> \in Stream BY Zenon, ClassFacts
<1>1. ASSUME NEW k \in Class
      PROVE  /\ Len(buf'[k]) = Len(buf[k]) /\ Len(Out(k)) <= Len(Out(k)')
             /\ \A b \in 1..Len(buf[k]), j \in 1..MaxEntry : No(k, b, j)' = No(k, b, j)
             /\ \A u \in 1..Len(Out(k)) : Out(k)'[u] = Out(k)[u]
             /\ \A u \in 1..Len(Out(k)') : u > Len(Out(k)) => Out(k)'[u].no \in X
    BY Zenon, <1>0 DEF SameChains, Grows, Out, No
<1>2. ASSUME NEW s \in Stream PROVE Len(sent[s]) \in Nat /\ Len(sent'[s]) \in Nat
    BY Zenon, ChainFacts, ChainNextFacts DEF ReplayInv, OwnerInv
<1>3. ASSUME NEW k \in Class PROVE Len(Out(k)) \in Nat /\ Len(Out(k)') \in Nat BY Zenon, <1>0, <1>2 DEF Out
<1>4. ASSUME NEW k \in Class, NEW b \in 1..Len(buf[k]), NEW j \in 1..MaxEntry, No(k, b, j) # <<>>,
             NEW v \in 1..Len(Out(k)'), Out(k)'[v].no = No(k, b, j)
      PROVE  v \in 1..Len(Out(k)) /\ Out(k)[v].no = No(k, b, j) /\ Out(k)'[v] = Out(k)[v]
  <2>1. ~(v > Len(Out(k))) BY Zenon, <1>1, <1>4
  <2>2. v \in 1..Len(Out(k)) BY <1>3, <2>1
  <2> QED BY Zenon, <1>1, <1>4, <2>2
<1>5. Distinct'
  <2>1. Distinct BY Zenon DEF ReplayInv
  <2> QED BY Zenon, <1>1, <2>1, DistinctSame
<1>6. Untouched'
  <2> SUFFICES ASSUME NEW k \in Class, head'[k] = 1
               PROVE  /\ \A u \in 1..Len(Out(k)') : \A b \in 1..Len(buf'[k]), j \in 1..MaxEntry :
                            No(k, b, j)' # <<>> => Out(k)'[u].no # No(k, b, j)'
                      /\ \A s \in Stream : \A u \in 1..Len(sent'[s]) : sent'[s][u].no \notin HandlerNo
      BY Zenon DEF Untouched
  <2>1. /\ \A u \in 1..Len(Out(k)) : \A b \in 1..Len(buf[k]), j \in 1..MaxEntry :
              No(k, b, j) # <<>> => Out(k)[u].no # No(k, b, j)
        /\ \A s \in Stream : \A u \in 1..Len(sent[s]) : sent[s][u].no \notin HandlerNo
        /\ X \cap HandlerNo = {}
      BY Zenon DEF ReplayInv, Untouched
  <2>2. ASSUME NEW u \in 1..Len(Out(k)'), NEW b \in 1..Len(buf'[k]), NEW j \in 1..MaxEntry,
               No(k, b, j)' # <<>>, Out(k)'[u].no = No(k, b, j)'
        PROVE  FALSE
      BY <1>1, <1>4, <2>1, <2>2
  <2>3. ASSUME NEW s \in Stream, NEW u \in 1..Len(sent'[s]) PROVE sent'[s][u].no \notin HandlerNo
    <3>1. CASE u > Len(sent[s]) BY Zenon, <2>1, <3>1 DEF Grows
    <3>2. CASE ~(u > Len(sent[s]))
      <4>1. u \in 1..Len(sent[s]) BY <1>2, <3>2
      <4> QED BY Zenon, <2>1, <4>1 DEF Grows
    <3> QED BY Zenon, <3>1, <3>2
  <2> QED BY Zenon, <2>2, <2>3
<1>7. Replayed(drain)'
  <2> SUFFICES ASSUME NEW k \in Class, NEW h \in Config, drain'[h][k].st # "none",
                      NEW b \in 1..Len(buf'[k]), NEW j \in 1..MaxEntry, No(k, b, j)' # <<>>,
                      b < drain'[h][k].at \/ (b = drain'[h][k].at /\ j <= drain'[h][k].i)
               PROVE  \E u \in 1..Len(Out(k)') : Out(k)'[u].no = No(k, b, j)'
      BY Zenon DEF Replayed
  <2>1. b \in 1..Len(buf[k]) /\ No(k, b, j)' = No(k, b, j) BY Zenon, <1>1
  <2>2. PICK u \in 1..Len(Out(k)) : Out(k)[u].no = No(k, b, j) BY Zenon, <2>1 DEF Replayed
  <2>3. u \in 1..Len(Out(k)') BY <1>1, <1>3
  <2> QED BY Zenon, <1>1, <2>1, <2>2, <2>3
<1>8. InOrder'
  <2> SUFFICES ASSUME NEW k \in Class, NEW b \in 1..Len(buf'[k]), NEW c \in 1..Len(buf'[k]),
                      NEW i \in 1..MaxEntry, NEW j \in 1..MaxEntry,
                      No(k, b, i)' # <<>>, No(k, c, j)' # <<>>, Before(b, i, c, j),
                      NEW v \in 1..Len(Out(k)'), Out(k)'[v].no = No(k, c, j)'
               PROVE  \E u \in 1..v : Out(k)'[u].no = No(k, b, i)'
      BY DEF InOrder
  <2>1. b \in 1..Len(buf[k]) /\ c \in 1..Len(buf[k]) /\ No(k, b, i)' = No(k, b, i) /\ No(k, c, j)' = No(k, c, j)
      BY Zenon, <1>1
  <2>2. v \in 1..Len(Out(k)) /\ Out(k)[v].no = No(k, c, j) BY <1>4, <2>1
  <2>3. PICK u \in 1..v : Out(k)[u].no = No(k, b, i) 
    <3>1. InOrder BY Zenon DEF ReplayInv
    <3> QED BY <2>1, <2>2, <3>1 DEF InOrder
  <2>4. u \in 1..Len(Out(k)) BY <1>3, <2>2
  <2> QED BY Zenon, <1>1, <2>1, <2>3, <2>4
<1>9. Complete'
  <2> SUFFICES ASSUME NEW k \in Class, NEW b \in 1..Len(buf'[k]), NEW j \in 1..MaxEntry,
                      NEW v \in 1..Len(Out(k)'), No(k, b, j)' # <<>>, Out(k)'[v].no = No(k, b, j)'
               PROVE  Out(k)'[v].boot # 0 /\ Out(k)'[v].end # 0
      BY Zenon DEF Complete
  <2>1. b \in 1..Len(buf[k]) /\ No(k, b, j)' = No(k, b, j) BY Zenon, <1>1
  <2>2. v \in 1..Len(Out(k)) /\ Out(k)[v].no = No(k, b, j) /\ Out(k)'[v] = Out(k)[v] BY <1>4, <2>1
  <2> QED BY Zenon, <2>1, <2>2 DEF ReplayInv, Complete
<1> QED BY Zenon, <1>5, <1>6, <1>7, <1>8, <1>9 DEF ReplayInv

\* A writer that goes on to state r loses no number.
LEMMA SpentKeeps ==
    ASSUME Types, NEW w \in Writer, NEW r, thread' = [thread EXCEPT ![w] = r],
           \A l \in Nat, kd \in {"node", "rel"} : SpentIn(thread[w], l, kd) => SpentIn(r, l, kd)
    PROVE  \A x : Spent(thread, x) => Spent(thread', x)
<1> SUFFICES ASSUME NEW x, x \in WriterNo, Spent(thread, x) PROVE SpentIn(thread'[x[1]], x[2], x[3])
    BY Zenon DEF Spent
<1>1. x[1] \in Writer /\ x[2] \in Nat /\ x[3] \in {"node", "rel"} BY Zenon DEF WriterNo
<1>2. SpentIn(thread[x[1]], x[2], x[3]) BY Zenon DEF Spent
<1>3. thread'[w] = r /\ \A v \in Writer : v # w => thread'[v] = thread[v] BY Zenon DEF Types
<1> HIDE DEF SpentIn
<1> QED BY Zenon, <1>1, <1>2, <1>3

\* The number of the record a writer is about to write is new, and spent when it
\* is back or counts.
LEMMA FreshNumber ==
    ASSUME Types, Numbered, NEW w \in Writer, thread[w].pc \in {"check", "insert"}
    PROVE  LET x == thread[w].msg.no IN
           /\ x \in WriterNo /\ x # <<>> /\ x \notin HandlerNo /\ x = <<w, thread[w].left, thread[w].msg.kind>>
           /\ ~Spent(thread, x)
           /\ \A k \in Class : \A b \in 1..Len(buf[k]), j \in 1..MaxEntry : No(k, b, j) # x
           /\ \A s \in Stream : \A u \in 1..Len(sent[s]) : sent[s][u].no # x
<1> DEFINE t == thread[w]
           x == t.msg.no
<1>1. t.msg.kind \in {"node", "rel"} /\ x = <<w, t.left, t.msg.kind>> BY Zenon DEF Numbered, NumberOK
<1>2. t.left \in Nat BY Zenon DEF Types, Thread
<1>3. x \in WriterNo /\ x[1] = w /\ x[2] = t.left /\ x[3] = t.msg.kind BY <1>1, <1>2 DEF WriterNo
<1>4. ~SpentIn(t, t.left, t.msg.kind) BY <1>1, <1>2 DEF SpentIn
<1>5. ~Spent(thread, x) BY Zenon, <1>3, <1>4 DEF Spent
<1>6. x # <<>> /\ x \notin HandlerNo BY <1>1 DEF HandlerNo
<1> HIDE DEF x
<1>7. \A k \in Class : \A b \in 1..Len(buf[k]), j \in 1..MaxEntry : No(k, b, j) # x BY Zenon, <1>5, <1>6 DEF Numbered
<1>8. \A s \in Stream : \A u \in 1..Len(sent[s]) : sent[s][u].no # x BY Zenon, <1>5 DEF Numbered
<1> QED BY Zenon, <1>1, <1>3, <1>5, <1>6, <1>7, <1>8 DEF x

\* A step to state r of writer w that puts numbers spent by then.
LEMMA WriterNumbered ==
    ASSUME Types, Numbered, Types', NEW w \in Writer, NEW r \in Thread, thread' = [thread EXCEPT ![w] = r],
           \A l \in Nat, kd \in {"node", "rel"} : SpentIn(thread[w], l, kd) => SpentIn(r, l, kd),
           NumberOK(w, r),
           NEW X, \A s \in Stream : Grows(s, X), \A x \in X : Spent(thread', x),
           \A k \in Class : \A b \in 1..Len(buf'[k]), j \in 1..MaxEntry :
              LET y == buf'[k][b].slot[j].no IN
              \/ y = <<>>
              \/ b \in 1..Len(buf[k]) /\ y = No(k, b, j)
              \/ y \in WriterNo /\ Spent(thread', y)
    PROVE  Numbered'
<1>1. \A x : Spent(thread, x) => Spent(thread', x) BY Zenon, SpentKeeps
<1>2. ASSUME NEW v \in Writer PROVE NumberOK(v, thread'[v])
  <2>1. thread'[w] = r /\ (v # w => thread'[v] = thread[v]) BY Zenon DEF Types
  <2>2. NumberOK(v, thread[v]) BY Zenon DEF Numbered
  <2> HIDE DEF NumberOK
  <2> QED BY Zenon, <2>1, <2>2
<1>3. ASSUME NEW s \in Stream, NEW u \in 1..Len(sent'[s]) PROVE Spent(thread', sent'[s][u].no)
  <2>1. Len(sent[s]) \in Nat /\ Len(sent'[s]) \in Nat BY Zenon, ChainFacts, ChainNextFacts
  <2>2. CASE u > Len(sent[s]) BY Zenon, <2>2 DEF Grows
  <2>3. CASE ~(u > Len(sent[s]))
    <3>1. u \in 1..Len(sent[s]) BY <2>1, <2>3
    <3>2. sent'[s][u] = sent[s][u] /\ Spent(thread, sent[s][u].no) BY Zenon, <3>1 DEF Grows, Numbered
    <3> QED BY Zenon, <1>1, <3>2
  <2> QED BY Zenon, <2>2, <2>3
<1>4. ASSUME NEW k \in Class, NEW b \in 1..Len(buf'[k]), NEW j \in 1..MaxEntry, No(k, b, j)' # <<>>
      PROVE  No(k, b, j)' \in WriterNo /\ Spent(thread', No(k, b, j)')
  <2> DEFINE y == No(k, b, j)'
  <2>1. y # <<>> BY Zenon, <1>4
  <2>2. (b \in 1..Len(buf[k]) /\ y = No(k, b, j)) \/ (y \in WriterNo /\ Spent(thread', y)) BY Zenon, <2>1 DEF No
  <2>3. b \in 1..Len(buf[k]) /\ No(k, b, j) # <<>> => No(k, b, j) \in WriterNo /\ Spent(thread, No(k, b, j))
    BY Zenon DEF Numbered
  <2> HIDE DEF y
  <2>4. y \in WriterNo /\ Spent(thread', y) BY Zenon, <1>1, <2>1, <2>2, <2>3
  <2> QED BY Zenon, <2>4 DEF y
<1> QED BY Zenon, <1>2, <1>3, <1>4 DEF Numbered

\* A step of writer w that is not in insert_boot_buffer.
LEMMA WriterFilled ==
    ASSUME Types, Filled, NEW w \in Writer, NEW r, thread' = [thread EXCEPT ![w] = r], thread[w].pc # "count",
           UNCHANGED buf
    PROVE  Filled'
<1>1. \A v \in Writer : v # w => thread'[v] = thread[v] BY Zenon DEF Types
<1>2. \A k \in Class, b \in Nat : Counting(k, b) => Counting(k, b)'
  <2> SUFFICES ASSUME NEW k \in Class, NEW b \in Nat, Counting(k, b) PROVE Counting(k, b)'
      BY Zenon
  <2>1. PICK v \in Writer : thread[v].pc = "count" /\ MsgClass(v) = k /\ thread[v].at = b BY Zenon DEF Counting
  <2>2. thread'[v] = thread[v] BY Zenon, <1>1, <2>1
  <2>3. MsgClass(v)' = k BY <2>1, <2>2 DEF MsgClass
  <2> QED BY Zenon, <2>1, <2>2, <2>3 DEF Counting
<1>3. \A k \in Class, b, j \in Nat : No(k, b, j)' = No(k, b, j) BY Zenon DEF No
<1>4. \A k \in Class : Len(buf[k]) \in Nat BY Zenon, ChainFacts
<1>5. MaxEntry \in Nat BY Zenon, RelayAssumption
<1> SUFFICES ASSUME NEW k \in Class, NEW b \in 1..Len(buf[k]), NEW j \in 1..MaxEntry, No(k, b, j)' # <<>>
             PROVE  j <= buf[k][b].nb \/ (j = buf[k][b].nb + 1 /\ Counting(k, b)')
    BY Zenon DEF Filled
<1>6. b \in Nat /\ j \in Nat BY ONLY <1>4, <1>5, k \in Class, b \in 1..Len(buf[k]), j \in 1..MaxEntry
<1>7. No(k, b, j) # <<>> BY Zenon, <1>3, <1>6
<1> QED BY Zenon, <1>2, <1>6, <1>7 DEF Filled

\* A step of a writer that leaves the chains alone.
LEMMA AsideReplay ==
    ASSUME ReplayInv, OwnerInv', NEW w \in Writer, NEW r \in Thread, thread' = [thread EXCEPT ![w] = r],
           \A l \in Nat, kd \in {"node", "rel"} : SpentIn(thread[w], l, kd) => SpentIn(r, l, kd),
           NumberOK(w, r), thread[w].pc # "count", UNCHANGED <<head, buf, drain>>,
           NEW X, \A s \in Stream : Grows(s, X), \A x \in X : Spent(thread', x),
           \A k \in Class : \A b \in 1..Len(buf[k]), j \in 1..MaxEntry : No(k, b, j) # <<>> => No(k, b, j) \notin X,
           X \cap HandlerNo = {}
    PROVE  ReplayInv'
<1>0. Types /\ Types' /\ Numbered /\ Filled BY Zenon DEF ReplayInv, OwnerInv
<1>1. \A k \in Class : \A b \in 1..Len(buf'[k]), j \in 1..MaxEntry :
         LET y == buf'[k][b].slot[j].no IN
         \/ y = <<>>
         \/ b \in 1..Len(buf[k]) /\ y = No(k, b, j)
         \/ y \in WriterNo /\ Spent(thread', y)
    BY Zenon DEF No
<1>2. Numbered' BY Zenon, <1>0, <1>1, WriterNumbered
<1>3. Filled' BY Zenon, <1>0, WriterFilled
<1>4. SameChains BY Zenon DEF SameChains, No
<1>5. Replayed(drain') BY Zenon DEF ReplayInv
<1>6. \A k \in Class : head'[k] = 1 => head[k] = 1 /\ X \cap HandlerNo = {} BY Zenon
<1> QED BY Zenon, <1>2, <1>3, <1>4, <1>5, <1>6, BeyondChains

\* The numbers stay what they are when nothing is written.
LEMMA QuietGrows ==
    ASSUME Types, UNCHANGED sent
    PROVE  \A s \in Stream : Grows(s, {})
<1> SUFFICES ASSUME NEW s \in Stream PROVE Grows(s, {}) BY Zenon
<1>1. Len(sent[s]) \in Nat BY Zenon, ChainFacts
<1> QED BY <1>1 DEF Grows

\* __write_relation up to prov_write.
LEMMA PrepareReplay ==
    ASSUME ReplayInv, OwnerInv', NEW w \in Writer,
           (\E n \in Node : Begin(w, n)) \/ PrepareRelation(w) \/ WriteBoot(w)
    PROVE  ReplayInv'
<1>0. Types /\ Numbered /\ Filled BY Zenon DEF ReplayInv, OwnerInv
<1>1. thread[w].pc # "count" /\ UNCHANGED <<head, buf, drain, sent>>
    BY Zenon DEF Begin, PrepareRelation, WriteBoot, bufVars, chanVars
<1>2. PICK r \in Thread : /\ thread' = [thread EXCEPT ![w] = r] /\ NumberOK(w, r)
                          /\ \A l \in Nat, kd \in {"node", "rel"} : SpentIn(thread[w], l, kd) => SpentIn(r, l, kd)
  <2>1. ASSUME NEW n \in Node, Begin(w, n)
        PROVE  \E r \in Thread : /\ thread' = [thread EXCEPT ![w] = r] /\ NumberOK(w, r)
                                 /\ \A l \in Nat, kd \in {"node", "rel"} : SpentIn(thread[w], l, kd) => SpentIn(r, l, kd)
    <3>1. PICK r \in Thread : /\ thread' = [thread EXCEPT ![w] = r]
                              /\ r.pc \in {"check", "prepare"} /\ r.left = thread[w].left
                              /\ r.pc = "check" => r.msg.no = <<w, r.left, "node">> /\ r.msg.kind = "node"
        BY Zenon, <1>0, <2>1, BeginTypes
    <3>2. thread[w].pc = "idle" BY Zenon, <2>1 DEF Begin
    <3>3. NumberOK(w, r) BY Zenon, <3>1 DEF NumberOK
    <3>4. \A l \in Nat, kd \in {"node", "rel"} : SpentIn(thread[w], l, kd) => SpentIn(r, l, kd)
        BY Zenon, <3>1, <3>2 DEF SpentIn
    <3> QED BY Zenon, <3>1, <3>3, <3>4
  <2>2. CASE PrepareRelation(w)
    <3>1. PICK r \in Thread : /\ thread' = [thread EXCEPT ![w] = r] /\ r.pc = "check" /\ r.left = thread[w].left
                              /\ r.msg.no = <<w, r.left, "rel">> /\ r.msg.kind = "rel"
        BY Zenon, <1>0, <2>2, PrepareTypes
    <3>2. thread[w].pc = "prepare" BY Zenon, <2>2 DEF PrepareRelation
    <3>3. NumberOK(w, r) BY Zenon, <3>1 DEF NumberOK
    <3>4. \A l \in Nat, kd \in {"node", "rel"} : SpentIn(thread[w], l, kd) => SpentIn(r, l, kd)
        BY Zenon, <3>1, <3>2 DEF SpentIn
    <3> QED BY Zenon, <3>1, <3>3, <3>4
  <2>3. CASE WriteBoot(w)
    <3>1. PICK r \in Thread : /\ thread' = [thread EXCEPT ![w] = r] /\ r.pc = "insert" /\ r.left = thread[w].left
                              /\ r.msg = thread[w].msg
        BY Zenon, <1>0, <2>3, BootTypes
    <3>2. thread[w].pc = "check" BY Zenon, <2>3 DEF WriteBoot
    <3>3. NumberOK(w, r)
      <4>1. NumberOK(w, thread[w]) BY Zenon, <1>0 DEF Numbered
      <4> QED BY Zenon, <3>1, <3>2, <4>1 DEF NumberOK
    <3>4. \A l \in Nat, kd \in {"node", "rel"} : SpentIn(thread[w], l, kd) => SpentIn(r, l, kd)
        BY Zenon, <3>1, <3>2 DEF SpentIn
    <3> QED BY Zenon, <3>1, <3>3, <3>4
  <2> QED BY Zenon, <2>1, <2>2, <2>3
<1>3. \A s \in Stream : Grows(s, {}) BY Zenon, <1>0, <1>1, QuietGrows
<1> DEFINE X == {}
<1>4. /\ \A s \in Stream : Grows(s, X) /\ \A x \in X : Spent(thread', x)
      /\ \A k \in Class : \A b \in 1..Len(buf[k]), j \in 1..MaxEntry : No(k, b, j) # <<>> => No(k, b, j) \notin X
      /\ X \cap HandlerNo = {}
    BY Zenon, <1>3
<1> HIDE DEF X
<1> QED BY Zenon, <1>1, <1>2, <1>4, AsideReplay

\* Back from prov_write the number of the record is spent.
LEMMA WrittenSpent ==
    ASSUME Types, Numbered, NEW w \in Writer, thread[w].pc \in {"check", "count"}, Written(w)
    PROVE  \E r \in Thread :
              /\ thread' = [thread EXCEPT ![w] = r] /\ NumberOK(w, r) /\ r.pc # "count"
              /\ \A l \in Nat, kd \in {"node", "rel"} : SpentIn(thread[w], l, kd) => SpentIn(r, l, kd)
              /\ SpentIn(r, thread[w].left, thread[w].msg.kind)
<1> DEFINE t == thread[w]
<1>1. PICK r \in Thread : /\ thread' = [thread EXCEPT ![w] = r]
                          /\ t.msg.kind = "node" => r.pc = "prepare" /\ r.left = t.left
                          /\ t.msg.kind # "node" => r.pc = "idle" /\ r.left = t.left - 1
    BY Zenon, WrittenTypes
<1>2. t.left \in Nat /\ t.msg.kind \in {"node", "rel"} BY Zenon DEF Types, Thread, Numbered, NumberOK
<1>3. NumberOK(w, r) /\ r.pc # "count" BY Zenon, <1>1 DEF NumberOK
<1> HIDE DEF t
<1>4. SpentIn(r, t.left, t.msg.kind) BY <1>1, <1>2 DEF SpentIn
<1>5. \A l \in Nat, kd \in {"node", "rel"} : SpentIn(t, l, kd) => SpentIn(r, l, kd)
  <2>1. CASE t.msg.kind = "node"
    <3>1. r.pc = "prepare" /\ r.left = t.left BY Zenon, <1>1, <2>1
    <3> QED BY Zenon, <2>1, <3>1 DEF SpentIn
  <2>2. CASE t.msg.kind = "rel"
    <3>1. r.left = t.left - 1 BY Zenon, <1>1, <2>2
    <3>2. \A l \in Nat : l >= t.left => l > r.left BY <1>2, <3>1
    <3> QED BY <1>2, <3>2 DEF SpentIn
  <2> QED BY Zenon, <1>2, <2>1, <2>2
<1> QED BY Zenon, <1>1, <1>3, <1>4, <1>5 DEF t

\* prov_write with the relay ready.
LEMMA LiveReplay ==
    ASSUME ReplayInv, OwnerInv', NEW w \in Writer, WriteLive(w)
    PROVE  ReplayInv'
<1>0. Types /\ Numbered BY Zenon DEF ReplayInv, OwnerInv
<1>1. /\ thread[w].pc = "check" /\ Written(w) /\ RelayWrite(chans \X {MsgClass(w)}, Outgoing(w))
      /\ UNCHANGED <<head, buf, drain>>
    BY Zenon DEF WriteLive, bufVars
<1> DEFINE x == thread[w].msg.no
           X == {x}
<1>2. /\ x \in WriterNo /\ x \notin HandlerNo /\ x = <<w, thread[w].left, thread[w].msg.kind>>
      /\ \A k \in Class : \A b \in 1..Len(buf[k]), j \in 1..MaxEntry : No(k, b, j) # x
    BY Zenon, <1>0, <1>1, FreshNumber
<1>3. PICK r \in Thread :
              /\ thread' = [thread EXCEPT ![w] = r] /\ NumberOK(w, r)
              /\ \A l \in Nat, kd \in {"node", "rel"} : SpentIn(thread[w], l, kd) => SpentIn(r, l, kd)
              /\ SpentIn(r, thread[w].left, thread[w].msg.kind)
    BY Zenon, <1>0, <1>1, WrittenSpent
<1>4. Outgoing(w) \in Rec /\ Outgoing(w).no = x BY Zenon, <1>0, RecFacts
<1>5. \A s \in Stream : Grows(s, X) BY Zenon, <1>0, <1>1, <1>4, WriteGrows
<1>6. Spent(thread', x)
  <2>1. x[1] = w /\ x[2] = thread[w].left /\ x[3] = thread[w].msg.kind BY <1>2
  <2>2. thread'[w] = r BY Zenon, <1>0, <1>3 DEF Types
  <2> HIDE DEF x
  <2> QED BY Zenon, <1>3, <2>1, <2>2 DEF Spent
<1> HIDE DEF x
<1>7. /\ \A y \in X : Spent(thread', y) /\ y \notin HandlerNo
      /\ \A k \in Class : \A b \in 1..Len(buf[k]), j \in 1..MaxEntry : No(k, b, j) # <<>> => No(k, b, j) \notin X
    BY Zenon, <1>2, <1>6
<1>8. X \cap HandlerNo = {} BY Zenon, <1>7
<1>9. thread[w].pc # "count" BY Zenon, <1>1
<1> HIDE DEF X
<1> QED BY Zenon, <1>1, <1>3, <1>5, <1>7, <1>8, <1>9, AsideReplay

\* insert_boot_buffer counts the entry.
LEMMA CountReplay ==
    ASSUME ReplayInv, OwnerInv', NEW w \in Writer, Count(w)
    PROVE  ReplayInv'
<1>0. Types /\ Types' /\ Numbered /\ Filled BY Zenon DEF ReplayInv, OwnerInv
<1>1. thread[w].pc = "count" /\ Written(w) /\ UNCHANGED <<head, drain, sent>> BY Zenon DEF Count, chanVars
<1> DEFINE k == MsgClass(w)
           a == thread[w].at
           X == {}
<1>2. k \in Class /\ a \in 1..Len(buf[k]) BY Zenon, <1>1, ClassFacts DEF ReplayInv, OwnerInv, Ownership
<1>3. /\ Len(buf'[k]) = Len(buf[k])
      /\ \A b \in 1..Len(buf[k]) :
            /\ buf'[k][b].slot = buf[k][b].slot
            /\ buf'[k][b].nb = IF b = a THEN buf[k][b].nb + 1 ELSE buf[k][b].nb
      /\ \A c \in Class : c # k => buf'[c] = buf[c]
    BY Zenon, <1>0, <1>2, CountTypes
<1>4. PICK r \in Thread :
              /\ thread' = [thread EXCEPT ![w] = r] /\ NumberOK(w, r)
              /\ \A l \in Nat, kd \in {"node", "rel"} : SpentIn(thread[w], l, kd) => SpentIn(r, l, kd)
    BY Zenon, <1>0, <1>1, WrittenSpent
<1>5. \A s \in Stream : Grows(s, {}) BY Zenon, <1>0, <1>1, QuietGrows
<1>6. /\ \A s \in Stream : Grows(s, X) /\ \A x \in X : Spent(thread', x)
      /\ \A c \in Class : \A b \in 1..Len(buf[c]), j \in 1..MaxEntry : No(c, b, j) # <<>> => No(c, b, j) \notin X
      /\ \A c \in Class : head'[c] = 1 => head[c] = 1 /\ X \cap HandlerNo = {}
    BY Zenon, <1>1, <1>5
<1> HIDE DEF k, a, X
<1>7. SameChains
  <2> SUFFICES ASSUME NEW c \in Class
               PROVE  /\ Len(buf'[c]) = Len(buf[c])
                      /\ \A b \in 1..Len(buf[c]), j \in 1..MaxEntry : buf'[c][b].slot[j].no = No(c, b, j)
      BY Zenon DEF SameChains
  <2>1. CASE c = k BY Zenon, <1>3, <2>1 DEF No
  <2>2. CASE c # k BY Zenon, <1>3, <2>2 DEF No
  <2> QED BY Zenon, <2>1, <2>2
<1>8. \A c \in Class : \A b \in 1..Len(buf'[c]), j \in 1..MaxEntry :
         LET y == buf'[c][b].slot[j].no IN
         \/ y = <<>>
         \/ b \in 1..Len(buf[c]) /\ y = No(c, b, j)
         \/ y \in WriterNo /\ Spent(thread', y)
    BY Zenon, <1>7 DEF SameChains
<1>9. Numbered' BY Zenon, <1>0, <1>4, <1>6, <1>8, WriterNumbered
<1>10. Filled'
  <2> SUFFICES ASSUME NEW c \in Class, NEW b \in 1..Len(buf'[c]), NEW j \in 1..MaxEntry, No(c, b, j)' # <<>>
               PROVE  j <= buf'[c][b].nb \/ (j = buf'[c][b].nb + 1 /\ Counting(c, b)')
      BY Zenon DEF Filled
  <2>1. b \in 1..Len(buf[c]) /\ No(c, b, j) # <<>> BY Zenon, <1>7 DEF SameChains, No
  <2>2. j <= buf[c][b].nb \/ (j = buf[c][b].nb + 1 /\ Counting(c, b)) BY Zenon, <1>0, <2>1 DEF Filled
  <2>3. buf[c][b].nb \in Nat /\ j \in Nat
    <3>1. buf[c][b] \in Buffer BY Zenon, <1>0, <2>1, ChainFacts
    <3> QED BY <3>1, RelayAssumption DEF Buffer
  <2>4. CASE c = k /\ b = a BY <1>3, <2>1, <2>2, <2>3, <2>4
  <2>5. CASE ~(c = k /\ b = a)
    <3>1. buf'[c][b].nb = buf[c][b].nb BY Zenon, <1>3, <2>1, <2>5
    <3>2. ASSUME Counting(c, b) PROVE Counting(c, b)'
      <4>1. PICK v \in Writer : thread[v].pc = "count" /\ MsgClass(v) = c /\ thread[v].at = b BY Zenon, <3>2 DEF Counting
      <4>2. v # w BY Zenon, <2>5, <4>1 DEF k, a
      <4>3. thread'[v] = thread[v] BY Zenon, <1>0, <1>4, <4>2 DEF Types
      <4>4. MsgClass(v)' = c BY Zenon, <4>1, <4>3 DEF MsgClass
      <4> QED BY Zenon, <4>1, <4>3, <4>4 DEF Counting
    <3> QED BY Zenon, <2>2, <3>1, <3>2
  <2> QED BY Zenon, <2>4, <2>5
<1>11. Replayed(drain') BY Zenon, <1>1 DEF ReplayInv
<1> QED BY Zenon, <1>6, <1>7, <1>9, <1>10, <1>11, BeyondChains

\* insert_boot_buffer stores a record.
LEMMA StoreReplay ==
    ASSUME ReplayInv, OwnerInv', NEW w \in Writer, thread[w].pc = "insert", NEW here \in Nat, NEW i \in Nat,
           Stored(w, here, i), NEW r \in Thread, thread' = [thread EXCEPT ![w] = r], r.pc = "count", r.at = here,
           r.n = thread[w].n, r.left = thread[w].left, r.msg = thread[w].msg,
           UNCHANGED <<head, drain, sent>>
    PROVE  ReplayInv'
<1>k. PICK k \in Class : k = MsgClass(w) BY Zenon, ClassFacts
<1> DEFINE x == thread[w].msg.no
           X == {}
<1>0. Types /\ Types' /\ Numbered /\ Filled BY Zenon DEF ReplayInv, OwnerInv
<1>1. k \in Class /\ head[k] = 1 /\ head'[k] = 1 BY Zenon, <1>k, <1>0 DEF Stored, Types
<1>2. thread'[w] = r /\ \A v \in Writer : v # w => thread'[v] = thread[v] BY Zenon, <1>0 DEF Types
<1>3. /\ x \in WriterNo /\ x # <<>> /\ x = <<w, thread[w].left, thread[w].msg.kind>>
      /\ \A c \in Class : \A b \in 1..Len(buf[c]), j \in 1..MaxEntry : No(c, b, j) # x
      /\ \A s \in Stream : \A u \in 1..Len(sent[s]) : sent[s][u].no # x
    BY Zenon, <1>0, FreshNumber
<1>4. Spent(thread', x)
  <2>1. x[1] = w /\ x[2] = thread[w].left /\ x[3] = thread[w].msg.kind BY <1>3
  <2>2. SpentIn(r, thread[w].left, thread[w].msg.kind) BY Zenon DEF SpentIn
  <2> HIDE DEF x
  <2> QED BY Zenon, <1>2, <2>1, <2>2 DEF Spent
<1>5. NumberOK(w, r)
  <2>1. NumberOK(w, thread[w]) BY Zenon, <1>0 DEF Numbered
  <2> QED BY Zenon, <2>1 DEF NumberOK
<1>6. \A l \in Nat, kd \in {"node", "rel"} : SpentIn(thread[w], l, kd) => SpentIn(r, l, kd) BY Zenon DEF SpentIn
<1>7. Len(buf[k]) \in Nat /\ here = Len(buf'[k]) /\ Len(buf[k]) <= here
    BY Zenon, <1>k, <1>0, <1>1, ChainFacts DEF Stored
<1>8. ASSUME NEW b \in 1..Len(buf'[k]), NEW j \in 1..MaxEntry
      PROVE  \/ b = here /\ j = i /\ No(k, b, j)' = x
             \/ ~(b = here /\ j = i) /\ No(k, b, j)' = <<>>
             \/ ~(b = here /\ j = i) /\ b \in 1..Len(buf[k]) /\ No(k, b, j)' = No(k, b, j)
  <2>1. Outgoing(w).no = x BY Zenon, <1>0, RecFacts
  <2>2. CASE b = here /\ j = i BY Zenon, <1>k, <2>1, <2>2 DEF Stored, No
  <2>3. CASE ~(b = here /\ j = i)
    <3>1. b \in 1..here BY Zenon, <1>7
    <3>2. buf'[k][b].slot[j] = IF b <= Len(buf[k]) THEN buf[k][b].slot[j] ELSE Empty BY Zenon, <1>k, <2>3, <3>1 DEF Stored
    <3>3. CASE b <= Len(buf[k])
      <4>1. b \in 1..Len(buf[k]) BY <1>7, <3>1, <3>3
      <4> QED BY Zenon, <2>3, <3>2, <3>3, <4>1 DEF No
    <3>4. CASE ~(b <= Len(buf[k])) BY <2>3, <3>2, <3>4 DEF No, Empty
    <3> QED BY Zenon, <3>3, <3>4
  <2> QED BY Zenon, <2>2, <2>3
<1>9. ASSUME NEW c \in Class, c # k
      PROVE  /\ buf'[c] = buf[c] /\ \A b, j : No(c, b, j)' = No(c, b, j)
             /\ \A b : Counting(c, b) => Counting(c, b)'
  <2>1. buf'[c] = buf[c] BY Zenon, <1>k, <1>9 DEF Stored
  <2>2. ASSUME NEW b, Counting(c, b) PROVE Counting(c, b)'
    <3>1. PICK v \in Writer : thread[v].pc = "count" /\ MsgClass(v) = c /\ thread[v].at = b BY Zenon, <2>2 DEF Counting
    <3>2. thread'[v] = thread[v] BY Zenon, <1>2, <3>1
    <3>3. MsgClass(v)' = c BY <3>1, <3>2 DEF MsgClass
    <3> QED BY Zenon, <3>1, <3>2, <3>3 DEF Counting
  <2> QED BY Zenon, <2>1, <2>2 DEF No
<1>10. \A c \in Class : Out(c)' = Out(c) BY Zenon DEF Out
<1>11. Filled'
  <2> SUFFICES ASSUME NEW c \in Class, NEW b \in 1..Len(buf'[c]), NEW j \in 1..MaxEntry, No(c, b, j)' # <<>>
               PROVE  j <= buf'[c][b].nb \/ (j = buf'[c][b].nb + 1 /\ Counting(c, b)')
      BY Zenon DEF Filled
  <2>1. CASE c # k BY <1>0, <1>9, <2>1 DEF Filled
  <2>2. CASE c = k
    <3>1. MsgClass(w)' = k BY <1>k, <1>2 DEF MsgClass
    <3>2. CASE b = here /\ j = i
      <4>1. j = buf'[c][b].nb + 1 BY Zenon, <1>k, <2>2, <3>2 DEF Stored
      <4>2. Counting(c, b)' BY Zenon, <1>2, <2>2, <3>1, <3>2 DEF Counting
      <4> QED BY Zenon, <4>1, <4>2
    <3>3. CASE ~(b = here /\ j = i)
      <4>1. b \in 1..Len(buf[k]) /\ No(k, b, j) # <<>> BY Zenon, <1>8, <2>2, <3>3
      <4>2. j <= buf[k][b].nb \/ (j = buf[k][b].nb + 1 /\ Counting(k, b)) BY Zenon, <1>0, <1>1, <4>1 DEF Filled
      <4>3. buf'[k][b].nb = buf[k][b].nb BY Zenon, <1>k, <4>1 DEF Stored
      <4>4. ASSUME Counting(k, b) PROVE Counting(k, b)'
        <5>1. PICK v \in Writer : thread[v].pc = "count" /\ MsgClass(v) = k /\ thread[v].at = b BY Zenon, <4>4 DEF Counting
        <5>2. thread'[v] = thread[v] BY Zenon, <1>2, <5>1
        <5>3. MsgClass(v)' = k BY <5>1, <5>2 DEF MsgClass
        <5> QED BY Zenon, <5>1, <5>2, <5>3 DEF Counting
      <4> QED BY Zenon, <2>2, <4>2, <4>3, <4>4
    <3> QED BY Zenon, <3>2, <3>3
  <2> QED BY Zenon, <2>1, <2>2
<1> HIDE DEF x
<1>12. Numbered'
  <2>1. \A s \in Stream : Grows(s, {}) BY Zenon, <1>0, QuietGrows
  <2>2. \A s \in Stream : Grows(s, X) /\ \A y \in X : Spent(thread', y) BY Zenon, <2>1
  <2>3. ASSUME NEW c \in Class, NEW b \in 1..Len(buf'[c]), NEW j \in 1..MaxEntry
        PROVE  LET y == buf'[c][b].slot[j].no IN
               \/ y = <<>>
               \/ b \in 1..Len(buf[c]) /\ y = No(c, b, j)
               \/ y \in WriterNo /\ Spent(thread', y)
    <3>1. CASE c # k BY Zenon, <1>9, <3>1 DEF No
    <3>2. CASE c = k
      <4> DEFINE z == No(k, b, j)'
      <4>1. z = x \/ z = <<>> \/ (b \in 1..Len(buf[k]) /\ z = No(k, b, j)) BY Zenon, <1>8, <3>2
      <4> HIDE DEF z
      <4>2. z = <<>> \/ (b \in 1..Len(buf[k]) /\ z = No(k, b, j)) \/ (z \in WriterNo /\ Spent(thread', z))
        BY Zenon, <1>3, <1>4, <4>1
      <4> QED BY Zenon, <3>2, <4>2 DEF z, No
    <3> QED BY Zenon, <3>1, <3>2
  <2> HIDE DEF X
  <2> QED BY Zenon, <1>0, <1>5, <1>6, <2>2, <2>3, WriterNumbered
<1>13. Distinct'
  <2> SUFFICES ASSUME NEW c \in Class, NEW b \in 1..Len(buf'[c]), NEW d \in 1..Len(buf'[c]),
                      NEW e \in 1..MaxEntry, NEW j \in 1..MaxEntry,
                      No(c, b, e)' # <<>>, No(c, b, e)' = No(c, d, j)'
               PROVE  b = d /\ e = j
      BY DEF Distinct
  <2>0. Distinct BY Zenon DEF ReplayInv
  <2>1. CASE c # k
    <3>1. No(c, b, e) # <<>> /\ No(c, b, e) = No(c, d, j) /\ b \in 1..Len(buf[c]) /\ d \in 1..Len(buf[c])
      BY Zenon, <1>9, <2>1
    <3> QED BY <2>0, <3>1 DEF Distinct
  <2>2. CASE c = k
    <3>1. \/ b = here /\ e = i /\ No(k, b, e)' = x
          \/ ~(b = here /\ e = i) /\ b \in 1..Len(buf[k]) /\ No(k, b, e)' = No(k, b, e)
      BY Zenon, <1>8, <2>2
    <3>2. \/ d = here /\ j = i /\ No(k, d, j)' = x
          \/ ~(d = here /\ j = i) /\ d \in 1..Len(buf[k]) /\ No(k, d, j)' = No(k, d, j)
      BY Zenon, <1>8, <2>2
    <3>3. /\ b \in 1..Len(buf[k]) => No(k, b, e) # x
          /\ d \in 1..Len(buf[k]) => No(k, d, j) # x
      BY Zenon, <1>1, <1>3
    <3>4. b \in 1..Len(buf[k]) /\ d \in 1..Len(buf[k]) /\ No(k, b, e) # <<>> /\ No(k, b, e) = No(k, d, j) => b = d /\ e = j
      BY Zenon, <1>1, <2>0 DEF Distinct
    <3> QED BY Zenon, <2>2, <3>1, <3>2, <3>3, <3>4
  <2> QED BY Zenon, <2>1, <2>2
<1>14. ASSUME NEW u \in 1..Len(Out(k)), NEW b \in 1..Len(buf'[k]), NEW j \in 1..MaxEntry, No(k, b, j)' # <<>>
       PROVE  Out(k)[u].no # No(k, b, j)'
  <2>1. Out(k)[u].no # x
    <3>1. <<"base", k>> \in Stream BY Zenon, <1>1, ClassFacts
    <3> QED BY Zenon, <1>3, <3>1 DEF Out
  <2>2. ASSUME b \in 1..Len(buf[k]), No(k, b, j) # <<>> PROVE Out(k)[u].no # No(k, b, j)
    BY Zenon, <1>1, <2>2 DEF ReplayInv, Untouched
  <2> QED BY Zenon, <1>8, <1>14, <2>1, <2>2
<1>15. Untouched'
  <2> SUFFICES ASSUME NEW c \in Class, head'[c] = 1
               PROVE  /\ \A u \in 1..Len(Out(c)') : \A b \in 1..Len(buf'[c]), j \in 1..MaxEntry :
                            No(c, b, j)' # <<>> => Out(c)'[u].no # No(c, b, j)'
                      /\ \A s \in Stream : \A u \in 1..Len(sent'[s]) : sent'[s][u].no \notin HandlerNo
      BY Zenon DEF Untouched
  <2>1. /\ \A u \in 1..Len(Out(c)) : \A b \in 1..Len(buf[c]), j \in 1..MaxEntry :
              No(c, b, j) # <<>> => Out(c)[u].no # No(c, b, j)
        /\ \A s \in Stream : \A u \in 1..Len(sent[s]) : sent[s][u].no \notin HandlerNo
      BY Zenon DEF ReplayInv, Untouched
  <2>2. ASSUME NEW u \in 1..Len(Out(c)'), NEW b \in 1..Len(buf'[c]), NEW j \in 1..MaxEntry, No(c, b, j)' # <<>>
        PROVE  Out(c)'[u].no # No(c, b, j)'
    <3>1. CASE c # k
      <4>1. b \in 1..Len(buf[c]) /\ No(c, b, j)' = No(c, b, j) /\ Out(c)' = Out(c) BY Zenon, <1>9, <1>10, <3>1
      <4> QED BY Zenon, <2>1, <2>2, <4>1
    <3>2. CASE c = k BY Zenon, <1>10, <1>14, <2>2, <3>2
    <3> QED BY Zenon, <3>1, <3>2
  <2>3. \A s \in Stream : \A u \in 1..Len(sent'[s]) : sent'[s][u].no \notin HandlerNo BY Zenon, <2>1
  <2> QED BY Zenon, <2>2, <2>3
<1>16. Replayed(drain)'
  <2> SUFFICES ASSUME NEW c \in Class, NEW h \in Config, drain'[h][c].st # "none",
                      NEW b \in 1..Len(buf'[c]), NEW j \in 1..MaxEntry, No(c, b, j)' # <<>>,
                      b < drain'[h][c].at \/ (b = drain'[h][c].at /\ j <= drain'[h][c].i)
               PROVE  \E u \in 1..Len(Out(c)') : Out(c)'[u].no = No(c, b, j)'
      BY Zenon DEF Replayed
  <2>1. c # k BY Zenon, <1>1 DEF ReplayInv, OwnerInv, Ownership, Handler
  <2>2. Replayed(drain) BY Zenon DEF ReplayInv
  <2>3. b \in 1..Len(buf[c]) /\ No(c, b, j) # <<>> /\ No(c, b, j)' = No(c, b, j) BY Zenon, <1>9, <2>1
  <2>4. \E u \in 1..Len(Out(c)) : Out(c)[u].no = No(c, b, j) BY Zenon, <2>2, <2>3 DEF Replayed
  <2> QED BY Zenon, <1>10, <2>3, <2>4
<1>17. InOrder'
  <2> SUFFICES ASSUME NEW c \in Class, NEW b \in 1..Len(buf'[c]), NEW d \in 1..Len(buf'[c]),
                      NEW e \in 1..MaxEntry, NEW j \in 1..MaxEntry,
                      No(c, b, e)' # <<>>, No(c, d, j)' # <<>>, Before(b, e, d, j),
                      NEW v \in 1..Len(Out(c)'), Out(c)'[v].no = No(c, d, j)'
               PROVE  \E u \in 1..v : Out(c)'[u].no = No(c, b, e)'
      BY DEF InOrder
  <2>0. InOrder BY Zenon DEF ReplayInv
  <2>1. c # k BY Zenon, <1>10, <1>14
  <2>2. /\ b \in 1..Len(buf[c]) /\ No(c, b, e)' = No(c, b, e)
        /\ d \in 1..Len(buf[c]) /\ No(c, d, j)' = No(c, d, j) /\ v \in 1..Len(Out(c))
        /\ Out(c)[v].no = No(c, d, j)
    BY Zenon, <1>9, <1>10, <2>1
  <2>3. \E u \in 1..v : Out(c)[u].no = No(c, b, e) BY Zenon, <2>0, <2>2 DEF InOrder
  <2> QED BY Zenon, <1>10, <2>2, <2>3
<1>18. Complete'
  <2> SUFFICES ASSUME NEW c \in Class, NEW b \in 1..Len(buf'[c]), NEW j \in 1..MaxEntry,
                      NEW v \in 1..Len(Out(c)'), No(c, b, j)' # <<>>, Out(c)'[v].no = No(c, b, j)'
               PROVE  Out(c)'[v].boot # 0 /\ Out(c)'[v].end # 0
      BY Zenon DEF Complete
  <2>1. c # k BY Zenon, <1>10, <1>14
  <2>2. b \in 1..Len(buf[c]) /\ No(c, b, j)' = No(c, b, j) BY Zenon, <1>9, <2>1
  <2> QED BY Zenon, <1>10, <2>2 DEF ReplayInv, Complete
<1> QED BY Zenon, <1>11, <1>12, <1>13, <1>15, <1>16, <1>17, <1>18 DEF ReplayInv

\* A step that writes no record of a writer and leaves the chains and the writers
\* alone.
LEMMA StillReplay ==
    ASSUME ReplayInv, OwnerInv', UNCHANGED <<thread, buf>>,
           NEW X, \A s \in Stream : Grows(s, X), X \cap WriterNo = {},
           \A k \in Class : head'[k] = 1 => head[k] = 1 /\ X \cap HandlerNo = {},
           Replayed(drain')
    PROVE  ReplayInv'
<1>0. Types /\ Types' /\ Numbered BY Zenon DEF ReplayInv, OwnerInv
<1>1. Numbered'
  <2>1. ASSUME NEW s \in Stream, NEW u \in 1..Len(sent'[s]) PROVE Spent(thread, sent'[s][u].no)
    <3>1. Len(sent[s]) \in Nat /\ Len(sent'[s]) \in Nat BY Zenon, <1>0, ChainFacts, ChainNextFacts
    <3>2. CASE u > Len(sent[s])
      <4>1. sent'[s][u].no \in X BY Zenon, <3>2 DEF Grows
      <4> QED BY Zenon, <4>1 DEF Spent
    <3>3. CASE ~(u > Len(sent[s]))
      <4>1. u \in 1..Len(sent[s]) BY <3>1, <3>3
      <4>2. sent'[s][u] = sent[s][u] /\ Spent(thread, sent[s][u].no) BY Zenon, <1>0, <4>1 DEF Grows, Numbered
      <4> QED BY Zenon, <4>2
    <3> QED BY Zenon, <3>2, <3>3
  <2>2. \A k \in Class : \A b \in 1..Len(buf[k]), j \in 1..MaxEntry : No(k, b, j)' = No(k, b, j) BY Zenon DEF No
  <2>3. \A w \in Writer : NumberOK(w, thread'[w]) BY Zenon, <1>0 DEF Numbered
  <2>4. \A k \in Class : \A b \in 1..Len(buf'[k]), j \in 1..MaxEntry :
           No(k, b, j)' # <<>> => No(k, b, j)' \in WriterNo /\ Spent(thread', No(k, b, j)')
    BY <1>0, <2>2 DEF Numbered
  <2>5. \A s \in Stream : \A u \in 1..Len(sent'[s]) : Spent(thread', sent'[s][u].no) BY Zenon, <2>1
  <2> QED BY Zenon, <2>3, <2>4, <2>5 DEF Numbered
<1>2. Filled' BY DEF ReplayInv, Filled, Counting, MsgClass, No
<1>3. SameChains BY Zenon DEF SameChains, No
<1>4. \A k \in Class : \A b \in 1..Len(buf[k]), j \in 1..MaxEntry : No(k, b, j) # <<>> => No(k, b, j) \notin X
    BY Zenon, <1>0 DEF Numbered
<1> QED BY Zenon, <1>1, <1>2, <1>3, <1>4, BeyondChains

\* A step that touches nothing of it.
LEMMA QuietReplay ==
    ASSUME ReplayInv, OwnerInv', UNCHANGED <<thread, buf, head, drain, sent>>
    PROVE  ReplayInv'
<1> DEFINE X == {}
<1>1. \A s \in Stream : Grows(s, {}) BY Zenon, QuietGrows DEF ReplayInv, OwnerInv
<1>2. /\ \A s \in Stream : Grows(s, X)
      /\ X \cap WriterNo = {} /\ \A k \in Class : head'[k] = 1 => head[k] = 1 /\ X \cap HandlerNo = {}
    BY Zenon, <1>1
<1>3. Replayed(drain') BY Zenon DEF ReplayInv
<1> HIDE DEF X
<1> QED BY Zenon, <1>2, <1>3, StillReplay

\* The steps of a writer.
LEMMA WriterReplay ==
    ASSUME ReplayInv, NEW w \in Writer, WriterNext(w)
    PROVE  ReplayInv'
<1>0. OwnerInv /\ Types BY Zenon DEF ReplayInv, OwnerInv
<1>1. OwnerInv' BY Zenon, <1>0, WriterStepOwner
<1>2. CASE (\E n \in Node : Begin(w, n)) \/ PrepareRelation(w) \/ WriteBoot(w) BY Zenon, <1>1, <1>2, PrepareReplay
<1>3. CASE WriteLive(w) BY Zenon, <1>1, <1>3, LiveReplay
<1>4. CASE Count(w) BY Zenon, <1>1, <1>4, CountReplay
<1>5. CASE Insert(w)
  <2>1. thread[w].pc = "insert" /\ UNCHANGED <<head, drain, sent>> BY Zenon, <1>5 DEF Insert, chanVars
  <2>2. CASE UNCHANGED <<buf, thread>> BY Zenon, <1>1, <2>1, <2>2, QuietReplay
  <2>3. \/ UNCHANGED <<buf, thread>>
        \/ \E here \in Nat, i \in Nat, r \in Thread :
              /\ Stored(w, here, i) /\ thread' = [thread EXCEPT ![w] = r] /\ r.pc = "count" /\ r.at = here
              /\ r.n = thread[w].n /\ r.left = thread[w].left /\ r.msg = thread[w].msg
    BY Zenon, <1>0, <1>5, InsertTypes
  <2> QED BY Zenon, <1>1, <2>1, <2>2, <2>3, StoreReplay
<1> QED BY Zenon, <1>2, <1>3, <1>4, <1>5 DEF WriterNext, Node

\* write_boot_buffer ends: the machine's node is written.
LEMMA ScheduleReplay ==
    ASSUME ReplayInv, NEW h \in Handler, Schedule(h)
    PROVE  ReplayInv'
<1>0. OwnerInv /\ Types BY Zenon DEF ReplayInv, OwnerInv
<1>1. OwnerInv' BY Zenon, <1>0, ScheduleOwner
<1>2. UNCHANGED <<thread, buf>> /\ head' = [k \in Class |-> 0] BY Zenon DEF Schedule
<1>3. PICK r \in Rec : RelayWrite({<<"base", "long">>}, r) /\ r.no \in HandlerNo BY Zenon, <1>0, ScheduleTypes
<1>4. \A s \in Stream : Grows(s, {r.no}) BY Zenon, <1>0, <1>3, WriteGrows
<1> DEFINE X == {r.no}
<1>5. X \cap WriterNo = {} BY Zenon, <1>3 DEF HandlerNo, WriterNo
<1>6. \A k \in Class : head'[k] = 1 => head[k] = 1 /\ X \cap HandlerNo = {} BY <1>2
<1>7. Replayed(drain')
  <2> SUFFICES ASSUME NEW k \in Class, NEW g \in Config, drain'[g][k].st # "none",
                      NEW b \in 1..Len(buf[k]), NEW j \in 1..MaxEntry,
                      b < drain'[g][k].at \/ (b = drain'[g][k].at /\ j <= drain'[g][k].i)
               PROVE  FALSE
      BY Zenon DEF Replayed
  <2>1. h # "init" BY Zenon, <1>0 DEF Schedule, OwnerInv, Phase
  <2>2. h \in Config BY Zenon, <2>1 DEF Handler
  <2>3. g = h
    <3>1. conf[h].pc = "schedule" BY Zenon DEF Schedule
    <3>2. head[k] = 1 BY Zenon, <1>0, <2>2, <3>1 DEF OwnerInv, Ownership
    <3>3. drain[g][k].st = "none" /\ g \in Handler BY Zenon, <1>0, <3>2 DEF OwnerInv, Ownership, Handler
    <3> QED BY Zenon, <1>0, <3>3, ScheduleTypes
  <2>4. conf[h].tmp[k] = 1 BY Zenon, <1>0, <2>2 DEF Schedule, OwnerInv, Phase
  <2>5. drain'[h][k] = TaskOn(conf[h].tmp[k]) BY Zenon, <1>0, ScheduleTypes
  <2>6. drain'[g][k].at = 1 /\ drain'[g][k].i = 0 BY <2>3, <2>4, <2>5 DEF TaskOn
  <2>7. Len(buf[k]) \in Nat /\ MaxEntry \in Nat BY Zenon, <1>0, ChainFacts, SizeFacts
  <2> QED BY <2>6, <2>7
<1> HIDE DEF X
<1>8. \A s \in Stream : Grows(s, X) BY Zenon, <1>4 DEF X
<1> QED BY Zenon, <1>1, <1>2, <1>5, <1>6, <1>7, <1>8, StillReplay

\* The end of a buffer: every record of it is counted by now, so all were written.
LEMMA DrainNextReplay ==
    ASSUME ReplayInv, SleepCovers, NEW h \in Handler, NEW k \in Class, DrainNext(h, k)
    PROVE  ReplayInv'
<1>0. OwnerInv /\ Types /\ Filled /\ Replayed(drain) BY Zenon DEF ReplayInv, OwnerInv
<1>1. OwnerInv' BY Zenon, <1>0, DrainOwner DEF DrainStep
<1> DEFINE t == drain[h][k]
<1>2. /\ Types' /\ UNCHANGED <<thread, conf, head, buf, sent>>
      /\ \A g \in Handler, c \in Class : g # h \/ c # k => drain'[g][c] = drain[g][c]
      /\ \/ t.at < Len(buf[k]) /\ drain'[h][k] = [st |-> "run", at |-> t.at + 1, i |-> 0]
         \/ ~(t.at < Len(buf[k])) /\ drain'[h][k] = NoTask
    BY Zenon, <1>0, NextTypes DEF chanVars
<1>3. Awake(h, k) /\ t.i >= buf[k][t.at].nb BY Zenon DEF DrainNext
<1>4. h \in Config /\ ~Busy(k) /\ t.st # "none" /\ t.at \in 1..Len(buf[k]) BY Zenon, <1>0, <1>3, AwakeFacts
<1>5. t.i \in Nat /\ t.at \in Nat /\ Len(buf[k]) \in Nat /\ MaxEntry \in Nat BY <1>0, RelayAssumption DEF Types, Task
<1> HIDE DEF t
<1>6. Replayed(drain')
  <2> SUFFICES ASSUME NEW c \in Class, NEW g \in Config, drain'[g][c].st # "none",
                      NEW b \in 1..Len(buf[c]), NEW j \in 1..MaxEntry, No(c, b, j) # <<>>,
                      b < drain'[g][c].at \/ (b = drain'[g][c].at /\ j <= drain'[g][c].i)
               PROVE  \E u \in 1..Len(Out(c)) : Out(c)[u].no = No(c, b, j)
      BY Zenon DEF Replayed
  <2>1. CASE g # h \/ c # k
    <3>1. drain'[g][c] = drain[g][c] BY Zenon, <1>2, <2>1 DEF Handler
    <3> QED BY Zenon, <1>0, <3>1 DEF Replayed
  <2>2. CASE g = h /\ c = k
    <3>1. drain'[h][k] = [st |-> "run", at |-> t.at + 1, i |-> 0] BY <1>2, <2>2 DEF NoTask
    <3>2. drain'[h][k].at = t.at + 1 /\ drain'[h][k].i = 0 BY <3>1
    <3>3. b < t.at + 1 BY <1>5, <2>2, <3>2
    <3>4. b < t.at \/ (b = t.at /\ j <= t.i)
      <4>1. CASE b = t.at
        <5>1. ~Counting(k, b) BY Zenon, <1>4 DEF Counting, Busy
        <5>2. j <= buf[k][b].nb BY Zenon, <1>0, <2>2, <5>1 DEF Filled
        <5>3. buf[k][b].nb \in Nat
          BY Zenon, <1>0, <2>2, ChainFacts
        <5> QED BY <1>3, <1>5, <4>1, <5>2, <5>3 DEF t
      <4>2. CASE b # t.at BY <1>5, <2>2, <3>3, <4>2
      <4> QED BY Zenon, <4>1, <4>2
    <3> QED BY Zenon, <1>0, <1>4, <2>2, <3>4 DEF Replayed, t
  <2> QED BY Zenon, <2>1, <2>2
<1> DEFINE X == {}
<1>7. \A s \in Stream : Grows(s, {}) BY Zenon, <1>0, <1>2, QuietGrows
<1>8. /\ \A s \in Stream : Grows(s, X)
      /\ X \cap WriterNo = {} /\ \A c \in Class : head'[c] = 1 => head[c] = 1 /\ X \cap HandlerNo = {}
    BY Zenon, <1>2, <1>7
<1> HIDE DEF X
<1> QED BY Zenon, <1>1, <1>2, <1>6, <1>8, StillReplay

\* One entry of a buffer: what precedes it was written before.
LEMMA DrainEntryReplay ==
    ASSUME ReplayInv, SleepCovers, NEW h \in Handler, NEW k \in Class, DrainEntry(h, k)
    PROVE  ReplayInv'
<1>0. OwnerInv /\ Types /\ Numbered /\ Filled /\ Distinct /\ Untouched /\ Replayed(drain) /\ InOrder /\ Complete
    BY Zenon DEF ReplayInv, OwnerInv
<1>1. OwnerInv' BY Zenon, <1>0, DrainOwner DEF DrainStep
<1>2. Awake(h, k) BY Zenon DEF DrainEntry
<1> DEFINE t == drain[h][k]
           n == t.i + 1
           x == Entry(k, t.at, n).no
           q == Out(k)
<1>3. /\ h \in Config /\ t.st # "none" /\ head[k] = 0 /\ t.at \in 1..Len(buf[k]) /\ Identified
      /\ \A g \in Handler : g # h => drain[g][k].st = "none"
    BY Zenon, <1>0, <1>2, AwakeFacts
<1>4. /\ Types' /\ UNCHANGED <<id, thread, conf, head>>
      /\ Len(buf'[k]) = Len(buf[k]) /\ \A c \in Class : c # k => buf'[c] = buf[c]
      /\ \A b \in 1..Len(buf[k]) :
            /\ buf'[k][b].nb = buf[k][b].nb
            /\ \A j \in 1..MaxEntry : buf'[k][b].slot[j].no = buf[k][b].slot[j].no
      /\ \A g \in Handler, c \in Class : g # h \/ c # k => drain'[g][c] = drain[g][c]
      /\ drain'[h][k].at = t.at
    BY Zenon, <1>0, <1>3, EntryTypes
<1>15. \A g \in Config : drain'[g][k].st # "none" => g = h
  <2> SUFFICES ASSUME NEW g \in Config, g # h PROVE drain'[g][k].st = "none" BY Zenon
  <2>1. g \in Handler BY Zenon DEF Handler
  <2>2. drain'[g][k] = drain[g][k] BY Zenon, <1>4, <2>1
  <2> QED BY Zenon, <1>3, <2>1, <2>2
<1>5. t.i \in Nat /\ n \in Nat /\ t.at \in Nat /\ Len(buf[k]) \in Nat /\ MaxEntry \in Nat /\ Len(q) \in Nat
      /\ <<"base", k>> \in Stream /\ id.boot # 0
  <2>1. <<"base", k>> \in Stream BY Zenon, ClassFacts
  <2> QED BY <1>0, <1>3, <2>1, RelayAssumption DEF Types, Task, Out, Identified
<1>6. SameChains
  <2> SUFFICES ASSUME NEW c \in Class
               PROVE  /\ Len(buf'[c]) = Len(buf[c])
                      /\ \A b \in 1..Len(buf[c]), j \in 1..MaxEntry : buf'[c][b].slot[j].no = No(c, b, j)
      BY Zenon DEF SameChains
  <2>1. CASE c = k BY Zenon, <1>4, <2>1 DEF No
  <2>2. CASE c # k BY Zenon, <1>4, <2>2 DEF No
  <2> QED BY Zenon, <2>1, <2>2
<1>7. \A c \in Class : /\ Len(buf'[c]) = Len(buf[c])
                       /\ \A b \in 1..Len(buf[c]), j \in 1..MaxEntry : No(c, b, j)' = No(c, b, j)
                       /\ \A b \in 1..Len(buf[c]) : buf'[c][b].nb = buf[c][b].nb
    BY Zenon, <1>4, <1>6 DEF SameChains, No
<1>8. Filled'
  <2>1. \A c \in Class, b \in Nat : Counting(c, b)' = Counting(c, b) BY Zenon, <1>4 DEF Counting, MsgClass
  <2>2. \A c \in Class : Len(buf[c]) \in Nat BY Zenon, <1>0, ChainFacts
  <2> QED BY <1>0, <1>7, <2>1, <2>2 DEF Filled
<1>9. /\ n \in 1..MaxEntry => x = No(k, t.at, n)
      /\ n \notin 1..MaxEntry => x = <<>>
  <2>1. n \in 1..MaxEntry <=> n <= MaxEntry BY <1>5
  <2> HIDE DEF n
  <2>2. Empty.no = <<>> BY Zenon DEF Empty
  <2> QED BY Zenon, <2>1, <2>2 DEF Entry, No
<1> HIDE DEF t, n, x, q
<1>10. x # <<>> => x \in WriterNo /\ Spent(thread, x) BY Zenon, <1>0, <1>3, <1>9 DEF Numbered
<1>11. x \notin HandlerNo /\ Spent(thread, x) BY <1>10 DEF HandlerNo, WriterNo, Spent
<1>12. CASE drain'[h][k].st = "sleep" /\ drain'[h][k].i = 0 /\ UNCHANGED chanVars
  <2>1. UNCHANGED sent BY Zenon, <1>12 DEF chanVars
  <2>2. \A s \in Stream : Grows(s, {}) BY Zenon, <1>0, <2>1, QuietGrows
  <2>3. Numbered'
    <3>1. \A w \in Writer : NumberOK(w, thread'[w]) BY Zenon, <1>0, <1>4 DEF Numbered
    <3>2. \A c \in Class : \A b \in 1..Len(buf'[c]), j \in 1..MaxEntry :
             No(c, b, j)' # <<>> => No(c, b, j)' \in WriterNo /\ Spent(thread', No(c, b, j)')
      <4> TAKE c \in Class
      <4> TAKE b \in 1..Len(buf'[c]), j \in 1..MaxEntry
      <4>1. b \in 1..Len(buf[c]) /\ No(c, b, j)' = No(c, b, j) /\ thread' = thread BY Zenon, <1>4, <1>7
      <4> QED BY Zenon, <1>0, <4>1 DEF Numbered
    <3>3. \A s \in Stream : \A u \in 1..Len(sent'[s]) : Spent(thread', sent'[s][u].no) BY Zenon, <1>0, <1>4, <2>1 DEF Numbered
    <3> QED BY Zenon, <3>1, <3>2, <3>3 DEF Numbered
  <2>4. Replayed(drain')
    <3> SUFFICES ASSUME NEW c \in Class, NEW g \in Config, drain'[g][c].st # "none",
                        NEW b \in 1..Len(buf[c]), NEW j \in 1..MaxEntry, No(c, b, j) # <<>>,
                        b < drain'[g][c].at \/ (b = drain'[g][c].at /\ j <= drain'[g][c].i)
                 PROVE  \E u \in 1..Len(Out(c)) : Out(c)[u].no = No(c, b, j)
        BY Zenon DEF Replayed
    <3>1. CASE c # k
      <4>1. drain'[g][c] = drain[g][c] BY Zenon, <1>4, <3>1 DEF Handler
      <4> QED BY Zenon, <1>0, <4>1 DEF Replayed
    <3>2. CASE c = k
      <4>1. g = h /\ drain'[h][k].at = t.at /\ drain'[h][k].i = 0 BY Zenon, <1>4, <1>12, <1>15, <3>2
      <4>2. b < t.at \/ (b = t.at /\ j <= 0) BY Zenon, <3>2, <4>1
      <4>3. ~(j <= 0) BY ONLY j \in 1..MaxEntry, <1>5
      <4>4. b < t.at BY Zenon, <4>2, <4>3
      <4> QED BY Zenon, <1>0, <1>3, <3>2, <4>4 DEF Replayed, t
    <3> QED BY Zenon, <3>1, <3>2
  <2> DEFINE X == {}
  <2>5. /\ \A s \in Stream : Grows(s, X)
        /\ \A c \in Class : \A b \in 1..Len(buf[c]), j \in 1..MaxEntry : No(c, b, j) # <<>> => No(c, b, j) \notin X
        /\ \A c \in Class : head'[c] = 1 => head[c] = 1 /\ X \cap HandlerNo = {}
      BY Zenon, <1>4, <2>2
  <2> HIDE DEF X
  <2> QED BY Zenon, <1>1, <1>6, <1>8, <2>3, <2>4, <2>5, BeyondChains
<1>13. ASSUME NEW r \in Rec, RelayWrite({<<"base", k>>}, r), r.no = x, id.boot # 0 => r.boot # 0 /\ r.end # 0,
              ~Full(<<"base", k>>), drain'[h][k].st = "run", drain'[h][k].i = n
       PROVE  ReplayInv'
  <2>1. /\ \A s \in Stream : Grows(s, {x}) /\ (s \notin {<<"base", k>>} => sent'[s] = sent[s])
        /\ \A s \in Stream \cap {<<"base", k>>} : ~Full(s) => sent'[s] = Append(sent[s], r)
      BY Zenon, <1>0, <1>13, WriteGrows
  <2>2. Out(k)' = Append(q, r) BY Zenon, <1>5, <1>13, <2>1 DEF Out, q
  <2>3. /\ Len(Out(k)') = Len(q) + 1 /\ Out(k)'[Len(q) + 1] = r
        /\ \A u \in 1..Len(q) : Out(k)'[u] = q[u]
    <3>1. q \in Seq(Rec) BY Zenon, <1>0, <1>5 DEF Types, Out, q
    <3> QED BY <2>2, <3>1
  <2>4. \A c \in Class : c # k => Out(c)' = Out(c)
    <3>1. \A c \in Class : <<"base", c>> \in Stream BY Zenon, ClassFacts
    <3>2. \A c \in Class : c # k => <<"base", c>> \notin {<<"base", k>>} BY Zenon DEF Class
    <3> QED BY Zenon, <2>1, <3>1, <3>2 DEF Out
  <2>5. \A s \in Stream : \A u \in 1..Len(sent'[s]) :
           sent'[s][u].no = x \/ (u \in 1..Len(sent[s]) /\ sent'[s][u] = sent[s][u])
    <3> SUFFICES ASSUME NEW s \in Stream, NEW u \in 1..Len(sent'[s])
                 PROVE  sent'[s][u].no = x \/ (u \in 1..Len(sent[s]) /\ sent'[s][u] = sent[s][u])
        BY Zenon
    <3>1. Len(sent[s]) \in Nat /\ Len(sent'[s]) \in Nat BY Zenon, <1>0, <1>4, ChainFacts, ChainNextFacts
    <3>2. u > Len(sent[s]) \/ u \in 1..Len(sent[s]) BY <3>1
    <3> QED BY Zenon, <2>1, <3>2 DEF Grows
  <2>6. Numbered'
    <3>1. \A w \in Writer : NumberOK(w, thread'[w]) BY Zenon, <1>0, <1>4 DEF Numbered
    <3>2. \A c \in Class : \A b \in 1..Len(buf'[c]), j \in 1..MaxEntry :
             No(c, b, j)' # <<>> => No(c, b, j)' \in WriterNo /\ Spent(thread', No(c, b, j)')
      <4> TAKE c \in Class
      <4> TAKE b \in 1..Len(buf'[c]), j \in 1..MaxEntry
      <4>1. b \in 1..Len(buf[c]) /\ No(c, b, j)' = No(c, b, j) /\ thread' = thread BY Zenon, <1>4, <1>7
      <4> QED BY Zenon, <1>0, <4>1 DEF Numbered
    <3>3. \A s \in Stream : \A u \in 1..Len(sent'[s]) : Spent(thread', sent'[s][u].no)
      <4>1. \A s \in Stream : \A u \in 1..Len(sent[s]) : Spent(thread, sent[s][u].no) BY Zenon, <1>0 DEF Numbered
      <4>2. thread' = thread BY Zenon, <1>4
      <4> QED BY Zenon, <1>11, <2>5, <4>1, <4>2
    <3> QED BY Zenon, <3>1, <3>2, <3>3 DEF Numbered
  <2>7. Distinct' BY Zenon, <1>0, <1>7, DistinctSame
  <2>8. Untouched'
    <3> SUFFICES ASSUME NEW c \in Class, head'[c] = 1
                 PROVE  /\ \A u \in 1..Len(Out(c)') : \A b \in 1..Len(buf'[c]), j \in 1..MaxEntry :
                              No(c, b, j)' # <<>> => Out(c)'[u].no # No(c, b, j)'
                        /\ \A s \in Stream : \A u \in 1..Len(sent'[s]) : sent'[s][u].no \notin HandlerNo
        BY Zenon DEF Untouched
    <3>1. c # k /\ head[c] = 1 BY <1>3, <1>4
    <3>2. /\ \A u \in 1..Len(Out(c)) : \A b \in 1..Len(buf[c]), j \in 1..MaxEntry :
                No(c, b, j) # <<>> => Out(c)[u].no # No(c, b, j)
          /\ \A s \in Stream : \A u \in 1..Len(sent[s]) : sent[s][u].no \notin HandlerNo
        BY Zenon, <1>0, <3>1 DEF Untouched
    <3>3. \A s \in Stream : \A u \in 1..Len(sent'[s]) : sent'[s][u].no \notin HandlerNo
        BY Zenon, <1>11, <2>5, <3>2
    <3>4. Out(c)' = Out(c) /\ Len(buf'[c]) = Len(buf[c])
          /\ \A b \in 1..Len(buf[c]), j \in 1..MaxEntry : No(c, b, j)' = No(c, b, j)
        BY Zenon, <1>7, <2>4, <3>1
    <3> QED BY Zenon, <3>2, <3>3, <3>4
  <2>9. Replayed(drain)'
    <3> SUFFICES ASSUME NEW c \in Class, NEW g \in Config, drain'[g][c].st # "none",
                        NEW b \in 1..Len(buf'[c]), NEW j \in 1..MaxEntry, No(c, b, j)' # <<>>,
                        b < drain'[g][c].at \/ (b = drain'[g][c].at /\ j <= drain'[g][c].i)
                 PROVE  \E u \in 1..Len(Out(c)') : Out(c)'[u].no = No(c, b, j)'
        BY Zenon DEF Replayed
    <3>0. b \in 1..Len(buf[c]) /\ No(c, b, j)' = No(c, b, j) BY Zenon, <1>7
    <3>1. CASE c # k
      <4>1. drain'[g][c] = drain[g][c] BY Zenon, <1>4, <3>1 DEF Handler
      <4>2. \E u \in 1..Len(Out(c)) : Out(c)[u].no = No(c, b, j) BY Zenon, <1>0, <3>0, <4>1 DEF Replayed
      <4> QED BY Zenon, <2>4, <3>0, <3>1, <4>2
    <3>2. CASE c = k
      <4>1. b < t.at \/ (b = t.at /\ j <= n) BY Zenon, <1>4, <1>13, <1>15, <3>2
      <4>2. CASE b = t.at /\ j = n
        <5>1. r.no = No(k, b, j) BY Zenon, <1>9, <1>13, <4>2
        <5>2. Len(q) + 1 \in 1..Len(Out(k)') BY <1>5, <2>3
        <5> QED BY Zenon, <2>3, <3>0, <3>2, <5>1, <5>2
      <4>3. CASE b < t.at \/ (b = t.at /\ j <= t.i)
        <5>1. PICK u \in 1..Len(q) : q[u].no = No(k, b, j) BY Zenon, <1>0, <1>3, <3>0, <3>2, <4>3 DEF Replayed, t, q
        <5>2. u \in 1..Len(Out(k)') BY <1>5, <2>3, <5>1
        <5> QED BY Zenon, <2>3, <3>0, <3>2, <5>1, <5>2
      <4>4. j <= n => j = n \/ j <= t.i BY <1>5 DEF n
      <4> QED BY Zenon, <4>1, <4>2, <4>3, <4>4
    <3> QED BY Zenon, <3>1, <3>2
  <2>10. InOrder'
    <3> SUFFICES ASSUME NEW c \in Class, NEW b \in 1..Len(buf'[c]), NEW d \in 1..Len(buf'[c]),
                        NEW e \in 1..MaxEntry, NEW j \in 1..MaxEntry,
                        No(c, b, e)' # <<>>, No(c, d, j)' # <<>>, Before(b, e, d, j),
                        NEW v \in 1..Len(Out(c)'), Out(c)'[v].no = No(c, d, j)'
                 PROVE  \E u \in 1..v : Out(c)'[u].no = No(c, b, e)'
        BY DEF InOrder
    <3>0. /\ b \in 1..Len(buf[c]) /\ No(c, b, e)' = No(c, b, e)
          /\ d \in 1..Len(buf[c]) /\ No(c, d, j)' = No(c, d, j)
      BY Zenon, <1>7
    <3>1. ASSUME v \in 1..Len(Out(c)), Out(c)[v].no = No(c, d, j)
          PROVE  \E u \in 1..v : Out(c)[u].no = No(c, b, e)
      BY Zenon, <1>0, <3>0, <3>1 DEF InOrder
    <3>2. CASE c # k BY Zenon, <2>4, <3>0, <3>1, <3>2
    <3>3. CASE c = k /\ v \in 1..Len(q)
      <4>0. v \in 1..Len(q) /\ \A u \in 1..v : u \in 1..Len(q) BY <1>5, <3>3
      <4>1. Out(k)'[v] = q[v] /\ \A u \in 1..v : Out(k)'[u] = q[u] BY Zenon, <2>3, <4>0
      <4>2. \E u \in 1..v : q[u].no = No(k, b, e) BY Zenon, <3>0, <3>1, <3>3, <4>1 DEF q
      <4> QED BY Zenon, <3>0, <3>3, <4>1, <4>2
    <3>4. CASE c = k /\ v \notin 1..Len(q)
      <4>1. v = Len(q) + 1 BY <1>5, <2>3, <3>4
      <4>2. x = No(k, d, j) /\ x # <<>> BY Zenon, <1>13, <2>3, <3>0, <3>4, <4>1
      <4>3. n \in 1..MaxEntry /\ No(k, t.at, n) = x BY Zenon, <1>9, <4>2
      <4>4. d = t.at /\ j = n BY <1>0, <1>3, <3>0, <3>4, <4>2, <4>3 DEF Distinct
      <4>5. b < t.at \/ (b = t.at /\ e <= t.i) BY <1>5, <4>4 DEF Before, n
      <4>6. PICK u \in 1..Len(q) : q[u].no = No(k, b, e) BY <1>0, <1>3, <3>0, <3>4, <4>5 DEF Replayed, t, q
      <4>7. u \in 1..v /\ Out(k)'[u] = q[u] BY <1>5, <2>3, <4>1, <4>6
      <4> QED BY Zenon, <3>0, <3>4, <4>6, <4>7
    <3> QED BY Zenon, <3>2, <3>3, <3>4
  <2>11. Complete'
    <3> SUFFICES ASSUME NEW c \in Class, NEW b \in 1..Len(buf'[c]), NEW j \in 1..MaxEntry,
                        NEW v \in 1..Len(Out(c)'), No(c, b, j)' # <<>>, Out(c)'[v].no = No(c, b, j)'
                 PROVE  Out(c)'[v].boot # 0 /\ Out(c)'[v].end # 0
        BY Zenon DEF Complete
    <3>0. b \in 1..Len(buf[c]) /\ No(c, b, j)' = No(c, b, j) BY Zenon, <1>7
    <3>1. v \in 1..Len(Out(c)) /\ Out(c)'[v] = Out(c)[v] => Out(c)[v].boot # 0 /\ Out(c)[v].end # 0
      BY Zenon, <1>0, <3>0 DEF Complete
    <3>2. CASE c # k BY Zenon, <2>4, <3>1, <3>2
    <3>3. CASE c = k /\ v \in 1..Len(q) BY Zenon, <2>3, <3>1, <3>3 DEF q
    <3>4. CASE c = k /\ v \notin 1..Len(q)
      <4>1. v = Len(q) + 1 BY <1>5, <2>3, <3>4
      <4> QED BY Zenon, <1>5, <1>13, <2>3, <3>4, <4>1
    <3> QED BY Zenon, <3>2, <3>3, <3>4
  <2> QED BY Zenon, <1>1, <1>8, <2>6, <2>7, <2>8, <2>9, <2>10, <2>11 DEF ReplayInv
<1>14. \/ \E r \in Rec : /\ RelayWrite({<<"base", k>>}, r) /\ r.no = x
                         /\ id.boot # 0 => r.boot # 0 /\ r.end # 0
                         /\ ~Full(<<"base", k>>) /\ drain'[h][k].st = "run" /\ drain'[h][k].i = n
       \/ drain'[h][k].st = "sleep" /\ drain'[h][k].i = 0 /\ UNCHANGED chanVars
    BY Zenon, <1>0, <1>3, EntryTypes DEF t, n, x
<1> QED BY Zenon, <1>12, <1>13, <1>14

\* Every step keeps it.
LEMMA NextReplay ==
    ASSUME ReplayInv, SleepCovers, ~Overlap', [Next]_vars
    PROVE  ReplayInv'
<1>0. OwnerInv /\ Types BY Zenon DEF ReplayInv, OwnerInv
<1>1. OwnerInv' BY Zenon, <1>0, NextOwner
<1>2. ASSUME NEW w \in Writer, WriterNext(w) PROVE ReplayInv' BY Zenon, <1>2, WriterReplay
<1>3. ASSUME NEW h \in Config, ConfigNext(h) PROVE ReplayInv'
  <2>1. UNCHANGED <<thread, buf, head, drain, sent>>
    BY Zenon, <1>3 DEF ConfigNext, SetId, CreateChannel, WriteEpoch, bufVars, chanVars
  <2> QED BY Zenon, <1>1, <2>1, QuietReplay
<1>4. CASE RelayProvInit
  <2>1. UNCHANGED <<thread, buf, head, drain, sent>> BY Zenon, <1>4 DEF RelayProvInit, bufVars, chanVars
  <2> QED BY Zenon, <1>1, <2>1, QuietReplay
<1>5. ASSUME NEW h \in Handler, HandOver(h) PROVE ReplayInv'
  <2>1. UNCHANGED <<thread, buf, head, drain, sent>> BY Zenon, <1>5 DEF HandOver, bufVars, chanVars
  <2> QED BY Zenon, <1>1, <2>1, QuietReplay
<1>6. ASSUME NEW h \in Handler, Schedule(h) PROVE ReplayInv' BY Zenon, <1>6, ScheduleReplay
<1>7. ASSUME NEW h \in Handler, NEW k \in Class, DrainStep(h, k) PROVE ReplayInv'
  <2>1. CASE DrainShared(h, k)
    <3>1. UNCHANGED <<thread, buf, head, drain, sent>> BY Zenon, <2>1 DEF DrainShared, bufVars, chanVars
    <3> QED BY Zenon, <1>1, <3>1, QuietReplay
  <2> QED BY Zenon, <1>7, <2>1, DrainEntryReplay, DrainNextReplay DEF DrainStep
<1>8. ASSUME NEW c \in Name, Consume(c) PROVE ReplayInv'
  <2>1. UNCHANGED <<thread, buf, head, drain, sent>> BY Zenon, <1>8 DEF Consume, bufVars
  <2> QED BY Zenon, <1>1, <2>1, QuietReplay
<1>9. CASE UNCHANGED vars
  <2>1. UNCHANGED <<thread, buf, head, drain, sent>> BY Zenon, <1>9 DEF vars, bufVars, chanVars
  <2> QED BY Zenon, <1>1, <2>1, QuietReplay
<1> QED BY Zenon, <1>2, <1>3, <1>4, <1>5, <1>6, <1>7, <1>8, <1>9 DEF Next

\* It holds at the start.
LEMMA InitReplay ==
    ASSUME Init
    PROVE  ReplayInv
<1>0. OwnerInv /\ Types BY Zenon, InitOwner, InitTypes
<1>1. \A s \in Stream : sent[s] = <<>> BY Zenon DEF Init
<1>2. \A k \in Class : Len(Out(k)) = 0
  <2> SUFFICES ASSUME NEW k \in Class PROVE Len(Out(k)) = 0 BY Zenon
  <2>1. <<"base", k>> \in Stream BY Zenon, ClassFacts
  <2>2. Out(k) = <<>> BY Zenon, <1>1, <2>1 DEF Out
  <2> QED BY <2>2
<1>3. \A s \in Stream : Len(sent[s]) = 0 BY <1>1
<1>4. \A k \in Class : \A b \in 1..Len(buf[k]), j \in 1..MaxEntry : No(k, b, j) = <<>>
  <2> SUFFICES ASSUME NEW k \in Class, NEW b \in 1..Len(buf[k]), NEW j \in 1..MaxEntry PROVE No(k, b, j) = <<>>
      BY Zenon
  <2>1. buf[k] = <<NewBuffer>> BY Zenon DEF Init
  <2>2. buf[k][b] = NewBuffer BY <2>1
  <2>3. NewBuffer.slot[j] = Empty /\ Empty.no = <<>> BY Zenon, NewBufferType DEF Empty
  <2> QED BY Zenon, <2>2, <2>3 DEF No
<1>5. \A w \in Writer : thread[w].pc = "idle" BY Zenon DEF Init
<1>6. \A h \in Handler, k \in Class : drain[h][k].st = "none" BY Zenon DEF Init, NoTask
<1>7. Numbered BY <1>3, <1>4, <1>5 DEF Numbered, NumberOK
<1>8. Distinct /\ Filled BY Zenon, <1>4 DEF Distinct, Filled
<1>9. Untouched BY <1>2, <1>3 DEF Untouched
<1>10. Replayed(drain) BY Zenon, <1>6 DEF Replayed, Handler
<1>11. InOrder /\ Complete BY Zenon, <1>4 DEF InOrder, Complete
<1> QED BY Zenon, <1>0, <1>7, <1>8, <1>9, <1>10, <1>11 DEF ReplayInv

\* The two promises, entry by entry and as the runs state them.
LEMMA ReplayPromises ==
    ASSUME ReplayInv
    PROVE  BootOrder /\ BootIdentified
<1>0. Types /\ InOrder /\ Complete BY Zenon DEF ReplayInv, OwnerInv
<1>1. \A k \in Class : /\ DOMAIN buf[k] = 1..Len(buf[k]) /\ DOMAIN Out(k) = 1..Len(Out(k))
                       /\ \A b \in 1..Len(buf[k]) : DOMAIN buf[k][b].slot = 1..MaxEntry
  <2> SUFFICES ASSUME NEW k \in Class
               PROVE  /\ DOMAIN buf[k] = 1..Len(buf[k]) /\ DOMAIN Out(k) = 1..Len(Out(k))
                      /\ \A b \in 1..Len(buf[k]) : DOMAIN buf[k][b].slot = 1..MaxEntry
      BY Zenon
  <2>1. <<"base", k>> \in Stream BY Zenon, ClassFacts
  <2>2. buf[k] \in Seq(Buffer) /\ Out(k) \in Seq(Rec) BY Zenon, <1>0, <2>1 DEF Types, Out
  <2>3. \A b \in 1..Len(buf[k]) : buf[k][b] \in Buffer BY <2>2
  <2>4. \A b \in 1..Len(buf[k]) : DOMAIN buf[k][b].slot = 1..MaxEntry BY Zenon, <2>3 DEF Buffer
  <2> QED BY <2>2, <2>4
<1>2. BootOrder
  <2>1. ASSUME NEW k \in Class, NEW b \in DOMAIN buf[k], NEW c \in DOMAIN buf[k],
               NEW i \in 1..MaxEntry, NEW j \in 1..MaxEntry,
               No(k, b, i) # <<>>, No(k, c, j) # <<>>, Before(b, i, c, j),
               NEW v \in DOMAIN Out(k), Out(k)[v].no = No(k, c, j)
        PROVE  \E u \in 1..v : Out(k)[u].no = No(k, b, i)
    <3>1. b \in 1..Len(buf[k]) /\ c \in 1..Len(buf[k]) /\ v \in 1..Len(Out(k)) BY Zenon, <1>1, <2>1
    <3> QED BY Zenon, <1>0, <2>1, <3>1 DEF InOrder
  <2>2. ASSUME NEW k \in Class, NEW b \in DOMAIN buf[k], NEW c \in DOMAIN buf[k],
               NEW i \in 1..MaxEntry, NEW j \in 1..MaxEntry
        PROVE  No(k, b, i) # <<>> /\ No(k, c, j) # <<>> /\ (b < c \/ (b = c /\ i < j)) =>
                  \A v \in DOMAIN Out(k) : Out(k)[v].no = No(k, c, j) => \E u \in 1..v : Out(k)[u].no = No(k, b, i)
    BY Zenon, <2>1 DEF Before
  <2> QED BY Zenon, <2>2 DEF BootOrder, Out, No
<1>3. BootIdentified
  <2> SUFFICES ASSUME NEW k \in Class, NEW r \in Range1(Out(k)), r.no \in BootNumbers(k)
               PROVE  r.boot # 0 /\ r.end # 0
      BY Zenon DEF BootIdentified, Out
  <2>1. PICK v \in DOMAIN Out(k) : r = Out(k)[v] BY Zenon DEF Range1
  <2>2. r.no # <<>> /\ \E b \in DOMAIN buf[k] : r.no \in Numbers(buf[k][b].slot)
    <3> DEFINE x == r.no
               U == UNION {Numbers(buf[k][b].slot) : b \in DOMAIN buf[k]}
    <3>0. x \in BootNumbers(k) BY Zenon
    <3>1. BootNumbers(k) = U \ {<<>>} BY Zenon DEF BootNumbers
    <3> HIDE DEF x, U
    <3>2. x # <<>> /\ x \in U BY ONLY Zenon, <3>0, <3>1
    <3>3. PICK S \in {Numbers(buf[k][b].slot) : b \in DOMAIN buf[k]} : x \in S BY Zenon, <3>2 DEF U
    <3> QED BY Zenon, <3>2, <3>3 DEF x
  <2>3. PICK b \in DOMAIN buf[k] : r.no \in Numbers(buf[k][b].slot) BY Zenon, <2>2
  <2>4. PICK j \in DOMAIN buf[k][b].slot : r.no = buf[k][b].slot[j].no BY Zenon, <2>3 DEF Numbers
  <2>5. v \in 1..Len(Out(k)) /\ b \in 1..Len(buf[k]) /\ j \in 1..MaxEntry BY Zenon, <1>1, <2>1, <2>3, <2>4
  <2>6. Out(k)[v].no = No(k, b, j) /\ No(k, b, j) # <<>> BY Zenon, <2>1, <2>2, <2>4 DEF No
  <2> QED BY Zenon, <1>0, <2>1, <2>5, <2>6 DEF Complete
<1> QED BY Zenon, <1>2, <1>3

\* The invariant of the replay holds as long as no two processes write
\* identifiers at the same time.
THEOREM RelayReplayInv ==
    ASSUME SleepCovers
    PROVE  Spec => [](Overlap \/ ReplayInv)
<1>1. Init => ReplayInv BY Zenon, InitReplay
<1>2. ReplayInv /\ [Next]_vars => Overlap' \/ ReplayInv' BY Zenon, NextReplay
<1>3. ConfOK /\ Overlap /\ [Next]_vars => Overlap' BY Zenon, OverlapStays
<1> QED BY <1>1, <1>2, <1>3, RelayConf, PTL DEF Spec

\* The records of the boot buffers reach the base channel in the order of the
\* boot, whatever the retries of the drains and the live records in between,
\* unless two processes wrote identifiers at the same time.
THEOREM RelayBootOrder ==
    ASSUME SleepCovers
    PROVE  Spec => [](Overlap \/ BootOrder)
<1>1. ReplayInv => BootOrder BY Zenon, ReplayPromises
<1> QED BY <1>1, RelayReplayInv, PTL

\* No record of the boot buffers reaches a channel with an incomplete identifier
\* (tighten_identifier in the drains), unless two processes wrote identifiers at
\* the same time.
THEOREM RelayBootIdentified ==
    ASSUME SleepCovers
    PROVE  Spec => [](Overlap \/ BootIdentified)
<1>1. ReplayInv => BootIdentified BY Zenon, ReplayPromises
<1> QED BY <1>1, RelayReplayInv, PTL
-----------------------------------------------------------------------------
(* What the consumers are promised, when one thread writes *)

\* A step that leaves the numbers, the counts and the writers that count alone.
LEMMA SamePacked ==
    ASSUME Types, Packed, SameChains,
           \A k \in Class : \A b \in 1..Len(buf[k]) : buf'[k][b].nb = buf[k][b].nb,
           \A k \in Class, b \in Nat : Counting(k, b)' => Counting(k, b)
    PROVE  Packed'
<1> SUFFICES ASSUME NEW k \in Class, NEW b \in 1..Len(buf'[k])
             PROVE  /\ buf'[k][b].nb <= MaxEntry
                    /\ \A j \in 1..MaxEntry : j <= buf'[k][b].nb => No(k, b, j)' # <<>>
                    /\ Counting(k, b)' => buf'[k][b].nb < MaxEntry /\ buf'[k][b].slot[buf'[k][b].nb + 1].no # <<>>
    BY Zenon DEF Packed, No
<1>1. b \in 1..Len(buf[k]) /\ b \in Nat /\ buf[k] \in Seq(Buffer) BY DEF SameChains, Types
<1>2. buf'[k][b].nb = buf[k][b].nb BY Zenon, <1>1
<1>3. buf[k][b].nb \in Nat
  <2>1. buf[k][b] \in Buffer BY <1>1
  <2> QED BY Zenon, <2>1 DEF Buffer
<1>4. \A j \in 1..MaxEntry : No(k, b, j)' = No(k, b, j) BY Zenon, <1>1 DEF SameChains, No
<1>5. /\ buf[k][b].nb <= MaxEntry /\ \A j \in 1..MaxEntry : j <= buf[k][b].nb => No(k, b, j) # <<>>
      /\ Counting(k, b) => buf[k][b].nb < MaxEntry /\ No(k, b, buf[k][b].nb + 1) # <<>>
    BY Zenon, <1>1 DEF Packed
<1>6. buf[k][b].nb < MaxEntry => buf[k][b].nb + 1 \in 1..MaxEntry BY <1>3, RelayAssumption
<1>7. Counting(k, b)' => buf'[k][b].nb < MaxEntry /\ buf'[k][b].slot[buf'[k][b].nb + 1].no # <<>>
  <2> SUFFICES ASSUME Counting(k, b)'
               PROVE  buf'[k][b].nb < MaxEntry /\ buf'[k][b].slot[buf'[k][b].nb + 1].no # <<>>
      BY Zenon
  <2>1. buf[k][b].nb < MaxEntry /\ No(k, b, buf[k][b].nb + 1) # <<>> BY Zenon, <1>1, <1>5
  <2>2. buf'[k][b].slot[buf[k][b].nb + 1].no = No(k, b, buf[k][b].nb + 1) BY Zenon, <1>1, <1>6, <2>1 DEF SameChains
  <2> QED BY Zenon, <1>2, <2>1, <2>2
<1> QED BY Zenon, <1>2, <1>4, <1>5, <1>7

\* The only writer stores a record, and counts it.
LEMMA StorePacked ==
    ASSUME OneWriter, Types, Types', Numbered, Packed, NEW w \in Writer, thread[w].pc = "insert",
           NEW here \in Nat, NEW i \in Nat, Stored(w, here, i),
           NEW r, thread' = [thread EXCEPT ![w] = r], r.at = here, r.n = thread[w].n, r.msg = thread[w].msg
    PROVE  Packed'
<1>0. PICK k \in Class : k = MsgClass(w) BY Zenon, ClassFacts
<1>1. thread'[w] = r /\ \A v \in Writer : v = w BY Zenon DEF Types, OneWriter
<1>2. MsgClass(w)' = k BY <1>0, <1>1 DEF MsgClass
<1>3. \A c \in Class : \A b : Counting(c, b)' => c = k /\ b = here BY Zenon, <1>1, <1>2 DEF Counting
<1>4. MaxEntry \in Nat /\ Len(buf[k]) \in Nat /\ here = Len(buf'[k]) /\ Len(buf[k]) <= here /\ i \in 1..MaxEntry
      /\ i = buf'[k][here].nb + 1 /\ (here > Len(buf[k]) => i = 1)
    BY Zenon, <1>0, ChainFacts, ChainNextFacts, SizeFacts DEF Stored
<1>5. buf'[k][here].slot[i].no # <<>>
  <2>1. Outgoing(w).no = thread[w].msg.no /\ thread[w].msg.no # <<>> BY Zenon, RecFacts, FreshNumber
  <2> QED BY Zenon, <1>0, <2>1 DEF Stored
<1> SUFFICES ASSUME NEW c \in Class, NEW b \in 1..Len(buf'[c])
             PROVE  /\ buf'[c][b].nb <= MaxEntry
                    /\ \A j \in 1..MaxEntry : j <= buf'[c][b].nb => No(c, b, j)' # <<>>
                    /\ Counting(c, b)' => buf'[c][b].nb < MaxEntry /\ buf'[c][b].slot[buf'[c][b].nb + 1].no # <<>>
    BY Zenon DEF Packed, No
<1>6. buf'[c][b].nb \in Nat
  <2>1. buf'[c][b] \in Buffer BY Zenon, ChainNextFacts
  <2> QED BY Zenon, <2>1 DEF Buffer
<1>7. b \in 1..Len(buf[c]) => /\ buf[c][b].nb <= MaxEntry
                              /\ \A j \in 1..MaxEntry : j <= buf[c][b].nb => No(c, b, j) # <<>>
    BY Zenon DEF Packed
<1>8. CASE c # k
  <2>1. buf'[c] = buf[c] BY Zenon, <1>0, <1>8 DEF Stored
  <2> QED BY Zenon, <1>3, <1>7, <1>8, <2>1 DEF No
<1>9. CASE c = k /\ b = here
  <2>1. buf'[c][b].nb = i - 1 BY <1>4, <1>6, <1>9
  <2>2. ASSUME NEW j \in 1..MaxEntry, j <= buf'[c][b].nb PROVE No(c, b, j)' # <<>>
    <3>1. j # i /\ i # 1 BY <1>4, <2>1, <2>2
    <3>2. ~(here > Len(buf[k])) BY Zenon, <1>4, <3>1
    <3>3. here = Len(buf[k]) /\ b \in 1..Len(buf[c]) BY <1>4, <1>9, <3>2
    <3>4. buf'[k][b].slot[j] = buf[k][b].slot[j] /\ buf'[k][b].nb = buf[k][b].nb
      BY Zenon, <1>0, <1>4, <1>9, <3>1, <3>3 DEF Stored
    <3> QED BY Zenon, <1>7, <1>9, <2>2, <3>3, <3>4 DEF No
  <2>3. buf'[c][b].nb + 1 = i /\ i - 1 < MaxEntry /\ i - 1 <= MaxEntry BY <1>4, <2>1
  <2> QED BY Zenon, <1>5, <1>9, <2>1, <2>2, <2>3
<1>10. CASE c = k /\ b # here
  <2>1. b \in 1..Len(buf[k])
    <3>1. b < here BY <1>4, <1>10
    <3>2. here <= Len(buf[k]) + 1 BY Zenon, <1>0 DEF Stored
    <3> QED BY <1>4, <1>10, <3>1, <3>2
  <2>2. buf'[k][b].nb = buf[k][b].nb BY Zenon, <1>0, <2>1 DEF Stored
  <2>3. b \in 1..here /\ b <= Len(buf[k]) BY <1>4, <1>10, <2>1
  <2>4. \A j \in 1..MaxEntry : buf'[k][b].slot[j] = buf[k][b].slot[j] BY Zenon, <1>0, <1>10, <2>3 DEF Stored
  <2> QED BY Zenon, <1>3, <1>7, <1>10, <2>1, <2>2, <2>4 DEF No
<1> QED BY Zenon, <1>8, <1>9, <1>10

\* The only writer counts the entry it has stored.
LEMMA CountPacked ==
    ASSUME OneWriter, OwnerInv, Types', Packed, NEW w \in Writer, Count(w)
    PROVE  Packed'
<1>0. Types BY Zenon DEF OwnerInv
<1>1. PICK k \in Class : k = MsgClass(w) BY Zenon, ClassFacts
<1>2. PICK a \in Nat : a = thread[w].at BY Zenon, <1>0 DEF Types, Thread
<1>3. thread[w].pc = "count" /\ Written(w) /\ \A v \in Writer : v = w BY Zenon DEF Count, OneWriter
<1>4. a \in 1..Len(buf[k]) /\ Counting(k, a) BY Zenon, <1>1, <1>2, <1>3 DEF OwnerInv, Ownership, Counting
<1>5. /\ Len(buf'[k]) = Len(buf[k])
      /\ \A b \in 1..Len(buf[k]) :
            /\ buf'[k][b].slot = buf[k][b].slot
            /\ buf'[k][b].nb = IF b = a THEN buf[k][b].nb + 1 ELSE buf[k][b].nb
      /\ \A c \in Class : c # k => buf'[c] = buf[c]
    BY Zenon, <1>0, <1>1, <1>2, <1>4, CountTypes
<1>6. \A c \in Class : \A b : ~Counting(c, b)'
  <2>1. PICK r \in Thread : thread' = [thread EXCEPT ![w] = r] /\ r.pc \in {"idle", "prepare"}
    BY Zenon, <1>0, <1>3, WrittenTypes
  <2>2. thread'[w] = r BY Zenon, <1>0, <2>1 DEF Types
  <2> QED BY Zenon, <1>3, <2>1, <2>2 DEF Counting
<1> SUFFICES ASSUME NEW c \in Class, NEW b \in 1..Len(buf'[c])
             PROVE  /\ buf'[c][b].nb <= MaxEntry
                    /\ \A j \in 1..MaxEntry : j <= buf'[c][b].nb => No(c, b, j)' # <<>>
    BY Zenon, <1>6 DEF Packed, No
<1>7. b \in 1..Len(buf[c]) BY Zenon, <1>5
<1>8. buf[c][b].nb \in Nat /\ MaxEntry \in Nat
  <2>1. buf[c][b] \in Buffer BY Zenon, <1>0, <1>7, ChainFacts
  <2> QED BY Zenon, <2>1, RelayAssumption DEF Buffer
<1>9. /\ buf[c][b].nb <= MaxEntry
      /\ \A j \in 1..MaxEntry : j <= buf[c][b].nb => No(c, b, j) # <<>>
      /\ Counting(c, b) => buf[c][b].nb < MaxEntry /\ No(c, b, buf[c][b].nb + 1) # <<>>
    BY Zenon, <1>7 DEF Packed
<1>10. buf'[c][b].slot = buf[c][b].slot BY Zenon, <1>5, <1>7
<1>11. CASE c = k /\ b = a
  <2>1. buf[c][b].nb < MaxEntry /\ No(c, b, buf[c][b].nb + 1) # <<>> BY Zenon, <1>4, <1>9, <1>11
  <2>2. buf'[c][b].nb = buf[c][b].nb + 1 BY Zenon, <1>5, <1>7, <1>11
  <2>3. ASSUME NEW j \in 1..MaxEntry, j <= buf[c][b].nb + 1 PROVE No(c, b, j) # <<>>
    <3>1. j <= buf[c][b].nb \/ j = buf[c][b].nb + 1 BY <1>8, <2>3
    <3> QED BY Zenon, <1>9, <2>1, <3>1
  <2>4. buf[c][b].nb + 1 <= MaxEntry BY ONLY <1>8, <2>1
  <2>5. \A j \in 1..MaxEntry : No(c, b, j)' = No(c, b, j) BY Zenon, <1>10 DEF No
  <2> QED BY Zenon, <2>2, <2>3, <2>4, <2>5
<1>12. CASE ~(c = k /\ b = a)
  <2>1. buf'[c][b].nb = buf[c][b].nb BY Zenon, <1>5, <1>7, <1>12
  <2> QED BY Zenon, <1>9, <1>10, <2>1 DEF No
<1> QED BY Zenon, <1>11, <1>12

\* A step of a writer that leaves the buffers alone.
LEMMA AsidePacked ==
    ASSUME Types, Packed, NEW w \in Writer, NEW r, thread' = [thread EXCEPT ![w] = r], r.pc # "count", UNCHANGED buf
    PROVE  Packed'
<1>1. thread'[w] = r /\ \A v \in Writer : v # w => thread'[v] = thread[v] BY Zenon DEF Types
<1>2. \A k \in Class, b \in Nat : Counting(k, b)' => Counting(k, b)
  <2> SUFFICES ASSUME NEW k \in Class, NEW b \in Nat, Counting(k, b)' PROVE Counting(k, b)
      BY Zenon
  <2>1. PICK v \in Writer : thread'[v].pc = "count" /\ MsgClass(v)' = k /\ thread'[v].at = b BY Zenon DEF Counting
  <2>2. thread'[v] = thread[v] BY Zenon, <1>1, <2>1
  <2>3. MsgClass(v) = k BY Zenon, <2>1, <2>2 DEF MsgClass
  <2> QED BY Zenon, <2>1, <2>2, <2>3 DEF Counting
<1>3. SameChains BY Zenon DEF SameChains, No
<1> QED BY Zenon, <1>2, <1>3, SamePacked

\* Every step keeps the entries packed.
LEMMA NextPacked ==
    ASSUME ReplayInv, Packed, SleepCovers, ~Overlap', OneWriter, [Next]_vars
    PROVE  Packed'
<1>0. OwnerInv /\ Types /\ Numbered BY Zenon DEF ReplayInv, OwnerInv
<1>1. OwnerInv' /\ Types' BY Zenon, <1>0, NextOwner DEF OwnerInv
<1>2. ASSUME UNCHANGED <<thread, buf>> PROVE Packed'
  <2>1. \A k \in Class, b \in Nat : Counting(k, b)' => Counting(k, b) BY Zenon, <1>2 DEF Counting, MsgClass
  <2>2. SameChains BY Zenon, <1>2 DEF SameChains, No
  <2> QED BY Zenon, <1>0, <1>2, <2>1, <2>2, SamePacked
<1>3. ASSUME NEW w \in Writer, WriterNext(w) PROVE Packed'
  <2>1. ASSUME NEW n \in Node, Begin(w, n) PROVE Packed'
    <3>1. \E r \in Thread : thread' = [thread EXCEPT ![w] = r] /\ r.pc \in {"check", "prepare"}
        BY Zenon, <1>0, <2>1, BeginTypes
    <3>2. UNCHANGED buf BY Zenon, <2>1 DEF Begin, bufVars
    <3> QED BY Zenon, <1>0, <3>1, <3>2, AsidePacked
  <2>2. CASE PrepareRelation(w)
    <3>1. \E r \in Thread : thread' = [thread EXCEPT ![w] = r] /\ r.pc = "check" BY Zenon, <1>0, <2>2, PrepareTypes
    <3>2. UNCHANGED buf BY Zenon, <2>2 DEF PrepareRelation, bufVars
    <3> QED BY Zenon, <1>0, <3>1, <3>2, AsidePacked
  <2>3. CASE WriteLive(w)
    <3>1. thread[w].pc = "check" /\ Written(w) /\ UNCHANGED buf BY Zenon, <2>3 DEF WriteLive, bufVars
    <3>2. \E r \in Thread : thread' = [thread EXCEPT ![w] = r] /\ r.pc # "count"
        BY Zenon, <1>0, <3>1, WrittenSpent
    <3> QED BY Zenon, <1>0, <3>1, <3>2, AsidePacked
  <2>4. CASE WriteBoot(w)
    <3>1. \E r \in Thread : thread' = [thread EXCEPT ![w] = r] /\ r.pc = "insert" BY Zenon, <1>0, <2>4, BootTypes
    <3>2. UNCHANGED buf BY Zenon, <2>4 DEF WriteBoot, bufVars
    <3> QED BY Zenon, <1>0, <3>1, <3>2, AsidePacked
  <2>5. CASE Insert(w)
    <3>1. thread[w].pc = "insert" BY Zenon, <2>5 DEF Insert
    <3>2. \/ UNCHANGED <<buf, thread>>
          \/ \E here \in Nat, i \in Nat, r \in Thread :
                /\ Stored(w, here, i) /\ thread' = [thread EXCEPT ![w] = r] /\ r.at = here
                /\ r.n = thread[w].n /\ r.msg = thread[w].msg
      BY Zenon, <1>0, <2>5, InsertTypes
    <3> QED BY Zenon, <1>0, <1>1, <1>2, <3>1, <3>2, StorePacked
  <2>6. CASE Count(w) BY Zenon, <1>0, <1>1, <2>6, CountPacked
  <2> QED BY Zenon, <1>3, <2>1, <2>2, <2>3, <2>4, <2>5, <2>6 DEF WriterNext, Node
<1>4. ASSUME NEW h \in Config, ConfigNext(h) PROVE Packed'
    BY Zenon, <1>2, <1>4 DEF ConfigNext, SetId, CreateChannel, WriteEpoch, bufVars
<1>5. CASE RelayProvInit BY Zenon, <1>2, <1>5 DEF RelayProvInit, bufVars
<1>6. ASSUME NEW h \in Handler, HandOver(h) \/ Schedule(h) PROVE Packed'
    BY Zenon, <1>2, <1>6 DEF HandOver, Schedule, bufVars
<1>7. ASSUME NEW h \in Handler, NEW k \in Class, DrainEntry(h, k) PROVE Packed'
  <2>1. Awake(h, k) BY Zenon, <1>7 DEF DrainEntry
  <2>2. drain[h][k].at \in 1..Len(buf[k]) BY Zenon, <1>0, <2>1, AwakeFacts
  <2>3. /\ UNCHANGED thread
        /\ Len(buf'[k]) = Len(buf[k]) /\ \A c \in Class : c # k => buf'[c] = buf[c]
        /\ \A b \in 1..Len(buf[k]) :
              /\ buf'[k][b].nb = buf[k][b].nb
              /\ \A j \in 1..MaxEntry : buf'[k][b].slot[j].no = buf[k][b].slot[j].no
    BY Zenon, <1>0, <1>7, <2>2, EntryTypes
  <2>4. \A c \in Class, b \in Nat : Counting(c, b)' => Counting(c, b) BY Zenon, <2>3 DEF Counting, MsgClass
  <2>5. \A c \in Class : /\ Len(buf'[c]) = Len(buf[c])
                         /\ \A b \in 1..Len(buf[c]) : buf'[c][b].nb = buf[c][b].nb
                         /\ \A b \in 1..Len(buf[c]), j \in 1..MaxEntry : buf'[c][b].slot[j].no = No(c, b, j)
    <3> TAKE c \in Class
    <3>1. CASE c = k BY Zenon, <2>3, <3>1 DEF No
    <3>2. CASE c # k BY Zenon, <2>3, <3>2 DEF No
    <3> QED BY Zenon, <3>1, <3>2
  <2>6. SameChains BY Zenon, <2>5 DEF SameChains
  <2> QED BY Zenon, <1>0, <2>4, <2>5, <2>6, SamePacked
<1>8. ASSUME NEW h \in Handler, NEW k \in Class, DrainNext(h, k) \/ DrainShared(h, k) PROVE Packed'
  <2>1. UNCHANGED <<thread, buf>> BY Zenon, <1>8 DEF DrainNext, DrainShared, bufVars
  <2> QED BY Zenon, <1>2, <2>1
<1>9. ASSUME NEW c \in Name, Consume(c) PROVE Packed' BY Zenon, <1>2, <1>9 DEF Consume, bufVars
<1>10. CASE UNCHANGED vars BY Zenon, <1>2, <1>10 DEF vars, bufVars
<1> QED BY Zenon, <1>3, <1>4, <1>5, <1>6, <1>7, <1>8, <1>9, <1>10 DEF Next, DrainStep

\* The numbers in a chain C of buffers.
ChainNos(C) == (UNION {Numbers(C[b].slot) : b \in DOMAIN C}) \ {<<>>}

\* They are the numbers of the entries that are not empty.
LEMMA ChainNumbers ==
    ASSUME NEW C \in Seq(Buffer), NEW x
    PROVE  x \in ChainNos(C) <=> x # <<>> /\ \E b \in 1..Len(C), j \in 1..MaxEntry : C[b].slot[j].no = x
<1> DEFINE U == UNION {Numbers(C[b].slot) : b \in DOMAIN C}
<1>1. DOMAIN C = 1..Len(C) OBVIOUS
<1>2. \A b \in 1..Len(C) : DOMAIN C[b].slot = 1..MaxEntry
  <2> TAKE b \in 1..Len(C)
  <2>1. C[b] \in Buffer OBVIOUS
  <2> QED BY Zenon, <2>1 DEF Buffer
<1>3. x \in U <=> \E b \in DOMAIN C : x \in Numbers(C[b].slot) BY Zenon
<1>4. \A b \in 1..Len(C) : x \in Numbers(C[b].slot) <=> \E j \in 1..MaxEntry : C[b].slot[j].no = x
    BY Zenon, <1>2 DEF Numbers
<1>5. ChainNos(C) = U \ {<<>>} BY Zenon DEF ChainNos
<1> HIDE DEF U
<1>6. x \in ChainNos(C) <=> x # <<>> /\ x \in U BY ONLY Zenon, <1>5
<1> QED BY Zenon, <1>1, <1>3, <1>4, <1>6

\* What the refinement mapping makes of the state.
NoSeq(q) == [i \in DOMAIN q |-> q[i].no]
Kept == [k \in Class |-> BootNumbers(k)]
Shown == [s \in Stream |-> NoSeq(sent[s])]

\* What is kept is what the entries of the boot buffers hold.
LEMMA KeptFacts ==
    ASSUME Types
    PROVE  \A k \in Class : \A x :
              x \in Kept[k] <=> x # <<>> /\ \E b \in 1..Len(buf[k]), j \in 1..MaxEntry : No(k, b, j) = x
<1> TAKE k \in Class
<1> TAKE x
<1>1. Kept[k] = ChainNos(buf[k]) BY Zenon DEF Kept, BootNumbers, ChainNos
<1>2. buf[k] \in Seq(Buffer) BY Zenon DEF Types
<1> QED BY Zenon, <1>1, <1>2, ChainNumbers DEF No

\* The same after a step.
LEMMA KeptNextFacts ==
    ASSUME Types'
    PROVE  \A k \in Class : \A x :
              x \in Kept'[k] <=> x # <<>> /\ \E b \in 1..Len(buf'[k]), j \in 1..MaxEntry : buf'[k][b].slot[j].no = x
<1> TAKE k \in Class
<1> TAKE x
<1>1. Kept'[k] = ChainNos(buf'[k]) BY Zenon DEF Kept, BootNumbers, ChainNos
<1>2. buf'[k] \in Seq(Buffer) BY Zenon DEF Types
<1> QED BY Zenon, <1>1, <1>2, ChainNumbers

\* Numbers that stay in the chains are still the ones kept.
LEMMA KeptSame ==
    ASSUME Types, Types', SameChains
    PROVE  Kept' = Kept
<1>1. ASSUME NEW k \in Class PROVE Kept'[k] = Kept[k]
  <2>1. \A x : x \in Kept'[k] <=> x \in Kept[k]
    <3> TAKE x
    <3>1. Len(buf'[k]) = Len(buf[k]) /\ \A b \in 1..Len(buf[k]), j \in 1..MaxEntry : buf'[k][b].slot[j].no = No(k, b, j)
      BY Zenon DEF SameChains
    <3>2. x \in Kept[k] <=> x # <<>> /\ \E b \in 1..Len(buf[k]), j \in 1..MaxEntry : No(k, b, j) = x
      BY Zenon, KeptFacts
    <3>3. x \in Kept'[k] <=> x # <<>> /\ \E b \in 1..Len(buf'[k]), j \in 1..MaxEntry : buf'[k][b].slot[j].no = x
      BY Zenon, KeptNextFacts
    <3> QED BY Zenon, <3>1, <3>2, <3>3
  <2>2. Kept'[k] = Kept'[k] \cap Kept[k] /\ Kept[k] = Kept'[k] \cap Kept[k] BY Zenon, <2>1
  <2> QED BY Zenon, <2>2
<1>2. Kept = [k \in Class |-> Kept[k]] /\ Kept' = [k \in Class |-> Kept'[k]] BY Zenon DEF Kept
<1> QED BY Zenon, <1>1, <1>2

\* The steps of RelayStream, as steps of what is kept and shown.
NewNumber(x) == (\A k \in Class : x \notin Kept[k]) /\ \A s \in Stream : \A i \in DOMAIN Shown[s] : Shown[s][i] # x
Showing(S, x) == [s \in Stream |-> IF s \in S THEN Append(Shown[s], x) ELSE Shown[s]]

\* Keeping, publishing and replaying a record are the steps of the promise.
LEMMA PromiseSteps ==
    ASSUME NEW k \in Class,
           \/ UNCHANGED Shown /\ \E x \in Kept'[k] \ Kept[k] : NewNumber(x) /\ Kept' = [Kept EXCEPT ![k] = @ \cup {x}]
           \/ /\ UNCHANGED Kept
              /\ LET S == {s \in Name \X {k} : Shown'[s] # Shown[s]}
                 IN  \E s \in S : \E x \in {Shown'[s][Len(Shown'[s])]} : NewNumber(x) /\ Shown' = Showing(S, x)
           \/ UNCHANGED Kept /\ \E x \in Kept[k] : Shown' = Showing({<<"base", k>>}, x)
    PROVE  Promise!Next
<1>1. ASSUME UNCHANGED Shown, NEW x \in Kept'[k] \ Kept[k], NewNumber(x), Kept' = [Kept EXCEPT ![k] = @ \cup {x}]
      PROVE  Promise!Keep(k)
    BY Zenon, <1>1 DEF Promise!Keep, Promise!Fresh, Promise!Streams, Stream, Kept, Shown, NoSeq, NewNumber
<1>2. ASSUME UNCHANGED Kept,
             LET S == {s \in Name \X {k} : Shown'[s] # Shown[s]}
             IN  \E s \in S : \E x \in {Shown'[s][Len(Shown'[s])]} : NewNumber(x) /\ Shown' = Showing(S, x)
      PROVE  Promise!Publish(k)
    BY Zenon, <1>2 DEF Promise!Publish, Promise!Fresh, Promise!AppendTo, Promise!Streams, Stream, Kept, Shown,
                       NoSeq, NewNumber, Showing
<1>3. ASSUME UNCHANGED Kept, NEW x \in Kept[k], Shown' = Showing({<<"base", k>>}, x)
      PROVE  Promise!Replay(k)
    BY Zenon, <1>3 DEF Promise!Replay, Promise!AppendTo, Promise!Streams, Stream, Kept, Shown, NoSeq, Showing
<1> QED BY Zenon, <1>1, <1>2, <1>3 DEF Promise!Next

\* A record written to a stream is its number shown.
LEMMA NumbersAppend ==
    ASSUME NEW q \in Seq(Rec), NEW r \in Rec
    PROVE  NoSeq(Append(q, r)) = Append(NoSeq(q), r.no) /\ NoSeq(q) \in Seq(Number) /\ Len(NoSeq(q)) = Len(q)
<1>1. r.no \in Number /\ \A i \in 1..Len(q) : q[i].no \in Number
  <2>1. \A e \in Rec : e.no \in Number BY Zenon DEF Rec
  <2> QED BY <2>1
<1>2. DOMAIN q = 1..Len(q) /\ Len(q) \in Nat OBVIOUS
<1>3. NoSeq(q) \in Seq(Number) /\ Len(NoSeq(q)) = Len(q) BY <1>1, <1>2 DEF NoSeq
<1>4. /\ DOMAIN Append(q, r) = 1..(Len(q) + 1) /\ Append(q, r)[Len(q) + 1] = r
      /\ \A i \in 1..Len(q) : Append(q, r)[i] = q[i]
    OBVIOUS
<1>5. /\ Append(NoSeq(q), r.no) = [i \in 1..(Len(q) + 1) |-> Append(NoSeq(q), r.no)[i]]
      /\ Append(NoSeq(q), r.no)[Len(q) + 1] = r.no
      /\ \A i \in 1..Len(q) : Append(NoSeq(q), r.no)[i] = NoSeq(q)[i]
    BY <1>1, <1>2, <1>3
<1>6. ASSUME NEW i \in 1..(Len(q) + 1) PROVE Append(q, r)[i].no = Append(NoSeq(q), r.no)[i]
  <2>1. CASE i = Len(q) + 1 BY Zenon, <1>4, <1>5, <2>1
  <2>2. CASE i # Len(q) + 1
    <3>1. i \in 1..Len(q) BY <1>2, <2>2
    <3>2. NoSeq(q)[i] = q[i].no BY Zenon, <1>2, <3>1 DEF NoSeq
    <3> QED BY Zenon, <1>4, <1>5, <3>1, <3>2
  <2> QED BY Zenon, <2>1, <2>2
<1>7. NoSeq(Append(q, r)) = [i \in 1..(Len(q) + 1) |-> Append(q, r)[i].no] BY Zenon, <1>4 DEF NoSeq
<1>8. NoSeq(Append(q, r)) = [i \in 1..(Len(q) + 1) |-> Append(NoSeq(q), r.no)[i]] BY Zenon, <1>6, <1>7
<1> QED BY Zenon, <1>3, <1>5, <1>8

\* A number the chains and the streams do not have is new.
LEMMA NewFacts ==
    ASSUME Types, NEW x,
           \A k \in Class : \A b \in 1..Len(buf[k]), j \in 1..MaxEntry : No(k, b, j) # x,
           \A s \in Stream : \A u \in 1..Len(sent[s]) : sent[s][u].no # x
    PROVE  NewNumber(x)
<1>1. ASSUME NEW k \in Class PROVE x \notin Kept[k]
  <2>1. x \in Kept[k] => \E b \in 1..Len(buf[k]), j \in 1..MaxEntry : No(k, b, j) = x BY Zenon, KeptFacts
  <2> QED BY Zenon, <2>1
<1>2. ASSUME NEW s \in Stream, NEW i \in DOMAIN Shown[s] PROVE Shown[s][i] # x
  <2>1. sent[s] \in Seq(Rec) BY Zenon DEF Types
  <2>2. Shown[s] = [u \in 1..Len(sent[s]) |-> sent[s][u].no] BY <2>1 DEF Shown, NoSeq
  <2> QED BY Zenon, <2>2
<1> QED BY Zenon, <1>1, <1>2 DEF NewNumber

\* A record with a new number goes to streams of one class, where there is room.
LEMMA PublishStep ==
    ASSUME Types, NEW k \in Class, NEW S, S \cap Stream \subseteq Name \X {k}, NEW r \in Rec, RelayWrite(S, r),
           NewNumber(r.no), UNCHANGED Kept
    PROVE  Promise!Next \/ UNCHANGED <<Kept, Shown>>
<1> DEFINE R == {s \in Stream : s \in S /\ ~Full(s)}
           T == {s \in Name \X {k} : Shown'[s] # Shown[s]}
<1>1. ASSUME NEW s \in Stream
      PROVE  /\ Shown[s] \in Seq(Number)
             /\ s \in R => Shown'[s] = Append(Shown[s], r.no) /\ Shown'[s] # Shown[s]
                           /\ Shown'[s][Len(Shown'[s])] = r.no
             /\ s \notin R => Shown'[s] = Shown[s]
  <2>1. sent[s] \in Seq(Rec) /\ r.no \in Number BY Zenon DEF Types, Rec
  <2>2. Shown[s] = NoSeq(sent[s]) /\ Shown'[s] = NoSeq(sent'[s]) BY Zenon DEF Shown
  <2>3. Shown[s] \in Seq(Number) BY Zenon, <2>1, <2>2, NumbersAppend
  <2>4. ASSUME s \in R PROVE Shown'[s] = Append(Shown[s], r.no)
    <3>1. sent'[s] = Append(sent[s], r) BY Zenon, <2>4 DEF RelayWrite
    <3> QED BY Zenon, <2>1, <2>2, <3>1, NumbersAppend
  <2>5. ASSUME s \notin R PROVE Shown'[s] = Shown[s]
    <3>1. sent'[s] = sent[s] BY Zenon, <2>5 DEF RelayWrite
    <3> QED BY Zenon, <2>2, <3>1
  <2>6. ASSUME NEW q \in Seq(Number) PROVE Append(q, r.no) # q /\ Append(q, r.no)[Len(Append(q, r.no))] = r.no
    <3>1. Len(Append(q, r.no)) = Len(q) + 1 /\ Len(q) \in Nat BY <2>1
    <3> QED BY <2>1, <3>1
  <2> HIDE DEF R
  <2> QED BY Zenon, <2>3, <2>4, <2>5, <2>6
<1>2. R \subseteq Name \X {k} /\ Name \X {k} \subseteq Stream BY Zenon DEF Stream
<1> HIDE DEF R
<1>3. R = T BY Zenon, <1>1, <1>2
<1>4. Shown' = Showing(R, r.no)
  <2>1. Shown' = [s \in Stream |-> Shown'[s]] BY Zenon DEF Shown
  <2>2. \A s \in Stream : Shown'[s] = IF s \in R THEN Append(Shown[s], r.no) ELSE Shown[s] BY Zenon, <1>1
  <2> QED BY Zenon, <2>1, <2>2 DEF Showing
<1>5. CASE R = {}
  <2>1. Shown = [s \in Stream |-> Shown[s]] /\ Shown' = [s \in Stream |-> Shown'[s]] BY Zenon DEF Shown
  <2>2. \A s \in Stream : Shown'[s] = Shown[s] BY Zenon, <1>1, <1>5
  <2> QED BY Zenon, <2>1, <2>2
<1>6. CASE R # {}
  <2>1. PICK s \in R : TRUE BY Zenon, <1>6
  <2>2. s \in T /\ r.no \in {Shown'[s][Len(Shown'[s])]} BY Zenon, <1>1, <1>2, <1>3, <2>1
  <2>3. Shown' = Showing(T, r.no) BY Zenon, <1>3, <1>4
  <2> QED BY Zenon, <2>2, <2>3, PromiseSteps
<1> QED BY Zenon, <1>5, <1>6

\* Nothing written and nothing stored is a step the consumers do not see.
LEMMA QuietStep ==
    ASSUME Types, Types', SameChains, UNCHANGED sent
    PROVE  UNCHANGED <<Kept, Shown>>
<1>1. Kept' = Kept BY Zenon, KeptSame
<1>2. Shown' = Shown BY Zenon DEF Shown
<1> QED BY Zenon, <1>1, <1>2

\* The only writer stores its record in an entry that was empty.
LEMMA KeepStep ==
    ASSUME OneWriter, Types, Types', Numbered, Filled, NEW w \in Writer, thread[w].pc = "insert",
           NEW here \in Nat, NEW i \in Nat, Stored(w, here, i), UNCHANGED sent
    PROVE  Promise!Next
<1>0. PICK k \in Class : k = MsgClass(w) BY Zenon, ClassFacts
<1>1. PICK x : x = thread[w].msg.no BY Zenon
<1>2. /\ x # <<>>
      /\ \A c \in Class : \A b \in 1..Len(buf[c]), j \in 1..MaxEntry : No(c, b, j) # x
      /\ \A s \in Stream : \A u \in 1..Len(sent[s]) : sent[s][u].no # x
    BY Zenon, <1>1, FreshNumber
<1>3. NewNumber(x) BY Zenon, <1>2, NewFacts
<1>4. /\ MaxEntry \in Nat /\ Len(buf[k]) \in Nat /\ here = Len(buf'[k]) /\ Len(buf[k]) <= here
      /\ here \in Nat /\ Len(buf[k]) >= 1 /\ i \in 1..MaxEntry /\ i = buf'[k][here].nb + 1
    BY Zenon, <1>0, ChainFacts, ChainNextFacts, SizeFacts DEF Stored
<1>5. buf'[k][here].slot[i].no = x
  <2>1. Outgoing(w).no = x BY Zenon, <1>1, RecFacts
  <2> QED BY Zenon, <1>0, <2>1 DEF Stored
<1>6. ASSUME here <= Len(buf[k]) PROVE No(k, here, i) = <<>>
  <2>1. here \in 1..Len(buf[k]) BY <1>4, <1>6
  <2>2. buf'[k][here].nb = buf[k][here].nb BY Zenon, <1>0, <2>1 DEF Stored
  <2>3. buf[k][here].nb \in Nat
    <3>1. buf[k][here] \in Buffer BY Zenon, <2>1, ChainFacts
    <3> QED BY Zenon, <3>1 DEF Buffer
  <2>4. ~Counting(k, here) BY Zenon DEF Counting, OneWriter
  <2>5. ~(i <= buf[k][here].nb)
    <3>1. i = buf[k][here].nb + 1 BY Zenon, <1>4, <2>2
    <3> QED BY ONLY <2>3, <3>1
  <2> QED BY Zenon, <1>4, <2>1, <2>4, <2>5 DEF Filled
<1>7. ASSUME NEW b \in 1..here, NEW j \in 1..MaxEntry, b # here \/ j # i
      PROVE  buf'[k][b].slot[j] = IF b <= Len(buf[k]) THEN buf[k][b].slot[j] ELSE Empty
    BY Zenon, <1>0, <1>7 DEF Stored
<1>8. Kept'[k] = Kept[k] \cup {x}
  <2>1. ASSUME NEW y \in Kept'[k] PROVE y \in Kept[k] \/ y = x
    <3>1. y # <<>> /\ \E b \in 1..Len(buf'[k]), j \in 1..MaxEntry : buf'[k][b].slot[j].no = y
      BY Zenon, KeptNextFacts
    <3>2. PICK b \in 1..here, j \in 1..MaxEntry : buf'[k][b].slot[j].no = y BY Zenon, <1>4, <3>1
    <3>3. CASE b = here /\ j = i BY Zenon, <1>5, <3>2, <3>3
    <3>4. CASE b # here \/ j # i
      <4>0. buf'[k][b].slot[j] = (IF b <= Len(buf[k]) THEN buf[k][b].slot[j] ELSE Empty) /\ Empty.no = <<>>
        BY Zenon, <1>7, <3>4 DEF Empty
      <4>1. b <= Len(buf[k]) /\ buf'[k][b].slot[j] = buf[k][b].slot[j] BY ONLY Zenon, <3>1, <3>2, <4>0
      <4>2. b \in 1..Len(buf[k]) /\ No(k, b, j) = y BY <1>4, <3>2, <4>1 DEF No
      <4> QED BY Zenon, <3>1, <4>2, KeptFacts
    <3> QED BY Zenon, <3>3, <3>4
  <2>2. x \in Kept'[k]
    <3>1. here \in 1..Len(buf'[k]) BY <1>4
    <3> QED BY Zenon, <1>2, <1>4, <1>5, <3>1, KeptNextFacts
  <2>3. ASSUME NEW y \in Kept[k] PROVE y \in Kept'[k]
    <3>1. y # <<>> /\ \E b \in 1..Len(buf[k]), j \in 1..MaxEntry : No(k, b, j) = y BY Zenon, KeptFacts
    <3>2. PICK b \in 1..Len(buf[k]), j \in 1..MaxEntry : No(k, b, j) = y BY Zenon, <3>1
    <3>3. b # here \/ j # i BY <1>4, <1>6, <3>1, <3>2
    <3>4. b \in 1..here /\ b <= Len(buf[k]) BY <1>4
    <3>5. buf'[k][b].slot[j].no = y BY Zenon, <1>7, <3>2, <3>3, <3>4 DEF No
    <3> QED BY Zenon, <1>4, <3>1, <3>4, <3>5, KeptNextFacts
  <2> QED BY Zenon, <2>1, <2>2, <2>3
<1>9. ASSUME NEW c \in Class, c # k PROVE Kept'[c] = Kept[c]
  <2>1. buf'[c] = buf[c] BY Zenon, <1>0, <1>9 DEF Stored
  <2> QED BY Zenon, <2>1 DEF Kept, BootNumbers
<1>10. Kept' = [Kept EXCEPT ![k] = @ \cup {x}]
  <2>1. Kept = [c \in Class |-> Kept[c]] /\ Kept' = [c \in Class |-> Kept'[c]] BY Zenon DEF Kept
  <2> QED BY Zenon, <1>8, <1>9, <2>1
<1>11. x \in Kept'[k] \ Kept[k] BY Zenon, <1>3, <1>8 DEF NewNumber
<1>12. Shown' = Shown BY Zenon DEF Shown
<1> QED BY Zenon, <1>3, <1>10, <1>11, <1>12, PromiseSteps

\* A drain shows a number that is kept, or shows nothing.
LEMMA ReplayStep ==
    ASSUME OwnerInv, SleepCovers, Packed, NEW h \in Handler, NEW k \in Class, DrainEntry(h, k)
    PROVE  Promise!Next \/ UNCHANGED <<Kept, Shown>>
<1>0. Types BY Zenon DEF OwnerInv
<1>1. Awake(h, k) /\ drain[h][k].i < buf[k][drain[h][k].at].nb BY Zenon DEF DrainEntry
<1>2. PICK a, i : a = drain[h][k].at /\ i = drain[h][k].i BY Zenon
<1>3. a \in 1..Len(buf[k]) BY Zenon, <1>0, <1>1, <1>2, AwakeFacts
<1>4. /\ Types' /\ Len(buf'[k]) = Len(buf[k]) /\ \A c \in Class : c # k => buf'[c] = buf[c]
      /\ \A b \in 1..Len(buf[k]), j \in 1..MaxEntry : buf'[k][b].slot[j].no = buf[k][b].slot[j].no
      /\ \/ /\ \E r \in Rec : RelayWrite({<<"base", k>>}, r) /\ r.no = Entry(k, a, i + 1).no
            /\ ~Full(<<"base", k>>)
         \/ UNCHANGED chanVars
    BY Zenon, <1>0, <1>2, <1>3, EntryTypes
<1>5. SameChains
  <2> SUFFICES ASSUME NEW c \in Class
               PROVE  /\ Len(buf'[c]) = Len(buf[c])
                      /\ \A b \in 1..Len(buf[c]), j \in 1..MaxEntry : buf'[c][b].slot[j].no = No(c, b, j)
      BY Zenon DEF SameChains
  <2>1. CASE c = k BY Zenon, <1>4, <2>1 DEF No
  <2>2. CASE c # k BY Zenon, <1>4, <2>2 DEF No
  <2> QED BY Zenon, <2>1, <2>2
<1>6. Kept' = Kept BY Zenon, <1>0, <1>4, <1>5, KeptSame
<1>7. CASE UNCHANGED chanVars
  <2>1. Shown' = Shown BY Zenon, <1>7 DEF Shown, chanVars
  <2> QED BY Zenon, <1>6, <2>1
<1>8. ASSUME NEW r \in Rec, RelayWrite({<<"base", k>>}, r), r.no = Entry(k, a, i + 1).no, ~Full(<<"base", k>>)
      PROVE  Promise!Next
  <2>1. i \in Nat /\ buf[k][a].nb \in Nat /\ MaxEntry \in Nat
    <3>1. buf[k][a] \in Buffer BY Zenon, <1>0, <1>3, ChainFacts
    <3>2. drain[h][k] \in Task BY Zenon, <1>0 DEF Types
    <3> QED BY Zenon, <1>2, <3>1, <3>2, SizeFacts DEF Buffer, Task
  <2>2. i < buf[k][a].nb /\ buf[k][a].nb <= MaxEntry BY Zenon, <1>1, <1>2, <1>3 DEF Packed
  <2>3. i + 1 \in 1..MaxEntry /\ i + 1 <= buf[k][a].nb BY <2>1, <2>2
  <2>4. r.no = No(k, a, i + 1) /\ No(k, a, i + 1) # <<>>
    <3>1. i + 1 <= MaxEntry BY ONLY <2>1, <2>2
    <3>2. Entry(k, a, i + 1) = buf[k][a].slot[i + 1] BY Zenon, <3>1 DEF Entry
    <3>3. No(k, a, i + 1) # <<>> BY Zenon, <1>3, <2>3 DEF Packed
    <3> QED BY Zenon, <1>8, <3>2, <3>3 DEF No
  <2>5. r.no \in Kept[k] BY Zenon, <1>0, <1>3, <2>3, <2>4, KeptFacts
  <2>6. Shown' = Showing({<<"base", k>>}, r.no)
    <3>1. Shown' = [s \in Stream |-> Shown'[s]] BY Zenon DEF Shown
    <3>2. ASSUME NEW s \in Stream
          PROVE  Shown'[s] = IF s \in {<<"base", k>>} THEN Append(Shown[s], r.no) ELSE Shown[s]
      <4>1. sent[s] \in Seq(Rec) BY Zenon, <1>0 DEF Types
      <4>2. Shown[s] = NoSeq(sent[s]) /\ Shown'[s] = NoSeq(sent'[s]) BY Zenon DEF Shown
      <4>3. CASE s = <<"base", k>>
        <5>1. sent'[s] = Append(sent[s], r) BY Zenon, <1>8, <4>3 DEF RelayWrite
        <5> QED BY Zenon, <4>1, <4>2, <4>3, <5>1, NumbersAppend
      <4>4. CASE s # <<"base", k>>
        <5>1. sent'[s] = sent[s] BY Zenon, <1>8, <4>4 DEF RelayWrite
        <5> QED BY Zenon, <4>2, <4>4, <5>1
      <4> QED BY Zenon, <4>3, <4>4
    <3> QED BY Zenon, <3>1, <3>2 DEF Showing
  <2> QED BY Zenon, <1>6, <2>5, <2>6, PromiseSteps
<1> QED BY Zenon, <1>4, <1>7, <1>8

\* Every step of the relay is a step of RelayStream or one it does not see.
LEMMA RelayStep ==
    ASSUME ReplayInv, Packed, SleepCovers, ~Overlap', OneWriter, [Next]_vars
    PROVE  Promise!Next \/ UNCHANGED <<Kept, Shown>>
<1>0. OwnerInv /\ Types /\ Numbered /\ Filled BY Zenon DEF ReplayInv, OwnerInv
<1>1. Types' BY Zenon, <1>0, NextOwner DEF OwnerInv
<1>2. ASSUME UNCHANGED <<buf, sent>> PROVE UNCHANGED <<Kept, Shown>>
  <2>1. SameChains BY Zenon, <1>2 DEF SameChains, No
  <2> QED BY Zenon, <1>0, <1>1, <1>2, <2>1, QuietStep
<1>3. ASSUME NEW w \in Writer, WriterNext(w) PROVE Promise!Next \/ UNCHANGED <<Kept, Shown>>
  <2>1. CASE (\E n \in Vertex \cup {"machine"} : Begin(w, n)) \/ PrepareRelation(w) \/ WriteBoot(w)
    <3>1. UNCHANGED <<buf, sent>> BY Zenon, <2>1 DEF Begin, PrepareRelation, WriteBoot, bufVars, chanVars
    <3> QED BY Zenon, <1>2, <3>1
  <2>2. CASE WriteLive(w)
    <3>1. thread[w].pc = "check" /\ RelayWrite(chans \X {MsgClass(w)}, Outgoing(w)) /\ UNCHANGED buf
      BY Zenon, <2>2 DEF WriteLive, bufVars
    <3>2. PICK k \in Class : k = MsgClass(w) BY Zenon, ClassFacts
    <3>3. PICK S : S = chans \X {k} BY Zenon
    <3>4. S \cap Stream \subseteq Name \X {k} BY Zenon, <3>3 DEF Stream
    <3>5. Outgoing(w) \in Rec /\ Outgoing(w).no = thread[w].msg.no BY Zenon, <1>0, RecFacts
    <3>6. NewNumber(Outgoing(w).no)
      <4>1. /\ \A c \in Class : \A b \in 1..Len(buf[c]), j \in 1..MaxEntry : No(c, b, j) # thread[w].msg.no
            /\ \A s \in Stream : \A u \in 1..Len(sent[s]) : sent[s][u].no # thread[w].msg.no
        BY Zenon, <1>0, <3>1, FreshNumber
      <4> QED BY Zenon, <1>0, <3>5, <4>1, NewFacts
    <3>7. SameChains BY Zenon, <3>1 DEF SameChains, No
    <3>8. Kept' = Kept BY Zenon, <1>0, <1>1, <3>7, KeptSame
    <3>9. RelayWrite(S, Outgoing(w)) BY Zenon, <3>1, <3>2, <3>3
    <3> QED BY Zenon, <1>0, <3>4, <3>5, <3>6, <3>8, <3>9, PublishStep
  <2>3. CASE Insert(w)
    <3>1. thread[w].pc = "insert" /\ UNCHANGED sent BY Zenon, <2>3 DEF Insert, chanVars
    <3>2. UNCHANGED buf \/ \E here \in Nat, i \in Nat : Stored(w, here, i) BY Zenon, <1>0, <2>3, InsertTypes
    <3> QED BY Zenon, <1>0, <1>1, <1>2, <3>1, <3>2, KeepStep
  <2>4. CASE Count(w)
    <3>1. thread[w].pc = "count" /\ UNCHANGED sent BY Zenon, <2>4 DEF Count, chanVars
    <3>2. PICK k \in Class : k = MsgClass(w) BY Zenon, ClassFacts
    <3>3. thread[w].at \in 1..Len(buf[k]) BY Zenon, <1>0, <3>1, <3>2 DEF OwnerInv, Ownership
    <3>4. /\ Len(buf'[k]) = Len(buf[k]) /\ \A b \in 1..Len(buf[k]) : buf'[k][b].slot = buf[k][b].slot
          /\ \A c \in Class : c # k => buf'[c] = buf[c]
      BY Zenon, <1>0, <2>4, <3>2, <3>3, CountTypes
    <3>5. ASSUME NEW c \in Class
          PROVE  /\ Len(buf'[c]) = Len(buf[c])
                 /\ \A b \in 1..Len(buf[c]), j \in 1..MaxEntry : buf'[c][b].slot[j].no = No(c, b, j)
      <4>1. CASE c = k BY Zenon, <3>4, <4>1 DEF No
      <4>2. CASE c # k BY Zenon, <3>4, <4>2 DEF No
      <4> QED BY Zenon, <4>1, <4>2
    <3>6. SameChains BY Zenon, <3>5 DEF SameChains
    <3> QED BY Zenon, <1>0, <1>1, <3>1, <3>6, QuietStep
  <2> QED BY Zenon, <1>3, <2>1, <2>2, <2>3, <2>4 DEF WriterNext
<1>4. ASSUME NEW h \in Config, ConfigNext(h) PROVE UNCHANGED <<Kept, Shown>>
  <2>1. UNCHANGED <<buf, sent>> BY Zenon, <1>4 DEF ConfigNext, SetId, CreateChannel, WriteEpoch, bufVars, chanVars
  <2> QED BY Zenon, <1>2, <2>1
<1>5. CASE RelayProvInit
  <2>1. UNCHANGED <<buf, sent>> BY Zenon, <1>5 DEF RelayProvInit, bufVars, chanVars
  <2> QED BY Zenon, <1>2, <2>1
<1>6. ASSUME NEW h \in Handler, HandOver(h) PROVE UNCHANGED <<Kept, Shown>>
  <2>1. UNCHANGED <<buf, sent>> BY Zenon, <1>6 DEF HandOver, bufVars, chanVars
  <2> QED BY Zenon, <1>2, <2>1
<1>7. ASSUME NEW h \in Handler, Schedule(h) PROVE Promise!Next \/ UNCHANGED <<Kept, Shown>>
  <2>1. PICK r \in Rec : RelayWrite({<<"base", "long">>}, r) /\ r.no \in HandlerNo BY Zenon, <1>0, <1>7, ScheduleTypes
  <2>2. UNCHANGED buf BY Zenon, <1>7 DEF Schedule
  <2>3. PICK k \in Class : k = "long" BY Zenon, ClassFacts
  <2>4. PICK S : S = {<<"base", "long">>} BY Zenon
  <2>5. S \cap Stream \subseteq Name \X {k} BY <2>3, <2>4 DEF Stream, Name
  <2>6. head[k] = 1
    <3>1. conf[h].pc = "schedule" BY Zenon, <1>7 DEF Schedule
    <3>2. h \in Config BY Zenon, <1>0, <3>1 DEF OwnerInv, Phase, Handler
    <3> QED BY Zenon, <1>0, <3>1, <3>2 DEF OwnerInv, Ownership
  <2>7. r.no # <<>> /\ r.no \notin WriterNo
    <3>1. PICK g \in Handler, l \in Nat : r.no = <<g, l, "machine">> BY <2>1 DEF HandlerNo
    <3> QED BY <3>1 DEF WriterNo
  <2>8. \A c \in Class : \A b \in 1..Len(buf[c]), j \in 1..MaxEntry : No(c, b, j) # r.no
    BY Zenon, <1>0, <2>7 DEF Numbered
  <2>9. \A s \in Stream : \A u \in 1..Len(sent[s]) : sent[s][u].no # r.no
    BY Zenon, <2>1, <2>6 DEF ReplayInv, Untouched
  <2>10. NewNumber(r.no) BY Zenon, <1>0, <2>8, <2>9, NewFacts
  <2>11. SameChains BY Zenon, <2>2 DEF SameChains, No
  <2>12. Kept' = Kept BY Zenon, <1>0, <1>1, <2>11, KeptSame
  <2>13. RelayWrite(S, r) BY Zenon, <2>1, <2>4
  <2> QED BY Zenon, <1>0, <2>5, <2>10, <2>12, <2>13, PublishStep
<1>8. ASSUME NEW h \in Handler, NEW k \in Class, DrainStep(h, k) PROVE Promise!Next \/ UNCHANGED <<Kept, Shown>>
  <2>1. CASE DrainEntry(h, k) BY Zenon, <1>0, <2>1, ReplayStep
  <2>2. CASE DrainNext(h, k) \/ DrainShared(h, k)
    <3>1. UNCHANGED <<buf, sent>> BY Zenon, <2>2 DEF DrainNext, DrainShared, bufVars, chanVars
    <3> QED BY Zenon, <1>2, <3>1
  <2> QED BY Zenon, <1>8, <2>1, <2>2 DEF DrainStep
<1>9. ASSUME NEW c \in Name, Consume(c) PROVE UNCHANGED <<Kept, Shown>>
  <2>1. UNCHANGED <<buf, sent>> BY Zenon, <1>9 DEF Consume, bufVars
  <2> QED BY Zenon, <1>2, <2>1
<1>10. CASE UNCHANGED vars
  <2>1. UNCHANGED <<buf, sent>> BY Zenon, <1>10 DEF vars, bufVars, chanVars
  <2> QED BY Zenon, <1>2, <2>1
<1> QED BY Zenon, <1>3, <1>4, <1>5, <1>6, <1>7, <1>8, <1>9, <1>10 DEF Next

\* Nothing is kept or shown at the start.
LEMMA StartStep ==
    ASSUME Init
    PROVE  Promise!Init /\ Packed
<1>0. Types BY Zenon, InitTypes
<1>1. \A k \in Class : \A b \in 1..Len(buf[k]) :
         buf[k][b].nb = 0 /\ \A j \in 1..MaxEntry : No(k, b, j) = <<>>
  <2> SUFFICES ASSUME NEW k \in Class, NEW b \in 1..Len(buf[k])
               PROVE  buf[k][b].nb = 0 /\ \A j \in 1..MaxEntry : No(k, b, j) = <<>>
      BY Zenon
  <2>1. buf[k] = <<NewBuffer>> BY Zenon DEF Init
  <2>2. buf[k][b] = NewBuffer BY <2>1
  <2>3. NewBuffer.nb = 0 /\ \A j \in 1..MaxEntry : NewBuffer.slot[j] = Empty BY Zenon, NewBufferType
  <2>4. Empty.no = <<>> BY Zenon DEF Empty
  <2> QED BY Zenon, <2>2, <2>3, <2>4 DEF No
<1>2. \A k \in Class : \A b : ~Counting(k, b) BY Zenon DEF Counting, Init
<1>3. Packed
  <2>1. MaxEntry \in Nat BY Zenon, RelayAssumption
  <2> QED BY <1>1, <1>2, <2>1 DEF Packed
<1>4. Kept = [k \in Class |-> {}]
  <2>1. ASSUME NEW k \in Class PROVE Kept[k] = {}
    <3>1. ASSUME NEW x \in Kept[k] PROVE FALSE
      <4>1. x # <<>> /\ \E b \in 1..Len(buf[k]), j \in 1..MaxEntry : No(k, b, j) = x BY Zenon, <1>0, KeptFacts
      <4> QED BY Zenon, <1>1, <4>1
    <3> QED BY Zenon, <3>1
  <2>2. Kept = [k \in Class |-> Kept[k]] BY Zenon DEF Kept
  <2> QED BY Zenon, <2>1, <2>2
<1>5. Shown = [s \in Stream |-> <<>>]
  <2>1. \A s \in Stream : sent[s] = <<>> BY Zenon DEF Init
  <2>2. NoSeq(<<>>) = <<>> BY DEF NoSeq
  <2> QED BY Zenon, <2>1, <2>2 DEF Shown
<1>6. Promise!Init BY Zenon, <1>4, <1>5 DEF Promise!Init, Promise!Streams, Kept, Shown, NoSeq, Stream
<1> QED BY Zenon, <1>3, <1>6

\* With one thread that writes, and as long as no two processes write identifiers
\* at the same time, the relay keeps the promise of RelayStream: what
\* is kept is not published and what is published is published once, only kept
\* records are replayed, on the base channel, and streams are never rewritten.
THEOREM RelayKeepsPromise ==
    ASSUME SleepCovers, OneWriter
    PROVE  Spec /\ []~Overlap => PromiseSpec
<1>1. Init => Promise!Init /\ Packed BY Zenon, StartStep
<1>2. ReplayInv /\ Packed /\ ~Overlap' /\ [Next]_vars => Packed' BY Zenon, NextPacked
<1>3. ReplayInv /\ Packed /\ ~Overlap' /\ [Next]_vars => [Promise!Next]_<<Kept, Shown>> BY Zenon, RelayStep
<1>4. Spec => [](Overlap \/ ReplayInv) BY Zenon, RelayReplayInv
<1>5. [Promise!Next]_<<Kept, Shown>>
      <=> [Promise!Next]_<<[k \in Class |-> BootNumbers(k)],
                           [s \in Stream |-> [i \in DOMAIN sent[s] |-> sent[s][i].no]]>>
    BY Zenon DEF Kept, Shown, NoSeq
<1> QED BY <1>1, <1>2, <1>3, <1>4, <1>5, PTL DEF Spec, PromiseSpec, Promise!Spec
=============================================================================
