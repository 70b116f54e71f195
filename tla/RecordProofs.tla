---------------------------- MODULE RecordProofs ----------------------------
(***************************************************************************)
(* The operations of Record keep an invariant of the graph (GraphInv) from *)
(* which acyclicity follows: every operation gives a graph in which edges  *)
(* climb a ranking of the vertices, the current version of a node has no   *)
(* outgoing edge unless it is marked, and no edge touches a version to     *)
(* come.  The invariant also says that the recorded mark of a node can be  *)
(* trusted (Stream), and every operation is shown to record only what it   *)
(* may (Records).                                                          *)
(***************************************************************************)
EXTENDS Record, WellFoundedInduction, TLAPS

-----------------------------------------------------------------------------
(* Ranked sets of edges *)

\* The empty set of edges is ranked.
LEMMA RankEmpty ==
    ASSUME NEW V
    PROVE  Ranked(V, {})
<1>1. [v \in V |-> 0] \in [V -> Nat] BY Zenon
<1>2. Orders([v \in V |-> 0], {}) BY Zenon DEF Orders
<1> QED BY Zenon, <1>1, <1>2 DEF Ranked

\* An edge into a vertex from which no edge leaves keeps the set ranked: the
\* receiver moves above the sender.
LEMMA RankSink ==
    ASSUME NEW V, NEW E, NEW e,
           \A d \in E : d.snd \in V /\ d.rcv \in V,
           e.snd \in V, e.rcv \in V, e.snd # e.rcv,
           \A d \in E : d.snd # e.rcv,
           Ranked(V, E)
    PROVE  Ranked(V, E \cup {e})
<1>1. PICK r \in [V -> Nat] : Orders(r, E) BY Zenon DEF Ranked
<1> DEFINE s == [v \in V |-> IF v = e.rcv THEN r[e.rcv] + r[e.snd] + 1 ELSE r[v]]
<1>2. s \in [V -> Nat] OBVIOUS
<1>3. ASSUME NEW d \in E PROVE s[d.snd] < s[d.rcv]
  <2>1. r[d.snd] < r[d.rcv] BY Zenon, <1>1 DEF Orders
  <2>2. r[d.snd] \in Nat /\ r[d.rcv] \in Nat /\ r[e.snd] \in Nat BY Zenon
  <2>3. s[d.snd] = r[d.snd] BY Zenon
  <2>4. s[d.rcv] = r[d.rcv] \/ (d.rcv = e.rcv /\ s[d.rcv] = r[e.rcv] + r[e.snd] + 1) BY Zenon
  <2> QED BY <2>1, <2>2, <2>3, <2>4
<1>4. s[e.snd] < s[e.rcv]
  <2>1. r[e.snd] \in Nat /\ r[e.rcv] \in Nat BY Zenon
  <2>2. s[e.snd] = r[e.snd] /\ s[e.rcv] = r[e.rcv] + r[e.snd] + 1 BY Zenon
  <2> QED BY <2>1, <2>2
<1>5. Orders(s, E \cup {e}) BY Zenon, <1>3, <1>4 DEF Orders
<1> QED BY Zenon, <1>2, <1>5 DEF Ranked

\* An edge out of a vertex that no edge enters keeps the set ranked: every
\* other vertex moves above it.
LEMMA RankSource ==
    ASSUME NEW V, NEW E, NEW e,
           \A d \in E : d.snd \in V /\ d.rcv \in V,
           e.snd \in V, e.rcv \in V, e.snd # e.rcv,
           \A d \in E : d.rcv # e.snd,
           Ranked(V, E)
    PROVE  Ranked(V, E \cup {e})
<1>1. PICK r \in [V -> Nat] : Orders(r, E) BY Zenon DEF Ranked
<1> DEFINE s == [v \in V |-> IF v = e.snd THEN 0 ELSE r[v] + 1]
<1>2. s \in [V -> Nat] OBVIOUS
<1>3. ASSUME NEW d \in E PROVE s[d.snd] < s[d.rcv]
  <2>1. r[d.snd] < r[d.rcv] BY Zenon, <1>1 DEF Orders
  <2>2. r[d.snd] \in Nat /\ r[d.rcv] \in Nat BY Zenon
  <2>3. s[d.rcv] = r[d.rcv] + 1 BY Zenon
  <2>4. s[d.snd] = 0 \/ s[d.snd] = r[d.snd] + 1 BY Zenon
  <2> QED BY <2>1, <2>2, <2>3, <2>4
<1>4. s[e.snd] < s[e.rcv]
  <2>1. r[e.rcv] \in Nat BY Zenon
  <2>2. s[e.snd] = 0 /\ s[e.rcv] = r[e.rcv] + 1 BY Zenon
  <2> QED BY <2>1, <2>2
<1>5. Orders(s, E \cup {e}) BY Zenon, <1>3, <1>4 DEF Orders
<1> QED BY Zenon, <1>2, <1>5 DEF Ranked

\* A ranked set of edges has no cycle: in a closed set of vertices the one of
\* least rank would be reached from one of smaller rank.
LEMMA RankedAcyclic ==
    ASSUME NEW V, NEW E,
           \A d \in E : d.snd \in V /\ d.rcv \in V,
           Ranked(V, E)
    PROVE  Acyclic(E)
<1>0. \A D : Inner(D) \subseteq D BY Zenon DEF Inner
<1> SUFFICES ASSUME NEW S \in SUBSET {e.snd : e \in Inner(Inner(Inner(E)))},
                    Closed(E, S), S # {}
             PROVE  FALSE
    BY Zenon DEF Acyclic
<1>1. PICK r \in [V -> Nat] : Orders(r, E) BY Zenon DEF Ranked
<1>2. S \subseteq V
  <2>1. Inner(Inner(Inner(E))) \subseteq E BY Zenon, <1>0
  <2> QED BY Zenon, <2>1
<1> DEFINE T == {r[v] : v \in S}
<1>3. T \subseteq Nat /\ T # {} BY Zenon, <1>2
<1>4. PICK m \in T : \A k \in T : ~(<<k, m>> \in OpToRel(<, Nat))
    BY <1>3, NatLessThanWellFounded, WFMin, Zenon
<1>5. PICK v \in S : m = r[v] BY Zenon, <1>4
<1>6. PICK e \in E : e.rcv = v /\ e.snd \in S BY Zenon, <1>5 DEF Closed
<1>7. r[e.snd] < m BY Zenon, <1>1, <1>5, <1>6 DEF Orders
<1>8. r[e.snd] \in T BY Zenon, <1>6
<1>9. <<r[e.snd], m>> \in OpToRel(<, Nat) BY Zenon, <1>3, <1>4, <1>7, <1>8 DEF OpToRel
<1> QED BY Zenon, <1>4, <1>8, <1>9
-----------------------------------------------------------------------------
(* What the operations keep *)

\* The types of the globals the operations read.
Globals ==
    /\ policy \in Policy
    /\ epoch \in Nat \ {0}
    /\ deny \subseteq RelType
    /\ target \in [Id -> SUBSET SetOp]

\* The type of a node is fixed, but for inodes, which change among theirs.
SameKind(a, b) == a = b \/ (a \in InodeType /\ b \in InodeType)

\* A node that may have an outgoing edge from its current version: it is marked,
\* or it is a log entry, which record_log does not mark and frees at once.
MaySend(n) == n.out \/ n.type = "ENT_STR"

\* Vertices of a graph whose counters have not wrapped: no edge touches a version
\* to come, an edge out of the current version is marked, and edges are ranked.
Ordered(G) ==
    /\ \A e \in G.edges : /\ e.snd[2] <= G.node[e.snd[1]].ver
                          /\ e.rcv[2] <= G.node[e.rcv[1]].ver
                          /\ e.snd[2] = G.node[e.snd[1]].ver => MaySend(G.node[e.snd[1]])
    /\ Ranked(Vertex, G.edges)

\* Vertex v was written in epoch ep.
Sent(G, v, ep) == \E w \in G.written : w.v = v /\ w.ep = ep

\* The recorded mark n.ep of node i, if set, can be trusted: it is no later epoch,
\* and this version of the node was written in it.
MarkTrue(G, i, n) == n.ep # 0 => n.ep <= epoch /\ Sent(G, <<i, n.ver>>, n.ep)

\* What the stream of nodes and relations owes to its consumer.
Stream(G) ==
    /\ \A i \in Id : MarkTrue(G, i, G.node[i])
    /\ \A e \in G.edges : Sent(G, e.snd, e.ep) /\ Sent(G, e.rcv, e.ep)

\* The invariant of a graph.
GraphInv(G) ==
    /\ G \in Graph
    /\ G.next > 0 /\ G.node[Machine].type # "ENT_STR"
    /\ \A i \in Id : i >= G.next => G.node[i] = NewNode("free")
    /\ \A e \in G.edges : e.snd[1] < G.next /\ e.rcv[1] < G.next
    /\ G.wrapped \/ Ordered(G)
    /\ Stream(G)

\* Node i was allocated, and is not a log entry.
Known(G, i) == i \in Id /\ i < G.next /\ G.node[i].type # "ENT_STR"

\* H is G with other marks on its nodes.
Marks(G, H) ==
    /\ H \in Graph
    /\ H.next = G.next /\ H.wrapped = G.wrapped
    /\ \A i \in Id : /\ H.node[i].ver = G.node[i].ver
                     /\ SameKind(G.node[i].type, H.node[i].type)
                     /\ G.node[i].out => H.node[i].out
                     /\ i >= G.next => H.node[i] = G.node[i]

\* H has the nodes of G, of the same kind, and maybe more.
Grows(G, H) ==
    /\ H.next >= G.next
    /\ \A i \in Id : i < G.next => SameKind(G.node[i].type, H.node[i].type)

\* Node m has no flag and no label that n has not.
Above(m, n) == (m.opq => n.opq) /\ (m.trk => n.trk) /\ (m.prp => n.prp) /\ m.taint \subseteq n.taint

\* The labels of the sender m are those of the receiver n, unless a filter on
\* propagation is set.
Passes(m, n) ==
    /\ m.trk /\ m.prp
    /\ policy.enabled /\ policy.pnode_filter = {} /\ policy.prel_filter = {}
    => n.trk /\ n.prp /\ m.taint \subseteq n.taint

\* A relation that does not end at a vertex which passed information on in G.
Ahead(G, H, e) ==
    e.type \in KeepsVersion \cup {"RL_LOG"} \/ H.wrapped \/ \A d \in G.edges : d.snd # e.rcv

\* Label l reached node i along a relation of H.
Received(H, i, l) ==
    \E e \in H.edges : /\ e.rcv[1] = i /\ e.snd[1] # i
                       /\ l \in H.node[e.snd[1]].taint
                       /\ ~FilterPropagateRelation(e.type)

\* What operations that lead from G to H may record: no flag is cleared; a new
\* relation has no opaque end, enters a version that has passed nothing on, and
\* carries the labels of its sender; a new label came along a relation.
Records(G, H) ==
    /\ G.edges \subseteq H.edges /\ (G.wrapped => H.wrapped)
    /\ \A i \in Id : Above(G.node[i], H.node[i])
    /\ \A e \in H.edges \ G.edges :
          /\ ~G.node[e.snd[1]].opq /\ ~G.node[e.rcv[1]].opq
          /\ Ahead(G, H, e)
          /\ Passes(G.node[e.snd[1]], H.node[e.rcv[1]])
    /\ \A i \in Id : \A l \in H.node[i].taint \ G.node[i].taint : Received(H, i, l)

\* Growth is transitive: a node keeps its kind over several operations.
LEMMA GrowsTrans ==
    ASSUME NEW G, NEW H, NEW K, G \in Graph, H \in Graph, K \in Graph, Grows(G, H), Grows(H, K)
    PROVE  Grows(G, K)
BY DEF Grows, SameKind, Graph, Id

\* The fields of a graph and their types.
LEMMA GraphFields ==
    ASSUME NEW G \in Graph
    PROVE  /\ G.node \in [Id -> Node] /\ G.next \in Nat /\ G.wrapped \in BOOLEAN
           /\ G.edges \in SUBSET Edge /\ G.written \in SUBSET Written
BY Zenon DEF Graph

\* The ends of a relation are nodes.
LEMMA EdgeEnds ==
    ASSUME NEW G \in Graph, NEW e \in G.edges
    PROVE  /\ e \in Edge /\ e.snd \in Vertex /\ e.rcv \in Vertex /\ e.snd[1] \in Id /\ e.rcv[1] \in Id
           /\ e.ep \in Nat
BY Zenon DEF Graph, Edge, Vertex

\* Operations that record only what they may compose: what is opaque stays
\* opaque, and what a node has is passed on by a later relation too.
LEMMA RecordsTrans ==
    ASSUME NEW G, NEW H, NEW K, G \in Graph, H \in Graph, K \in Graph, Records(G, H), Records(H, K)
    PROVE  Records(G, K)
<1>1. \A i \in Id : Above(G.node[i], H.node[i]) /\ Above(H.node[i], K.node[i]) BY Zenon DEF Records
<1>2. \A i \in Id : Above(G.node[i], K.node[i]) BY Zenon, <1>1 DEF Above
<1>3. G.edges \subseteq H.edges /\ H.edges \subseteq K.edges /\ (H.wrapped => K.wrapped) BY Zenon DEF Records
<1>4. ASSUME NEW e \in K.edges \ G.edges
      PROVE  /\ ~G.node[e.snd[1]].opq /\ ~G.node[e.rcv[1]].opq
             /\ Ahead(G, K, e)
             /\ Passes(G.node[e.snd[1]], K.node[e.rcv[1]])
  <2> DEFINE f == e.snd[1]
             t == e.rcv[1]
  <2>1. f \in Id /\ t \in Id BY Zenon, EdgeEnds
  <2>2. Above(G.node[f], H.node[f]) /\ Above(H.node[t], K.node[t]) /\ Above(G.node[t], H.node[t]) BY Zenon, <1>1, <2>1
  <2>3. CASE e \in H.edges
    <3>1. /\ ~G.node[f].opq /\ ~G.node[t].opq /\ Ahead(G, H, e) /\ Passes(G.node[f], H.node[t])
      BY Zenon, <2>3 DEF Records
    <3>2. Ahead(G, K, e) BY Zenon, <1>3, <3>1 DEF Ahead
    <3>3. Passes(G.node[f], K.node[t]) BY Zenon, <2>2, <3>1 DEF Passes, Above
    <3> QED BY Zenon, <3>1, <3>2, <3>3
  <2>4. CASE e \notin H.edges
    <3>1. /\ ~H.node[f].opq /\ ~H.node[t].opq /\ Ahead(H, K, e) /\ Passes(H.node[f], K.node[t])
      BY Zenon, <2>4 DEF Records
    <3>2. Ahead(G, K, e) BY Zenon, <1>3, <3>1 DEF Ahead
    <3>3. Passes(G.node[f], K.node[t]) BY Zenon, <2>2, <3>1 DEF Passes, Above
    <3>4. ~G.node[f].opq /\ ~G.node[t].opq BY Zenon, <2>2, <3>1 DEF Above
    <3> QED BY Zenon, <3>2, <3>3, <3>4
  <2> QED BY Zenon, <2>3, <2>4
<1>5. ASSUME NEW i \in Id, NEW l \in K.node[i].taint \ G.node[i].taint PROVE Received(K, i, l)
  <2>1. CASE l \in H.node[i].taint
    <3>1. Received(H, i, l) BY Zenon, <2>1 DEF Records
    <3>2. PICK e \in H.edges : /\ e.rcv[1] = i /\ e.snd[1] # i /\ l \in H.node[e.snd[1]].taint
                               /\ ~FilterPropagateRelation(e.type)
      BY Zenon, <3>1 DEF Received
    <3>3. e \in K.edges /\ e.snd[1] \in Id BY Zenon, <1>3, <3>2, EdgeEnds
    <3>4. l \in K.node[e.snd[1]].taint BY Zenon, <1>1, <3>2, <3>3 DEF Above
    <3> QED BY Zenon, <3>2, <3>3, <3>4 DEF Received
  <2>2. CASE l \notin H.node[i].taint BY Zenon, <2>2 DEF Records
  <2> QED BY Zenon, <2>1, <2>2
<1>6. G.edges \subseteq K.edges /\ (G.wrapped => K.wrapped) BY Zenon, <1>3 DEF Records
<1> QED BY Zenon, <1>2, <1>4, <1>5, <1>6 DEF Records

\* An operation that adds no relation and no label, and clears no flag.
LEMMA QuietRecords ==
    ASSUME NEW G, NEW H, H.edges = G.edges, G.wrapped => H.wrapped,
           \A i \in Id : Above(G.node[i], H.node[i]) /\ H.node[i].taint = G.node[i].taint
    PROVE  Records(G, H)
<1>1. H.edges \ G.edges = {} BY Zenon
<1>2. \A i \in Id : H.node[i].taint \ G.node[i].taint = {} BY Zenon
<1> QED BY Zenon, <1>1, <1>2 DEF Records

\* The stream is as it was if nodes and relations are, but for other marks.
LEMMA QuietStream ==
    ASSUME NEW G, NEW H, Stream(G), H.edges = G.edges, G.written \subseteq H.written,
           \A i \in Id : H.node[i].ep = 0 \/ (H.node[i].ep = G.node[i].ep /\ H.node[i].ver = G.node[i].ver)
    PROVE  Stream(H)
<1>1. \A v, ep : Sent(G, v, ep) => Sent(H, v, ep) BY Zenon DEF Sent
<1>2. ASSUME NEW i \in Id PROVE MarkTrue(H, i, H.node[i])
  <2>1. MarkTrue(G, i, G.node[i]) BY Zenon DEF Stream
  <2>2. CASE H.node[i].ep = 0 BY Zenon, <2>2 DEF MarkTrue
  <2>3. CASE H.node[i].ep = G.node[i].ep /\ H.node[i].ver = G.node[i].ver
    BY Zenon, <1>1, <2>1, <2>3 DEF MarkTrue
  <2> QED BY Zenon, <2>2, <2>3
<1> QED BY Zenon, <1>1, <1>2 DEF Stream

\* No step makes a log entry of another node, the machine's included.
LEMMA KindKept ==
    ASSUME NEW G, NEW H, NEW i \in Id, SameKind(G.node[i].type, H.node[i].type)
    PROVE  G.node[i].type = "ENT_STR" <=> H.node[i].type = "ENT_STR"
BY Zenon DEF SameKind, InodeType

\* The machine's node has an identifier.
LEMMA MachineId == Machine \in Id
BY RecordAssumption DEF Machine, Id

\* Changing marks only (recorded, named, tracked, opaque, ...) keeps the invariant.
LEMMA MarksInv ==
    ASSUME NEW G, NEW H, GraphInv(G), Marks(G, H), H.edges = G.edges, Stream(H)
    PROVE  GraphInv(H) /\ Grows(G, H)
<1>1. G \in Graph /\ H \in Graph BY Zenon DEF GraphInv, Marks
<1>2. \A e \in G.edges : e.snd[1] \in Id /\ e.rcv[1] \in Id BY Zenon, <1>1 DEF Graph, Edge, Vertex
<1>3. Ordered(G) => Ordered(H) BY <1>2 DEF Ordered, Marks, MaySend, SameKind, InodeType
<1>4. GraphInv(H) BY <1>3, MachineId, KindKept DEF GraphInv, Marks
<1>5. Grows(G, H) BY <1>1, GraphFields DEF Grows, Marks
<1> QED BY Zenon, <1>4, <1>5

\* __write_relation returns a graph.
LEMMA WriteRelationType ==
    ASSUME Globals, NEW G \in Graph, NEW type \in RelType, NEW f \in Id, NEW fn \in Node, NEW t \in Id
    PROVE  WriteRelation(G, type, f, fn, t) \in Graph
<1> DEFINE tn == G.node[t]
           e  == [type |-> type, snd |-> <<f, fn.ver>>, rcv |-> <<t, tn.ver>>,
               stype |-> fn.type, rtype |-> tn.type, ep |-> epoch, ok |-> type \notin deny]
           n1 == [G.node EXCEPT ![f].ep = epoch]
           n2 == [n1 EXCEPT ![t] = Flow(type, fn, [tn EXCEPT !.ep = epoch])]
<1>1. e \in Edge BY Zenon DEF Edge, Vertex, Node, Graph, Globals
<1>2. tn \in Node BY Zenon DEF Graph
<1>3. Flow(type, fn, [tn EXCEPT !.ep = epoch]) \in Node BY Zenon, <1>2 DEF Flow, Node, Globals
<1>4. n1 \in [Id -> Node] BY DEF Graph, Node, Globals
<1>5. n2 \in [Id -> Node] BY Zenon, <1>4, <1>3
<1>6. Emitted(f, fn) \in SUBSET Written /\ Emitted(t, tn) \in SUBSET Written
    BY <1>2 DEF Emitted, Written, Vertex, Node, Globals
<1> QED BY Zenon, <1>1, <1>5, <1>6 DEF WriteRelation, Graph

\* H is G with other marks and at most one more edge, from version v of f to the
\* current version of t.
Adds(G, H, f, v, t) ==
    /\ Marks(G, H)
    /\ \A i \in Id : H.node[i].out = G.node[i].out
    /\ \/ H.edges = G.edges
       \/ \E e \in Edge : /\ e.snd = <<f, v>> /\ e.rcv = <<t, G.node[t].ver>>
                          /\ H.edges = G.edges \cup {e}

\* __write_relation adds at most the one edge it was asked for, and touches no
\* version and no outgoing mark.
LEMMA WriteRelationEdges ==
    ASSUME Globals, NEW G \in Graph, NEW type \in RelType, NEW f \in Id, NEW fn \in Node, NEW t \in Id,
           f < G.next, t < G.next
    PROVE  Adds(G, WriteRelation(G, type, f, fn, t), f, fn.ver, t)
<1> DEFINE H  == WriteRelation(G, type, f, fn, t)
           tn == G.node[t]
           e  == [type |-> type, snd |-> <<f, fn.ver>>, rcv |-> <<t, tn.ver>>,
               stype |-> fn.type, rtype |-> tn.type, ep |-> epoch, ok |-> type \notin deny]
           fl == Flow(type, fn, [tn EXCEPT !.ep = epoch])
<1>1. H \in Graph BY Zenon, WriteRelationType
<1> SUFFICES /\ Marks(G, H)
             /\ \A i \in Id : H.node[i].out = G.node[i].out
             /\ \/ H.edges = G.edges
                \/ \E x \in Edge : /\ x.snd = <<f, fn.ver>> /\ x.rcv = <<t, G.node[t].ver>>
                                   /\ H.edges = G.edges \cup {x}
    BY Zenon DEF Adds
<1> HIDE DEF H
<1>2. e \in Edge BY Zenon DEF Edge, Vertex, Node, Graph, Globals
<1>3. tn \in Node BY Zenon DEF Graph
<1>4. fl.ver = tn.ver /\ fl.type = tn.type /\ fl.out = tn.out BY Zenon, <1>3 DEF Flow, Node
<1>5. CASE ~ShouldRecord(type, fn, tn)
  <2>1. H = [G EXCEPT !.rc = OK] BY Zenon, <1>5 DEF WriteRelation, H
  <2> QED BY Zenon, <1>1, <2>1 DEF Marks, SameKind, Graph
<1>6. CASE ShouldRecord(type, fn, tn)
  <2>1. /\ H.next = G.next /\ H.wrapped = G.wrapped /\ H.edges = G.edges \cup {e}
        /\ H.node = [G.node EXCEPT ![f].ep = epoch, ![t] = fl]
    BY Zenon, <1>6 DEF WriteRelation, Graph, H
  <2>2. ASSUME NEW i \in Id
        PROVE  /\ H.node[i].ver = G.node[i].ver /\ H.node[i].type = G.node[i].type
               /\ H.node[i].out = G.node[i].out
               /\ i # f /\ i # t => H.node[i] = G.node[i]
    <3>1. G.node[i] \in Node /\ G.node \in [Id -> Node] BY Zenon DEF Graph
    <3> QED BY <2>1, <1>4, <3>1 DEF Node
  <2>3. Marks(G, H) BY <1>1, <2>1, <2>2 DEF Marks, SameKind, Id, Graph
  <2> QED BY Zenon, <2>1, <2>2, <2>3, <1>2
<1> QED BY Zenon, <1>5, <1>6

\* The heart of the argument: a new edge keeps the graph ranked if its receiver
\* has no outgoing edge (a flow, after __update_version) or its sender is a node no
\* edge touches (a name that was just allocated).
LEMMA AddEdge ==
    ASSUME NEW G, NEW H, GraphInv(G), Marks(G, H),
           NEW f, NEW t, f \in Id, f < G.next, Known(G, t), f # t,
           NEW e \in Edge, e.snd = <<f, G.node[f].ver>>, e.rcv = <<t, G.node[t].ver>>,
           H.edges = G.edges \cup {e},
           \/ ~G.node[t].out
           \/ \A d \in G.edges : d.snd[1] # f /\ d.rcv[1] # f,
           MaySend(H.node[f]), Stream(H)
    PROVE  GraphInv(H) /\ Grows(G, H)
<1>1. G \in Graph /\ H \in Graph BY Zenon DEF GraphInv, Marks
<1>2. \A d \in G.edges : d.snd \in Vertex /\ d.rcv \in Vertex /\ d.snd[1] \in Id /\ d.rcv[1] \in Id
    BY Zenon, <1>1 DEF Graph, Edge, Vertex
<1>3. e.snd \in Vertex /\ e.rcv \in Vertex /\ e.snd # e.rcv BY DEF Edge
<1>4. Ordered(G) => Ranked(Vertex, H.edges)
  <2> SUFFICES ASSUME Ordered(G) PROVE Ranked(Vertex, G.edges \cup {e}) BY Zenon
  <2>1. CASE ~G.node[t].out
    <3>1. \A d \in G.edges : d.snd # e.rcv BY <2>1 DEF Ordered, MaySend, Known
    <3> QED BY Zenon, <1>2, <1>3, <3>1, RankSink DEF Ordered
  <2>2. CASE \A d \in G.edges : d.snd[1] # f /\ d.rcv[1] # f
    <3>1. \A d \in G.edges : d.rcv # e.snd BY <2>2
    <3> QED BY Zenon, <1>2, <1>3, <3>1, RankSource DEF Ordered
  <2> QED BY Zenon, <2>1, <2>2
<1>5. G.node[f].ver \in Nat /\ G.node[t].ver \in Nat BY <1>1 DEF Graph, Node, Known, Version
<1>6. Ordered(G) => Ordered(H)
  <2> SUFFICES ASSUME Ordered(G), NEW d \in H.edges
               PROVE  /\ d.snd[2] <= H.node[d.snd[1]].ver
                      /\ d.rcv[2] <= H.node[d.rcv[1]].ver
                      /\ d.snd[2] = H.node[d.snd[1]].ver => MaySend(H.node[d.snd[1]])
    BY Zenon, <1>4 DEF Ordered
  <2>1. CASE d \in G.edges BY <2>1, <1>2 DEF Ordered, Marks, MaySend, SameKind, InodeType
  <2>2. CASE d = e BY <2>2, <1>5 DEF Marks, Known
  <2> QED BY Zenon, <2>1, <2>2
<1>7. \A d \in H.edges : d.snd[1] < H.next /\ d.rcv[1] < H.next
    BY DEF GraphInv, Marks, Known
<1>8. GraphInv(H)
  <2>1. H.next = G.next /\ H.wrapped = G.wrapped /\ SameKind(G.node[Machine].type, H.node[Machine].type)
        /\ \A i \in Id : i >= G.next => H.node[i] = G.node[i]
    BY Zenon, MachineId DEF Marks
  <2>2. G.next > 0 /\ G.node[Machine].type # "ENT_STR" /\ (G.wrapped \/ Ordered(G))
        /\ \A i \in Id : i >= G.next => G.node[i] = NewNode("free")
    BY Zenon DEF GraphInv
  <2>3. H.node[Machine].type # "ENT_STR" BY Zenon, <2>1, <2>2 DEF SameKind, InodeType
  <2> QED BY Zenon, <1>1, <1>6, <1>7, <2>1, <2>2, <2>3 DEF GraphInv
<1>9. Grows(G, H) BY <1>1, GraphFields DEF Grows, Marks
<1> QED BY Zenon, <1>8, <1>9

\* __write_node: a node whose mark can be trusted has been written in this epoch
\* once __write_relation is done with it.
LEMMA EmittedSent ==
    ASSUME Globals, NEW G, NEW H, NEW i, NEW n \in Node, MarkTrue(G, i, n),
           G.written \subseteq H.written, Emitted(i, n) \subseteq H.written
    PROVE  Sent(H, <<i, n.ver>>, epoch)
<1>1. CASE IsRecorded(n) /\ ~policy.duplicate
  <2>1. n.ep = epoch /\ n.ep # 0 BY <1>1 DEF IsRecorded, MarkTrue, Node, Globals
  <2>2. Sent(G, <<i, n.ver>>, epoch) BY Zenon, <2>1 DEF MarkTrue
  <2> QED BY Zenon, <2>2 DEF Sent
<1>2. CASE ~(IsRecorded(n) /\ ~policy.duplicate)
  <2> DEFINE w == [v |-> <<i, n.ver>>, type |-> n.type, ep |-> epoch]
  <2>1. w \in H.written BY Zenon, <1>2 DEF Emitted
  <2>2. w.v = <<i, n.ver>> /\ w.ep = epoch BY Zenon
  <2> QED BY Zenon, <2>1, <2>2 DEF Sent
<1> QED BY Zenon, <1>1, <1>2

\* __write_relation writes both ends with the relation.
LEMMA WriteRelationStream ==
    ASSUME Globals, NEW G \in Graph, Stream(G), NEW type \in RelType, NEW f \in Id, NEW fn \in Node, NEW t \in Id,
           MarkTrue(G, f, fn), f # t => fn.ver = G.node[f].ver
    PROVE  Stream(WriteRelation(G, type, f, fn, t))
<1> DEFINE H  == WriteRelation(G, type, f, fn, t)
           tn == G.node[t]
           e  == [type |-> type, snd |-> <<f, fn.ver>>, rcv |-> <<t, tn.ver>>,
               stype |-> fn.type, rtype |-> tn.type, ep |-> epoch, ok |-> type \notin deny]
           fl == Flow(type, fn, [tn EXCEPT !.ep = epoch])
<1>1. tn \in Node /\ G.node \in [Id -> Node] /\ epoch \in Nat BY Zenon DEF Graph, Globals
<1>2. fl.ver = tn.ver /\ fl.ep = epoch BY Zenon, <1>1 DEF Flow, Node
<1>3. CASE ~ShouldRecord(type, fn, tn)
  <2>1. H = [G EXCEPT !.rc = OK] BY Zenon, <1>3 DEF WriteRelation
  <2>2. H.edges = G.edges /\ H.written = G.written /\ H.node = G.node BY Zenon, <2>1 DEF Graph
  <2> HIDE DEF H
  <2>3. Stream(H) BY Zenon, <1>1, <2>2, QuietStream
  <2> QED BY Zenon, <2>3 DEF H
<1>4. CASE ShouldRecord(type, fn, tn)
  <2>1. /\ H.node = [G.node EXCEPT ![f].ep = epoch, ![t] = fl] /\ H.edges = G.edges \cup {e}
        /\ H.written = G.written \cup Emitted(f, fn) \cup Emitted(t, tn)
    BY Zenon, <1>4 DEF WriteRelation, Graph
  <2>2. e.snd = <<f, fn.ver>> /\ e.rcv = <<t, tn.ver>> /\ e.ep = epoch BY Zenon
  <2> HIDE DEF H, tn, fl, e
  <2>3. MarkTrue(G, t, tn) BY Zenon DEF Stream, tn
  <2>4. Sent(H, <<f, fn.ver>>, epoch) /\ Sent(H, <<t, tn.ver>>, epoch) BY Zenon, <1>1, <2>1, <2>3, EmittedSent
  <2>5. \A v, ep : Sent(G, v, ep) => Sent(H, v, ep) BY Zenon, <2>1 DEF Sent
  <2>6. \A d \in H.edges : Sent(H, d.snd, d.ep) /\ Sent(H, d.rcv, d.ep)
    BY Zenon, <2>1, <2>2, <2>4, <2>5 DEF Stream
  <2>7. ASSUME NEW i \in Id PROVE MarkTrue(H, i, H.node[i])
    <3>1. CASE i = t
      <4>1. H.node[i].ver = tn.ver /\ H.node[i].ep = epoch BY Zenon, <1>1, <1>2, <2>1, <3>1
      <4> QED BY <1>1, <2>4, <3>1, <4>1 DEF MarkTrue
    <3>2. CASE i # t /\ i = f
      <4>1. H.node[i] = [G.node[f] EXCEPT !.ep = epoch] BY Zenon, <1>1, <2>1, <3>2
      <4>2. H.node[i].ver = fn.ver /\ H.node[i].ep = epoch BY Zenon, <1>1, <3>2, <4>1 DEF Node
      <4> QED BY <1>1, <2>4, <3>2, <4>2 DEF MarkTrue
    <3>3. CASE i # t /\ i # f
      <4>1. H.node[i] = G.node[i] BY Zenon, <1>1, <2>1, <3>3
      <4> QED BY Zenon, <2>5, <4>1 DEF Stream, MarkTrue
    <3> QED BY Zenon, <3>1, <3>2, <3>3
  <2>8. Stream(H) BY Zenon, <2>6, <2>7 DEF Stream
  <2> QED BY Zenon, <2>8 DEF H
<1> QED BY Zenon, <1>3, <1>4

\* __write_relation, its filters and the propagation query record what they may,
\* if fn has the labels of node f and the receiver has not been read from.
LEMMA WriteRelationRecords ==
    ASSUME Globals, NEW G \in Graph, NEW type \in RelType, NEW f \in Id, NEW fn \in Node, NEW t \in Id,
           fn.opq = G.node[f].opq, fn.trk = G.node[f].trk, fn.prp = G.node[f].prp, fn.taint = G.node[f].taint,
           \/ type \in KeepsVersion \cup {"RL_LOG"} \/ G.wrapped
           \/ \A d \in G.edges : d.snd # <<t, G.node[t].ver>>
    PROVE  Records(G, WriteRelation(G, type, f, fn, t))
<1> DEFINE H  == WriteRelation(G, type, f, fn, t)
           tn == G.node[t]
           e  == [type |-> type, snd |-> <<f, fn.ver>>, rcv |-> <<t, tn.ver>>,
               stype |-> fn.type, rtype |-> tn.type, ep |-> epoch, ok |-> type \notin deny]
           tm == [tn EXCEPT !.ep = epoch]
           fl == Flow(type, fn, tm)
<1>1. tn \in Node /\ G.node[f] \in Node /\ G.node \in [Id -> Node] BY Zenon DEF Graph
<1>2. CASE ~ShouldRecord(type, fn, tn)
  <2>1. H = [G EXCEPT !.rc = OK] BY Zenon, <1>2 DEF WriteRelation
  <2>2. H.edges = G.edges /\ H.wrapped = G.wrapped /\ H.node = G.node BY Zenon, <2>1 DEF Graph
  <2> HIDE DEF H
  <2>3. Records(G, H) BY Zenon, <2>2, QuietRecords DEF Above
  <2> QED BY Zenon, <2>3 DEF H
<1>3. CASE ShouldRecord(type, fn, tn)
  <2>1. /\ H.node = [G.node EXCEPT ![f].ep = epoch, ![t] = fl] /\ H.edges = G.edges \cup {e}
        /\ H.wrapped = G.wrapped
    BY Zenon, <1>3 DEF WriteRelation, Graph
  <2>2. e.snd = <<f, fn.ver>> /\ e.rcv = <<t, tn.ver>> /\ e.type = type BY Zenon
  <2>3. ~fn.opq /\ ~tn.opq /\ policy.enabled BY Zenon, <1>3 DEF ShouldRecord, FilterNode
  <2>4. tm.opq = tn.opq /\ tm.trk = tn.trk /\ tm.prp = tn.prp /\ tm.taint = tn.taint /\ tm \in Node
    BY Zenon, <1>1 DEF Node, Globals
  <2> HIDE DEF tm, H, e
  <2>5. /\ fl.taint \subseteq tn.taint \cup fn.taint /\ Above(tn, fl)
        /\ FilterPropagateRelation(type) => fl.taint = tn.taint
    BY Zenon, <2>4 DEF Flow, Above, Node
  <2>6. Passes(fn, fl)
    <3> SUFFICES ASSUME fn.trk, fn.prp, policy.pnode_filter = {}, policy.prel_filter = {}
                 PROVE  fl.trk /\ fl.prp /\ fn.taint \subseteq fl.taint
      BY Zenon DEF Passes
    <3>1. ~FilterPropagateRelation(type) /\ ~FilterNode(policy.pnode_filter, tm)
      BY Zenon, <2>3, <2>4 DEF FilterPropagateRelation, FilterNode
    <3>2. fl = [tm EXCEPT !.trk = TRUE, !.prp = TRUE, !.taint = @ \cup fn.taint] BY Zenon, <3>1 DEF Flow
    <3> QED BY <2>4, <3>2 DEF Node
  <2> HIDE DEF fl, tn
  <2>7. H.node[t] = fl BY Zenon, <1>1, <2>1
  <2>8. ASSUME NEW i \in Id, i # t
        PROVE  /\ H.node[i].opq = G.node[i].opq /\ H.node[i].trk = G.node[i].trk
               /\ H.node[i].prp = G.node[i].prp /\ H.node[i].taint = G.node[i].taint
    <3>1. CASE i = f
      <4>1. H.node[i] = [G.node[f] EXCEPT !.ep = epoch] BY Zenon, <1>1, <2>1, <2>8, <3>1
      <4> QED BY Zenon, <1>1, <3>1, <4>1 DEF Node
    <3>2. CASE i # f
      <4>1. H.node[i] = G.node[i] BY Zenon, <1>1, <2>1, <2>8, <3>2
      <4> QED BY Zenon, <4>1
    <3> QED BY Zenon, <3>1, <3>2
  <2>9. \A i \in Id : Above(G.node[i], H.node[i])
    <3> SUFFICES ASSUME NEW i \in Id PROVE Above(G.node[i], H.node[i]) BY Zenon
    <3>1. CASE i = t BY Zenon, <2>5, <2>7, <3>1 DEF tn
    <3>2. CASE i # t BY Zenon, <2>8, <3>2 DEF Above
    <3> QED BY Zenon, <3>1, <3>2
  <2>10. Passes(G.node[f], fl) BY Zenon, <2>6 DEF Passes
  <2>11. ASSUME NEW d \in H.edges \ G.edges
         PROVE  /\ ~G.node[d.snd[1]].opq /\ ~G.node[d.rcv[1]].opq
                /\ Ahead(G, H, d)
                /\ Passes(G.node[d.snd[1]], H.node[d.rcv[1]])
    <3>1. d = e BY Zenon, <2>1
    <3>2. d.snd[1] = f /\ d.rcv[1] = t BY <2>2, <3>1
    <3>3. Ahead(G, H, d) BY Zenon, <2>1, <2>2, <3>1 DEF Ahead, tn
    <3> QED BY Zenon, <2>3, <2>7, <2>10, <3>2, <3>3 DEF tn
  <2>12. ASSUME NEW i \in Id, NEW l \in H.node[i].taint \ G.node[i].taint PROVE Received(H, i, l)
    <3>1. i = t BY Zenon, <2>8, <2>12
    <3>2. l \in fl.taint /\ l \notin tn.taint BY Zenon, <2>7, <3>1 DEF tn
    <3>3. l \in fn.taint /\ ~FilterPropagateRelation(type) BY Zenon, <2>5, <3>2
    <3>4. f # t BY Zenon, <3>2, <3>3 DEF tn
    <3>5. l \in H.node[f].taint BY Zenon, <2>8, <3>3, <3>4
    <3>6. e \in H.edges /\ e.rcv[1] = t /\ e.snd[1] = f BY <2>1, <2>2
    <3> QED BY Zenon, <2>2, <3>1, <3>3, <3>4, <3>5, <3>6 DEF Received
  <2>13. Records(G, H) BY Zenon, <2>1, <2>9, <2>11, <2>12 DEF Records
  <2> QED BY Zenon, <2>13 DEF H
<1> QED BY Zenon, <1>2, <1>3

\* What every step is shown to do to a graph that satisfies GraphInv, and what
\* every operation of a hook is.
Keeps(G, H) == GraphInv(H) /\ Grows(G, H)
Good(G, H)  == GraphInv(H) /\ Grows(G, H) /\ Records(G, H)

\* A relation between two nodes, whose sender is marked or a log entry.
LEMMA WriteRelationGood ==
    ASSUME Globals, NEW G, GraphInv(G), NEW type \in RelType,
           NEW f, f \in Id, f < G.next, MaySend(G.node[f]), NEW t, Known(G, t), f # t,
           \/ ~G.node[t].out
           \/ /\ type \in KeepsVersion \cup {"RL_LOG"}
              /\ \A d \in G.edges : d.snd[1] # f /\ d.rcv[1] # f
    PROVE  Good(G, WriteRelation(G, type, f, G.node[f], t))
<1> DEFINE H == WriteRelation(G, type, f, G.node[f], t)
<1>1. /\ G \in Graph /\ G.node[f] \in Node /\ t \in Id /\ t < G.next /\ Stream(G)
      /\ MarkTrue(G, f, G.node[f])
    BY Zenon DEF GraphInv, Graph, Known, Stream
<1>2. Adds(G, H, f, G.node[f].ver, t) BY Zenon, <1>1, WriteRelationEdges
<1>3. Stream(H) BY Zenon, <1>1, WriteRelationStream
<1>4. Records(G, H)
  <2>1. \/ type \in KeepsVersion \cup {"RL_LOG"} \/ G.wrapped
        \/ \A d \in G.edges : d.snd # <<t, G.node[t].ver>>
    <3>1. G.wrapped \/ Ordered(G) BY Zenon DEF GraphInv
    <3>2. G.node[t].type # "ENT_STR" BY Zenon DEF Known
    <3>3. ASSUME Ordered(G), ~G.node[t].out, NEW d \in G.edges PROVE d.snd # <<t, G.node[t].ver>>
      BY <3>2, <3>3 DEF Ordered, MaySend
    <3> QED BY Zenon, <3>1, <3>3
  <2> QED BY Zenon, <1>1, <2>1, WriteRelationRecords
<1> HIDE DEF H
<1>5. MaySend(H.node[f]) /\ Marks(G, H) BY Zenon, <1>2 DEF Adds, Marks, MaySend, SameKind, InodeType
<1>6. GraphInv(H) /\ Grows(G, H)
  <2>1. CASE H.edges = G.edges BY Zenon, <1>3, <1>5, <2>1, MarksInv
  <2>2. ASSUME NEW e \in Edge, e.snd = <<f, G.node[f].ver>>, e.rcv = <<t, G.node[t].ver>>,
               H.edges = G.edges \cup {e}
        PROVE  GraphInv(H) /\ Grows(G, H)
    BY Zenon, <1>3, <1>5, <2>2, AddEdge
  <2> QED BY Zenon, <1>2, <2>1, <2>2 DEF Adds
<1>7. Good(G, H) BY Zenon, <1>4, <1>6 DEF Good
<1> QED BY Zenon, <1>7 DEF H

\* A new version of a node is a fresh vertex without outgoing edge, tied to the
\* old one: the invariant is kept (__update_version, record_terminate,
\* update_inode_type).
LEMMA NewVersionInv ==
    ASSUME Globals, NEW G, GraphInv(G), NEW type \in RelType, NEW t, Known(G, t),
           NEW n \in Node, n.ver = G.node[t].ver, SameKind(G.node[t].type, n.type),
           n.opq = G.node[t].opq, n.trk = G.node[t].trk, n.prp = G.node[t].prp, n.taint = G.node[t].taint,
           NEW H, H = NewVersion(G, type, t, n)
    PROVE  Good(G, H) /\ H.next = G.next /\ ~H.node[t].out
<1> DEFINE ver == (n.ver + 1) % VersionMod
           n1  == [n EXCEPT !.ver = ver, !.ep = 0]
           G1  == [G EXCEPT !.node[t] = n1, !.wrapped = @ \/ ver = 0]
           G2  == WriteRelation(G1, type, t, G.node[t], t)
<1>1. G \in Graph /\ t \in Id /\ G.node[t] \in Node BY Zenon DEF GraphInv, Graph, Known
<1>2. /\ ver \in Version /\ n.ver \in Version
      /\ ver = 0 \/ ver = n.ver + 1
  <2>1. n.ver \in 0..(VersionMod - 1) BY Zenon DEF Node, Version
  <2>2. VersionMod \in Nat /\ VersionMod > 1 BY Zenon, RecordAssumption
  <2>3. CASE n.ver + 1 = VersionMod BY <2>1, <2>2, <2>3 DEF Version
  <2>4. CASE n.ver + 1 < VersionMod BY <2>1, <2>2, <2>4 DEF Version
  <2> QED BY <2>1, <2>2, <2>3, <2>4
<1>3. /\ n1 \in Node /\ n1.ver = ver /\ n1.type = n.type /\ n1.ep = 0
      /\ n1.opq = n.opq /\ n1.trk = n.trk /\ n1.prp = n.prp /\ n1.taint = n.taint
    BY Zenon, <1>2 DEF Node
<1>4. /\ G1.node = [G.node EXCEPT ![t] = n1] /\ G1.next = G.next /\ G1.edges = G.edges
      /\ G1.wrapped = (G.wrapped \/ ver = 0) /\ G1.written = G.written
    BY Zenon, <1>1 DEF Graph
<1>5. G1 \in Graph BY Zenon, <1>1, <1>3 DEF Graph
<1> HIDE DEF G1, n1, ver
<1>6. Adds(G1, G2, t, G.node[t].ver, t)
  <2>1. t < G1.next BY Zenon, <1>4 DEF Known
  <2> QED BY Zenon, <1>1, <1>5, <2>1, WriteRelationEdges
<1>7. H = [G2 EXCEPT !.node[t].out = FALSE] BY Zenon DEF NewVersion, G1, n1, ver
<1>8. Stream(G) /\ MarkTrue(G, t, G.node[t]) BY Zenon, <1>1 DEF GraphInv, Stream
<1>9. G1.node[t] = n1 /\ \A i \in Id : i # t => G1.node[i] = G.node[i] BY Zenon, <1>1, <1>4 DEF Graph
<1>10. Stream(G2)
  <2>1. Stream(G1) BY Zenon, <1>3, <1>4, <1>8, <1>9, QuietStream
  <2>2. MarkTrue(G1, t, G.node[t]) BY Zenon, <1>4, <1>8 DEF MarkTrue, Sent
  <2> QED BY Zenon, <1>1, <1>5, <2>1, <2>2, WriteRelationStream
<1>11. Records(G1, G2)
  <2>1. ASSUME ~G1.wrapped, NEW d \in G1.edges PROVE d.snd # <<t, ver>>
    <3>1. ~G.wrapped /\ ver = n.ver + 1 /\ d \in G.edges BY Zenon, <1>2, <1>4, <2>1
    <3>2. d.snd[1] = t => d.snd[2] <= n.ver BY Zenon, <3>1 DEF GraphInv, Ordered
    <3> QED BY <1>2, <3>1, <3>2 DEF Version
  <2>2. \/ type \in KeepsVersion \cup {"RL_LOG"} \/ G1.wrapped
        \/ \A d \in G1.edges : d.snd # <<t, G1.node[t].ver>>
    BY Zenon, <1>3, <1>9, <2>1
  <2> QED BY Zenon, <1>1, <1>3, <1>5, <1>9, <2>2, WriteRelationRecords
<1> HIDE DEF G2
<1>12. G2 \in Graph BY Zenon, <1>6 DEF Adds, Marks
<1>13. /\ H.node = [G2.node EXCEPT ![t].out = FALSE] /\ H.next = G2.next /\ H.edges = G2.edges
      /\ H.wrapped = G2.wrapped /\ H.written = G2.written /\ H \in Graph
  <2>1. G2.node[t] \in Node BY Zenon, <1>1, <1>12 DEF Graph
  <2>2. [G2.node[t] EXCEPT !.out = FALSE] \in Node BY Zenon, <2>1 DEF Node
  <2>3. [G2.node EXCEPT ![t].out = FALSE] \in [Id -> Node] BY Zenon, <1>12, <2>2 DEF Graph
  <2> QED BY Zenon, <1>7, <1>12, <2>3 DEF Graph
<1>14. /\ H.node[t].ver = ver /\ ~H.node[t].out /\ SameKind(G.node[t].type, H.node[t].type)
       /\ \A i \in Id : i # t => /\ H.node[i].ver = G.node[i].ver
                                 /\ SameKind(G.node[i].type, H.node[i].type)
                                 /\ G.node[i].out => H.node[i].out
                                 /\ i >= G.next => H.node[i] = G.node[i]
  <2>1. G2.node \in [Id -> Node] /\ G.node \in [Id -> Node] BY Zenon, <1>12, <1>1 DEF Graph
  <2>2. \A i \in Id : i # t => H.node[i] = G2.node[i] /\ G1.node[i] = G.node[i] BY Zenon, <1>13, <1>4, <2>1
  <2>3. H.node[t].ver = G2.node[t].ver /\ H.node[t].type = G2.node[t].type /\ ~H.node[t].out
    BY <1>1, <1>13, <2>1 DEF Node
  <2>4. G1.node[t] = n1 BY Zenon, <1>1, <1>4, <2>1
  <2>5. \A i \in Id : /\ G2.node[i].ver = G1.node[i].ver /\ G2.node[i].out = G1.node[i].out
                      /\ SameKind(G1.node[i].type, G2.node[i].type)
                      /\ i >= G1.next => G2.node[i] = G1.node[i]
    BY Zenon, <1>6 DEF Adds, Marks
  <2>6. SameKind(G.node[t].type, H.node[t].type)
    <3>1. SameKind(n.type, H.node[t].type) BY Zenon, <1>1, <1>3, <2>3, <2>4, <2>5
    <3> QED BY Zenon, <3>1 DEF SameKind
  <2>7. H.node[t].ver = ver BY Zenon, <1>1, <1>3, <2>3, <2>4, <2>5
  <2>8. ASSUME NEW i \in Id, i # t
        PROVE  /\ H.node[i].ver = G.node[i].ver /\ SameKind(G.node[i].type, H.node[i].type)
               /\ G.node[i].out => H.node[i].out
               /\ i >= G.next => H.node[i] = G.node[i]
    BY Zenon, <1>4, <2>2, <2>5, <2>8
  <2> QED BY Zenon, <2>3, <2>6, <2>7, <2>8
<1>15. H.next = G.next BY Zenon, <1>4, <1>6, <1>13 DEF Adds, Marks
<1>16. Grows(G, H)
  <2>1. ASSUME NEW i \in Id PROVE SameKind(G.node[i].type, H.node[i].type)
    <3>1. CASE i = t BY Zenon, <1>14, <3>1
    <3>2. CASE i # t BY Zenon, <1>14, <3>2
    <3> QED BY Zenon, <3>1, <3>2
  <2> QED BY <1>1, <1>15, <2>1, GraphFields DEF Grows
<1>17. \A d \in H.edges : d.snd[1] < H.next /\ d.rcv[1] < H.next
    BY <1>4, <1>6, <1>13, <1>15 DEF GraphInv, Known, Adds
<1>18. \A i \in Id : i >= H.next => H.node[i] = NewNode("free")
  <2> SUFFICES ASSUME NEW i \in Id, i >= G.next PROVE H.node[i] = NewNode("free") BY Zenon, <1>15
  <2>1. i # t BY <1>1 DEF Known, Id, Graph
  <2> QED BY Zenon, <1>14, <2>1 DEF GraphInv
<1>19. H.wrapped \/ Ordered(H)
  <2> SUFFICES ASSUME ~H.wrapped PROVE Ordered(H) BY Zenon
  <2>1. ~G.wrapped /\ ver = n.ver + 1 BY Zenon, <1>2, <1>4, <1>6, <1>13 DEF Adds, Marks
  <2>2. Ordered(G) BY Zenon, <2>1 DEF GraphInv
  <2>3. \A d \in G.edges : /\ d.snd \in Vertex /\ d.rcv \in Vertex
                           /\ d.snd[1] \in Id /\ d.rcv[1] \in Id
                           /\ d.snd[2] \in Nat /\ d.rcv[2] \in Nat
    BY <1>1 DEF Graph, Edge, Vertex, Version
  <2>4. n.ver \in Nat BY <1>2 DEF Version
  <2>5. \A d \in G.edges : d.snd # <<t, ver>>
    BY <1>1, <2>1, <2>2, <2>3, <2>4 DEF Ordered
  <2>6. \A d \in G.edges : /\ d.snd[2] <= H.node[d.snd[1]].ver
                           /\ d.rcv[2] <= H.node[d.rcv[1]].ver
                           /\ d.snd[2] = H.node[d.snd[1]].ver => MaySend(H.node[d.snd[1]])
    <3> SUFFICES ASSUME NEW d \in G.edges
                 PROVE  /\ d.snd[2] <= H.node[d.snd[1]].ver
                        /\ d.rcv[2] <= H.node[d.rcv[1]].ver
                        /\ d.snd[2] = H.node[d.snd[1]].ver => MaySend(H.node[d.snd[1]])
      BY Zenon
    <3>1. /\ d.snd[2] <= G.node[d.snd[1]].ver /\ d.rcv[2] <= G.node[d.rcv[1]].ver
          /\ d.snd[2] = G.node[d.snd[1]].ver => MaySend(G.node[d.snd[1]])
      BY Zenon, <2>2 DEF Ordered
    <3>2. d.rcv[2] <= H.node[d.rcv[1]].ver
      <4>1. CASE d.rcv[1] = t BY <1>14, <2>1, <2>3, <2>4, <3>1, <4>1
      <4>2. CASE d.rcv[1] # t BY Zenon, <1>14, <2>3, <3>1, <4>2
      <4> QED BY Zenon, <4>1, <4>2
    <3>3. /\ d.snd[2] <= H.node[d.snd[1]].ver
          /\ d.snd[2] = H.node[d.snd[1]].ver => MaySend(H.node[d.snd[1]])
      <4>1. CASE d.snd[1] = t BY <1>14, <2>1, <2>3, <2>4, <3>1, <4>1
      <4>2. CASE d.snd[1] # t BY Zenon, <1>14, <2>3, <3>1, <4>2 DEF MaySend, SameKind, InodeType
      <4> QED BY Zenon, <4>1, <4>2
    <3> QED BY Zenon, <3>2, <3>3
  <2>7. CASE H.edges = G.edges BY Zenon, <2>2, <2>6, <2>7 DEF Ordered
  <2>8. ASSUME NEW e \in Edge, e.snd = <<t, n.ver>>, e.rcv = <<t, ver>>, H.edges = G.edges \cup {e}
        PROVE  Ordered(H)
    <3>1. e.snd # e.rcv BY <2>1, <2>4, <2>8
    <3>2. Ranked(Vertex, H.edges) BY <2>2, <2>3, <2>5, <2>8, <3>1, RankSink DEF Ordered, Edge
    <3>3. /\ e.snd[2] <= H.node[e.snd[1]].ver
          /\ e.rcv[2] <= H.node[e.rcv[1]].ver
          /\ e.snd[2] = H.node[e.snd[1]].ver => MaySend(H.node[e.snd[1]])
      BY <1>14, <2>1, <2>4, <2>8
    <3> QED BY Zenon, <2>6, <2>8, <3>2, <3>3 DEF Ordered
  <2>9. G1.node[t].ver = ver BY Zenon, <1>1, <1>3, <1>4 DEF Graph
  <2> QED BY Zenon, <1>4, <1>6, <1>13, <2>7, <2>8, <2>9 DEF Adds
<1>20. H.node[Machine].type # "ENT_STR"
  <2>1. SameKind(G.node[Machine].type, H.node[Machine].type) BY Zenon, <1>16, MachineId DEF Grows, GraphInv, Machine
  <2> QED BY Zenon, <2>1, MachineId, KindKept DEF GraphInv
<1>21. Stream(H)
  <2>1. \A i \in Id : H.node[i].ep = G2.node[i].ep /\ H.node[i].ver = G2.node[i].ver
    BY <1>12, <1>13 DEF Graph, Node
  <2> QED BY Zenon, <1>13, <1>8, <1>10, <2>1, QuietStream
<1>22. Records(G, H)
  <2>1. Records(G, G1)
    <3>1. \A i \in Id : Above(G.node[i], G1.node[i]) /\ G1.node[i].taint = G.node[i].taint
      BY Zenon, <1>3, <1>9 DEF Above
    <3>2. G1.edges = G.edges /\ (G.wrapped => G1.wrapped) BY Zenon, <1>4
    <3> QED BY ONLY Zenon, <3>1, <3>2, QuietRecords
  <2>2. Records(G2, H)
    <3>1. \A i \in Id : Above(G2.node[i], H.node[i]) /\ H.node[i].taint = G2.node[i].taint
      <4> SUFFICES ASSUME NEW i \in Id
                   PROVE  Above(G2.node[i], H.node[i]) /\ H.node[i].taint = G2.node[i].taint
        BY Zenon
      <4>1. G2.node \in [Id -> Node] BY Zenon, <1>12 DEF Graph
      <4>2. CASE i = t
        <5>1. H.node[i] = [G2.node[t] EXCEPT !.out = FALSE] BY Zenon, <1>13, <4>1, <4>2
        <5> QED BY Zenon, <4>1, <4>2, <5>1 DEF Node, Above
      <4>3. CASE i # t
        <5>1. H.node[i] = G2.node[i] BY Zenon, <1>13, <4>1, <4>3
        <5> QED BY Zenon, <5>1 DEF Above
      <4> QED BY Zenon, <4>2, <4>3
    <3>2. H.edges = G2.edges /\ (G2.wrapped => H.wrapped) BY Zenon, <1>13
    <3> QED BY ONLY Zenon, <3>1, <3>2, QuietRecords
  <2>3. Records(G, G2) BY Zenon, <1>1, <1>5, <1>12, <1>11, <2>1, RecordsTrans
  <2> QED BY Zenon, <1>1, <1>12, <1>13, <2>2, <2>3, RecordsTrans
<1>23. GraphInv(H) BY Zenon, <1>13, <1>15, <1>17, <1>18, <1>19, <1>20, <1>21 DEF GraphInv
<1> QED BY Zenon, <1>14, <1>15, <1>16, <1>22, <1>23 DEF Good
-----------------------------------------------------------------------------
\* Operations compose.
LEMMA GoodTrans ==
    ASSUME NEW G, NEW H, NEW K, GraphInv(G), Good(G, H), Good(H, K)
    PROVE  Good(G, K)
BY Zenon, GrowsTrans, RecordsTrans DEF Good, GraphInv

\* A step keeps every node that was allocated.
LEMMA KeepsKnown ==
    ASSUME NEW G, NEW H, GraphInv(G), Keeps(G, H), NEW i, Known(G, i)
    PROVE  Known(H, i)
BY DEF Keeps, GraphInv, Grows, Known, Id, Graph, SameKind, InodeType

\* So does an operation.
LEMMA GoodKnown ==
    ASSUME NEW G, NEW H, GraphInv(G), Good(G, H), NEW i, Known(G, i)
    PROVE  Known(H, i)
BY Zenon, KeepsKnown DEF Good, Keeps

\* Doing nothing is an operation.
LEMMA GoodSelf ==
    ASSUME NEW G, GraphInv(G)
    PROVE  Good(G, G)
<1>1. Records(G, G) BY Zenon, QuietRecords DEF Above
<1> QED BY <1>1 DEF Good, GraphInv, Grows, SameKind, Graph

\* So is setting the result.
LEMMA GoodRc ==
    ASSUME NEW G, GraphInv(G), NEW x \in {OK, EPERM, ENOMEM, EINVAL}
    PROVE  Good(G, [G EXCEPT !.rc = x])
<1> DEFINE H == [G EXCEPT !.rc = x]
<1>1. G \in Graph BY Zenon DEF GraphInv
<1>2. /\ H \in Graph /\ H.node = G.node /\ H.next = G.next /\ H.edges = G.edges
      /\ H.wrapped = G.wrapped /\ H.written = G.written
    BY Zenon, <1>1 DEF Graph
<1> HIDE DEF H
<1>3. Marks(G, H) BY Zenon, <1>2 DEF Marks, SameKind
<1>4. Stream(H) BY Zenon, <1>2, QuietStream DEF GraphInv
<1>5. GraphInv(H) /\ Grows(G, H) BY Zenon, <1>2, <1>3, <1>4, MarksInv
<1>6. Records(G, H) BY Zenon, <1>2, QuietRecords DEF Above
<1> QED BY Zenon, <1>5, <1>6 DEF Good, H

\* n is node m with other marks: its version, its recorded mark, its kind and its
\* labels stay, and no flag is cleared.
Remark(m, n) ==
    /\ n.ver = m.ver /\ n.ep = m.ep /\ SameKind(m.type, n.type) /\ (m.out => n.out)
    /\ Above(m, n) /\ n.taint = m.taint

\* A node may get other marks, whatever happens to its flags: the invariant stays.
LEMMA NodeInv ==
    ASSUME NEW G, GraphInv(G), NEW i, Known(G, i), NEW n \in Node,
           n.ver = G.node[i].ver, n.ep = G.node[i].ep, SameKind(G.node[i].type, n.type), G.node[i].out => n.out
    PROVE  LET H == [G EXCEPT !.node[i] = n] IN
           /\ GraphInv(H) /\ Grows(G, H)
           /\ H.node = [G.node EXCEPT ![i] = n] /\ H.next = G.next /\ H.edges = G.edges
           /\ H.wrapped = G.wrapped
<1> DEFINE H == [G EXCEPT !.node[i] = n]
<1>1. G \in Graph /\ i \in Id /\ i < G.next BY Zenon DEF GraphInv, Known
<1>2. /\ H \in Graph /\ H.node = [G.node EXCEPT ![i] = n] /\ H.next = G.next
      /\ H.edges = G.edges /\ H.wrapped = G.wrapped /\ H.written = G.written
    BY Zenon, <1>1 DEF Graph
<1> HIDE DEF H
<1>3. ASSUME NEW j \in Id
      PROVE  /\ H.node[j].ver = G.node[j].ver /\ SameKind(G.node[j].type, H.node[j].type)
             /\ G.node[j].out => H.node[j].out
             /\ j >= G.next => H.node[j] = G.node[j]
             /\ H.node[j].ep = G.node[j].ep
  <2>1. G.node \in [Id -> Node] /\ G.next \in Nat BY Zenon, <1>1 DEF Graph
  <2>2. CASE j = i
    <3>1. H.node[i] = n BY Zenon, <1>1, <1>2, <2>1
    <3>2. ~(i >= G.next) BY <1>1, <2>1 DEF Id
    <3> QED BY Zenon, <2>2, <3>1, <3>2
  <2>3. CASE j # i BY Zenon, <1>2, <2>1, <2>3 DEF SameKind
  <2> QED BY Zenon, <2>2, <2>3
<1>4. Marks(G, H) BY Zenon, <1>2, <1>3 DEF Marks
<1>5. Stream(H) BY Zenon, <1>2, <1>3, QuietStream DEF GraphInv
<1>6. GraphInv(H) /\ Grows(G, H) BY Zenon, <1>2, <1>4, <1>5, MarksInv
<1> QED BY Zenon, <1>2, <1>6 DEF H

\* A node gets other marks: the operation is a good one if the node is Remark'ed.
LEMMA NodeMarks ==
    ASSUME NEW G, GraphInv(G), NEW i, Known(G, i), NEW n \in Node, Remark(G.node[i], n)
    PROVE  /\ Good(G, [G EXCEPT !.node[i] = n])
           /\ [G EXCEPT !.node[i] = n].node = [G.node EXCEPT ![i] = n]
           /\ [G EXCEPT !.node[i] = n].next = G.next
           /\ [G EXCEPT !.node[i] = n].edges = G.edges
<1> DEFINE H == [G EXCEPT !.node[i] = n]
<1>1. G.node \in [Id -> Node] BY Zenon DEF GraphInv, Graph
<1>2. /\ GraphInv(H) /\ Grows(G, H)
      /\ H.node = [G.node EXCEPT ![i] = n] /\ H.next = G.next /\ H.edges = G.edges
      /\ H.wrapped = G.wrapped
    BY NodeInv DEF Remark
<1> HIDE DEF H
<1>3. ASSUME NEW j \in Id PROVE Above(G.node[j], H.node[j]) /\ H.node[j].taint = G.node[j].taint
  <2>1. CASE j = i
    <3>1. H.node[j] = n BY Zenon, <1>1, <1>2, <2>1
    <3> QED BY Zenon, <2>1, <3>1 DEF Remark
  <2>2. CASE j # i
    <3>1. H.node[j] = G.node[j] BY Zenon, <1>1, <1>2, <2>2
    <3> QED BY Zenon, <3>1 DEF Above
  <2> QED BY Zenon, <2>1, <2>2
<1>4. H.edges = G.edges /\ (G.wrapped => H.wrapped) BY Zenon, <1>2
<1>5. Records(G, H) BY ONLY Zenon, <1>3, <1>4, QuietRecords
<1> QED BY Zenon, <1>2, <1>5 DEF Good, H

\* After __update_version for a flow, the receiver has no outgoing edge; for a
\* name or a version relation nothing changes.
LEMMA UpdateVersionInv ==
    ASSUME Globals, NEW G, GraphInv(G), NEW type \in RelType, NEW t, Known(G, t)
    PROVE  /\ Good(G, UpdateVersion(G, type, t))
           /\ UpdateVersion(G, type, t).next = G.next
           /\ type \notin KeepsVersion => ~UpdateVersion(G, type, t).node[t].out
           /\ type \in KeepsVersion =>
                /\ UpdateVersion(G, type, t).edges = G.edges
                /\ UpdateVersion(G, type, t).node = G.node
<1> DEFINE n == G.node[t]
           H == UpdateVersion(G, type, t)
<1>1. G \in Graph /\ n \in Node /\ t \in Id BY Zenon DEF GraphInv, Known, Graph
<1>2. CASE (~n.out /\ policy.compress_node) \/ type \in KeepsVersion
  <2>1. H = [G EXCEPT !.rc = OK] BY Zenon, <1>2 DEF UpdateVersion
  <2>2. Good(G, H) BY Zenon, <2>1, GoodRc
  <2>3. H.next = G.next /\ H.node = G.node /\ H.edges = G.edges BY Zenon, <1>1, <2>1 DEF Graph
  <2> QED BY Zenon, <1>2, <2>2, <2>3
<1>3. CASE ~((~n.out /\ policy.compress_node) \/ type \in KeepsVersion)
  <2> DEFINE vt == IF n.type = "ACT_TASK" THEN "RL_VERSION_TASK" ELSE "RL_VERSION"
  <2>1. H = NewVersion(G, vt, t, n) BY Zenon, <1>3 DEF UpdateVersion
  <2>2. vt \in RelType BY Zenon DEF RelType, Informed, Derived
  <2>3. n.ver = G.node[t].ver /\ SameKind(G.node[t].type, n.type) BY Zenon DEF SameKind
  <2> HIDE DEF vt, n, H
  <2>4. n.opq = G.node[t].opq /\ n.trk = G.node[t].trk /\ n.prp = G.node[t].prp /\ n.taint = G.node[t].taint
    BY Zenon DEF n
  <2>5. Good(G, H) /\ H.next = G.next /\ ~H.node[t].out
    BY <1>1, <2>1, <2>2, <2>3, <2>4, NewVersionInv
  <2> QED BY Zenon, <1>3, <2>5 DEF H
<1> QED BY Zenon, <1>2, <1>3

\* A relation between two different nodes either counts as a flow, or comes from
\* a node that no edge touches.
LEMMA RecordRelationInv ==
    ASSUME Globals, NEW G, GraphInv(G), NEW type \in RelType,
           NEW f, Known(G, f), NEW t, Known(G, t), f # t,
           type \notin KeepsVersion \/ \A d \in G.edges : d.snd[1] # f /\ d.rcv[1] # f
    PROVE  Good(G, RecordRelation(G, type, f, t))
<1> DEFINE n1 == [G.node[t] EXCEPT !.pid = f, !.ptype = type]
           Ga == [G EXCEPT !.node[t] = n1]
           G1 == IF policy.compress_edge
                 THEN [G EXCEPT !.node[t].pid = f, !.node[t].ptype = type] ELSE G
           G2 == UpdateVersion(G1, type, t)
           n3 == [G2.node[f] EXCEPT !.out = TRUE]
           G3 == [G2 EXCEPT !.node[f].out = TRUE]
           G4 == WriteRelation(G3, type, f, G3.node[f], t)
<1>1. G \in Graph /\ G.node[t] \in Node /\ f \in Id /\ t \in Id BY Zenon DEF GraphInv, Known, Graph
<1>2. Good(G, G1) /\ G1.edges = G.edges
  <2>1. n1 \in Node /\ Remark(G.node[t], n1) BY Zenon, <1>1 DEF Node, Remark, SameKind, Above
  <2>2. G1 = Ga \/ G1 = G BY Zenon, <1>1 DEF Graph
  <2> HIDE DEF n1
  <2>3. Good(G, Ga) /\ Ga.edges = G.edges BY <2>1, NodeMarks
  <2>4. Good(G, G) BY Zenon, GoodSelf
  <2> QED BY Zenon, <2>2, <2>3, <2>4
<1> HIDE DEF G1
<1>3. GraphInv(G1) /\ Known(G1, f) /\ Known(G1, t) BY Zenon, <1>2, GoodKnown DEF Good
<1>4. /\ Good(G1, G2)
      /\ \/ ~G2.node[t].out
         \/ type \in KeepsVersion /\ \A d \in G2.edges : d.snd[1] # f /\ d.rcv[1] # f
    BY <1>2, <1>3, UpdateVersionInv
<1> HIDE DEF G2
<1>5. GraphInv(G2) /\ Known(G2, f) /\ Known(G2, t) BY Zenon, <1>3, <1>4, GoodKnown DEF Good
<1>6. G2 \in Graph /\ G2.node[f] \in Node BY Zenon, <1>5 DEF GraphInv, Known, Graph
<1>7. Good(G2, G3) /\ G3.node = [G2.node EXCEPT ![f] = n3] /\ G3.edges = G2.edges
  <2>1. n3 \in Node /\ Remark(G2.node[f], n3) BY Zenon, <1>6 DEF Node, Remark, SameKind, Above
  <2>2. G3 = [G2 EXCEPT !.node[f] = n3] BY Zenon
  <2> HIDE DEF n3, G3
  <2> QED BY <1>5, <2>1, <2>2, NodeMarks
<1>8. /\ G3.node[f].out
      /\ \/ ~G3.node[t].out
         \/ type \in KeepsVersion /\ \A d \in G3.edges : d.snd[1] # f /\ d.rcv[1] # f
  <2>1. n3.out BY Zenon, <1>6 DEF Node
  <2>2. G2.node \in [Id -> Node] BY Zenon, <1>6 DEF Graph
  <2> HIDE DEF n3, G3
  <2> QED BY Zenon, <1>1, <1>4, <1>7, <2>1, <2>2
<1> HIDE DEF G3
<1>9. GraphInv(G3) /\ Known(G3, f) /\ Known(G3, t) BY Zenon, <1>5, <1>7, GoodKnown DEF Good
<1>10. MaySend(G3.node[f]) /\ f < G3.next BY Zenon, <1>8, <1>9 DEF MaySend, Known
<1>11. Good(G3, G4) BY Zenon, <1>1, <1>8, <1>9, <1>10, WriteRelationGood
<1> HIDE DEF G4
<1>12. Good(G, G2) BY Zenon, <1>2, <1>4, GoodTrans
<1>13. Good(G, G4) BY Zenon, <1>5, <1>7, <1>9, <1>11, <1>12, GoodTrans
<1>14. Good(G, [G EXCEPT !.rc = OK]) BY Zenon, GoodRc
<1>15. RecordRelation(G, type, f, t) =
            IF Compressed(G, type, f, t) THEN [G EXCEPT !.rc = OK] ELSE Then(G2, G4)
    BY Zenon DEF RecordRelation, ThenWrite, G1, G2, G3, G4
<1>16. Then(G2, G4) = G2 \/ Then(G2, G4) = G4 BY Zenon DEF Then
<1> QED BY Zenon, <1>12, <1>13, <1>14, <1>15, <1>16

\* record_terminate keeps the invariant.
LEMMA RecordTerminateInv ==
    ASSUME Globals, NEW G, GraphInv(G), NEW type \in RelType, NEW t, Known(G, t)
    PROVE  Good(G, RecordTerminate(G, type, t))
<1> DEFINE n == G.node[t]
<1>1. /\ n \in Node /\ n.ver = G.node[t].ver /\ SameKind(G.node[t].type, n.type)
      /\ n.opq = G.node[t].opq /\ n.trk = G.node[t].trk /\ n.prp = G.node[t].prp /\ n.taint = G.node[t].taint
    BY Zenon DEF GraphInv, Known, Graph, SameKind
<1> HIDE DEF n
<1>2. Good(G, NewVersion(G, type, t, n)) BY Zenon, <1>1, NewVersionInv
<1>3. Good(G, [G EXCEPT !.rc = OK]) BY Zenon, GoodRc
<1> QED BY Zenon, <1>2, <1>3 DEF RecordTerminate, n

\* alloc_provenance gives a node that no edge touches.
LEMMA AllocInv ==
    ASSUME NEW G, GraphInv(G), G.next \in Id, NEW ntype \in NodeType
    PROVE  LET H == Alloc(G, ntype) IN
           /\ Good(G, H) /\ H.next = G.next + 1
           /\ ntype # "ENT_STR" => Known(H, G.next)
           /\ H.edges = G.edges
           /\ H.node[G.next] = NewNode(ntype)
           /\ \A i \in Id : i # G.next => H.node[i] = G.node[i]
<1> DEFINE H == Alloc(G, ntype)
           nf == [i \in Id |-> IF i = G.next THEN NewNode(ntype) ELSE G.node[i]]
<1>1. G \in Graph BY Zenon DEF GraphInv
<1>2. NewNode(ntype) \in Node
  <2>1. 0 \in Version BY RecordAssumption DEF Version
  <2> QED BY Zenon, <2>1 DEF NewNode, Node, Id
<1>3. nf \in [Id -> Node] BY Zenon, <1>1, <1>2 DEF Graph
<1>4. /\ H \in Graph /\ H.node = nf /\ H.next = G.next + 1 /\ H.edges = G.edges
      /\ H.wrapped = G.wrapped /\ H.written = G.written
  <2>1. H = [G EXCEPT !.node = nf, !.next = G.next + 1] BY Zenon DEF Alloc
  <2> HIDE DEF H, nf
  <2>2. G.next + 1 \in Nat BY <1>1 DEF Graph
  <2>3. /\ H.node = nf /\ H.next = G.next + 1 /\ H.edges = G.edges /\ H.wrapped = G.wrapped
        /\ H.written = G.written
    BY Zenon, <1>1, <2>1 DEF Graph
  <2>4. H \in Graph BY Zenon, <1>1, <1>3, <2>1, <2>2 DEF Graph
  <2> QED BY Zenon, <2>3, <2>4
<1> HIDE DEF H
<1>5. H.node[G.next] = NewNode(ntype) BY Zenon, <1>4
<1>6. \A i \in Id : i # G.next => H.node[i] = G.node[i] BY Zenon, <1>4
<1>7. G.next \in Nat BY Zenon, <1>1 DEF Graph
<1>8. Grows(G, H) BY <1>4, <1>6, <1>7 DEF Grows, SameKind, Id
<1>9. \A i \in Id : i >= H.next => H.node[i] = NewNode("free")
    BY <1>4, <1>6, <1>7 DEF GraphInv, Id
<1>10. \A e \in G.edges : /\ e.snd[1] \in Id /\ e.rcv[1] \in Id
                          /\ e.snd[1] < G.next /\ e.rcv[1] < G.next
    BY Zenon, <1>1 DEF GraphInv, Graph, Edge, Vertex
<1>11. \A e \in H.edges : e.snd[1] < H.next /\ e.rcv[1] < H.next
    BY <1>4, <1>7, <1>10 DEF Id
<1>12. Ordered(G) => Ordered(H)
  <2>1. \A e \in G.edges : /\ H.node[e.snd[1]] = G.node[e.snd[1]]
                           /\ H.node[e.rcv[1]] = G.node[e.rcv[1]]
    BY <1>6, <1>7, <1>10 DEF Id
  <2> QED BY Zenon, <1>4, <2>1 DEF Ordered
<1>13. Stream(H) /\ Records(G, H)
  <2>1. H.node[G.next].ep = 0 /\ H.node[G.next].taint = {} BY <1>5 DEF NewNode
  <2>2. Stream(H) BY Zenon, <1>4, <1>6, <2>1, QuietStream DEF GraphInv
  <2>3. G.node[G.next] = NewNode("free") BY <1>7 DEF GraphInv
  <2>4. ASSUME NEW i \in Id PROVE Above(G.node[i], H.node[i]) /\ H.node[i].taint = G.node[i].taint
    <3>1. CASE i = G.next BY <1>5, <2>3, <3>1 DEF Above, NewNode
    <3>2. CASE i # G.next BY Zenon, <1>6, <3>2 DEF Above
    <3> QED BY Zenon, <3>1, <3>2
  <2>5. H.edges = G.edges /\ (G.wrapped => H.wrapped) BY Zenon, <1>4
  <2>6. Records(G, H) BY ONLY Zenon, <2>4, <2>5, QuietRecords
  <2> QED BY Zenon, <2>2, <2>6
<1>14. GraphInv(H) BY <1>4, <1>6, <1>7, <1>9, <1>11, <1>12, <1>13, MachineId DEF GraphInv, Machine
<1>15. ntype # "ENT_STR" => Known(H, G.next) BY <1>4, <1>5, <1>7 DEF Known, NewNode
<1> QED BY Zenon, <1>4, <1>5, <1>6, <1>8, <1>13, <1>14, <1>15 DEF Good, H

\* record_node_name keeps the invariant: the name is a new node.
LEMMA RecordNodeNameInv ==
    ASSUME Globals, NEW G, GraphInv(G), NEW t, Known(G, t), NEW force, NEW mem
    PROVE  Good(G, RecordNodeName(G, t, force, mem))
<1> DEFINE n    == G.node[t]
           type == IF n.type = "ACT_TASK" THEN "RL_NAMED_PROCESS" ELSE "RL_NAMED"
           Ga   == Alloc(G, "ENT_PATH")
           G1   == RecordRelation(Ga, type, G.next, t)
           n2   == [G1.node[t] EXCEPT !.nep = epoch]
           G2   == [G1 EXCEPT !.node[t].nep = epoch]
<1>1. type \in RelType BY Zenon DEF RelType, Used, Derived
<1>2. G.next \in Id => Good(G, G2)
  <2> SUFFICES ASSUME G.next \in Id PROVE Good(G, G2) BY Zenon
  <2>1. "ENT_PATH" \in NodeType BY Zenon DEF NodeType
  <2>2. Good(G, Ga) /\ Known(Ga, G.next) /\ Ga.edges = G.edges BY Zenon, <2>1, AllocInv
  <2> HIDE DEF Ga, type
  <2>3. GraphInv(Ga) /\ Known(Ga, t) BY Zenon, <2>2, GoodKnown DEF Good
  <2>4. G.next # t BY DEF Known, Id, GraphInv, Graph
  <2>5. \A d \in Ga.edges : d.snd[1] # G.next /\ d.rcv[1] # G.next
    BY <2>2 DEF GraphInv, Graph, Edge, Vertex, Id
  <2>6. Good(Ga, G1) BY Zenon, <1>1, <2>2, <2>3, <2>4, <2>5, RecordRelationInv
  <2> HIDE DEF G1
  <2>7. GraphInv(G1) /\ Known(G1, t) BY Zenon, <2>3, <2>6, GoodKnown DEF Good
  <2>8. G1.node[t] \in Node BY Zenon, <2>7 DEF GraphInv, Known, Graph
  <2>9. n2 \in Node BY Zenon, <2>8 DEF Node, Globals
  <2>10. Remark(G1.node[t], n2) BY Zenon, <2>8 DEF Node, Remark, SameKind, Above
  <2>11. G2 = [G1 EXCEPT !.node[t] = n2] BY Zenon
  <2> HIDE DEF n2, G2
  <2>12. Good(G1, G2) BY Zenon, <2>7, <2>9, <2>10, <2>11, NodeMarks
  <2> QED BY Zenon, <2>2, <2>3, <2>6, <2>7, <2>12, GoodTrans
<1>3. Good(G, [G EXCEPT !.rc = OK]) /\ Good(G, [G EXCEPT !.rc = ENOMEM]) BY Zenon, GoodRc
<1>4. \/ RecordNodeName(G, t, force, mem) = [G EXCEPT !.rc = OK]
      \/ RecordNodeName(G, t, force, mem) = [G EXCEPT !.rc = ENOMEM]
      \/ G.next \in Id /\ RecordNodeName(G, t, force, mem) = G2
    BY Zenon DEF RecordNodeName
<1> QED BY Zenon, <1>2, <1>3, <1>4

\* record_kernel_link keeps the invariant for any node but the machine itself.
LEMMA RecordKernelLinkInv ==
    ASSUME Globals, NEW G, GraphInv(G), NEW t, Known(G, t), t # Machine
    PROVE  Good(G, RecordKernelLink(G, t))
<1> DEFINE G1 == RecordRelation(G, "RL_RAN_ON", Machine, t)
           n2 == [G1.node[t] EXCEPT !.kv = G1.node[Machine].ver]
           G2 == [G1 EXCEPT !.node[t].kv = G1.node[Machine].ver]
<1>1. "RL_RAN_ON" \in RelType /\ "RL_RAN_ON" \notin KeepsVersion
    BY Zenon DEF RelType, Associated, KeepsVersion
<1>2. Known(G, Machine) BY RecordAssumption DEF Known, Machine, GraphInv, Id
<1>3. Good(G, G1) BY Zenon, <1>1, <1>2, RecordRelationInv
<1> HIDE DEF G1
<1>4. GraphInv(G1) /\ Known(G1, t) /\ Known(G1, Machine) BY Zenon, <1>2, <1>3, GoodKnown DEF Good
<1>5. G1.node[t] \in Node /\ G1.node[Machine] \in Node BY Zenon, <1>4 DEF GraphInv, Known, Graph
<1>6. n2 \in Node BY <1>5 DEF Node, Version
<1>7. Remark(G1.node[t], n2) BY Zenon, <1>5 DEF Node, Remark, SameKind, Above
<1>8. G2 = [G1 EXCEPT !.node[t] = n2] BY Zenon
<1>9. Good(G1, G2)
  <2> HIDE DEF n2, G2
  <2> QED BY Zenon, <1>4, <1>6, <1>7, <1>8, NodeMarks
<1>10. Good(G, G2) BY Zenon, <1>3, <1>9, GoodTrans
<1>11. Good(G, [G EXCEPT !.rc = OK]) BY Zenon, GoodRc
<1> QED BY Zenon, <1>10, <1>11 DEF RecordKernelLink, SetKernelRecorded, G1
-----------------------------------------------------------------------------
\* Stopping at the first failure composes.
LEMMA ThenInv ==
    ASSUME NEW G, NEW G1, NEW G2, Good(G, G1), Good(G, G2)
    PROVE  Good(G, Then(G1, G2))
BY Zenon DEF Then

\* A guarded call composes.
LEMMA WhenInv ==
    ASSUME NEW G, NEW G1, NEW G2, NEW c, Good(G, G1), Good(G, G2)
    PROVE  Good(G, When(c, G1, G2))
BY Zenon DEF When

\* Resetting the result at the top of a function.
LEMMA StartInv ==
    ASSUME NEW G, GraphInv(G)
    PROVE  Good(G, Start(G))
BY Zenon, GoodRc DEF Start

\* apply_target changes marks only.
LEMMA ApplyTargetInv ==
    ASSUME Globals, NEW G, GraphInv(G), NEW ids, \A i \in ids : Known(G, i)
    PROVE  Good(G, ApplyTarget(G, ids))
<1> DEFINE op(i) == IF HasOwner(G.node[i].type) THEN target[i] ELSE {}
           m(i)  == [G.node[i] EXCEPT !.trk = @ \/ "tracked" \in op(i),
                                      !.prp = @ \/ "propagate" \in op(i),
                                      !.opq = @ \/ "opaque" \in op(i)]
           nf    == [i \in Id |-> IF i \in ids THEN m(i) ELSE G.node[i]]
           H     == ApplyTarget(G, ids)
<1>1. G \in Graph /\ G.next \in Nat /\ G.node \in [Id -> Node] BY Zenon DEF GraphInv, Graph
<1>2. ASSUME NEW i \in Id
      PROVE  /\ m(i) \in Node /\ m(i).ver = G.node[i].ver /\ m(i).type = G.node[i].type
             /\ m(i).out = G.node[i].out /\ m(i).ep = G.node[i].ep
             /\ Above(G.node[i], m(i)) /\ m(i).taint = G.node[i].taint
  <2>1. G.node[i] \in Node BY Zenon, <1>1
  <2> HIDE DEF op
  <2>2. /\ m(i) \in Node /\ m(i).ver = G.node[i].ver /\ m(i).type = G.node[i].type
        /\ m(i).out = G.node[i].out /\ m(i).ep = G.node[i].ep /\ m(i).taint = G.node[i].taint
    BY Zenon, <2>1 DEF Node
  <2>3. Above(G.node[i], m(i)) BY Zenon, <2>1 DEF Node, Above
  <2> QED BY Zenon, <2>2, <2>3
<1>3. H = [G EXCEPT !.node = nf] BY Zenon DEF ApplyTarget
<1> HIDE DEF m, op, H
<1>4. nf \in [Id -> Node] BY Zenon, <1>1, <1>2
<1>5. \A i \in Id : /\ nf[i].ver = G.node[i].ver /\ nf[i].type = G.node[i].type /\ nf[i].out = G.node[i].out
                    /\ nf[i].ep = G.node[i].ep /\ nf[i].taint = G.node[i].taint
                    /\ Above(G.node[i], nf[i])
  <2> SUFFICES ASSUME NEW i \in Id
               PROVE  /\ nf[i].ver = G.node[i].ver /\ nf[i].type = G.node[i].type
                      /\ nf[i].out = G.node[i].out /\ nf[i].ep = G.node[i].ep
                      /\ nf[i].taint = G.node[i].taint /\ Above(G.node[i], nf[i])
    BY Zenon
  <2>1. CASE i \in ids BY Zenon, <1>2, <2>1
  <2>2. CASE i \notin ids BY Zenon, <2>2 DEF Above
  <2> QED BY Zenon, <2>1, <2>2
<1>6. \A i \in Id : i >= G.next => nf[i] = G.node[i] BY <1>1 DEF Known, Id
<1> HIDE DEF nf
<1>7. /\ H \in Graph /\ H.node = nf /\ H.next = G.next /\ H.edges = G.edges
      /\ H.wrapped = G.wrapped /\ H.written = G.written
    BY Zenon, <1>1, <1>3, <1>4 DEF Graph
<1>8. Marks(G, H) BY Zenon, <1>5, <1>6, <1>7 DEF Marks, SameKind
<1>9. Stream(H) BY Zenon, <1>5, <1>7, QuietStream DEF GraphInv
<1>10. Records(G, H)
  <2>1. \A i \in Id : Above(G.node[i], H.node[i]) /\ H.node[i].taint = G.node[i].taint BY Zenon, <1>5, <1>7
  <2>2. H.edges = G.edges /\ (G.wrapped => H.wrapped) BY Zenon, <1>7
  <2> QED BY ONLY Zenon, <2>1, <2>2, QuietRecords
<1> QED BY Zenon, <1>7, <1>8, <1>9, <1>10, MarksInv DEF Good, H

\* The shared files a process maps are known nodes other than its credentials.
MapsKnown(G, mem, maps) ==
    /\ maps \in Seq(Mapping)
    /\ \A k \in DOMAIN maps : Known(G, maps[k].file) /\ maps[k].file # mem

\* The loop of current_update_shst keeps the invariant: a mapped file is not the
\* credentials of the process.
LEMMA CurrentUpdateShstInv ==
    ASSUME Globals, NEW G, GraphInv(G), NEW mem, Known(G, mem), NEW maps, MapsKnown(G, mem, maps),
           NEW read
    PROVE  Good(G, CurrentUpdateShst(G, mem, maps, read))
<1>1. {"RL_SH_READ", "RL_SH_WRITE"} \subseteq RelType \ KeepsVersion
    BY Zenon DEF RelType, Derived, KeepsVersion
<1>2. ASSUME NEW K, GraphInv(K), Good(G, K), NEW k \in DOMAIN maps
      PROVE  Good(G, UpdateShst(K, mem, maps[k], read))
  <2>1. Known(K, mem) /\ Known(K, maps[k].file) /\ maps[k].file # mem
    BY Zenon, <1>2, GoodKnown DEF MapsKnown
  <2>2. Good(K, RecordRelation(K, "RL_SH_READ", maps[k].file, mem)) BY Zenon, <1>1, <1>2, <2>1, RecordRelationInv
  <2>3. Good(K, RecordRelation(K, "RL_SH_WRITE", mem, maps[k].file)) BY Zenon, <1>1, <1>2, <2>1, RecordRelationInv
  <2>4. Good(K, UpdateShst(K, mem, maps[k], read)) BY Zenon, <1>2, <2>2, <2>3, GoodSelf DEF UpdateShst
  <2> QED BY Zenon, <1>2, <2>4, GoodTrans
<1> DEFINE G0 == Start(G)
           G1 == IF Len(maps) >= 1 THEN UpdateShst(G0, mem, maps[1], read) ELSE G0
           G2 == IF Len(maps) >= 2 THEN UpdateShst(G1, mem, maps[2], read) ELSE G1
<1>3. /\ Len(maps) \in Nat
      /\ Len(maps) >= 1 => 1 \in DOMAIN maps
      /\ Len(maps) >= 2 => 2 \in DOMAIN maps
    BY DEF MapsKnown
<1>4. Good(G, G0) /\ GraphInv(G0) BY Zenon, StartInv DEF Good
<1> HIDE DEF G0
<1>5. Good(G, G1) /\ GraphInv(G1) BY Zenon, <1>2, <1>3, <1>4 DEF Good
<1> HIDE DEF G1
<1>6. Good(G, G2) BY Zenon, <1>2, <1>3, <1>5
<1> QED BY Zenon, <1>6 DEF CurrentUpdateShst, G0, G1

\* What the relation functions ask of their arguments.
Flows == RelType \ KeepsVersion
\* One more operation after a chain of them.
LEMMA Chain ==
    ASSUME NEW G, NEW H, NEW K, GraphInv(G), Good(G, H), Good(H, K)
    PROVE  Good(G, K) /\ GraphInv(K) /\ \A i : Known(G, i) => Known(K, i)
BY Zenon, GoodTrans, GoodKnown DEF Good

\* One more call after a chain of them that stops at the first failure.
LEMMA ThenChain ==
    ASSUME NEW G, NEW H, NEW K, GraphInv(G), Good(G, H), Good(H, K)
    PROVE  /\ Good(G, Then(H, K)) /\ GraphInv(Then(H, K))
           /\ \A i : Known(G, i) => Known(Then(H, K), i)
<1>1. Good(G, K) /\ GraphInv(H) BY Zenon, GoodTrans DEF Good
<1>2. Good(G, Then(H, K)) BY Zenon, <1>1, ThenInv
<1> HIDE DEF Then
<1> QED BY Zenon, <1>2, GoodKnown DEF Good

\* What a later call may assume after an operation.
LEMMA GoodFacts ==
    ASSUME NEW G, NEW H, GraphInv(G), Good(G, H)
    PROVE  GraphInv(H) /\ \A i : Known(G, i) => Known(H, i)
BY Zenon, GoodKnown DEF Good

\* The mapped files stay known nodes.
LEMMA MapsGrow ==
    ASSUME NEW G, NEW H, GraphInv(G), Good(G, H), NEW mem, NEW maps, MapsKnown(G, mem, maps)
    PROVE  MapsKnown(H, mem, maps)
BY Zenon, GoodKnown DEF MapsKnown

\* uses keeps the invariant when entity and activity, and activity and memory,
\* are different nodes.
LEMMA UsesInv ==
    ASSUME Globals, NEW G, GraphInv(G), NEW type \in Flows,
           NEW entity, NEW activity, NEW mem, NEW maps,
           Known(G, entity), Known(G, activity), Known(G, mem), MapsKnown(G, mem, maps),
           entity # activity, activity # mem, activity # Machine
    PROVE  Good(G, Uses(G, type, entity, activity, mem, maps))
<1> DEFINE ids == {entity, activity, mem}
           G0  == ApplyTarget(G, ids)
           G1  == RecordRelation(G0, type, entity, activity)
           C2  == RecordKernelLink(G1, activity)
           G2  == Then(G1, C2)
           C3  == RecordRelation(G2, "RL_PROC_WRITE", activity, mem)
           G3  == Then(G2, C3)
           C4  == CurrentUpdateShst(G3, mem, maps, FALSE)
           G4  == Then(G3, C4)
           R   == [G0 EXCEPT !.rc = OK]
<1>1. "RL_PROC_WRITE" \in Flows BY Zenon DEF Flows, RelType, Generated, KeepsVersion
<1>2. Good(G, G0) BY Zenon, ApplyTargetInv
<1> HIDE DEF G0
<1>3. GraphInv(G0) /\ Known(G0, entity) /\ Known(G0, activity) BY Zenon, <1>2, GoodFacts
<1>4. Good(G0, G1) BY Zenon, <1>3, RecordRelationInv DEF Flows
<1> HIDE DEF G1
<1>5. Good(G, G1) /\ GraphInv(G1) /\ Known(G1, activity) BY Zenon, <1>2, <1>4, Chain
<1>6. Good(G1, C2) BY Zenon, <1>5, RecordKernelLinkInv
<1> HIDE DEF C2
<1>7. Good(G, G2) /\ GraphInv(G2) /\ Known(G2, activity) /\ Known(G2, mem) BY Zenon, <1>5, <1>6, ThenChain
<1> HIDE DEF G2
<1>8. Good(G2, C3) BY Zenon, <1>1, <1>7, RecordRelationInv DEF Flows
<1> HIDE DEF C3
<1>9. Good(G, G3) /\ GraphInv(G3) /\ Known(G3, mem) BY Zenon, <1>7, <1>8, ThenChain
<1> HIDE DEF G3
<1>10. MapsKnown(G3, mem, maps) BY Zenon, <1>9, MapsGrow
<1>11. Good(G3, C4) BY Zenon, <1>9, <1>10, CurrentUpdateShstInv
<1> HIDE DEF C4
<1>12. Good(G, G4) BY Zenon, <1>9, <1>11, ThenChain
<1> HIDE DEF G4
<1>13. Good(G, R) BY Zenon, <1>2, <1>3, GoodRc, GoodTrans
<1> QED BY Zenon, <1>12, <1>13 DEF Uses, ThenLink, ThenRelation, ThenShst, G0, G1, G2, G3, G4, C2, C3, C4

\* uses_two keeps the invariant when its two nodes differ.
LEMMA UsesTwoInv ==
    ASSUME Globals, NEW G, GraphInv(G), NEW type \in Flows, NEW entity, NEW activity,
           Known(G, entity), Known(G, activity), entity # activity, activity # Machine
    PROVE  Good(G, UsesTwo(G, type, entity, activity))
<1> DEFINE ids == {entity, activity}
           G0  == ApplyTarget(G, ids)
           G1  == RecordRelation(G0, type, entity, activity)
           G2  == RecordKernelLink(G1, activity)
           R   == [G0 EXCEPT !.rc = OK]
<1>1. Good(G, G0) BY Zenon, ApplyTargetInv
<1> HIDE DEF G0
<1>2. GraphInv(G0) /\ Known(G0, entity) /\ Known(G0, activity) BY Zenon, <1>1, GoodFacts
<1>3. Good(G0, G1) BY Zenon, <1>2, RecordRelationInv DEF Flows
<1> HIDE DEF G1
<1>4. Good(G, G1) /\ GraphInv(G1) /\ Known(G1, activity) BY Zenon, <1>1, <1>3, Chain
<1>5. Good(G1, G2) BY Zenon, <1>4, RecordKernelLinkInv
<1> HIDE DEF G2
<1>6. Good(G, G2) BY Zenon, <1>4, <1>5, GoodTrans
<1>7. Good(G, R) BY Zenon, <1>1, <1>2, GoodRc, GoodTrans
<1>8. Good(G, Then(G1, G2)) BY Zenon, <1>4, <1>6, ThenInv
<1> QED BY Zenon, <1>7, <1>8 DEF UsesTwo, ThenLink, G0, G1, G2

\* generates keeps the invariant when memory and activity, and activity and
\* entity, are different nodes.
LEMMA GeneratesInv ==
    ASSUME Globals, NEW G, GraphInv(G), NEW type \in Flows,
           NEW mem, NEW activity, NEW entity, NEW maps,
           Known(G, entity), Known(G, activity), Known(G, mem), MapsKnown(G, mem, maps),
           entity # activity, activity # mem, activity # Machine
    PROVE  Good(G, Generates(G, type, mem, activity, entity, maps))
<1> DEFINE ids == {mem, activity, entity}
           Ga  == ApplyTarget(G, ids)
           n0  == [Ga.node[activity] EXCEPT !.trk = @ \/ Ga.node[mem].trk, !.opq = @ \/ Ga.node[mem].opq]
           G0  == [Ga EXCEPT !.node[activity].trk = @ \/ Ga.node[mem].trk,
                             !.node[activity].opq = @ \/ Ga.node[mem].opq]
           G1  == CurrentUpdateShst(G0, mem, maps, TRUE)
           C2  == RecordRelation(G1, "RL_PROC_READ", mem, activity)
           G2  == Then(G1, C2)
           C3  == RecordKernelLink(G2, activity)
           G3  == Then(G2, C3)
           C4  == RecordRelation(G3, type, activity, entity)
           G4  == Then(G3, C4)
           R   == [G0 EXCEPT !.rc = OK]
<1>1. "RL_PROC_READ" \in Flows BY Zenon DEF Flows, RelType, Used, KeepsVersion
<1>2. Good(G, Ga) BY Zenon, ApplyTargetInv
<1> HIDE DEF Ga
<1>3. GraphInv(Ga) /\ Known(Ga, activity) /\ Known(Ga, mem) BY Zenon, <1>2, GoodFacts
<1>4. /\ Ga \in Graph /\ Ga.node[activity] \in Node
      /\ DOMAIN Ga.node[activity] = DOMAIN NewNode("free") /\ activity \in DOMAIN Ga.node /\ "node" \in DOMAIN Ga
  <2>1. Ga \in Graph /\ activity \in Id BY Zenon, <1>3 DEF GraphInv, Known
  <2>2. Ga.node \in [Id -> Node] /\ "node" \in DOMAIN Ga BY Zenon, <2>1 DEF Graph
  <2>3. Ga.node[activity] \in Node /\ activity \in DOMAIN Ga.node BY Zenon, <2>1, <2>2
  <2> QED BY Zenon, <2>1, <2>2, <2>3 DEF Node, NewNode
<1>5. Good(Ga, G0)
  <2>1. n0 \in Node BY Zenon, <1>4 DEF Node
  <2>2. Remark(Ga.node[activity], n0) BY Zenon, <1>4 DEF Node, Remark, SameKind, Above
  <2>3. G0 = [Ga EXCEPT !.node[activity] = n0]
    <3>1. PICK x, y : x = (Ga.node[activity].trk \/ Ga.node[mem].trk) /\ y = (Ga.node[activity].opq \/ Ga.node[mem].opq)
      BY Zenon
    <3>2. n0 = [Ga.node[activity] EXCEPT !.trk = x, !.opq = y] BY Zenon, <3>1
    <3>3. G0 = [Ga EXCEPT !.node[activity].trk = x, !.node[activity].opq = y] BY Zenon, <1>4, <3>1
    <3> HIDE DEF n0, G0
    <3> QED BY Zenon, <1>4, <3>2, <3>3
  <2> HIDE DEF n0, G0
  <2> QED BY Zenon, <1>3, <2>1, <2>2, <2>3, NodeMarks
<1> HIDE DEF G0
<1>6. Good(G, G0) /\ GraphInv(G0) /\ Known(G0, mem) BY Zenon, <1>2, <1>5, Chain
<1>7. MapsKnown(G0, mem, maps) BY Zenon, <1>6, MapsGrow
<1>8. Good(G0, G1) BY Zenon, <1>6, <1>7, CurrentUpdateShstInv
<1> HIDE DEF G1
<1>9. Good(G, G1) /\ GraphInv(G1) /\ Known(G1, mem) /\ Known(G1, activity) BY Zenon, <1>6, <1>8, Chain
<1>10. Good(G1, C2) BY Zenon, <1>1, <1>9, RecordRelationInv DEF Flows
<1> HIDE DEF C2
<1>11. Good(G, G2) /\ GraphInv(G2) /\ Known(G2, activity) BY Zenon, <1>9, <1>10, ThenChain
<1> HIDE DEF G2
<1>12. Good(G2, C3) BY Zenon, <1>11, RecordKernelLinkInv
<1> HIDE DEF C3
<1>13. Good(G, G3) /\ GraphInv(G3) /\ Known(G3, activity) /\ Known(G3, entity) BY Zenon, <1>11, <1>12, ThenChain
<1> HIDE DEF G3
<1>14. Good(G3, C4) BY Zenon, <1>13, RecordRelationInv DEF Flows
<1> HIDE DEF C4
<1>15. Good(G, G4) BY Zenon, <1>13, <1>14, ThenChain
<1> HIDE DEF G4
<1>16. Good(G, R) BY Zenon, <1>6, GoodRc, GoodTrans
<1> QED BY Zenon, <1>15, <1>16 DEF Generates, ThenRelation, ThenLink, Ga, G0, G1, G2, G3, G4, C2, C3, C4

\* derives keeps the invariant when its two nodes differ.
LEMMA DerivesInv ==
    ASSUME Globals, NEW G, GraphInv(G), NEW type \in Flows, NEW from, NEW to,
           Known(G, from), Known(G, to), from # to
    PROVE  Good(G, Derives(G, type, from, to))
<1> DEFINE G0 == ApplyTarget(G, {from, to})
           G1 == RecordRelation(G0, type, from, to)
           R  == [G0 EXCEPT !.rc = OK]
<1>1. Good(G, G0) BY Zenon, ApplyTargetInv
<1> HIDE DEF G0
<1>2. GraphInv(G0) /\ Known(G0, from) /\ Known(G0, to) BY Zenon, <1>1, GoodFacts
<1>3. Good(G0, G1) BY Zenon, <1>2, RecordRelationInv DEF Flows
<1>4. Good(G, G1) BY Zenon, <1>1, <1>3, GoodTrans
<1>5. Good(G, R) BY Zenon, <1>1, <1>2, GoodRc, GoodTrans
<1> QED BY Zenon, <1>4, <1>5 DEF Derives, G0

\* informs keeps the invariant when its two nodes differ.
LEMMA InformsInv ==
    ASSUME Globals, NEW G, GraphInv(G), NEW type \in Flows, NEW from, NEW to,
           Known(G, from), Known(G, to), from # to, from # Machine, to # Machine
    PROVE  Good(G, Informs(G, type, from, to))
<1> DEFINE G0 == ApplyTarget(G, {from, to})
           G1 == RecordKernelLink(G0, from)
           C2 == RecordKernelLink(G1, to)
           G2 == Then(G1, C2)
           C3 == RecordRelation(G2, type, from, to)
           G3 == Then(G2, C3)
           R  == [G0 EXCEPT !.rc = OK]
<1>1. Good(G, G0) BY Zenon, ApplyTargetInv
<1> HIDE DEF G0
<1>2. GraphInv(G0) /\ Known(G0, from) BY Zenon, <1>1, GoodFacts
<1>3. Good(G0, G1) BY Zenon, <1>2, RecordKernelLinkInv
<1> HIDE DEF G1
<1>4. Good(G, G1) /\ GraphInv(G1) /\ Known(G1, to) BY Zenon, <1>1, <1>3, Chain
<1>5. Good(G1, C2) BY Zenon, <1>4, RecordKernelLinkInv
<1> HIDE DEF C2
<1>6. Good(G, G2) /\ GraphInv(G2) /\ Known(G2, from) /\ Known(G2, to) BY Zenon, <1>4, <1>5, ThenChain
<1> HIDE DEF G2
<1>7. Good(G2, C3) BY Zenon, <1>6, RecordRelationInv DEF Flows
<1> HIDE DEF C3
<1>8. Good(G, G3) BY Zenon, <1>6, <1>7, ThenChain
<1> HIDE DEF G3
<1>9. Good(G, R) BY Zenon, <1>1, <1>2, GoodRc, GoodTrans
<1> QED BY Zenon, <1>8, <1>9 DEF Informs, ThenRelation, ThenLink, G0, G1, G2, G3, C2, C3

\* record_influences_kernel keeps the invariant: the file flows to the task, the
\* task to the machine.
LEMMA InfluencesKernelInv ==
    ASSUME Globals, NEW G, GraphInv(G), NEW type \in Flows, NEW entity, NEW activity,
           Known(G, entity), Known(G, activity), entity # activity, activity # Machine
    PROVE  Good(G, InfluencesKernel(G, type, entity, activity))
<1> DEFINE G0 == ApplyTarget(G, {entity, activity})
           G1 == RecordRelation(G0, "RL_LOAD_FILE", entity, activity)
           G2 == RecordRelation(G1, type, activity, Machine)
           R  == [G0 EXCEPT !.rc = OK]
<1>1. "RL_LOAD_FILE" \in Flows BY Zenon DEF Flows, RelType, Used, KeepsVersion
<1>2. Known(G, Machine) BY RecordAssumption DEF Known, Machine, GraphInv, Id
<1>3. Good(G, G0) BY Zenon, ApplyTargetInv
<1> HIDE DEF G0
<1>4. GraphInv(G0) /\ Known(G0, entity) /\ Known(G0, activity) BY Zenon, <1>3, GoodFacts
<1>5. Good(G0, G1) BY Zenon, <1>1, <1>4, RecordRelationInv DEF Flows
<1> HIDE DEF G1
<1>6. Good(G, G1) /\ GraphInv(G1) /\ Known(G1, activity) /\ Known(G1, Machine) BY Zenon, <1>2, <1>3, <1>5, Chain
<1>7. Good(G1, G2) BY Zenon, <1>6, RecordRelationInv DEF Flows
<1> HIDE DEF G2
<1>8. Good(G, G2) BY Zenon, <1>6, <1>7, GoodTrans
<1>9. Good(G, R) BY Zenon, <1>3, <1>4, GoodRc, GoodTrans
<1>10. Good(G, Then(G1, G2)) BY Zenon, <1>6, <1>8, ThenInv
<1> QED BY Zenon, <1>9, <1>10 DEF InfluencesKernel, ThenRelation, G0, G1, G2

\* A later epoch changes nothing in a graph that satisfies the invariant.
LEMMA EpochInv ==
    ASSUME GraphInv(g'), epoch \in Nat, epoch' \in Nat, epoch' >= epoch
    PROVE  GraphInv(g)'
<1>1. g' \in Graph BY Zenon DEF GraphInv
<1>2. ASSUME NEW i \in Id PROVE MarkTrue(g, i, g.node[i])'
  <2>1. MarkTrue(g', i, g'.node[i]) /\ g'.node[i].ep \in Nat BY Zenon, <1>1 DEF GraphInv, Stream, Graph, Node
  <2> QED BY <2>1 DEF MarkTrue, Sent
<1>3. Stream(g)' BY Zenon, <1>2 DEF GraphInv, Stream, Sent
<1> QED BY Zenon, <1>3 DEF GraphInv, Ordered

\* A graph that satisfies GraphInv and whose counters have not wrapped has no
\* cycle.
LEMMA GraphInvAcyclic ==
    ASSUME NEW G, GraphInv(G), ~G.wrapped
    PROVE  Acyclic(G.edges)
<1>1. Ranked(Vertex, G.edges) BY Zenon DEF GraphInv, Ordered
<1>2. \A e \in G.edges : e.snd \in Vertex /\ e.rcv \in Vertex BY Zenon DEF GraphInv, Graph, Edge
<1> QED BY Zenon, <1>1, <1>2, RankedAcyclic
=============================================================================
