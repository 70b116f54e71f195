---------------------------- MODULE SocketHooks -----------------------------
(***************************************************************************)
(* The hooks on sockets and packets, and the netfilter hook on outgoing    *)
(* packets.                                                                *)
(*                                                                         *)
(* The node of a socket is that of its inode.  Its protocol end (struct    *)
(* sock) carries a pointer to the credentials of the process that created  *)
(* it (owner).  A connected Unix stream knows the end of its peer: the     *)
(* peer's owner, and the peer's inode once the connection is accepted.     *)
(***************************************************************************)
EXTENDS Capture

CONSTANTS Socks,        \* the sockets there are at first: family, creator, peer or 0
          Syscalls,     \* what processes do with sockets
          Families,     \* families of the sockets processes create
          FilterOps,    \* options the ingress and egress filters give an address
          HeadersRepeat,\* may two packets carry the same header fields
          MaxPackets    \* bound on the packets sent or received

Family == {"stream", "dgram", "inet"}

ASSUME SocketHooksAssumption ==
    /\ Socks \in Seq([fam : Family, by : Proc, peer : 0..Len(Socks)])
    /\ Len(Socks) + 2 * NProc <= MaxId
    /\ Syscalls \subseteq {"create", "pair", "bind", "connect", "accept", "msg", "packet", "close"}
    /\ Families \subseteq Family
    /\ FilterOps \subseteq SUBSET {"tracked", "propagate", "record"}
    /\ HeadersRepeat \in BOOLEAN /\ MaxPackets \in Nat

VARIABLES sock,     \* the sockets, by inode
          sent      \* history: the task versions that sent to a socket

sockVars == <<vars, sock, sent>>

\* peer is the owner of the peer's end and pino its inode; pend is the listening
\* socket a connection waits on; rec says that packet contents are recorded.
NoSock == [fam |-> "none", owner |-> NoId, peer |-> NoId, pino |-> NoId, pend |-> NoId,
           lsn |-> FALSE, rec |-> FALSE]
Sock == [fam : Family \cup {"none", "new"}, owner : Id \cup {NoId}, peer : Id \cup {NoId},
         pino : Id \cup {NoId}, pend : Id \cup {NoId}, lsn : BOOLEAN, rec : BOOLEAN]

Sockets == {i \in Id : sock[i].fam \in Family}
Of(fam) == {i \in Id : sock[i].fam = fam}
IsPacket(k) == g.node[k].type = "ENT_PACKET"
Packets == {k \in Id : IsPacket(k)}

\* The types of the variables; peers of accepted connections know each other.
SocketTypeOK ==
    /\ CaptureTypeOK
    /\ sock \in [Id -> Sock]
    /\ sent \in [Id -> SUBSET Vertex]
    /\ \A i \in Sockets : /\ i \in live
                          /\ sock[i].pino # NoId => sock[sock[i].pino].pino = i

\* A hook that changes the sockets to s.
SockHook(G, s) == PlainHook(G) /\ sock' = s /\ UNCHANGED sent

-----------------------------------------------------------------------------
(* Creation and release *)

\* The inode of a new socket, sk_alloc with provenance_sk_alloc_security, then
\* provenance_socket_post_create.  kern marks a socket of the kernel.
SocketCreate(p, fam, kern, mem) ==
    LET i  == g.next
        c  == Creds(p)
        G0 == GetCred(Alloc(g, "ENT_INODE_UNKNOWN"), p, mem)
        G1 == Enter(G0, p, mem)
        G2 == [G1 EXCEPT !.node[i].trk = @ \/ G1.node[c].trk \/ G1.node[Tasks(p)].trk]
        G  == IF kern THEN Start(G1)
              ELSE Generates(G2, "RL_SOCKET_CREATE", c, Tasks(p), i, proc[p].maps)
    IN  /\ i \in Id
        /\ Hook(IF mem THEN G ELSE [g EXCEPT !.rc = ENOMEM])
        /\ live' = IF mem THEN live \cup {i} ELSE live
        /\ sock' = IF mem THEN [sock EXCEPT ![i] = [NoSock EXCEPT !.owner = c,
                                    !.fam = IF G.rc = OK THEN fam ELSE "new"]] ELSE sock
        /\ UNCHANGED <<proc, imode, sent>>

\* provenance_socket_socketpair on two sockets process p has just created.
SocketSocketpair(p, a, b, mem) ==
    LET create(G, i) == ThenGenerates(G, TRUE, "RL_SOCKET_PAIR_CREATE", Creds(p), Tasks(p), i, proc[p].maps)
        G  == create(create(Start(Enter(g, p, mem)), a), b)
        s  == [sock EXCEPT ![a].peer = sock[b].owner, ![a].pino = b,
                           ![b].peer = sock[a].owner, ![b].pino = a]
    IN  /\ a # b
        /\ \A i \in {a, b} : sock[i] = [NoSock EXCEPT !.fam = "stream", !.owner = Creds(p)]
        /\ SockHook(G, IF G.rc = OK THEN s ELSE sock)

\* The last descriptor of a socket is closed: provenance_inode_free_security.
\* The peer keeps a reference to the end, which has no inode any more.
SocketFree(i) ==
    /\ sock[i].fam # "none"
    /\ Hook(Start(RecordTerminate(g, "RL_FREED", i)))
    /\ live' = live \ {i}
    /\ sock' = [j \in Id |->
          IF j = i THEN NoSock
          ELSE [sock[j] EXCEPT !.pino = IF @ = i THEN NoId ELSE @, !.pend = IF @ = i THEN NoId ELSE @]]
    /\ UNCHANGED <<proc, imode, sent>>

-----------------------------------------------------------------------------
(* Addresses and connections *)

\* record_address: a new ENT_ADDR node names the socket.
RecordAddress(G, i, mem) ==
    LET G1 == RecordRelation(Alloc(G, "ENT_ADDR"), "RL_NAMED", G.next, i)
    IN  IF IsNameRecorded(G.node[i]) \/ ~IsRecorded(G.node[i]) THEN Start(G)
        ELSE IF ~mem \/ G.next \notin Id THEN [G EXCEPT !.rc = ENOMEM]
        ELSE [G1 EXCEPT !.node[i].nep = epoch]

\* provenance_socket_bind (RL_BIND) and provenance_socket_connect (RL_CONNECT):
\* op is what the filters of the address say, short a length that is too small.
SocketAddress(p, i, type, op, short, mem) ==
    LET c    == Creds(p)
        inet == sock[i].fam = "inet"
        ops  == IF inet THEN op ELSE {}
        G0   == Start(Enter(g, p, mem))
        mark(n) == [n EXCEPT !.trk = @ \/ "tracked" \in ops, !.prp = @ \/ "propagate" \in ops]
        G1   == [G0 EXCEPT !.node[i] = mark(@), !.node[c] = mark(G0.node[c])]
        G2   == RecordAddress(G1, i, mem)
        G3   == ThenGenerates(G2, TRUE, type, c, Tasks(p), i, proc[p].maps)
        run  == ~G0.node[c].opq
    IN  SockHook(IF ~run THEN G0 ELSE IF inet /\ short THEN [G0 EXCEPT !.rc = EINVAL] ELSE G3,
                 [sock EXCEPT ![i].rec = @ \/ (run /\ ~(inet /\ short) /\ "record" \in ops)])

\* provenance_socket_listen
SocketListen(p, i, mem) ==
    LET G == Generates(Enter(g, p, mem), "RL_LISTEN", Creds(p), Tasks(p), i, proc[p].maps)
    IN  SockHook(G, [sock EXCEPT ![i].lsn = @ \/ G.rc = OK])

\* provenance_unix_stream_connect to listening socket l.  The kernel creates the
\* peer's end here, so its owner is the connecting process.
UnixStreamConnect(p, i, l, mem) ==
    LET G == Generates(Enter(g, p, mem), "RL_CONNECT", Creds(p), Tasks(p), i, proc[p].maps)
    IN  /\ sock[i].fam = "stream" /\ sock[i].peer = NoId /\ ~sock[i].lsn
        /\ sock[l].fam = "stream" /\ sock[l].lsn
        /\ SockHook(G, IF G.rc = OK THEN [sock EXCEPT ![i].peer = Creds(p), ![i].pend = l] ELSE sock)

\* provenance_socket_accept on listening socket l: the new socket has its inode,
\* no end and no connection yet.
SocketAccept(p, l, mem) ==
    LET n  == g.next
        G0 == Enter(Alloc(g, "ENT_INODE_UNKNOWN"), p, mem)
        G1 == Derives(G0, "RL_ACCEPT_SOCKET", l, n)
        G  == ThenUses(G1, TRUE, "RL_ACCEPT", n, Tasks(p), Creds(p), proc[p].maps)
    IN  /\ sock[l].lsn /\ n \in Id
        /\ Hook(G)
        /\ live' = live \cup {n}
        /\ sock' = [sock EXCEPT ![n] = [NoSock EXCEPT !.fam = "new", !.pend = IF G.rc = OK THEN l ELSE NoId]]
        /\ UNCHANGED <<proc, imode, sent>>

\* The kernel gives the accepted socket n the end that waits for client i.
Graft(n, i) ==
    /\ sock[n].fam = "new" /\ sock[n].pend # NoId
    /\ sock[i].fam = "stream" /\ sock[i].pend = sock[n].pend
    /\ sock' = [sock EXCEPT ![i].pino = n, ![i].pend = NoId,
          ![n] = [NoSock EXCEPT !.fam = "stream", !.owner = sock[i].peer, !.peer = sock[i].owner, !.pino = i]]
    /\ UNCHANGED <<vars, sent>>

-----------------------------------------------------------------------------
(* Messages *)

\* Mutant of SocketSendmsg: the message stops at the sending socket.
SocketSendmsgOnly(p, i, mem) ==
    LET G == Generates(Enter(g, p, mem), "RL_SND_MSG", Creds(p), Tasks(p), i, proc[p].maps)
    IN  /\ PlainHook(G)
        /\ sent' = IF sock[i].pino # NoId /\ G.rc = OK /\ policy = [InitPolicy EXCEPT !.compress_edge = FALSE]
                   THEN [sent EXCEPT ![sock[i].pino] = @ \cup {<<Tasks(p), G.node[Tasks(p)].ver>>}]
                   ELSE sent
        /\ UNCHANGED sock

\* provenance_socket_sendmsg: from the task to the socket and, on a connected
\* stream, to the peer's inode if the peer's end has one.
SocketSendmsg(p, i, mem) ==
    LET peer == sock[i].pino
        G1   == Generates(Enter(g, p, mem), "RL_SND_MSG", Creds(p), Tasks(p), i, proc[p].maps)
        G    == ThenDerives(G1, peer # NoId, "RL_RCV_UNIX", i, peer)
    IN  /\ PlainHook(G)
        /\ sent' = IF peer # NoId /\ G.rc = OK /\ policy = [InitPolicy EXCEPT !.compress_edge = FALSE]
                   THEN [sent EXCEPT ![peer] = @ \cup {<<Tasks(p), G.node[Tasks(p)].ver>>}]
                   ELSE sent
        /\ UNCHANGED sock

\* provenance_socket_recvmsg: on a connected stream, first from the owner of the
\* peer's end, unless that is the receiver itself.
SocketRecvmsg(p, i, mem) ==
    LET peer == sock[i].peer
        G0   == Start(Enter(g, p, mem))
        G1   == ThenDerives(G0, peer \notin {NoId, Creds(p)}, "RL_SND_UNIX", peer, i)
    IN  SockHook(ThenUses(G1, TRUE, "RL_RCV_MSG", i, Tasks(p), Creds(p), proc[p].maps), sock)

\* provenance_unix_may_send, before a datagram goes from socket i to socket j.
UnixMaySend(i, j) ==
    /\ sock[i].fam = "dgram" /\ sock[j].fam = "dgram"
    /\ SockHook(Derives(g, "RL_SND_UNIX", sock[i].owner, j), sock)

-----------------------------------------------------------------------------
(* Packets *)

\* The node of a packet is a local variable of the hook: it is built anew each
\* time, and its identifier is made of header fields.
PacketNode(G, k) == IF k = G.next THEN Alloc(G, "ENT_PACKET")
                    ELSE [G EXCEPT !.node[k] = NewNode("ENT_PACKET")]

\* record_packet_content: nothing happens if the allocation fails.
RecordPacketContent(G, k, mem) ==
    IF ~mem \/ G.next \notin Id THEN G
    ELSE RecordRelation(Alloc(G, "ENT_PCKCNT"), "RL_PCK_CNT", G.next, k)

PacketWithContent(i, k, mem) ==
    LET G == PacketNode(g, k) IN When(sock[i].rec, G, RecordPacketContent(G, k, mem))

\* A packet that was not seen before, and room for it.
NewPacket(k) == k = g.next /\ k \in Id /\ Cardinality(Packets) < MaxPackets

\* provenance_socket_sock_rcv_skb of packet k.  same says that k has the IP
\* identification and source address of the last packet: record_relation
\* compares packets by these two fields only.
SockRcvSkb(i, k, same, mem) ==
    LET G0 == PacketWithContent(i, k, mem)
        G1 == IF same THEN [G0 EXCEPT !.node[i].pid = k] ELSE G0
    IN  /\ sock[i].fam = "inet"
        /\ IsPacket(k) \/ NewPacket(k)
        /\ same => HeadersRepeat /\ g.node[i].pid \in Packets
        /\ SockHook(IF g.node[i].trk THEN Derives(G1, "RL_RCV_PACKET", k, i) ELSE Start(g), sock)

\* provenance_ipv4_out while process p runs: packet k leaves socket i.
Ipv4Out(p, i, k, mem) ==
    LET G0 == PacketWithContent(i, k, mem)
    IN  /\ sock[i].fam = "inet"
        /\ IsPacket(k) \/ NewPacket(k)
        /\ IsPacket(k) => HeadersRepeat
        /\ SockHook(Start(IF g.node[Creds(p)].trk THEN Derives(G0, "RL_SND_PACKET", i, k) ELSE g), sock)

-----------------------------------------------------------------------------
\* The sockets, then the task of each process, then their credentials.
Init ==
    LET ns    == Len(Socks)
        cred(p) == ns + NProc + p
        types == [k \in 1..(ns + 2 * NProc) |->
                    IF k <= ns THEN "ENT_INODE_UNKNOWN"
                    ELSE IF k <= ns + NProc THEN "ACT_TASK" ELSE "ENT_PROC"]
        end(s) == [NoSock EXCEPT !.fam = s.fam, !.owner = cred(s.by),
                                 !.peer = IF s.peer = 0 THEN NoId ELSE cred(Socks[s.peer].by),
                                 !.pino = IF s.peer = 0 THEN NoId ELSE s.peer]
    IN  /\ InitConfig
        /\ g = InitGraph(types)
        /\ live = 1..Len(types)
        /\ imode = [i \in Id |-> 0]
        /\ proc = [p \in Proc |-> [task |-> ns + p, cred |-> cred(p), exe |-> NoId, maps |-> <<>>]]
        /\ sock = [i \in Id |-> IF i \in 1..ns THEN end(Socks[i]) ELSE NoSock]
        /\ sent = [i \in Id |-> {}]

HookNext ==
    \/ \E p \in Running, mem \in MemOK :
        \/ /\ "create" \in Syscalls
           /\ \E fam \in Families, kern \in BOOLEAN : SocketCreate(p, fam, kern, mem)
        \/ "pair" \in Syscalls /\ \E a, b \in Of("stream") : SocketSocketpair(p, a, b, mem)
        \/ /\ "bind" \in Syscalls
           /\ \E i \in Sockets, type \in {"RL_BIND", "RL_CONNECT"}, op \in FilterOps, short \in BOOLEAN :
                 SocketAddress(p, i, type, op, short, mem)
        \/ "accept" \in Syscalls /\ \E i \in Sockets : SocketListen(p, i, mem)
        \/ "connect" \in Syscalls /\ \E i, l \in Of("stream") : UnixStreamConnect(p, i, l, mem)
        \/ "accept" \in Syscalls /\ \E l \in Sockets : SocketAccept(p, l, mem)
        \/ "msg" \in Syscalls /\ \E i \in Sockets : SocketSendmsg(p, i, mem)
        \/ "msg" \in Syscalls /\ \E i \in Sockets : SocketRecvmsg(p, i, mem)
        \/ "packet" \in Syscalls /\ \E i \in Of("inet"), k \in Id : Ipv4Out(p, i, k, mem)
    \/ "msg" \in Syscalls /\ \E i, j \in Of("dgram") : UnixMaySend(i, j)
    \/ /\ "packet" \in Syscalls
       /\ \E i \in Of("inet"), k \in Id, same \in BOOLEAN, mem \in MemOK : SockRcvSkb(i, k, same, mem)
    \/ \E n, i \in Id : Graft(n, i)
    \/ "close" \in Syscalls /\ \E i \in Id : SocketFree(i)

Next == HookNext \/ (ConfigNext /\ UNCHANGED <<sock, sent>>)

Spec == Init /\ [][Next]_sockVars

-----------------------------------------------------------------------------
(* Properties of the socket hooks *)

\* What is sent on a stream is in the past of whoever receives it: without
\* compression of edges, a task version that receives on a socket descends from
\* every task version that has sent to that socket, whoever created the two
\* ends and whoever shares them (provenance_socket_sendmsg and _recvmsg).
StreamLineage ==
    [][\A e \in g'.edges \ g.edges :
          e.type = "RL_RCV_MSG" /\ policy = [InitPolicy EXCEPT !.compress_edge = FALSE]
          => \A v \in sent[e.snd[1]] : e.rcv \in Reached(g'.edges, {v})]_sockVars
=============================================================================
