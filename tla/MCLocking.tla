------------------------------ MODULE MCLocking -----------------------------
(* Two threads, of one process or of two; pairs of hooks that meet on a node. *)
EXTENDS Locking

Threads == {"ta", "tb"}
Inodes == {"file", "map", "in", "out", "sock", "peer"}
MappedBy == [c1 |-> {}, c2 |-> {"map"}]
Peers == [sock |-> "peer"]

On(hook, i) == [hook |-> hook, i |-> i, o |-> "none"]
Move(in, out) == [hook |-> "splice", i |-> in, o |-> out]
Signal(i, t) == [hook |-> "sigio", i |-> i, o |-> t]
Pair(c, h, k, irq) == [ta |-> [cred |-> "c1", does |-> h], tb |-> [cred |-> c, does |-> k], irq |-> irq]
Packet == On("rcv_skb", "sock")

PairPlans == {
    Pair("c1", On("read", "file"), On("write", "file"), {Signal("file", "ta")}),
    Pair("c1", On("may_send", "sock"), On("write", "file"), {Packet}),
    Pair("c1", Move("in", "out"), Move("out", "in"), {}),
    Pair("c2", On("write", "file"), On("write", "file"), {}),
    Pair("c1", On("load", "file"), On("read", "file"), {}),
    Pair("c2", Move("in", "out"), On("read", "in"), {}),
    Pair("c2", On("write", "map"), On("read", "file"), {}),
    Pair("c1", On("read", "sock"), On("may_send", "sock"), {Packet}),
    Pair("c2", On("load", "file"), Signal("file", "ta"), {}),
    Pair("c2", On("read", "file"), On("sendmsg", "sock"), {Packet})}
=============================================================================
