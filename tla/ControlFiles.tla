---------------------------- MODULE ControlFiles -----------------------------
(***************************************************************************)
(* What the control files keep: the filter words and the lists of targets  *)
(* (fs.c, provenance_filter.h, provenance_ns.h, the address filters of     *)
(* provenance_net.h), and what the hooks read from them.  Capture and      *)
(* SocketHooks take the outcome of a filter as given; here is how it comes *)
(* about.  Addresses, masks and filter words are sets of one bits.         *)
(***************************************************************************)
EXTENDS TypeNames, FiniteSetsExt

CONSTANTS FilterType,   \* types a user filters
          Writes,       \* what a user writes to the lists: [list, key, op]
          Target,       \* the nodes targets are applied to, and what is compared
          Address,      \* addresses a process gives a socket: [proc, sock, ip, port]
          MaxWrites     \* bound: writes to the lists and types filtered

Use == {"record", "propagate"}
Word == {"node", "derived", "generated", "used", "informed"}
OwnerList == {"secctx", "uid", "gid"}
AddressList == {"ingress", "egress"}
List == OwnerList \cup AddressList \cup {"ns"}
Namespace == {"uts", "ipc", "mnt", "pid", "net", "cgroup"}
IgnoreNs == 0
ENOMEM == -12

\* Only types with a filter word are filtered, each list has keys of its kind, and
\* the orders of TypeNames list the categories of ProvTypes.
ASSUME ControlAssumption ==
    /\ FilterType \subseteq {t \in Relations : CategoryOf(t) \in Word} \cup NodeTested
    /\ \A w \in Writes :
          /\ w.list \in List
          /\ w.list = "ns" => DOMAIN w.key = Namespace
          /\ w.list \in AddressList => DOMAIN w.key = {"ip", "mask", "port"}
    /\ \A a \in Address : {a.proc, a.sock} \subseteq DOMAIN Target
    /\ MaxWrites \in Nat
    /\ ElementsOf(DerivedOrder) = Derived /\ ElementsOf(GeneratedOrder) = Generated
    /\ ElementsOf(UsedOrder) = Used /\ ElementsOf(InformedOrder) = Informed
    /\ ElementsOf(InfluencedOrder) = Influenced /\ ElementsOf(AssociatedOrder) = Associated
    /\ NodeType \ {"free"} \subseteq Nodes

\* The subtype bits tell the types of a category apart, the tests put every word
\* into its category, and a type has a name of its own, which the type file turns
\* back into the type.  (The name of ENT_STR is not turned back: node_id does not
\* know it.)
ASSUME TypesDistinct ==
    /\ Relations \cap Nodes = {} /\ NodeTested \subseteq Nodes
    /\ \A t1, t2 \in Relations : CategoryOf(t1) = CategoryOf(t2) =>
          (RelWord[t1] \cap RelWord[t2] \cap SubtypeMask # {} <=> t1 = t2)
    /\ \A t1, t2 \in Nodes : NodeWord[t1] \cap NodeWord[t2] \cap SubtypeMask # {} <=> t1 = t2
    /\ \A t \in Relations, c \in DOMAIN RelOrder : ProvIs(RelWord[t], c) <=> c = CategoryOf(t)
    /\ \A t \in Relations : TypeOfName(TRUE, NameOfType(TRUE, t)) = t
    /\ \A t \in NodeTested : TypeOfName(FALSE, NameOfType(FALSE, t)) = t

VARIABLES word,     \* the filter words of the policy
          list,     \* the filter lists
          flags,    \* the flags of the targets
          wanted,   \* history: the types the user asked to filter
          log       \* history: the writes to each list

vars == <<word, list, flags, wanted, log>>

Init ==
    /\ word = [u \in Use |-> [w \in Word |-> {}]]
    /\ list = [l \in List |-> <<>>]
    /\ flags = [n \in DOMAIN Target |-> {}]
    /\ wanted = [u \in Use |-> {}]
    /\ log = [l \in List |-> <<>>]

Written == Cardinality(wanted["record"]) + Cardinality(wanted["propagate"])
             + Len(log["secctx"]) + Len(log["uid"]) + Len(log["gid"]) + Len(log["ns"])
             + Len(log["ingress"]) + Len(log["egress"])

-----------------------------------------------------------------------------
(* Filter words *)

WordOf == [t \in FilterType |-> IF t \in Nodes THEN "node" ELSE CategoryOf(t)]
WordBits(t) == IF t \in Nodes THEN NodeWord[t] ELSE RelWord[t]

\* The word of a type a user names: the type file turns the name into the type.
NamedBits == [t \in FilterType |->
    WordBits(TypeOfName(t \notin Nodes, NameOfType(t \notin Nodes, t)))]

\* Mutant of WriteFilter: removing a type clears the word.
WriteFilterClears(filter, add, bits) == IF add THEN filter \cup bits ELSE {}

\* __write_filter: bits is setting.filter & setting.mask.
WriteFilter(filter, add, bits) == IF add THEN filter \cup bits ELSE filter \ bits

\* A user filters type t, or no longer.
FilterFile(u, t, add) ==
    /\ Written < MaxWrites \/ ~add
    /\ word' = [word EXCEPT ![u][WordOf[t]] = WriteFilter(@, add, NamedBits[t] \cap SubtypeMask)]
    /\ wanted' = [wanted EXCEPT ![u] = IF add THEN @ \cup {t} ELSE @ \ {t}]
    /\ UNCHANGED <<list, flags, log>>

\* filter_relation and filter_propagate_relation: the first category that fits
\* decides.  Influenced and associated relations have no filter.
FilterRelation(filters, type) ==
    IF ProvIs(type, "derived") THEN HitFilter(filters["derived"], type)
    ELSE IF ProvIs(type, "generated") THEN HitFilter(filters["generated"], type)
    ELSE IF ProvIs(type, "used") THEN HitFilter(filters["used"], type)
    ELSE ProvIs(type, "informed") /\ HitFilter(filters["informed"], type)

\* __filter_node, of a node that is not opaque while capture is enabled
FilterNode(filters, type) == HitFilter(filters["node"], type)

-----------------------------------------------------------------------------
(* Filter lists *)

EntriesOf(q, k) == {i \in DOMAIN q : q[i].key = k}
First(I) == CHOOSE i \in I : \A j \in I : i <= j
Without(q, i) == [j \in 1..(Len(q) - 1) |-> IF j < i THEN q[j] ELSE q[j + 1]]

\* prov_secctx_delete, prov_uid_delete, prov_gid_delete, prov_ns_delete and
\* prov_ipv4_delete: the first entry with the key goes.
Delete(q, k) == IF EntriesOf(q, k) = {} THEN q ELSE Without(q, First(EntriesOf(q, k)))

\* Mutant of AddOrUpdate: a filter that exists is moved to the end.
AddOrUpdateMoves(q, k, op) == Append(Delete(q, k), [key |-> k, op |-> op])

\* The add_or_update functions of owners and namespaces: the first entry with the
\* key gets the new operations; without one there is a new entry at the end.
AddOrUpdate(q, k, op) ==
    IF EntriesOf(q, k) = {} THEN Append(q, [key |-> k, op |-> op])
    ELSE [q EXCEPT ![First(EntriesOf(q, k))].op = op]

\* prov_ipv4_add_or_update keeps the old operations too.
Ipv4AddOrUpdate(q, k, op) ==
    IF EntriesOf(q, k) = {} THEN Append(q, [key |-> k, op |-> op])
    ELSE [q EXCEPT ![First(EntriesOf(q, k))].op = @ \cup op]

\* A write to file l turns the list into q; with PROV_SET_DELETE it deletes.
ListWritten(l, k, op, q) ==
    /\ Written < MaxWrites
    /\ list' = [list EXCEPT ![l] = IF "delete" \in op THEN Delete(@, k) ELSE q]
    /\ log' = [log EXCEPT ![l] = Append(@, [key |-> k, op |-> op])]
    /\ UNCHANGED <<word, flags, wanted>>

\* prov_write_secctx_filter, prov_write_uid_filter and prov_write_gid_filter; a
\* security context is modelled by its identifier.
OwnerFile(l, k, op) == ListWritten(l, k, op, AddOrUpdate(list[l], k, op))

\* prov_write_ns_filter
NsFile(k, op) == ListWritten("ns", k, op, AddOrUpdate(list["ns"], k, op))

\* __write_ipv4_filter keeps of the address what is under the mask.
Ipv4File(l, f, op) ==
    LET k == [f EXCEPT !.ip = @ \cap f.mask]
    IN  ListWritten(l, k, op, Ipv4AddOrUpdate(list[l], k, op))

\* A read of a list file with room for so many entries.
ReadList(q, room) == IF room < 1 \/ room < Len(q) THEN ENOMEM ELSE q

-----------------------------------------------------------------------------
(* Targets *)

\* The comparison of the whichOP functions, of key k with what x has.
NsMatches(k, x) == \A f \in Namespace : k[f] \in {x.ns[f], IgnoreNs}
AddressMatches(k, x) == k.mask \cap x.ip = k.mask \cap k.ip /\ k.port \in {0, x.port}
Matches(l, k, x) ==
    CASE l \in OwnerList -> x[l] = k
      [] l = "ns" -> NsMatches(k, x)
      [] l \in AddressList -> AddressMatches(k, x)

\* Mutant of WhichOp: the operations of every entry that matches.
WhichOpAll(l, x) ==
    UNION {list[l][i].op : i \in {j \in DOMAIN list[l] : Matches(l, list[l][j].key, x)}}

\* The whichOP functions: the operations of the first entry that matches.
WhichOp(l, x) ==
    LET I == {i \in DOMAIN list[l] : Matches(l, list[l][i].key, x)}
    IN  IF I = {} THEN {} ELSE list[l][First(I)].op

\* The lists apply_target looks at.
ListsOf(type) == (IF type = "ENT_PROC" THEN {"ns"} ELSE {}) \cup (IF HasOwner(type) THEN OwnerList ELSE {})

\* apply_target
ApplyTarget(n) ==
    LET op == UNION {WhichOp(l, Target[n]) : l \in ListsOf(Target[n].type)}
    IN  /\ flags' = [flags EXCEPT ![n] = @ \cup (op \cap {"tracked", "propagate", "opaque"})]
        /\ UNCHANGED <<word, list, wanted, log>>

\* provenance_socket_bind (l = "ingress") and provenance_socket_connect
\* (l = "egress") of an IPv4 address: the marks they set before they record.
ApplyAddress(l, a) ==
    LET op == WhichOp(l, a)
    IN  /\ "opaque" \notin flags[a.proc]
        /\ flags' = [flags EXCEPT ![a.proc] = @ \cup (op \cap {"tracked", "propagate"}),
                                  ![a.sock] = @ \cup (op \cap {"tracked", "propagate", "record"})]
        /\ UNCHANGED <<word, list, wanted, log>>

Next ==
    \/ \E u \in Use, t \in FilterType : FilterFile(u, t, t \notin wanted[u])
    \/ \E w \in Writes : \/ w.list \in OwnerList /\ OwnerFile(w.list, w.key, w.op)
                         \/ w.list = "ns" /\ NsFile(w.key, w.op)
                         \/ w.list \in AddressList /\ Ipv4File(w.list, w.key, w.op)
    \/ \E n \in DOMAIN Target : ApplyTarget(n)
    \/ \E l \in AddressList, a \in Address : ApplyAddress(l, a)

Spec == Init /\ [][Next]_vars

-----------------------------------------------------------------------------
(* Properties *)

\* The filter tests of the hooks hit exactly the types the user asked to filter
\* by name and has not removed since, and no relation or node of another type,
\* of any category, whatever was added and removed in between.
FilterExact ==
    \A u \in Use :
        /\ \A t \in Relations : FilterRelation(word[u], RelWord[t]) <=> t \in wanted[u]
        /\ \A t \in Nodes : FilterNode(word[u], NodeWord[t]) <=> t \in wanted[u]

\* Reference: the writes of key k since it was last deleted.
Since(h, k) ==
    {i \in DOMAIN h : h[i].key = k /\ \A j \in i..Len(h) : h[j].key = k => "delete" \notin h[j].op}

\* Reference: what a list holds for key k after the writes h.
OpsFor(l, h, k) ==
    IF l \in AddressList THEN UNION {h[i].op : i \in Since(h, k)}
    ELSE h[Max(Since(h, k))].op

\* A read of a list file returns one entry for each key written and not deleted
\* since, oldest first, with the operations last written (of an address: with all
\* written since): the writes neither duplicate, lose nor reorder filters, and
\* "you should only get one".
ListsExact ==
    \A l \in List :
        LET q == ReadList(list[l], Len(log[l]) + 1)
            h == log[l]
        IN  /\ {q[i].key : i \in DOMAIN q} = {h[i].key : i \in {j \in DOMAIN h : Since(h, h[j].key) # {}}}
            /\ \A i, j \in DOMAIN q : i < j => Min(Since(h, q[i].key)) < Min(Since(h, q[j].key))
            /\ \A i \in DOMAIN q : q[i].op = OpsFor(l, h, q[i].key)

\* Reference: the operations of the oldest filter in force that matches x.
Asked(l, x) ==
    LET h == log[l]
        I == {i \in DOMAIN h : Since(h, h[i].key) # {} /\ i \in Since(h, h[i].key) /\ Matches(l, h[i].key, x)}
    IN  IF I = {} THEN {} ELSE OpsFor(l, h, h[Min(I)].key)

\* A hook marks a node as the oldest filters in force say, list by list, and no
\* mark is ever taken away: a later filter on the same process, a wildcard
\* namespace or a wider mask does not add to what an older one decides.
TargetRule ==
    [][\A n \in DOMAIN Target :
          flags'[n] # flags[n] =>
             \/ flags'[n] = flags[n] \cup ((UNION {Asked(l, Target[n]) : l \in ListsOf(Target[n].type)})
                                             \cap {"tracked", "propagate", "opaque"})
             \/ \E l \in AddressList, a \in Address :
                   /\ n \in {a.proc, a.sock} /\ "opaque" \notin flags[a.proc]
                   /\ flags'[n] = flags[n] \cup (Asked(l, a) \cap
                         ({"tracked", "propagate"} \cup IF n = a.sock THEN {"record"} ELSE {}))
      ]_vars
=============================================================================
