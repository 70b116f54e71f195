----------------------------- MODULE Acyclicity -----------------------------
(* Sets of edges, records with fields snd and rcv, and cycles among them. *)
EXTENDS Integers

\* Every member of S is reached by an edge from a member of S.
Closed(E, S) == \A v \in S : \E e \in E : e.rcv = v /\ e.snd \in S

\* The edges that follow an edge and are followed by one.  The edges of a cycle
\* are among them, however often the others are taken away.
Inner(E) == {d \in E : (\E e \in E : e.rcv = d.snd) /\ (\E e \in E : e.snd = d.rcv)}

\* No cycle: a set of vertices closed in this sense is empty.
Acyclic(E) ==
    \A S \in SUBSET {e.snd : e \in Inner(Inner(Inner(E)))} : Closed(E, S) => S = {}

\* A rank that grows along every edge.
Orders(r, E) == \A e \in E : r[e.snd] < r[e.rcv]
Ranked(V, E) == \E r \in [V -> Nat] : Orders(r, E)
=============================================================================
