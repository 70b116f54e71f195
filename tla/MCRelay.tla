------------------------------ MODULE MCRelay -------------------------------
(* Instances of Relay for TLC. *)
EXTENDS Relay

\* One process writes all control files, or two write an identifier each.
Alone == [c1 |-> {"machine", "boot", "channel", "epoch"}, c2 |-> {}, init |-> {}]
Both == [c1 |-> {"machine"}, c2 |-> {"boot"}, init |-> {}]
AloneOrBoth == {Alone, Both}
MachineLong == {"machine"}
\* The machine node is written by the hand-over only.
VertexOnly == [n \in Vertex \cup {"machine"} |-> IF n = "machine" THEN {} ELSE Writer]
=============================================================================
