------------------------------ MODULE MCSocket ------------------------------
(* SocketHooks with values for its constants. *)
EXTENDS SocketHooks

NoKind == [m \in {} |-> "ENT_INODE_FILE"]
NoDeny == {{}}

OneStream == <<[fam |-> "stream", by |-> 1, peer |-> 0]>>
AllFamilies == <<[fam |-> "stream", by |-> 1, peer |-> 2], [fam |-> "stream", by |-> 1, peer |-> 1],
                 [fam |-> "inet", by |-> 1, peer |-> 0], [fam |-> "dgram", by |-> 2, peer |-> 0]>>

NoOps == {{}}
TrackPackets == {{"tracked", "record"}}
OpaqueTarget == {{"opaque"}}
=============================================================================
