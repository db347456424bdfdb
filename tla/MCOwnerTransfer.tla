-------------------------- MODULE MCOwnerTransfer --------------------------
(***************************************************************************)
(* A coordinator with a get from memory, a get from SSD and a replica with *)
(* two candidate targets.  Two of the four legs are under way in one       *)
(* behaviour, and one of them is replayed.  They share the stream to their *)
(* peer or their operation: legs that share neither do not interact.       *)
(***************************************************************************)
EXTENDS OwnerTransfer, TLC

CONSTANTS g1, g2, r, lg1, lg2, lr1, lr2, p1, p2

MCOps    == {g1, g2, r}
MCLegs   == {lg1, lg2, lr1, lr2}
MCPeers  == {p1, p2}
MCOpOf   == (lg1 :> g1) @@ (lg2 :> g2) @@ (lr1 :> r) @@ (lr2 :> r)
MCPeerOf == (lg1 :> p1) @@ (lg2 :> p1) @@ (lr1 :> p1) @@ (lr2 :> p2)
MCKind   == (g1 :> "memory") @@ (g2 :> "ssd") @@ (r :> "put")

Sends == sent[lg1] + sent[lg2] + sent[lr1] + sent[lr2]

SentLegs == {l \in Legs : sent[l] > 0}

WithinBudget ==
  /\ Cardinality(SentLegs) <= 2 /\ Sends <= 3
  /\ \A l, m \in SentLegs : PeerOf[l] = PeerOf[m] \/ OpOf[l] = OpOf[m]
=============================================================================
