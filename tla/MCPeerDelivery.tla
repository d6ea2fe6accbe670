--------------------------- MODULE MCPeerDelivery ---------------------------
(***************************************************************************)
(* Small instances of PeerDelivery for TLC: what may go wrong in a run.    *)
(***************************************************************************)
EXTENDS PeerDelivery, TLC

Resets  == {"lost", "crash", "drop"}
NoReset == FaultKinds \ {"crash"}

BoardSymmetry == Permutations(Boards)
=============================================================================
