-------------------------- MODULE MCPeerDiscovery --------------------------
(***************************************************************************)
(* Small instances of PeerDiscovery for TLC.                               *)
(***************************************************************************)
EXTENDS PeerDiscovery

AllFaults == FaultKinds
=============================================================================
