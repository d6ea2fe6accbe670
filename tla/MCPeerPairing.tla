--------------------------- MODULE MCPeerPairing ---------------------------
(***************************************************************************)
(* Small instances of PeerPairing for TLC.                                 *)
(***************************************************************************)
EXTENDS PeerPairing

TwoBoards == {1, 2}
AllActs == ActKinds
NoActs == {}
\* Forgetting during a commit leaves file and memory different, see the README.
AllFaults == FaultKinds \ {"forgetInCommit"}
DropAndReset == {"drop", "crash"}
=============================================================================
