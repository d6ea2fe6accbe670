--------------------------- MODULE MCBulkTransfer ---------------------------
(***************************************************************************)
(* A small instance of BulkTransfer for TLC.                               *)
(***************************************************************************)
EXTENDS BulkTransfer

\* Three files: more frames than the buffer holds, none at all, just one.
ThreeFiles == <<3, 0, 1>>

AllFaults == FaultKinds
=============================================================================
