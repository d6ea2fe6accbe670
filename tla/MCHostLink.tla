----------------------------- MODULE MCHostLink -----------------------------
(***************************************************************************)
(* A small instance of HostLink for TLC.                                   *)
(***************************************************************************)
EXTENDS HostLink

AllFaults == FaultKinds
=============================================================================
