-------------------------- MODULE MCRuntimeReload --------------------------
(***************************************************************************)
(* Small instances of RuntimeReload for TLC: which applications there are, *)
(* which commands are given and what else happens.                         *)
(***************************************************************************)
EXTENDS RuntimeReload

AllCommands == CommandKinds
HostSelects == {"launch", "select", "reload"}

AllTrouble   == TroubleKinds
StayOnPage   == TroubleKinds \ {"leavePage"}
=============================================================================
