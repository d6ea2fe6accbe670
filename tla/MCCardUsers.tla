---------------------------- MODULE MCCardUsers ----------------------------
(***************************************************************************)
(* A small instance of CardUsers for TLC.                                  *)
(***************************************************************************)
EXTENDS CardUsers

\* What a slow audio service and racing starts do is in the README.
SoundFaults == {"damagedCue"}
=============================================================================
