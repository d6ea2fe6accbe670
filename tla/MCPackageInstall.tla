------------------------- MODULE MCPackageInstall -------------------------
(***************************************************************************)
(* Small instances of PackageInstall for TLC: packages of two files and    *)
(* one or two applications; the fault sets are the environments of the     *)
(* README's table.                                                         *)
(***************************************************************************)
EXTENDS PackageInstall, TLC

PowerLoss == {"crash", "writeFails", "backupFails", "commitFails"}
WornCard  == {"crash", "activeFails", "removeFails", "restoreFails", "pageDuringInstall"}

\* The state without the history that only other properties read.
WithoutHistory == <<disk, conn, cmdv, guiv>>

\* Versions and applications are interchangeable.
VersionSymmetry == Permutations(Versions)
AppSymmetry     == Permutations(Apps) \cup Permutations(Versions)
=============================================================================
