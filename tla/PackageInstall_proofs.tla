------------------------ MODULE PackageInstall_proofs -----------------------
(***************************************************************************)
(* Proofs about PackageInstall, for any number of applications, files and  *)
(* versions.                                                               *)
(***************************************************************************)
EXTENDS PackageInstall, TLAPS

USE ConstantsAssumption

-----------------------------------------------------------------------------
(* Directories                                                             *)

\* The directories the code builds from scratch are directories.
LEMMA BuiltDirs ==
  /\ EmptyDir \in Dirs
  /\ \A v \in Versions : Package(v) \in Dirs
BY DEF EmptyDir, Package, Dirs, Content

\* A file that is written leaves a directory.
LEMMA Written ==
  ASSUME NEW d \in Dirs, NEW f \in Files, NEW c \in Content
  PROVE  [d EXCEPT ![f] = c] \in Dirs
BY DEF Dirs

\* One unlink of a tree removal leaves a directory.
LEMMA UnlinkedDirs ==
  ASSUME NEW d \in Dirs, NEW e \in Unlinked(d)
  PROVE  e \in Dirs
BY DEF Unlinked, Present, Dirs, Content

\* An interrupted tree removal leaves a directory.
LEMMA LeftoversDirs ==
  ASSUME NEW d \in Dirs, NEW e \in Leftovers(d)
  PROVE  e \in Dirs
BY DEF Leftovers, Dirs, Content

-----------------------------------------------------------------------------
(* Types                                                                   *)

\* Every step of either thread keeps every variable in its range.
LEMMA TypeStep == TypeOK /\ [Next]_vars => TypeOK'
<1> SUFFICES ASSUME TypeOK, [Next]_vars PROVE TypeOK'
  OBVIOUS
<1> USE BuiltDirs, Written, UnlinkedDirs, LeftoversDirs
        DEF MaybeDir, Xfers, NoXfer, Content, Return, EndSteps, GuiSteps, Entries, CanSend
<1>2. ASSUME NEW a \in Apps, InstallBegin(a) PROVE TypeOK'
  BY <1>2 DEF InstallBegin, TypeOK, DiskTypes, HostTypes, CommandTypes, PageTypes, HistoryTypes, conn, cmdv, guiv, hist, disk
<1>3. ASSUME NEW f \in Files, NEW v \in Versions, FileOpen(f, v) PROVE TypeOK'
  BY <1>3 DEF FileOpen, TypeOK, DiskTypes, HostTypes, CommandTypes, PageTypes, HistoryTypes, conn, cmdv, guiv, hist, disk
<1>4. CASE FileLast
  BY <1>4 DEF FileLast, TypeOK, DiskTypes, HostTypes, CommandTypes, PageTypes, HistoryTypes, conn, cmdv, guiv, hist, disk
<1>5. CASE FileError
  BY <1>5 DEF FileError, TypeOK, DiskTypes, HostTypes, CommandTypes, PageTypes, HistoryTypes, conn, cmdv, guiv, hist, disk
<1>6. ASSUME NEW f \in Files, NEW v \in Versions, BulkBegin(f, v) PROVE TypeOK'
  <2>1. DiskTypes'
    BY <1>6 DEF BulkBegin, TypeOK, DiskTypes, disk, HostTypes, CommandTypes, PageTypes
  <2>2. HostTypes'
    <3>1. NoXfer \in Xfers /\ [file |-> f, ver |-> v, stale |-> FALSE] \in Xfers
      OBVIOUS
    <3> HIDE DEF NoXfer, Xfers
    <3> QED
      BY <1>6, <3>1 DEF BulkBegin, TypeOK, HostTypes
  <2>3. CommandTypes'
    BY <1>6 DEF BulkBegin, TypeOK, CommandTypes, cmdv
  <2>4. PageTypes'
    BY <1>6 DEF BulkBegin, TypeOK, PageTypes, guiv
  <2>5. HistoryTypes'
    BY <1>6 DEF BulkBegin, TypeOK, HistoryTypes, hist, CommandTypes, DiskTypes
  <2> QED
    BY <2>1, <2>2, <2>3, <2>4, <2>5 DEF TypeOK
<1>7. CASE BulkLast
  <2>1. DiskTypes'
    <3>1. xfer.ver \in Content
      BY DEF TypeOK, HostTypes
    <3>2. CASE staging[session] = NoDir
      BY <1>7, <3>2 DEF BulkLast, TypeOK, DiskTypes, HostTypes
    <3>3. CASE staging[session] # NoDir
      <4>1. staging[session] \in Dirs
        BY <1>7, <3>3 DEF BulkLast, TypeOK, DiskTypes, HostTypes
      <4>2. [staging[session] EXCEPT ![xfer.file] = xfer.ver] \in Dirs
        BY <4>1, <3>1 DEF Dirs
      <4> QED
        BY <1>7, <3>3, <4>2 DEF BulkLast, TypeOK, DiskTypes
    <3> QED
      BY <3>2, <3>3
  <2>2. HostTypes'
    BY <1>7 DEF BulkLast, TypeOK, HostTypes, conn
  <2>3. CommandTypes'
    BY <1>7 DEF BulkLast, TypeOK, CommandTypes, cmdv
  <2>4. PageTypes'
    BY <1>7 DEF BulkLast, TypeOK, PageTypes, guiv
  <2>5. HistoryTypes'
    BY <1>7 DEF BulkLast, TypeOK, HistoryTypes, hist, CommandTypes, DiskTypes
  <2> QED
    BY <2>1, <2>2, <2>3, <2>4, <2>5 DEF TypeOK
<1>8. CASE BulkError
  BY <1>8 DEF BulkError, TypeOK, DiskTypes, HostTypes, CommandTypes, PageTypes, HistoryTypes, conn, cmdv, guiv, hist, disk
<1>9. ASSUME NEW f \in Files, NEW v \in Versions, InstallBlob(f, v) PROVE TypeOK'
  BY <1>9 DEF InstallBlob, TypeOK, DiskTypes, HostTypes, CommandTypes, PageTypes, HistoryTypes, conn, cmdv, guiv, hist, disk
<1>10. ASSUME NEW a \in Apps, InstallAbort(a) PROVE TypeOK'
  BY <1>10 DEF InstallAbort, TypeOK, DiskTypes, HostTypes, CommandTypes, PageTypes, HistoryTypes, conn, cmdv, guiv, hist, disk
<1>11. CASE StagingClear
  BY <1>11 DEF StagingClear, TypeOK, DiskTypes, HostTypes, CommandTypes, PageTypes, HistoryTypes, conn, cmdv, guiv, hist, disk
<1>12. CASE EndRefused
  BY <1>12 DEF EndRefused, TypeOK, DiskTypes, HostTypes, CommandTypes, PageTypes, HistoryTypes, conn, cmdv, guiv, hist, disk
<1>13. CASE EndValidated
  BY <1>13 DEF EndValidated, TypeOK, DiskTypes, HostTypes, CommandTypes, PageTypes, HistoryTypes, conn, cmdv, guiv, hist, disk
<1>14. CASE ClearBackup
  <2>1. DiskTypes'
    BY <1>14 DEF ClearBackup, TypeOK, DiskTypes, disk, HostTypes, CommandTypes, PageTypes
  <2>2. HostTypes'
    BY <1>14 DEF ClearBackup, TypeOK, HostTypes, conn
  <2>3. CommandTypes'
    BY <1>14 DEF ClearBackup, TypeOK, CommandTypes, cmdv
  <2>4. PageTypes'
    BY <1>14 DEF ClearBackup, TypeOK, PageTypes, guiv
  <2>5. HistoryTypes'
    BY <1>14 DEF ClearBackup, TypeOK, HistoryTypes, hist, CommandTypes, DiskTypes
  <2> QED
    BY <2>1, <2>2, <2>3, <2>4, <2>5 DEF TypeOK
<1>15. CASE MoveCurrent
  <2>1. DiskTypes'
    BY <1>15 DEF MoveCurrent, TypeOK, DiskTypes, disk, HostTypes, CommandTypes, PageTypes
  <2>2. HostTypes'
    BY <1>15 DEF MoveCurrent, TypeOK, HostTypes, conn
  <2>3. CommandTypes'
    BY <1>15 DEF MoveCurrent, TypeOK, CommandTypes, cmdv
  <2>4. PageTypes'
    BY <1>15 DEF MoveCurrent, TypeOK, PageTypes, guiv
  <2>5. HistoryTypes'
    BY <1>15 DEF MoveCurrent, TypeOK, HistoryTypes, hist, CommandTypes, DiskTypes
  <2> QED
    BY <2>1, <2>2, <2>3, <2>4, <2>5 DEF TypeOK
<1>16. CASE Commit
  BY <1>16 DEF Commit, TypeOK, DiskTypes, HostTypes, CommandTypes, PageTypes, HistoryTypes, conn, cmdv, guiv, hist, disk
<1>17. CASE CommitError
  <2>1. DiskTypes'
    BY <1>17 DEF CommitError, TypeOK, DiskTypes, disk, HostTypes, CommandTypes, PageTypes
  <2>2. HostTypes'
    BY <1>17 DEF CommitError, TypeOK, HostTypes, conn
  <2>3. CommandTypes'
    BY <1>17 DEF CommitError, TypeOK, CommandTypes, cmdv
  <2>4. PageTypes'
    BY <1>17 DEF CommitError, TypeOK, PageTypes, guiv
  <2>5. HistoryTypes'
    BY <1>17 DEF CommitError, TypeOK, HistoryTypes, hist, CommandTypes, DiskTypes
  <2> QED
    BY <2>1, <2>2, <2>3, <2>4, <2>5 DEF TypeOK
<1>18. CASE Restore
  <2>1. DiskTypes'
    BY <1>18 DEF Restore, TypeOK, DiskTypes, disk, HostTypes, CommandTypes, PageTypes
  <2>2. HostTypes'
    BY <1>18 DEF Restore, TypeOK, HostTypes, conn
  <2>3. CommandTypes'
    BY <1>18 DEF Restore, TypeOK, CommandTypes, cmdv
  <2>4. PageTypes'
    BY <1>18 DEF Restore, TypeOK, PageTypes, guiv
  <2>5. HistoryTypes'
    BY <1>18 DEF Restore, TypeOK, HistoryTypes, hist, CommandTypes, DiskTypes
  <2> QED
    BY <2>1, <2>2, <2>3, <2>4, <2>5 DEF TypeOK
<1>19. CASE WriteActive
  <2>1. DiskTypes'
    BY <1>19 DEF WriteActive, TypeOK, DiskTypes, disk, HostTypes, CommandTypes, PageTypes
  <2>2. HostTypes'
    BY <1>19 DEF WriteActive, TypeOK, HostTypes, conn
  <2>3. CommandTypes'
    BY <1>19 DEF WriteActive, TypeOK, CommandTypes, cmdv
  <2>4. PageTypes'
    BY <1>19 DEF WriteActive, TypeOK, PageTypes, guiv
  <2>5. HistoryTypes'
    BY <1>19 DEF WriteActive, TypeOK, HistoryTypes, hist, CommandTypes, DiskTypes
  <2> QED
    BY <2>1, <2>2, <2>3, <2>4, <2>5 DEF TypeOK
<1>20. CASE DropNew
  <2>1. DiskTypes'
    BY <1>20 DEF DropNew, TypeOK, DiskTypes, disk, HostTypes, CommandTypes, PageTypes
  <2>2. HostTypes'
    BY <1>20 DEF DropNew, TypeOK, HostTypes, conn
  <2>3. CommandTypes'
    BY <1>20 DEF DropNew, TypeOK, CommandTypes, cmdv
  <2>4. PageTypes'
    BY <1>20 DEF DropNew, TypeOK, PageTypes, guiv
  <2>5. HistoryTypes'
    BY <1>20 DEF DropNew, TypeOK, HistoryTypes, hist, CommandTypes, DiskTypes
  <2> QED
    BY <2>1, <2>2, <2>3, <2>4, <2>5 DEF TypeOK
<1>21. CASE DropOld
  BY <1>21 DEF DropOld, TypeOK, DiskTypes, HostTypes, CommandTypes, PageTypes, HistoryTypes, conn, cmdv, guiv, hist, disk
<1>22. CASE EndDone
  BY <1>22 DEF EndDone, TypeOK, DiskTypes, HostTypes, CommandTypes, PageTypes, HistoryTypes, conn, cmdv, guiv, hist, disk
<1>23. ASSUME NEW a \in Apps, DeleteBegin(a) PROVE TypeOK'
  <2>1. DiskTypes'
    BY <1>23 DEF DeleteBegin, TypeOK, DiskTypes, disk, HostTypes, CommandTypes, PageTypes
  <2>2. HostTypes'
    BY <1>23 DEF DeleteBegin, TypeOK, HostTypes, conn
  <2>3. CommandTypes'
    BY <1>23 DEF DeleteBegin, TypeOK, CommandTypes, cmdv
  <2>4. PageTypes'
    BY <1>23 DEF DeleteBegin, TypeOK, PageTypes, guiv
  <2>5. HistoryTypes'
    BY <1>23 DEF DeleteBegin, TypeOK, HistoryTypes, hist, CommandTypes, DiskTypes
  <2> QED
    BY <2>1, <2>2, <2>3, <2>4, <2>5 DEF TypeOK
<1>24. CASE DeleteStep
  <2>1. DiskTypes'
    BY <1>24 DEF DeleteStep, TypeOK, DiskTypes, disk, HostTypes, CommandTypes, PageTypes
  <2>2. HostTypes'
    BY <1>24 DEF DeleteStep, TypeOK, HostTypes, conn
  <2>3. CommandTypes'
    BY <1>24 DEF DeleteStep, TypeOK, CommandTypes, cmdv
  <2>4. PageTypes'
    BY <1>24 DEF DeleteStep, TypeOK, PageTypes, guiv
  <2>5. HistoryTypes'
    BY <1>24 DEF DeleteStep, TypeOK, HistoryTypes, hist, CommandTypes, DiskTypes
  <2> QED
    BY <2>1, <2>2, <2>3, <2>4, <2>5 DEF TypeOK
<1>25. CASE OpenPage
  BY <1>25 DEF OpenPage, TypeOK, DiskTypes, HostTypes, CommandTypes, PageTypes, HistoryTypes, conn, cmdv, guiv, hist, disk
<1>26. ASSUME NEW e \in todo, ScanSkip(e) PROVE TypeOK'
  BY <1>26 DEF ScanSkip, TypeOK, DiskTypes, HostTypes, CommandTypes, PageTypes, HistoryTypes, conn, cmdv, guiv, hist, disk
<1>27. ASSUME NEW a \in Apps, ScanStaging(a) PROVE TypeOK'
  BY <1>27 DEF ScanStaging, TypeOK, DiskTypes, HostTypes, CommandTypes, PageTypes, HistoryTypes, conn, cmdv, guiv, hist, disk
<1>28. ASSUME NEW a \in Apps, ScanBackup(a) PROVE TypeOK'
  BY <1>28 DEF ScanBackup, TypeOK, DiskTypes, HostTypes, CommandTypes, PageTypes, HistoryTypes, conn, cmdv, guiv, hist, disk
<1>29. CASE RecoverStaging
  <2>1. DiskTypes'
    BY <1>29 DEF RecoverStaging, TypeOK, DiskTypes, disk, HostTypes, CommandTypes, PageTypes
  <2>2. HostTypes'
    BY <1>29 DEF RecoverStaging, TypeOK, HostTypes, conn
  <2>3. CommandTypes'
    BY <1>29 DEF RecoverStaging, TypeOK, CommandTypes, cmdv
  <2>4. PageTypes'
    BY <1>29 DEF RecoverStaging, RecoverRemove, TypeOK, PageTypes, guiv
  <2>5. HistoryTypes'
    BY <1>29 DEF RecoverStaging, TypeOK, HistoryTypes, hist, CommandTypes, DiskTypes
  <2> QED
    BY <2>1, <2>2, <2>3, <2>4, <2>5 DEF TypeOK
<1>30. CASE RecoverBackup
  <2>1. DiskTypes'
    BY <1>30 DEF RecoverBackup, TypeOK, DiskTypes, disk, HostTypes, CommandTypes, PageTypes
  <2>2. HostTypes'
    BY <1>30 DEF RecoverBackup, TypeOK, HostTypes, conn
  <2>3. CommandTypes'
    BY <1>30 DEF RecoverBackup, TypeOK, CommandTypes, cmdv
  <2>4. PageTypes'
    BY <1>30 DEF RecoverBackup, RecoverRemove, TypeOK, PageTypes, guiv
  <2>5. HistoryTypes'
    BY <1>30 DEF RecoverBackup, TypeOK, HistoryTypes, hist, CommandTypes, DiskTypes
  <2> QED
    BY <2>1, <2>2, <2>3, <2>4, <2>5 DEF TypeOK
<1>31. CASE ScanDone
  BY <1>31 DEF ScanDone, TypeOK, DiskTypes, HostTypes, CommandTypes, PageTypes, HistoryTypes, conn, cmdv, guiv, hist, disk
<1>32. CASE ClosePage
  BY <1>32 DEF ClosePage, TypeOK, DiskTypes, HostTypes, CommandTypes, PageTypes, HistoryTypes, conn, cmdv, guiv, hist, disk
<1>33. CASE Crash
  BY <1>33 DEF Crash, TypeOK, DiskTypes, HostTypes, CommandTypes, PageTypes, HistoryTypes, conn, cmdv, guiv, hist, disk
<1>34. CASE UNCHANGED vars
  BY <1>34 DEF vars, TypeOK, DiskTypes, HostTypes, CommandTypes, PageTypes, HistoryTypes
<1> QED
  BY <1>2, <1>3, <1>4, <1>5, <1>6, <1>7, <1>8, <1>9, <1>10, <1>11, <1>12, <1>13, <1>14, <1>15, <1>16, <1>17, <1>18, <1>19, <1>20, <1>21, <1>22, <1>23, <1>24, <1>25, <1>26, <1>27, <1>28, <1>29, <1>30, <1>31, <1>32, <1>33, <1>34 DEF Next, Transfer, Command, EndStep, Gui

\* The board at power-up.
LEMMA InitTypes == Init => TypeOK
<1> SUFFICES ASSUME Init PROVE TypeOK
  OBVIOUS
<1> USE BuiltDirs DEF Init, MaybeDir
<1>1. DiskTypes
  BY DEF DiskTypes
<1>2. HostTypes
  BY DEF HostTypes, NoXfer, Xfers
<1>3. CommandTypes /\ PageTypes
  BY DEF CommandTypes, PageTypes, GuiSteps
<1>4. HistoryTypes
  BY DEF HistoryTypes
<1> QED
  BY <1>1, <1>2, <1>3, <1>4 DEF TypeOK

\* Every variable stays in its range, whatever goes wrong.
THEOREM TypeCorrect == Spec => []TypeOK
BY InitTypes, TypeStep, PTL DEF Spec

-----------------------------------------------------------------------------
(* The inductive invariant in a sound environment                          *)

\* What a sound environment rules out.
LEMMA Sound ==
  ASSUME SoundEnvironment
  PROVE  /\ "restoreFails" \notin Faults
         /\ "removeFails" \notin Faults
         /\ "cutManifest" \notin Faults
         /\ "earlyCommand" \notin Faults
         /\ "pageDuringInstall" \notin Faults
         /\ "secondTransport" \notin Faults
         /\ "crash" \notin Faults \/ "activeFails" \notin Faults
         /\ Inventoried = Versions
BY DEF SoundEnvironment

\* A package that passes the inventory check is one complete version.
LEMMA ValidGood ==
  ASSUME SoundEnvironment, NEW d \in MaybeDir, Valid(d)
  PROVE  Good(d)
<1>1. d \in Dirs /\ d[Manifest] \in Versions /\ \A f \in Files : d[f] = d[Manifest]
  BY Sound DEF Valid, MaybeDir
<1>2. d = Package(d[Manifest])
  BY <1>1 DEF Dirs, Package
<1> QED
  BY <1>1, <1>2 DEF Good, Whole

\* A host's command runs while no recovery and no other command does.
LEMMA Quiet ==
  ASSUME SoundEnvironment, CanSend \/ CanRun
  PROVE  pc = "idle" /\ booted /\ ~Scanning
BY Sound DEF CanSend, CanRun

\* A command that fills or drops a session reaches no installed application.
LEMMA HostStep ==
  ASSUME IInv, TypeOK', pc = "idle", ~Scanning,
         UNCHANGED <<app, backup, cmdv, guiv, hist>>
  PROVE  IInv'
<1> USE DEF IInv, cmdv, guiv, hist
<1>1. Exclusion'
  BY DEF Exclusion, Scanning, EndSteps
<1>2. OthersRest'
  BY DEF OthersRest, Resting
<1>3. TargetWorks'
  BY DEF TargetWorks
<1>4. Recovering'
  BY DEF Recovering, Scanning
<1>5. NoDebris'
  BY DEF NoDebris
<1> QED
  BY <1>1, <1>2, <1>3, <1>4, <1>5

\* Every step keeps the invariant.
LEMMA InvariantStep == SoundEnvironment /\ IInv /\ [Next]_vars => IInv'
<1> SUFFICES ASSUME SoundEnvironment, IInv, [Next]_vars PROVE IInv'
  OBVIOUS
<1>1. TypeOK'
  BY TypeStep DEF IInv
<1> USE <1>1, Sound
    DEF IInv, TypeOK, DiskTypes, CommandTypes, PageTypes, HistoryTypes, MaybeDir,
        conn, cmdv, guiv, hist, disk, Return, EndSteps, GuiSteps, Good
<1>2. ASSUME NEW a \in Apps, InstallBegin(a) PROVE IInv'
  BY <1>2, Quiet, HostStep DEF InstallBegin, disk
<1>3. ASSUME NEW f \in Files, NEW v \in Versions, FileOpen(f, v) PROVE IInv'
  BY <1>3, Quiet, HostStep DEF FileOpen, disk
<1>4. CASE FileLast
  BY <1>4, Quiet, HostStep DEF FileLast, disk
<1>5. CASE FileError
  BY <1>5, Quiet, HostStep DEF FileError, disk
<1>6. ASSUME NEW f \in Files, NEW v \in Versions, BulkBegin(f, v) PROVE IInv'
  BY <1>6, Quiet, HostStep DEF BulkBegin, disk
<1>7. CASE BulkLast
  BY <1>7, Quiet, HostStep DEF BulkLast, disk
<1>8. CASE BulkError
  BY <1>8, Quiet, HostStep DEF BulkError, disk
<1>9. ASSUME NEW f \in Files, NEW v \in Versions, InstallBlob(f, v) PROVE IInv'
  BY <1>9, Quiet, HostStep DEF InstallBlob, disk
<1>10. ASSUME NEW a \in Apps, InstallAbort(a) PROVE IInv'
  BY <1>10, Quiet, HostStep DEF InstallAbort, disk
<1>11. CASE StagingClear
  BY <1>11, Quiet, HostStep DEF StagingClear, disk
<1>12. CASE EndRefused
  BY <1>12, Quiet, HostStep DEF EndRefused, disk
<1>13. CASE EndValidated
  <2>1. Exclusion'
    BY <1>13, Quiet DEF EndValidated, Exclusion, Scanning
  <2>2. OthersRest'
    BY <1>13, Quiet DEF EndValidated, OthersRest, TargetWorks, Working, Exclusion, Resting
  <2>3. TargetWorks'
    <3>1. pc = "idle" /\ booted /\ session \in Apps
      BY <1>13, Quiet DEF EndValidated, HostTypes
    <3>2. Good(staging[session])
      BY <1>13, <3>1, ValidGood DEF EndValidated
    <3>3. Resting(session) /\ backup[session] = NoDir /\ ("crash" \in Faults \/ ~doomed[session])
      BY <3>1 DEF OthersRest, NoDebris, Exclusion
    <3>4. Working(session)'
      BY <1>13, <3>1, <3>2, <3>3 DEF EndValidated, Working, Resting
    <3> QED
      BY <1>13, <3>4 DEF EndValidated, TargetWorks, Working, Resting
  <2>4. Recovering'
    BY <1>13, Quiet DEF EndValidated, Recovering, Exclusion, Scanning, NoDebris
  <2>5. NoDebris'
    BY <1>13, Quiet DEF EndValidated, NoDebris, TargetWorks, Working, Exclusion, Scanning, Recovering
  <2> QED
    BY <1>1, <2>1, <2>2, <2>3, <2>4, <2>5
<1>14. CASE ClearBackup
  <2>1. Exclusion'
    BY <1>14, Quiet DEF ClearBackup, Exclusion, Scanning
  <2>2. OthersRest'
    BY <1>14, Quiet DEF ClearBackup, OthersRest, TargetWorks, Working, Exclusion, Resting
  <2>3. TargetWorks'
    BY <1>14, Quiet DEF ClearBackup, OthersRest, TargetWorks, Working, Resting, NoDebris, Exclusion
  <2>4. Recovering'
    BY <1>14, Quiet DEF ClearBackup, Recovering, Exclusion, Scanning, NoDebris
  <2>5. NoDebris'
    BY <1>14, Quiet DEF ClearBackup, NoDebris, TargetWorks, Working, Exclusion, Scanning, Recovering
  <2> QED
    BY <1>1, <2>1, <2>2, <2>3, <2>4, <2>5
<1>15. CASE MoveCurrent
  <2>1. Exclusion'
    BY <1>15, Quiet DEF MoveCurrent, Exclusion, Scanning, TargetWorks, Working
  <2>2. OthersRest'
    BY <1>15, Quiet DEF MoveCurrent, OthersRest, TargetWorks, Working, Exclusion, Resting
  <2>3. TargetWorks'
    BY <1>15, Quiet DEF MoveCurrent, OthersRest, TargetWorks, Working, Resting, NoDebris, Exclusion
  <2>4. Recovering'
    BY <1>15, Quiet DEF MoveCurrent, Recovering, Exclusion, Scanning, NoDebris
  <2>5. NoDebris'
    BY <1>15, Quiet DEF MoveCurrent, NoDebris, TargetWorks, Working, Exclusion, Scanning, Recovering
  <2> QED
    BY <1>1, <2>1, <2>2, <2>3, <2>4, <2>5
<1>16. CASE Commit
  <2>1. Exclusion'
    BY <1>16, Quiet DEF Commit, Exclusion, Scanning
  <2>2. OthersRest'
    BY <1>16, Quiet DEF Commit, OthersRest, TargetWorks, Working, Exclusion, Resting
  <2>3. TargetWorks'
    BY <1>16, Quiet DEF Commit, OthersRest, TargetWorks, Working, Resting, NoDebris, Exclusion
  <2>4. Recovering'
    BY <1>16, Quiet DEF Commit, Recovering, Exclusion, Scanning, NoDebris
  <2>5. NoDebris'
    BY <1>16, Quiet DEF Commit, NoDebris, TargetWorks, Working, Exclusion, Scanning, Recovering
  <2> QED
    BY <1>1, <2>1, <2>2, <2>3, <2>4, <2>5
<1>17. CASE CommitError
  <2>1. Exclusion'
    BY <1>17, Quiet DEF CommitError, Exclusion, Scanning, TargetWorks, Working
  <2>2. OthersRest'
    BY <1>17, Quiet DEF CommitError, OthersRest, TargetWorks, Working, Exclusion, Resting
  <2>3. TargetWorks'
    BY <1>17, Quiet DEF CommitError, OthersRest, TargetWorks, Working, Resting, NoDebris, Exclusion
  <2>4. Recovering'
    BY <1>17, Quiet DEF CommitError, Recovering, Exclusion, Scanning, NoDebris
  <2>5. NoDebris'
    BY <1>17, Quiet DEF CommitError, NoDebris, TargetWorks, Working, Exclusion, Scanning, Recovering
  <2> QED
    BY <1>1, <2>1, <2>2, <2>3, <2>4, <2>5
<1>18. CASE Restore
  <2>1. Exclusion'
    BY <1>18, Quiet DEF Restore, Exclusion, Scanning, TargetWorks, Working
  <2>2. OthersRest'
    BY <1>18, Quiet DEF Restore, OthersRest, TargetWorks, Working, Exclusion, Resting
  <2>3. TargetWorks'
    BY <1>18, Quiet DEF Restore, OthersRest, TargetWorks, Working, Resting, NoDebris, Exclusion
  <2>4. Recovering'
    BY <1>18, Quiet DEF Restore, Recovering, Exclusion, Scanning, NoDebris
  <2>5. NoDebris'
    BY <1>18, Quiet DEF Restore, NoDebris, TargetWorks, Working, Exclusion, Scanning, Recovering
  <2> QED
    BY <1>1, <2>1, <2>2, <2>3, <2>4, <2>5
<1>19. CASE WriteActive
  <2>1. Exclusion'
    BY <1>19, Quiet DEF WriteActive, Exclusion, Scanning
  <2>2. OthersRest'
    BY <1>19, Quiet DEF WriteActive, OthersRest, TargetWorks, Working, Exclusion, Resting
  <2>3. TargetWorks'
    BY <1>19, Quiet DEF WriteActive, OthersRest, TargetWorks, Working, Resting, NoDebris, Exclusion
  <2>4. Recovering'
    BY <1>19, Quiet DEF WriteActive, Recovering, Exclusion, Scanning, NoDebris
  <2>5. NoDebris'
    BY <1>19, Quiet DEF WriteActive, NoDebris, TargetWorks, Working, Exclusion, Scanning, Recovering
  <2> QED
    BY <1>1, <2>1, <2>2, <2>3, <2>4, <2>5
<1>20. CASE DropNew
  <2>1. Exclusion'
    BY <1>20, Quiet DEF DropNew, Exclusion, Scanning
  <2>2. OthersRest'
    BY <1>20, Quiet DEF DropNew, OthersRest, TargetWorks, Working, Exclusion, Resting
  <2>3. TargetWorks'
    BY <1>20, Quiet DEF DropNew, OthersRest, TargetWorks, Working, Resting, NoDebris, Exclusion
  <2>4. Recovering'
    BY <1>20, Quiet DEF DropNew, Recovering, Exclusion, Scanning, NoDebris
  <2>5. NoDebris'
    BY <1>20, Quiet DEF DropNew, NoDebris, TargetWorks, Working, Exclusion, Scanning, Recovering
  <2> QED
    BY <1>1, <2>1, <2>2, <2>3, <2>4, <2>5
<1>21. CASE DropOld
  <2>1. Exclusion'
    BY <1>21, Quiet DEF DropOld, Exclusion, Scanning
  <2>2. OthersRest'
    BY <1>21, Quiet DEF DropOld, OthersRest, TargetWorks, Working, Exclusion, Resting
  <2>3. TargetWorks'
    BY <1>21, Quiet DEF DropOld, OthersRest, TargetWorks, Working, Resting, NoDebris, Exclusion
  <2>4. Recovering'
    BY <1>21, Quiet DEF DropOld, Recovering, Exclusion, Scanning, NoDebris
  <2>5. NoDebris'
    BY <1>21, Quiet DEF DropOld, NoDebris, TargetWorks, Working, Exclusion, Scanning, Recovering
  <2> QED
    BY <1>1, <2>1, <2>2, <2>3, <2>4, <2>5
<1>22. CASE EndDone
  <2>1. Exclusion'
    BY <1>22, Quiet DEF EndDone, Exclusion, Scanning, TargetWorks, Working
  <2>2. OthersRest'
    BY <1>22, Quiet DEF EndDone, OthersRest, TargetWorks, Working, Exclusion, Resting
  <2>3. TargetWorks'
    BY <1>22, Quiet DEF EndDone, OthersRest, TargetWorks, Working, Resting, NoDebris, Exclusion
  <2>4. Recovering'
    BY <1>22, Quiet DEF EndDone, Recovering, Exclusion, Scanning, NoDebris
  <2>5. NoDebris'
    BY <1>22, Quiet DEF EndDone, NoDebris, TargetWorks, Working, Exclusion, Scanning, Recovering
  <2> QED
    BY <1>1, <2>1, <2>2, <2>3, <2>4, <2>5
<1>23. ASSUME NEW a \in Apps, DeleteBegin(a) PROVE IInv'
  <2>1. Exclusion'
    BY <1>23, Quiet DEF DeleteBegin, Exclusion, Scanning
  <2>2. OthersRest'
    BY <1>23, Quiet DEF DeleteBegin, OthersRest, TargetWorks, Working, Exclusion, Resting
  <2>3. TargetWorks'
    BY <1>23, Quiet DEF DeleteBegin, OthersRest, TargetWorks, Working, Resting, NoDebris, Exclusion
  <2>4. Recovering'
    BY <1>23, Quiet DEF DeleteBegin, Recovering, Exclusion, Scanning, NoDebris
  <2>5. NoDebris'
    BY <1>23, Quiet DEF DeleteBegin, NoDebris, TargetWorks, Working, Exclusion, Scanning, Recovering
  <2> QED
    BY <1>1, <2>1, <2>2, <2>3, <2>4, <2>5
<1>24. CASE DeleteStep
  <2>1. Exclusion'
    BY <1>24, Quiet DEF DeleteStep, Exclusion, Scanning
  <2>2. OthersRest'
    BY <1>24, Quiet DEF DeleteStep, OthersRest, TargetWorks, Working, Exclusion, Resting
  <2>3. TargetWorks'
    BY <1>24, Quiet DEF DeleteStep, OthersRest, TargetWorks, Working, Resting, NoDebris, Exclusion
  <2>4. Recovering'
    BY <1>24, Quiet DEF DeleteStep, Recovering, Exclusion, Scanning, NoDebris
  <2>5. NoDebris'
    BY <1>24, Quiet DEF DeleteStep, NoDebris, TargetWorks, Working, Exclusion, Scanning, Recovering
  <2> QED
    BY <1>1, <2>1, <2>2, <2>3, <2>4, <2>5
<1>25. CASE OpenPage
  <2>1. Exclusion'
    BY <1>25, Quiet DEF OpenPage, Exclusion, Scanning
  <2>2. OthersRest'
    BY <1>25, Quiet DEF OpenPage, OthersRest, TargetWorks, Working, Exclusion, Resting
  <2>3. TargetWorks'
    BY <1>25, Quiet DEF OpenPage, OthersRest, TargetWorks, Working, Resting, NoDebris, Exclusion
  <2>4. Recovering'
    BY <1>25 DEF OpenPage, Recovering, Scanning, Entries
  <2>5. NoDebris'
    BY <1>25, Quiet DEF OpenPage, NoDebris, TargetWorks, Working, Exclusion, Scanning, Recovering
  <2> QED
    BY <1>1, <2>1, <2>2, <2>3, <2>4, <2>5
<1>26. ASSUME NEW e \in todo, ScanSkip(e) PROVE IInv'
  <2>1. Exclusion'
    BY <1>26, Quiet DEF ScanSkip, Exclusion, Scanning
  <2>2. OthersRest'
    BY <1>26, Quiet DEF ScanSkip, OthersRest, TargetWorks, Working, Exclusion, Resting
  <2>3. TargetWorks'
    BY <1>26, Quiet DEF ScanSkip, OthersRest, TargetWorks, Working, Resting, NoDebris, Exclusion
  <2>4. Recovering'
    BY <1>26, Quiet DEF ScanSkip, Recovering, Exclusion, Scanning, NoDebris
  <2>5. NoDebris'
    BY <1>26, Quiet DEF ScanSkip, NoDebris, TargetWorks, Working, Exclusion, Scanning, Recovering
  <2> QED
    BY <1>1, <2>1, <2>2, <2>3, <2>4, <2>5
<1>27. ASSUME NEW a \in Apps, ScanStaging(a) PROVE IInv'
  <2>1. Exclusion'
    BY <1>27, Quiet DEF ScanStaging, Exclusion, Scanning
  <2>2. OthersRest'
    BY <1>27, Quiet DEF ScanStaging, OthersRest, TargetWorks, Working, Exclusion, Resting
  <2>3. TargetWorks'
    BY <1>27, Quiet DEF ScanStaging, OthersRest, TargetWorks, Working, Resting, NoDebris, Exclusion
  <2>4. Recovering'
    BY <1>27, Quiet DEF ScanStaging, Recovering, Exclusion, Scanning, NoDebris
  <2>5. NoDebris'
    BY <1>27, Quiet DEF ScanStaging, NoDebris, TargetWorks, Working, Exclusion, Scanning, Recovering
  <2> QED
    BY <1>1, <2>1, <2>2, <2>3, <2>4, <2>5
<1>28. ASSUME NEW a \in Apps, ScanBackup(a) PROVE IInv'
  <2>1. Exclusion'
    BY <1>28, Quiet DEF ScanBackup, Exclusion, Scanning
  <2>2. OthersRest'
    BY <1>28, Quiet DEF ScanBackup, OthersRest, TargetWorks, Working, Exclusion, Resting
  <2>3. TargetWorks'
    BY <1>28 DEF ScanBackup, Exclusion, Scanning, TargetWorks
  <2>4. Recovering'
    BY <1>28, Quiet DEF ScanBackup, Recovering, Exclusion, Scanning, NoDebris
  <2>5. NoDebris'
    BY <1>28, Quiet DEF ScanBackup, NoDebris, TargetWorks, Working, Exclusion, Scanning, Recovering
  <2> QED
    BY <1>1, <2>1, <2>2, <2>3, <2>4, <2>5
<1>29. CASE RecoverStaging
  <2>1. pc = "idle" /\ session = NoApp
    BY <1>29 DEF RecoverStaging, Exclusion, Scanning
  <2>2. Scanning' /\ gpc' # "rmBackup"
    BY <1>29 DEF RecoverStaging, RecoverRemove, Scanning
  <2>3. Exclusion' /\ TargetWorks'
    BY <1>29, <2>1, <2>2 DEF RecoverStaging, Exclusion, TargetWorks
  <2>4. OthersRest' /\ NoDebris'
    BY <1>29, <2>1 DEF RecoverStaging, OthersRest, Resting, NoDebris
  <2>5. Recovering'
    BY <1>29, <2>2 DEF RecoverStaging, Recovering, Scanning
  <2> QED
    BY <1>1, <2>3, <2>4, <2>5
<1>30. CASE RecoverBackup
  <2>1. pc = "idle" /\ session = NoApp
    BY <1>30 DEF RecoverBackup, Exclusion, Scanning
  <2>2. Scanning' /\ gpc' # "rmStaging"
    BY <1>30 DEF RecoverBackup, RecoverRemove, Scanning
  <2>3. Exclusion' /\ TargetWorks'
    BY <1>30, <2>1, <2>2 DEF RecoverBackup, Exclusion, TargetWorks
  <2>4. gapp \in Apps /\ app[gapp] # NoDir
    BY <1>30 DEF RecoverBackup, Recovering
  <2>5. /\ gpc' = "rmBackup" => gapp' = gapp
        /\ gpc' # "rmBackup" => backup'[gapp] = NoDir
        /\ \A a \in Apps \ {gapp} : backup'[a] = backup[a]
    BY <1>30, <2>4 DEF RecoverBackup, RecoverRemove
  <2>6. OthersRest'
    BY <1>30, <2>1, <2>4, <2>5 DEF RecoverBackup, OthersRest, Resting
  <2>7. Recovering'
    BY <1>30, <2>2, <2>4, <2>5 DEF RecoverBackup, Recovering, Scanning
  <2>8. NoDebris'
    <3>1. booted => backup[gapp] = NoDir
      BY <2>1, <2>4 DEF NoDebris
    <3>2. booted => backup' = backup
      BY <1>30, <2>4, <3>1 DEF RecoverBackup, RecoverRemove
    <3> QED
      BY <1>30, <2>1, <3>2 DEF RecoverBackup, NoDebris
  <2> QED
    BY <1>1, <2>3, <2>6, <2>7, <2>8
<1>31. CASE ScanDone
  <2>1. Exclusion'
    BY <1>31, Quiet DEF ScanDone, Exclusion, Scanning
  <2>2. OthersRest'
    BY <1>31, Quiet DEF ScanDone, OthersRest, TargetWorks, Working, Exclusion, Resting
  <2>3. TargetWorks'
    BY <1>31, Quiet DEF ScanDone, OthersRest, TargetWorks, Working, Resting, NoDebris, Exclusion
  <2>4. Recovering'
    BY <1>31, Quiet DEF ScanDone, Recovering, Exclusion, Scanning, NoDebris
  <2>5. NoDebris'
    BY <1>31, Quiet DEF ScanDone, NoDebris, TargetWorks, Working, Exclusion, Scanning, Recovering
  <2> QED
    BY <1>1, <2>1, <2>2, <2>3, <2>4, <2>5
<1>32. CASE ClosePage
  <2>1. Exclusion'
    BY <1>32, Quiet DEF ClosePage, Exclusion, Scanning
  <2>2. OthersRest'
    BY <1>32, Quiet DEF ClosePage, OthersRest, TargetWorks, Working, Exclusion, Resting
  <2>3. TargetWorks'
    BY <1>32, Quiet DEF ClosePage, OthersRest, TargetWorks, Working, Resting, NoDebris, Exclusion
  <2>4. Recovering'
    BY <1>32, Quiet DEF ClosePage, Recovering, Exclusion, Scanning, NoDebris
  <2>5. NoDebris'
    BY <1>32, Quiet DEF ClosePage, NoDebris, TargetWorks, Working, Exclusion, Scanning, Recovering
  <2> QED
    BY <1>1, <2>1, <2>2, <2>3, <2>4, <2>5
<1>33. CASE Crash
  <2>1. Exclusion'
    BY <1>33, Quiet DEF Crash, Exclusion, Scanning
  <2>2. OthersRest'
    <3>1. ASSUME NEW a \in Apps PROVE Resting(a)
      <4>1. CASE pc = "idle" \/ a # target
        BY <4>1 DEF OthersRest
      <4>2. CASE pc # "idle" /\ a = target
        <5>1. Working(a) /\ "activeFails" \notin Faults
          BY <1>33, <4>2 DEF Crash, TargetWorks
        <5>2. CASE pc \in {"clearBackup", "commit", "restore"}
          BY <5>1, <5>2 DEF Working
        <5>3. CASE pc \in {"active", "dropOld"}
          BY <5>1, <5>3 DEF Working, Resting
        <5>4. CASE pc = "delete"
          BY <5>1, <5>4 DEF Working, Resting
        <5>5. pc # "dropNew"
          BY <5>1 DEF Working
        <5>6. pc \in {"clearBackup", "commit", "restore", "active", "dropOld", "delete", "dropNew"}
          BY <4>2
        <5> QED
          BY <4>2, <5>2, <5>3, <5>4, <5>5, <5>6
      <4> QED
        BY <4>1, <4>2
    <3> QED
      BY <1>33, <3>1 DEF Crash, OthersRest, Resting
  <2>3. TargetWorks'
    BY <1>33, Quiet DEF Crash, OthersRest, TargetWorks, Working, Resting, NoDebris, Exclusion
  <2>4. Recovering'
    BY <1>33, Quiet DEF Crash, Recovering, Exclusion, Scanning, NoDebris
  <2>5. NoDebris'
    BY <1>33, Quiet DEF Crash, NoDebris, TargetWorks, Working, Exclusion, Scanning, Recovering
  <2> QED
    BY <1>1, <2>1, <2>2, <2>3, <2>4, <2>5
<1>34. CASE UNCHANGED vars
  <2> QED
    BY <1>1, <1>34 DEF vars, IInv, Exclusion, OthersRest, TargetWorks, Recovering, NoDebris, Working, Resting, Scanning
<1> QED
  BY <1>2, <1>3, <1>4, <1>5, <1>6, <1>7, <1>8, <1>9, <1>10, <1>11, <1>12, <1>13, <1>14, <1>15, <1>16, <1>17, <1>18, <1>19, <1>20, <1>21, <1>22, <1>23, <1>24, <1>25, <1>26, <1>27, <1>28, <1>29, <1>30, <1>31, <1>32, <1>33, <1>34 DEF Next, Transfer, Command, EndStep, Gui

\* The invariant holds from power-up on.
LEMMA Invariant ==
  ASSUME SoundEnvironment
  PROVE  Spec => []IInv
<1>1. Init => IInv
  <2> SUFFICES ASSUME Init PROVE IInv
    OBVIOUS
  <2>1. TypeOK
    BY InitTypes
  <2>2. \A a \in Apps : app[a] # NoDir => Good(app[a])
    BY DEF Init, Good, Whole
  <2>3. Exclusion /\ TargetWorks /\ Recovering /\ NoDebris
    BY DEF Init, Exclusion, TargetWorks, Recovering, NoDebris, Scanning, GuiSteps, EndSteps
  <2>4. OthersRest
    BY <2>2 DEF Init, OthersRest, Resting, Good
  <2> QED
    BY <2>1, <2>3, <2>4 DEF IInv
<1>2. IInv /\ [Next]_vars => IInv'
  BY InvariantStep
<1> QED
  BY <1>1, <1>2, PTL DEF Spec

\* The application a command works on is safe at every step of the command.
LEMMA TargetSafe ==
  ASSUME IInv, pc # "idle"
  PROVE  /\ app[target] = NoDir \/ Whole(app[target]) \/ doomed[target]
         /\ kept[target] => Good(app[target]) \/ Good(backup[target])
<1>1. Working(target)
  BY DEF IInv, TargetWorks
<1>2. CASE pc \in {"clearBackup", "commit", "restore"}
  BY <1>1, <1>2 DEF Working, Resting
<1>3. CASE pc \in {"active", "dropOld"}
  BY <1>1, <1>3 DEF Working, Good
<1>4. CASE pc = "delete"
  BY <1>1, <1>4 DEF Working
<1>5. CASE pc = "dropNew"
  BY <1>1, <1>5 DEF Working
<1>6. pc \in {"clearBackup", "commit", "restore", "active", "dropOld", "delete", "dropNew"}
  BY DEF IInv, TypeOK, CommandTypes, EndSteps
<1> QED
  BY <1>2, <1>3, <1>4, <1>5, <1>6

\* In a sound environment what stands under /sdcard/apps/<app> is one complete
\* version, whatever the interleaving and wherever the power fails.
THEOREM InstalledWhole ==
  ASSUME SoundEnvironment
  PROVE  Spec => []NoHalfPackage
<1>1. IInv => NoHalfPackage
  <2> SUFFICES ASSUME IInv, NEW a \in Apps
               PROVE  app[a] = NoDir \/ Whole(app[a]) \/ doomed[a]
    BY DEF NoHalfPackage
  <2>1. CASE pc = "idle" \/ a # target
    BY <2>1 DEF IInv, OthersRest, Resting
  <2>2. CASE pc # "idle" /\ a = target
    BY <2>2, TargetSafe
  <2> QED
    BY <2>1, <2>2
<1>2. Spec => []IInv
  BY Invariant
<1> QED
  BY <1>1, <1>2, PTL

\* In a sound environment an application the user installed and did not delete
\* is always complete on the card, in its directory or in its backup.
THEOREM InstalledKept ==
  ASSUME SoundEnvironment
  PROVE  Spec => []NeverLost
<1>1. IInv => NeverLost
  <2> SUFFICES ASSUME IInv, NEW a \in Apps, kept[a]
               PROVE  Good(app[a]) \/ Good(backup[a])
    BY DEF NeverLost, Good
  <2>1. CASE pc = "idle" \/ a # target
    BY <2>1 DEF IInv, OthersRest, Resting
  <2>2. CASE pc # "idle" /\ a = target
    BY <2>2, TargetSafe
  <2> QED
    BY <2>1, <2>2
<1>2. Spec => []IInv
  BY Invariant
<1> QED
  BY <1>1, <1>2, PTL

\* In a sound environment a recovered board at rest has every application in
\* its place and no backup left.
THEOREM BoardSettles ==
  ASSUME SoundEnvironment
  PROVE  Spec => []Settled
<1>1. IInv => Settled
  <2> SUFFICES ASSUME IInv, pc = "idle", booted, ~Scanning, NEW a \in Apps
               PROVE  backup[a] = NoDir /\ (kept[a] => Good(app[a]))
    BY DEF Settled, Good
  <2> QED
    BY DEF IInv, OthersRest, Resting, NoDebris, Good
<1>2. Spec => []IInv
  BY Invariant
<1> QED
  BY <1>1, <1>2, PTL

-----------------------------------------------------------------------------
(* A failed install_end                                                    *)

\* What install_end needs to take its steps back: until the swap the installed
\* directory is still the one it found, and then the backup is, if there is one.
Undoable ==
  /\ pc = "clearBackup" => app[target] = before
  /\ pc \in {"commit", "restore", "active", "dropNew"} =>
       before = IF saved THEN backup[target] ELSE NoDir

\* A step outside install_end leaves what install_end needs alone.
LEMMA OutsideStep ==
  ASSUME pc' \notin EndSteps \/ UNCHANGED <<app, backup, cmdv, hist>>, Undoable
  PROVE  Undoable'
BY DEF Undoable, EndSteps, cmdv, hist

\* Between validation and cleanup install_end can always be taken back.
LEMMA UndoableStep ==
  ASSUME SoundEnvironment, IInv, Undoable, [Next]_vars
  PROVE  Undoable'
<1>0. /\ app \in [Apps -> MaybeDir] /\ backup \in [Apps -> MaybeDir]
      /\ pc # "idle" => target \in Apps
      /\ Scanning => pc = "idle"
  BY DEF IInv, TypeOK, DiskTypes, CommandTypes, Exclusion
<1>1. CASE Transfer
  <2>1. pc = "idle" /\ UNCHANGED pc
    BY <1>1, Quiet DEF Transfer, FileOpen, BulkBegin, InstallBlob, FileLast, FileError, BulkLast,
                       BulkError, cmdv
  <2> QED
    BY <2>1, OutsideStep DEF EndSteps
<1>2. CASE (\E a \in Apps : InstallBegin(a) \/ InstallAbort(a) \/ DeleteBegin(a)) \/ StagingClear \/ EndRefused
  <2>1. pc' \in {"idle", "delete"}
    BY <1>2 DEF InstallBegin, InstallAbort, DeleteBegin, StagingClear, EndRefused, CanRun, cmdv
  <2> QED
    BY <2>1, OutsideStep DEF EndSteps
<1>3. CASE EndValidated
  BY <1>3 DEF EndValidated, Undoable, disk
<1>4. CASE ClearBackup
  BY <1>4, Sound DEF ClearBackup, Undoable, conn, cmdv, hist
<1>5. CASE MoveCurrent
  <2>1. target \in Apps /\ ~saved /\ app[target] = before /\ pc = "clearBackup"
    BY <1>0, <1>5 DEF MoveCurrent, Undoable, IInv, TargetWorks, Working
  <2>2. CASE pc' = "idle"
    BY <2>2, OutsideStep DEF EndSteps
  <2>3. CASE pc' = "commit"
    BY <1>0, <1>5, <2>1, <2>3 DEF MoveCurrent, Undoable, Return, hist
  <2> QED
    BY <1>5, <2>2, <2>3 DEF MoveCurrent, Return
<1>6. CASE Commit
  BY <1>6 DEF Commit, Undoable
<1>7. CASE CommitError
  BY <1>7 DEF CommitError, Undoable, Return, disk, hist
<1>8. CASE Restore \/ DeleteStep \/ EndDone \/ Crash
  <2>1. pc' \notin EndSteps
    BY <1>8 DEF Restore, DeleteStep, EndDone, Crash, Return, EndSteps, cmdv
  <2> QED
    BY <2>1, OutsideStep
<1>9. CASE WriteActive
  BY <1>9 DEF WriteActive, Undoable, disk
<1>10. CASE DropNew
  BY <1>10 DEF DropNew, Undoable, Return, cmdv
<1>11. CASE DropOld
  BY <1>11 DEF DropOld, Undoable, cmdv
<1>12. CASE OpenPage \/ ClosePage \/ ScanDone \/ UNCHANGED vars
  BY <1>12, OutsideStep DEF OpenPage, ClosePage, ScanDone, vars, disk, cmdv, hist
<1>13. CASE \/ RecoverStaging \/ RecoverBackup \/ \E e \in todo : ScanSkip(e)
            \/ \E a \in Apps : ScanStaging(a) \/ ScanBackup(a)
  <2>1. pc' = pc /\ Scanning
    BY <1>13 DEF RecoverStaging, RecoverBackup, ScanSkip, ScanStaging, ScanBackup, Scanning, GuiSteps, cmdv
  <2> QED
    BY <1>0, <2>1, OutsideStep DEF EndSteps
<1> QED
  BY <1>1, <1>2, <1>3, <1>4, <1>5, <1>6, <1>7, <1>8, <1>9, <1>10, <1>11, <1>12, <1>13
  DEF Next, Command, EndStep, Gui

\* A step that ends install_end with an error leaves the directory it found.
LEMMA ErrorRestores ==
  ASSUME SoundEnvironment, IInv, Undoable, [Next]_vars,
         pc \in EndSteps, pc' = "idle", session' # NoApp
  PROVE  app'[target] = before
<1>0. /\ app \in [Apps -> MaybeDir] /\ target \in Apps /\ Working(target)
      /\ pc # "idle" /\ ~Scanning /\ pc # "delete"
  BY DEF IInv, TypeOK, DiskTypes, CommandTypes, Exclusion, TargetWorks, EndSteps
<1>1. CASE ClearBackup
  BY <1>0, <1>1, Sound DEF ClearBackup, cmdv
<1>2. CASE MoveCurrent
  BY <1>0, <1>2 DEF MoveCurrent, Undoable
<1>3. CASE CommitError
  BY <1>0, <1>3 DEF CommitError, Undoable, Working, disk
<1>4. CASE Restore
  BY <1>0, <1>4, Sound DEF Restore, Undoable, Working
<1>5. CASE DropNew
  BY <1>0, <1>5, Sound DEF DropNew, Undoable, cmdv
<1>6. CASE Commit \/ WriteActive \/ DropOld
  BY <1>0, <1>6 DEF Commit, WriteActive, DropOld, cmdv
<1>7. CASE EndDone \/ Crash
  BY <1>7 DEF EndDone, Crash
<1>8. CASE Transfer \/ Command \/ DeleteStep
  BY <1>0, <1>8, Quiet DEF Transfer, Command, FileOpen, BulkBegin, InstallBlob, FileLast, FileError,
     BulkLast, BulkError, InstallBegin, InstallAbort, DeleteBegin, StagingClear, EndRefused,
     EndValidated, DeleteStep, CanRun
<1>9. CASE Gui \/ UNCHANGED vars
  <2>1. pc' = pc
    BY <1>9 DEF Gui, OpenPage, ScanDone, ClosePage, RecoverStaging, RecoverBackup, ScanSkip,
                ScanStaging, ScanBackup, cmdv, vars
  <2> QED
    BY <1>0, <2>1
<1> QED
  BY <1>1, <1>2, <1>3, <1>4, <1>5, <1>6, <1>7, <1>8, <1>9 DEF Next, EndStep

\* In a sound environment an install_end that fails puts back the directory it
\* found, or leaves none where it found none (vb_runtime_install_end_app).
THEOREM FailedEndUndone ==
  ASSUME SoundEnvironment
  PROVE  Spec => FailedEndRestores
<1>1. Init => Undoable
  BY DEF Init, Undoable
<1>2. IInv /\ Undoable /\ [Next]_vars => Undoable'
  BY UndoableStep
<1>3. IInv /\ Undoable /\ [Next]_vars =>
        [(pc \in EndSteps /\ pc' = "idle" /\ session' # NoApp) => app'[target] = before]_vars
  BY ErrorRestores
<1>4. Spec => []IInv
  BY Invariant
<1> QED
  BY <1>1, <1>2, <1>3, <1>4, PTL DEF Spec, FailedEndRestores

-----------------------------------------------------------------------------
(* One version per directory                                               *)

\* Whatever else fails, every package has an inventory that is compared, a cut
\* manifest is refused, and one transport sends.
Compared ==
  /\ Inventoried = Versions
  /\ "cutManifest" \notin Faults /\ "secondTransport" \notin Faults

\* What install_end has validated stays of one version until it is committed.
OneVersionEach ==
  /\ NoMixedVersions
  /\ pc \in {"clearBackup", "commit"} => OneVersion(staging[target])

\* A package that passes the validation is of one version.
LEMMA ValidOneVersion ==
  ASSUME Compared, NEW d \in MaybeDir, Valid(d)
  PROVE  OneVersion(d)
BY DEF Compared, Valid, OneVersion

\* Removing files leaves a directory of one version one.
LEMMA UnlinkedOneVersion ==
  ASSUME NEW d \in Dirs, OneVersion(d), NEW e \in Unlinked(d)
  PROVE  OneVersion(e)
<1>1. PICK f \in Files : e = [d EXCEPT ![f] = Absent]
  BY DEF Unlinked, Present
<1>2. \A g \in Files : e[g] = IF g = f THEN Absent ELSE d[g]
  BY <1>1 DEF Dirs
<1>3. d # NoDir
  BY ConstantsAssumption
<1>4. PICK v \in Versions : \A g \in Files : d[g] \in {v, Absent}
  BY <1>3 DEF OneVersion
<1> QED
  BY <1>2, <1>4 DEF OneVersion

\* Recovery removes a directory file by file.
LEMMA RemovedOneVersion ==
  ASSUME NEW d \in MaybeDir, OneVersion(d), NEW e, RecoverRemove(d, e)
  PROVE  OneVersion(e)
<1>1. CASE e \in Unlinked(d) /\ d # NoDir
  BY <1>1, UnlinkedOneVersion DEF MaybeDir
<1>2. CASE e = NoDir \/ e = d
  BY <1>2 DEF OneVersion
<1> QED
  BY <1>1, <1>2 DEF RecoverRemove

\* A step that writes staging directories while no command works on them.
LEMMA StagingOneVersion ==
  ASSUME OneVersionEach, UNCHANGED <<app, backup>>, pc' \notin {"clearBackup", "commit"}
  PROVE  OneVersionEach'
BY DEF OneVersionEach, NoMixedVersions, OneVersion

LEMMA MixedStep == Compared /\ TypeOK /\ OneVersionEach /\ [Next]_vars => OneVersionEach'
<1> SUFFICES ASSUME Compared, TypeOK, OneVersionEach, [Next]_vars PROVE OneVersionEach'
  OBVIOUS
<1>0. /\ staging \in [Apps -> MaybeDir] /\ app \in [Apps -> MaybeDir] /\ backup \in [Apps -> MaybeDir]
      /\ pc # "idle" => target \in Apps
      /\ session \in Apps \cup {NoApp}
      /\ gpc \in GuiSteps => gapp \in Apps
      /\ OneVersion(NoDir)
  BY DEF TypeOK, DiskTypes, CommandTypes, HostTypes, PageTypes, OneVersion
<1>1. CASE Transfer
  <2>1. pc = "idle" /\ UNCHANGED <<app, backup, pc>>
    BY <1>1 DEF Transfer, FileOpen, BulkBegin, InstallBlob, FileLast, FileError, BulkLast, BulkError,
                CanSend, CanRun, Compared, disk, cmdv
  <2> QED
    BY <2>1, StagingOneVersion
<1>2. CASE (\E a \in Apps : InstallBegin(a) \/ InstallAbort(a)) \/ StagingClear \/ EndRefused
  <2>1. pc = "idle" /\ UNCHANGED <<app, backup, pc>>
    BY <1>2 DEF InstallBegin, InstallAbort, StagingClear, EndRefused, CanRun, disk, cmdv
  <2> QED
    BY <2>1, StagingOneVersion
<1>3. CASE EndValidated
  <2>1. /\ UNCHANGED <<staging, app, backup>> /\ pc' = "clearBackup" /\ target' = session
        /\ session \in Apps /\ Valid(staging[session])
    BY <1>0, <1>3 DEF EndValidated, disk
  <2>2. OneVersion(staging[session])
    BY <1>0, <2>1, ValidOneVersion
  <2> QED
    BY <2>1, <2>2 DEF OneVersionEach, NoMixedVersions, OneVersion
<1>4. CASE ClearBackup
  <2>1. /\ target \in Apps /\ UNCHANGED <<staging, app>> /\ OneVersion(backup[target])
        /\ pc' = "idle" \/ (pc' = "clearBackup" /\ pc = "clearBackup" /\ target' = target)
    BY <1>0, <1>4 DEF ClearBackup, cmdv, Return, OneVersionEach, NoMixedVersions
  <2>2. PICK d : backup' = [backup EXCEPT ![target] = d] /\ OneVersion(d)
    <3>1. CASE \E d \in Unlinked(backup[target]) : backup' = [backup EXCEPT ![target] = d]
      <4>1. backup[target] \in Dirs
        BY <1>0, <1>4, <2>1 DEF ClearBackup, MaybeDir
      <4> QED
        BY <2>1, <3>1, <4>1, UnlinkedOneVersion
    <3>2. CASE backup' = [backup EXCEPT ![target] = NoDir]
      BY <1>0, <3>2
    <3>3. CASE UNCHANGED backup
      <4>1. backup' = [backup EXCEPT ![target] = backup[target]]
        BY <1>0, <3>3
      <4> QED
        BY <2>1, <4>1
    <3> QED
      BY <1>4, <3>1, <3>2, <3>3 DEF ClearBackup
  <2>3. \A a \in Apps : backup'[a] = IF a = target THEN d ELSE backup[a]
    BY <1>0, <2>2
  <2> QED
    BY <2>1, <2>2, <2>3 DEF OneVersionEach, NoMixedVersions, OneVersion
<1>5. CASE MoveCurrent
  <2>1. target \in Apps /\ UNCHANGED staging /\ pc = "clearBackup"
    BY <1>0, <1>5 DEF MoveCurrent
  <2>2. /\ \A a \in Apps : app'[a] \in {app[a], NoDir} /\ backup'[a] \in {app[a], backup[a]}
        /\ pc' = "idle" \/ target' = target
    BY <1>0, <1>5, <2>1 DEF MoveCurrent, Return
  <2> QED
    BY <1>0, <2>1, <2>2 DEF OneVersionEach, NoMixedVersions, OneVersion
<1>6. CASE Commit
  <2>1. target \in Apps /\ UNCHANGED backup /\ pc = "commit" /\ pc' = "active"
    BY <1>0, <1>6 DEF Commit
  <2>2. \A a \in Apps : app'[a] = IF a = target THEN staging[target] ELSE app[a]
    BY <1>0, <1>6 DEF Commit
  <2> QED
    BY <2>1, <2>2 DEF OneVersionEach, NoMixedVersions, OneVersion
<1>7. CASE Restore
  <2>1. /\ target \in Apps /\ pc' = "idle"
        /\ \A a \in Apps : app'[a] \in {app[a], backup[a]} /\ backup'[a] \in {backup[a], NoDir}
    BY <1>0, <1>7 DEF Restore, Return
  <2> QED
    BY <1>0, <2>1 DEF OneVersionEach, NoMixedVersions, OneVersion
<1>8. CASE DropNew \/ DeleteStep
  <2>1. /\ target \in Apps /\ UNCHANGED backup /\ pc' \notin {"clearBackup", "commit"}
    BY <1>0, <1>8 DEF DropNew, DeleteStep, Return, cmdv
  <2>2. PICK d : app' = [app EXCEPT ![target] = d] /\ OneVersion(d)
    <3>0. OneVersion(app[target])
      BY <2>1 DEF OneVersionEach, NoMixedVersions
    <3>1. CASE app[target] # NoDir /\ \E d \in Unlinked(app[target]) : app' = [app EXCEPT ![target] = d]
      <4>1. app[target] \in Dirs
        BY <1>0, <2>1, <3>1 DEF MaybeDir
      <4> QED
        BY <3>0, <3>1, <4>1, UnlinkedOneVersion
    <3>2. CASE app' = [app EXCEPT ![target] = NoDir]
      BY <1>0, <3>2
    <3>3. CASE UNCHANGED app
      <4>1. app' = [app EXCEPT ![target] = app[target]]
        BY <1>0, <3>3
      <4> QED
        BY <3>0, <4>1
    <3> QED
      BY <1>8, <3>1, <3>2, <3>3 DEF DropNew, DeleteStep
  <2>3. \A a \in Apps : app'[a] = IF a = target THEN d ELSE app[a]
    BY <1>0, <2>2
  <2> QED
    BY <2>1, <2>2, <2>3 DEF OneVersionEach, NoMixedVersions, OneVersion
<1>9. CASE DropOld
  <2>1. /\ target \in Apps /\ UNCHANGED app /\ pc' \notin {"clearBackup", "commit"}
        /\ backup[target] \in Dirs /\ OneVersion(backup[target])
    BY <1>0, <1>9 DEF DropOld, cmdv, MaybeDir, OneVersionEach, NoMixedVersions
  <2>2. PICK d \in Unlinked(backup[target]) \cup {NoDir} : backup' = [backup EXCEPT ![target] = d]
    BY <1>9 DEF DropOld
  <2>3. OneVersion(d)
    BY <1>0, <2>1, <2>2, UnlinkedOneVersion
  <2>4. \A a \in Apps : backup'[a] = IF a = target THEN d ELSE backup[a]
    BY <1>0, <2>2
  <2> QED
    BY <2>1, <2>3, <2>4 DEF OneVersionEach, NoMixedVersions, OneVersion
<1>10. CASE CommitError \/ WriteActive \/ EndDone \/ Crash \/ \E a \in Apps : DeleteBegin(a)
  <2>1. UNCHANGED <<app, backup>> /\ pc' \notin {"clearBackup", "commit"}
    BY <1>10 DEF CommitError, WriteActive, EndDone, Crash, DeleteBegin, Return, disk
  <2> QED
    BY <2>1, StagingOneVersion
<1>11. CASE \/ OpenPage \/ ScanDone \/ ClosePage \/ UNCHANGED vars
            \/ (\E e \in todo : ScanSkip(e)) \/ \E a \in Apps : ScanStaging(a)
  <2>1. UNCHANGED <<staging, app, backup, pc, target>>
    BY <1>11 DEF OpenPage, ScanDone, ClosePage, vars, ScanSkip, ScanStaging, disk, cmdv
  <2> QED
    BY <2>1 DEF OneVersionEach, NoMixedVersions, OneVersion
<1>12. ASSUME NEW a \in Apps, ScanBackup(a) PROVE OneVersionEach'
  <2>1. /\ UNCHANGED <<staging, pc, target>>
        /\ \A b \in Apps : app'[b] \in {app[b], backup[b]} /\ backup'[b] \in {backup[b], NoDir}
    BY <1>0, <1>12 DEF ScanBackup, cmdv
  <2> QED
    BY <1>0, <2>1 DEF OneVersionEach, NoMixedVersions, OneVersion
<1>13. CASE RecoverStaging
  <2>1. UNCHANGED <<app, backup, pc, target>> /\ gapp \in Apps
    BY <1>0, <1>13 DEF RecoverStaging, cmdv, GuiSteps
  <2>2. PICK d : RecoverRemove(staging[gapp], d) /\ staging' = [staging EXCEPT ![gapp] = d]
    BY <1>13 DEF RecoverStaging
  <2>3. \A a \in Apps : staging'[a] = IF a = gapp THEN d ELSE staging[a]
    BY <1>0, <2>2
  <2>4. OneVersion(staging[gapp]) => OneVersion(d)
    BY <1>0, <2>1, <2>2, RemovedOneVersion
  <2>5. pc \in {"clearBackup", "commit"} => OneVersion(staging'[target])
    BY <1>0, <2>3, <2>4 DEF OneVersionEach
  <2> QED
    BY <2>1, <2>5 DEF OneVersionEach, NoMixedVersions, OneVersion
<1>14. CASE RecoverBackup
  <2>1. UNCHANGED <<staging, app, pc, target>> /\ gapp \in Apps
    BY <1>0, <1>14 DEF RecoverBackup, cmdv, GuiSteps
  <2>2. PICK d : RecoverRemove(backup[gapp], d) /\ backup' = [backup EXCEPT ![gapp] = d]
    BY <1>14 DEF RecoverBackup
  <2>3. OneVersion(d)
    BY <1>0, <2>1, <2>2, RemovedOneVersion DEF OneVersionEach, NoMixedVersions
  <2>4. \A a \in Apps : backup'[a] = IF a = gapp THEN d ELSE backup[a]
    BY <1>0, <2>2
  <2> QED
    BY <2>1, <2>3, <2>4 DEF OneVersionEach, NoMixedVersions, OneVersion
<1> QED
  BY <1>1, <1>2, <1>3, <1>4, <1>5, <1>6, <1>7, <1>8, <1>9, <1>10, <1>11, <1>12, <1>13, <1>14
  DEF Next, Command, EndStep, Gui

\* What is found under /sdcard/apps or in a backup never mixes versions, even on
\* a card whose removals and renames fail, with the page opened at any moment
\* and power lost at any step (vb_runtime_package_validate_stage).
THEOREM VersionsUnmixed ==
  ASSUME Compared
  PROVE  Spec => []NoMixedVersions
<1>1. Init => OneVersionEach
  <2> SUFFICES ASSUME Init, NEW a \in Apps PROVE OneVersion(app[a]) /\ OneVersion(backup[a])
    BY DEF Init, OneVersionEach, NoMixedVersions
  <2>1. backup[a] = NoDir /\ app[a] \in {NoDir} \cup {Package(v) : v \in Versions}
    BY DEF Init
  <2> QED
    BY <2>1 DEF OneVersion, Package
<1>2. OneVersionEach => NoMixedVersions
  BY DEF OneVersionEach
<1> QED
  BY <1>1, <1>2, InitTypes, TypeStep, MixedStep, PTL DEF Spec

=============================================================================
