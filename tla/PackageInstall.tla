--------------------------- MODULE PackageInstall ---------------------------
(***************************************************************************)
(* The install transaction of the board (VibeBoard_Runtime/main.c and      *)
(* vb_runtime_package.c): a host opens a session on an application, fills  *)
(* its staging directory file by file, and install_end validates the       *)
(* staged package and swaps it with the installed one through a backup     *)
(* directory.                                                              *)
(*                                                                         *)
(* Two threads touch the same directories and the same session variables   *)
(* without a lock:                                                         *)
(*   - the command thread (BLE worker or shell) runs one command at a      *)
(*     time; the commands that rename and delete installed directories are *)
(*     split where the SD card can lose power or the other thread can run; *)
(*   - the GUI thread runs on_start when the Runtime page is opened: it    *)
(*     clears the session and repairs what a crash left behind.            *)
(*                                                                         *)
(* What the environment may do beyond following the happy path is named    *)
(* by the constant Faults, so that each run and each theorem says under    *)
(* which faults its property holds.                                        *)
(***************************************************************************)
EXTENDS Naturals, FiniteSets

CONSTANTS
  Apps,         \* application ids
  Files,        \* paths of a package
  Main,         \* main.lua
  Manifest,     \* manifest.json (or app.info for a package without one)
  Versions,     \* package versions a host may send
  Inventoried,  \* versions whose manifest carries the files[] inventory
  Faults,       \* what may go wrong, see FaultKinds
  NoApp,        \* install_app is the empty string
  NoFile,       \* install_fd is -1
  NoDir,        \* the directory does not exist
  Absent,       \* the file does not exist
  Torn          \* the file holds something else than a complete version

FaultKinds ==
  { "crash",            \* the board loses power or is reset
    "writeFails",       \* a write or an allocation of a transfer fails
    "backupFails",      \* rename of the installed directory to the backup
    "commitFails",      \* rename of the staging directory to the app
    "restoreFails",     \* rename of the backup back to the app
    "activeFails",      \* writing the active-app marker
    "removeFails",      \* an unlink or rmdir of a tree removal
    "cutManifest",      \* a manifest cut short of its files[] still scans
    "earlyCommand",     \* a command arrives before the page was ever opened
    "pageDuringInstall",\* the page is opened while a session is open
    "secondTransport" } \* serial and BLE both send commands of one session

Content == Versions \cup {Absent, Torn}
Dirs    == [Files -> Content]
MaybeDir == Dirs \cup {NoDir}

\* The package of version v, every file as the host holds it.
Package(v) == [f \in Files |-> v]
EmptyDir   == [f \in Files |-> Absent]

ASSUME ConstantsAssumption ==
  /\ Main \in Files /\ Manifest \in Files
  /\ Inventoried \subseteq Versions
  /\ Faults \subseteq FaultKinds
  /\ NoApp \notin Apps
  /\ NoFile \notin Files
  /\ NoDir \notin Dirs
  /\ Absent \notin Versions /\ Torn \notin Versions /\ Absent # Torn

VARIABLES
  staging,  \* the .__install_<app> directories
  app,      \* the /sdcard/apps/<app> directories
  backup,   \* the .__backup_<app> directories
  session,  \* g_vb_runtime.install_app
  openFile, \* path of g_vb_runtime.install_fd
  xfer,     \* the file the host is in the middle of sending, and from what
  bulk,     \* install_bulk_active and install_bulk_complete
  pc,       \* where the command thread is
  target,   \* the application of the command that is running
  saved,    \* have_backup of install_end
  gpc,      \* where the GUI thread is in on_start
  gapp,     \* the application whose directory on_start is removing
  todo,     \* directory entries recovery has not looked at yet
  booted,   \* the page has been opened since power-up
  before,   \* the installed directory when the running install_end began
  kept,     \* the user has a package of this app: installed, not deleted
  doomed    \* its directory is being removed on purpose

disk == <<staging, app, backup>>
conn == <<session, openFile, xfer, bulk>>
cmdv == <<pc, target, saved>>
guiv == <<gpc, gapp, todo, booted>>
hist == <<before, kept, doomed>>
vars == <<staging, app, backup, session, openFile, xfer, bulk, pc, target,
          saved, gpc, gapp, todo, booted, before, kept, doomed>>

NoXfer == [file |-> NoFile, ver |-> Torn, stale |-> FALSE]
Xfers  == [file : Files \cup {NoFile}, ver : Versions \cup {Torn}, stale : BOOLEAN]
Entries == {"staging", "backup"} \X Apps
EndSteps == {"clearBackup", "commit", "restore", "active", "dropNew", "dropOld"}
GuiSteps == {"rmStaging", "rmBackup"}

Whole(d)   == \E v \in Versions : d = Package(v)
Present(d) == {f \in Files : d[f] # Absent}
Vacant(d)  == d \in {NoDir, EmptyDir}

\* vb_remove_tree, one unlink at a time.
Unlinked(d) == {[d EXCEPT ![f] = Absent] : f \in Present(d)}

\* What an interrupted vb_remove_tree may leave of d.
Leftovers(d) == {[f \in Files |-> IF f \in S THEN d[f] ELSE Absent] : S \in SUBSET Files}

\* Mutant of Valid: the sizes and digests of files[] are not compared.
ValidByName(d) ==
  d # NoDir /\ d[Main] # Absent /\ d[Manifest] \in Versions

\* vb_runtime_package_validate_stage.  The manifest is scanned, not parsed: a
\* cut one is refused, or accepted as one without an inventory.
Valid(d) ==
  /\ d # NoDir
  /\ d[Main] # Absent
  /\ \/ d[Manifest] \in Inventoried /\ \A f \in Files : d[f] = d[Manifest]
     \/ d[Manifest] \in Versions \ Inventoried
     \/ d[Manifest] = Torn /\ "cutManifest" \in Faults

Init ==
  /\ app \in [Apps -> {NoDir} \cup {Package(v) : v \in Versions}]
  /\ staging = [a \in Apps |-> NoDir]
  /\ backup = [a \in Apps |-> NoDir]
  /\ session = NoApp /\ openFile = NoFile /\ xfer = NoXfer /\ bulk = "idle"
  /\ pc = "idle" /\ target = NoApp /\ saved = FALSE
  /\ gpc = "closed" /\ gapp = NoApp /\ todo = {} /\ booted = FALSE
  /\ before = NoDir
  /\ kept = [a \in Apps |-> app[a] # NoDir]
  /\ doomed = [a \in Apps |-> FALSE]

Scanning == gpc = "scan" \/ gpc \in GuiSteps

\* The command thread takes its next command.
CanRun ==
  /\ pc = "idle"
  /\ booted \/ "earlyCommand" \in Faults
  /\ ~Scanning \/ "pageDuringInstall" \in Faults

\* A transfer command; with two transports it may arrive during install_end.
CanSend ==
  /\ session # NoApp
  /\ CanRun \/ (pc # "idle" /\ "secondTransport" \in Faults)

-----------------------------------------------------------------------------
(* Commands that open, fill and drop a session                             *)

\* vb_runtime_install_begin_app of an app other than the session's own (its
\* own is answered RT_EOK and changes nothing).  An open session is aborted
\* first; if that fails the session is gone and begin returns the error.
InstallBegin(a) ==
  /\ CanRun /\ session # a
  /\ openFile' = NoFile /\ xfer' = NoXfer /\ bulk' = "idle"
  /\ LET dropped == [staging EXCEPT ![session] = NoDir]
         cleared == IF session = NoApp THEN staging ELSE dropped
     IN \/ /\ session' = a
           /\ staging' = [cleared EXCEPT ![a] = EmptyDir]
        \/ /\ "removeFails" \in Faults /\ session # NoApp /\ staging[session] # NoDir
           /\ session' = NoApp
           /\ \E d \in Leftovers(staging[session]) :
                staging' = [staging EXCEPT ![session] = d]
        \/ /\ "removeFails" \in Faults /\ staging[a] # NoDir
           /\ session' = NoApp
           /\ \E d \in Leftovers(staging[a]) : staging' = [cleared EXCEPT ![a] = d]
  /\ UNCHANGED <<app, backup, cmdv, guiv, hist>>

\* The first vb_runtime_install_file chunk of file f: the path is reopened
\* with O_TRUNC unless it is the one already open, whose old bytes stay.
FileOpen(f, v) ==
  /\ CanSend /\ bulk # "active"
  /\ LET d == IF staging[session] = NoDir THEN EmptyDir ELSE staging[session]
     IN staging' = [staging EXCEPT ![session] = [d EXCEPT ![f] = Torn]]
  /\ openFile' = f
  /\ xfer' = [file |-> f, ver |-> v,
              stale |-> openFile = f /\ xfer.file = f /\ (xfer.ver # v \/ xfer.stale)]
  /\ bulk' = "idle"
  /\ UNCHANGED <<session, app, backup, cmdv, guiv, hist>>

\* The last chunk of that file.  Over the longer bytes of another version it
\* leaves their tail behind.
FileLast ==
  /\ CanSend /\ bulk # "active" /\ xfer.file # NoFile
  /\ \E c \in {xfer.ver} \cup (IF xfer.stale THEN {Torn} ELSE {}) :
       LET d == IF staging[session] = NoDir THEN EmptyDir ELSE staging[session]
       IN staging' = [staging EXCEPT ![session] =
                        [d EXCEPT ![xfer.file] = IF staging[session] = NoDir THEN Torn ELSE c]]
  /\ openFile' = xfer.file
  /\ bulk' = "idle"
  /\ UNCHANGED <<session, xfer, app, backup, cmdv, guiv, hist>>

\* A chunk that cannot be written closes the file.
FileError ==
  /\ CanSend /\ bulk # "active" /\ xfer.file # NoFile /\ "writeFails" \in Faults
  /\ openFile' = NoFile /\ xfer' = NoXfer /\ bulk' = "idle"
  /\ UNCHANGED <<disk, session, cmdv, guiv, hist>>

\* vb_runtime_install_bulk_begin: a new transfer truncates its file; one that
\* is still running keeps the board busy (its own repeated begin is a no-op).
BulkBegin(f, v) ==
  /\ CanSend /\ bulk # "active"
  /\ LET d == IF staging[session] = NoDir THEN EmptyDir ELSE staging[session]
     IN staging' = [staging EXCEPT ![session] = [d EXCEPT ![f] = Torn]]
  /\ \/ /\ bulk' = "active" /\ openFile' = f
        /\ xfer' = [file |-> f, ver |-> v, stale |-> FALSE]
     \/ /\ "writeFails" \in Faults
        /\ bulk' = "idle" /\ openFile' = NoFile /\ xfer' = NoXfer
  /\ UNCHANGED <<session, app, backup, cmdv, guiv, hist>>

\* The packet that completes the transfer: flush, fsync, close, complete = 1.
BulkLast ==
  /\ CanSend /\ bulk = "active" /\ openFile = xfer.file
  /\ staging' = [staging EXCEPT ![session] =
                   IF @ = NoDir THEN NoDir ELSE [@ EXCEPT ![xfer.file] = xfer.ver]]
  /\ bulk' = "complete" /\ openFile' = NoFile
  /\ UNCHANGED <<session, xfer, app, backup, cmdv, guiv, hist>>

\* A packet whose write fails, or finds the file closed under it, ends the
\* transfer: active = 0, and install_end no longer sees it as incomplete.
BulkError ==
  /\ CanSend /\ bulk = "active"
  /\ "writeFails" \in Faults \/ openFile # xfer.file
  /\ bulk' = "idle" /\ openFile' = NoFile /\ xfer' = NoXfer
  /\ UNCHANGED <<disk, session, cmdv, guiv, hist>>

\* vb_runtime_install_blob_file: one shell command receives the whole file.
\* It closes whatever file is open, a running bulk transfer's included.
InstallBlob(f, v) ==
  /\ CanSend
  /\ \E c \in {v} \cup (IF "writeFails" \in Faults THEN {Torn} ELSE {}) :
       LET d == IF staging[session] = NoDir THEN EmptyDir ELSE staging[session]
       IN staging' = [staging EXCEPT ![session] = [d EXCEPT ![f] = c]]
  /\ openFile' = NoFile
  /\ UNCHANGED <<session, xfer, bulk, app, backup, cmdv, guiv, hist>>

\* vb_runtime_install_abort_app: with no session open it only clears the
\* staging directory of the app it names.
InstallAbort(a) ==
  /\ CanRun /\ session \in {a, NoApp}
  /\ openFile' = NoFile /\ session' = NoApp
  /\ bulk' = IF session = a THEN "idle" ELSE bulk
  /\ xfer' = NoXfer
  /\ \/ staging' = [staging EXCEPT ![a] = NoDir]
     \/ /\ "removeFails" \in Faults /\ staging[a] # NoDir
        /\ \E d \in Leftovers(staging[a]) : staging' = [staging EXCEPT ![a] = d]
  /\ UNCHANGED <<app, backup, cmdv, guiv, hist>>

\* vb_runtime_staging_clear_all: the session goes, and every staging
\* directory that can be removed.
StagingClear ==
  /\ CanRun
  /\ openFile' = NoFile /\ session' = NoApp /\ bulk' = "idle" /\ xfer' = NoXfer
  /\ \E failed \in IF "removeFails" \in Faults
                     THEN SUBSET {a \in Apps : staging[a] # NoDir} ELSE {{}} :
       staging' = [a \in Apps |-> IF a \in failed THEN EmptyDir ELSE NoDir]
  /\ UNCHANGED <<app, backup, cmdv, guiv, hist>>

-----------------------------------------------------------------------------
(* vb_runtime_install_end_app, from validation to the cleared session      *)

\* install_end returns: an error leaves the session open, success clears it.
Return ==
  pc' = "idle" /\ target' = NoApp /\ saved' = FALSE

EndRefused ==
  /\ CanRun /\ session # NoApp /\ bulk # "active"
  /\ ~Valid(staging[session])
  /\ openFile' = NoFile
  /\ UNCHANGED <<disk, session, xfer, bulk, cmdv, guiv, hist>>

EndValidated ==
  /\ CanRun /\ session # NoApp /\ bulk # "active"
  /\ Valid(staging[session])
  /\ openFile' = NoFile
  /\ pc' = "clearBackup" /\ target' = session /\ saved' = FALSE
  /\ before' = app[session]
  /\ UNCHANGED <<disk, session, xfer, bulk, guiv, kept, doomed>>

\* A backup an earlier attempt left is removed before the swap.
ClearBackup ==
  /\ pc = "clearBackup" /\ backup[target] # NoDir
  /\ \/ /\ \E d \in Unlinked(backup[target]) : backup' = [backup EXCEPT ![target] = d]
        /\ UNCHANGED cmdv
     \/ /\ Present(backup[target]) = {}
        /\ backup' = [backup EXCEPT ![target] = NoDir]
        /\ UNCHANGED cmdv
     \/ /\ "removeFails" \in Faults
        /\ Return /\ UNCHANGED backup
  /\ UNCHANGED <<staging, app, conn, guiv, hist>>

\* Mutant of MoveCurrent: the installed directory is removed, not kept aside.
MoveCurrentAway ==
  /\ pc = "clearBackup" /\ backup[target] = NoDir
  /\ app' = [app EXCEPT ![target] = NoDir]
  /\ pc' = "commit"
  /\ UNCHANGED <<staging, backup, conn, target, saved, guiv, hist>>

\* rename(app_dir, backup_dir), if there is an installed directory.
MoveCurrent ==
  /\ pc = "clearBackup" /\ backup[target] = NoDir
  /\ \/ /\ app[target] # NoDir
        /\ backup' = [backup EXCEPT ![target] = app[target]]
        /\ app' = [app EXCEPT ![target] = NoDir]
        /\ pc' = "commit" /\ saved' = TRUE /\ UNCHANGED target
     \/ /\ app[target] = NoDir
        /\ pc' = "commit" /\ UNCHANGED <<app, backup, target, saved>>
     \/ /\ app[target] # NoDir /\ "backupFails" \in Faults
        /\ Return /\ UNCHANGED <<app, backup>>
  /\ UNCHANGED <<staging, conn, guiv, hist>>

\* rename(staging_dir, app_dir)
Commit ==
  /\ pc = "commit" /\ staging[target] # NoDir /\ app[target] = NoDir
  /\ app' = [app EXCEPT ![target] = staging[target]]
  /\ staging' = [staging EXCEPT ![target] = NoDir]
  /\ pc' = "active"
  /\ doomed' = [doomed EXCEPT ![target] = FALSE]
  /\ UNCHANGED <<backup, conn, target, saved, guiv, before, kept>>

\* Mutant of CommitError: a failed commit returns without the rename back.
CommitErrorReturns ==
  /\ pc = "commit"
  /\ staging[target] = NoDir \/ app[target] # NoDir \/ "commitFails" \in Faults
  /\ Return
  /\ UNCHANGED <<disk, conn, guiv, hist>>

CommitError ==
  /\ pc = "commit"
  /\ staging[target] = NoDir \/ app[target] # NoDir \/ "commitFails" \in Faults
  /\ IF saved THEN pc' = "restore" /\ UNCHANGED <<target, saved>> ELSE Return
  /\ UNCHANGED <<disk, conn, guiv, hist>>

\* The result of the rename back is not looked at.
Restore ==
  /\ pc = "restore"
  /\ \/ /\ backup[target] # NoDir /\ app[target] = NoDir
        /\ app' = [app EXCEPT ![target] = backup[target]]
        /\ backup' = [backup EXCEPT ![target] = NoDir]
     \/ /\ backup[target] = NoDir \/ app[target] # NoDir \/ "restoreFails" \in Faults
        /\ UNCHANGED <<app, backup>>
  /\ Return
  /\ UNCHANGED <<staging, conn, guiv, hist>>

\* vb_write_active_app decides: clean up, or take the new directory back.
WriteActive ==
  /\ pc = "active"
  /\ \/ pc' = "dropOld" /\ UNCHANGED doomed
     \/ /\ "activeFails" \in Faults
        /\ pc' = "dropNew"
        /\ doomed' = [doomed EXCEPT ![target] = TRUE]
  /\ UNCHANGED <<disk, conn, target, saved, guiv, before, kept>>

DropNew ==
  /\ pc = "dropNew"
  /\ \/ /\ app[target] # NoDir
        /\ \E d \in Unlinked(app[target]) : app' = [app EXCEPT ![target] = d]
        /\ UNCHANGED <<cmdv, doomed>>
     \/ /\ Vacant(app[target])
        /\ app' = [app EXCEPT ![target] = NoDir]
        /\ doomed' = [doomed EXCEPT ![target] = FALSE]
        /\ IF saved THEN pc' = "restore" /\ UNCHANGED <<target, saved>> ELSE Return
     \/ /\ "removeFails" \in Faults
        /\ IF saved THEN pc' = "restore" /\ UNCHANGED <<target, saved>> ELSE Return
        /\ UNCHANGED <<app, doomed>>
  /\ UNCHANGED <<staging, backup, conn, guiv, before, kept>>

DropOld ==
  /\ pc = "dropOld" /\ saved /\ backup[target] # NoDir
  /\ backup' \in { [backup EXCEPT ![target] = d] :
                     d \in Unlinked(backup[target])
                           \cup (IF Present(backup[target]) = {} THEN {NoDir} ELSE {}) }
  /\ UNCHANGED <<staging, app, conn, cmdv, guiv, hist>>

\* Success: whatever is left of the backup, the session is cleared.
EndDone ==
  /\ pc = "dropOld"
  /\ ~saved \/ backup[target] = NoDir \/ "removeFails" \in Faults
  /\ Return
  /\ session' = NoApp /\ bulk' = "idle" /\ xfer' = NoXfer
  /\ kept' = [kept EXCEPT ![target] = TRUE]
  /\ UNCHANGED <<disk, openFile, guiv, before, doomed>>

-----------------------------------------------------------------------------
(* vb_runtime_app_delete.  Whether the app is active and running is not    *)
(* modelled: the refusal it can cause changes nothing here.                *)

DeleteBegin(a) ==
  /\ CanRun /\ session # a /\ app[a] # NoDir
  /\ pc' = "delete" /\ target' = a /\ saved' = FALSE
  /\ kept' = [kept EXCEPT ![a] = FALSE]
  /\ doomed' = [doomed EXCEPT ![a] = TRUE]
  /\ UNCHANGED <<disk, conn, guiv, before>>

DeleteStep ==
  /\ pc = "delete"
  /\ \/ /\ app[target] # NoDir
        /\ \E d \in Unlinked(app[target]) : app' = [app EXCEPT ![target] = d]
        /\ UNCHANGED <<cmdv, doomed>>
     \/ /\ Vacant(app[target])
        /\ app' = [app EXCEPT ![target] = NoDir]
        /\ doomed' = [doomed EXCEPT ![target] = FALSE]
        /\ Return
     \/ /\ "removeFails" \in Faults
        /\ Return /\ UNCHANGED <<app, doomed>>
  /\ UNCHANGED <<staging, backup, conn, guiv, before, kept>>

-----------------------------------------------------------------------------
(* on_start and vb_runtime_recover_install_state on the GUI thread         *)

\* The page opens: the runtime state is cleared, open session included.
OpenPage ==
  /\ gpc = "closed"
  /\ (session = NoApp /\ pc = "idle") \/ "pageDuringInstall" \in Faults
  /\ gpc' = "scan" /\ todo' = Entries
  /\ session' = NoApp /\ openFile' = NoFile /\ bulk' = "idle" /\ xfer' = NoXfer
  /\ UNCHANGED <<disk, cmdv, gapp, booted, hist>>

\* A name that does not exist when the scan gets there.
ScanSkip(e) ==
  /\ gpc = "scan" /\ e \in todo
  /\ (IF e[1] = "staging" THEN staging[e[2]] ELSE backup[e[2]]) = NoDir
  /\ todo' = todo \ {e}
  /\ UNCHANGED <<disk, conn, cmdv, gpc, gapp, booted, hist>>

ScanStaging(a) ==
  /\ gpc = "scan" /\ <<"staging", a>> \in todo /\ staging[a] # NoDir
  /\ gpc' = "rmStaging" /\ gapp' = a
  /\ todo' = todo \ {<<"staging", a>>}
  /\ UNCHANGED <<disk, conn, cmdv, booted, hist>>

\* Mutant of ScanBackup: recovery removes backups and renames none back.
ScanBackupDiscards(a) ==
  /\ gpc = "scan" /\ <<"backup", a>> \in todo /\ backup[a] # NoDir
  /\ todo' = todo \ {<<"backup", a>>}
  /\ gpc' = "rmBackup" /\ gapp' = a
  /\ UNCHANGED <<disk, conn, cmdv, booted, hist>>

\* A backup beside an installed app is removed, an orphan is renamed back.
ScanBackup(a) ==
  /\ gpc = "scan" /\ <<"backup", a>> \in todo /\ backup[a] # NoDir
  /\ todo' = todo \ {<<"backup", a>>}
  /\ \/ /\ app[a] # NoDir
        /\ gpc' = "rmBackup" /\ gapp' = a
        /\ UNCHANGED <<app, backup>>
     \/ /\ app[a] = NoDir
        /\ app' = [app EXCEPT ![a] = backup[a]]
        /\ backup' = [backup EXCEPT ![a] = NoDir]
        /\ UNCHANGED <<gpc, gapp>>
     \/ /\ app[a] = NoDir /\ "restoreFails" \in Faults
        /\ UNCHANGED <<app, backup, gpc, gapp>>
  /\ UNCHANGED <<staging, conn, cmdv, booted, hist>>

\* vb_remove_tree on the GUI thread: d is the directory as it is now.
RecoverRemove(d, next) ==
  /\ \/ /\ d # NoDir
        /\ next \in Unlinked(d)
        /\ UNCHANGED <<gpc, gapp>>
     \/ /\ d # NoDir /\ Present(d) = {}
        /\ next = NoDir
        /\ gpc' = "scan" /\ gapp' = NoApp
     \/ /\ d = NoDir \/ "removeFails" \in Faults
        /\ next = d
        /\ gpc' = "scan" /\ gapp' = NoApp

RecoverStaging ==
  /\ gpc = "rmStaging"
  /\ \E d \in MaybeDir :
       /\ RecoverRemove(staging[gapp], d)
       /\ staging' = [staging EXCEPT ![gapp] = d]
  /\ UNCHANGED <<app, backup, conn, cmdv, todo, booted, hist>>

RecoverBackup ==
  /\ gpc = "rmBackup"
  /\ \E d \in MaybeDir :
       /\ RecoverRemove(backup[gapp], d)
       /\ backup' = [backup EXCEPT ![gapp] = d]
  /\ UNCHANGED <<staging, app, conn, cmdv, todo, booted, hist>>

ScanDone ==
  /\ gpc = "scan" /\ todo = {}
  /\ gpc' = "open" /\ booted' = TRUE
  /\ UNCHANGED <<disk, conn, cmdv, gapp, todo, hist>>

\* on_stop closes the install file and nothing else of the session.
ClosePage ==
  /\ gpc = "open"
  /\ gpc' = "closed" /\ openFile' = NoFile
  /\ UNCHANGED <<disk, session, xfer, bulk, cmdv, gapp, todo, booted, hist>>

-----------------------------------------------------------------------------
\* Power loss: memory is lost, the directories stay as they are.
Crash ==
  /\ "crash" \in Faults
  /\ session' = NoApp /\ openFile' = NoFile /\ bulk' = "idle" /\ xfer' = NoXfer
  /\ Return
  /\ gpc' = "closed" /\ gapp' = NoApp /\ todo' = {} /\ booted' = FALSE
  /\ UNCHANGED <<disk, hist>>

Transfer ==
  \/ \E f \in Files, v \in Versions : FileOpen(f, v) \/ BulkBegin(f, v) \/ InstallBlob(f, v)
  \/ FileLast \/ FileError \/ BulkLast \/ BulkError

Command ==
  \/ \E a \in Apps : InstallBegin(a) \/ InstallAbort(a) \/ DeleteBegin(a)
  \/ StagingClear \/ EndRefused \/ EndValidated

EndStep ==
  \/ ClearBackup \/ MoveCurrent \/ Commit \/ CommitError \/ Restore
  \/ WriteActive \/ DropNew \/ DropOld \/ EndDone

Gui ==
  \/ OpenPage \/ ScanDone \/ ClosePage \/ RecoverStaging \/ RecoverBackup
  \/ \E e \in todo : ScanSkip(e)
  \/ \E a \in Apps : ScanStaging(a) \/ ScanBackup(a)

Next == Transfer \/ Command \/ EndStep \/ DeleteStep \/ Gui \/ Crash

Spec == Init /\ [][Next]_vars

-----------------------------------------------------------------------------
(* Properties                                                              *)

\* The values the variables range over.
DiskTypes ==
  /\ staging \in [Apps -> MaybeDir]
  /\ app \in [Apps -> MaybeDir]
  /\ backup \in [Apps -> MaybeDir]
HostTypes ==
  /\ session \in Apps \cup {NoApp}
  /\ openFile \in Files \cup {NoFile}
  /\ xfer \in Xfers
  /\ bulk \in {"idle", "active", "complete"}
CommandTypes ==
  /\ pc \in EndSteps \cup {"idle", "delete"}
  /\ target \in Apps \cup {NoApp}
  /\ pc # "idle" => target \in Apps
  /\ saved \in BOOLEAN
PageTypes ==
  /\ gpc \in {"closed", "scan", "open"} \cup GuiSteps
  /\ gapp \in Apps \cup {NoApp}
  /\ gpc \in GuiSteps => gapp \in Apps
  /\ todo \subseteq Entries
  /\ booted \in BOOLEAN
HistoryTypes ==
  /\ before \in MaybeDir
  /\ kept \in [Apps -> BOOLEAN]
  /\ doomed \in [Apps -> BOOLEAN]

TypeOK == DiskTypes /\ HostTypes /\ CommandTypes /\ PageTypes /\ HistoryTypes

\* A half package never stands in for an application: what is found under
\* /sdcard/apps/<app> is one complete version, unless the directory is being
\* removed on purpose.
NoHalfPackage ==
  \A a \in Apps : app[a] = NoDir \/ Whole(app[a]) \/ doomed[a]

\* The files found under /sdcard/apps/<app> or in its backup belong to one
\* version and are complete, whichever of them are there.
OneVersion(d) ==
  d = NoDir \/ \E v \in Versions : \A f \in Files : d[f] \in {v, Absent}

NoMixedVersions ==
  \A a \in Apps : OneVersion(app[a]) /\ OneVersion(backup[a])

\* An application the user installed and did not delete is never lost: at
\* every moment, power loss included, its directory or its backup is complete.
NeverLost ==
  \A a \in Apps : kept[a] =>
    \/ app[a] # NoDir /\ Whole(app[a])
    \/ backup[a] # NoDir /\ Whole(backup[a])

\* Between two commands of a recovered board every application the user has is
\* complete and in its place, and no backup is left that a later recovery could
\* bring back.
Settled ==
  pc = "idle" /\ booted /\ ~Scanning =>
    \A a \in Apps :
      /\ backup[a] = NoDir
      /\ kept[a] => app[a] # NoDir /\ Whole(app[a])

\* An install_end that returns an error leaves the application as it found
\* it: the same directory, or none.
FailedEndRestores ==
  [][(pc \in EndSteps /\ pc' = "idle" /\ session' # NoApp)
       => app'[target] = before]_vars

-----------------------------------------------------------------------------
(* The inductive invariant behind NoHalfPackage and NeverLost              *)

\* The environments in which an installed application is safe: no tree removal
\* or rename back fails, every package carries an inventory, the page is opened
\* first and then left alone during installs, and a failing active marker does
\* not come together with a power loss.
SoundEnvironment ==
  /\ Faults \cap {"restoreFails", "removeFails", "cutManifest", "earlyCommand",
                  "pageDuringInstall", "secondTransport"} = {}
  /\ "crash" \notin Faults \/ "activeFails" \notin Faults
  /\ Inventoried = Versions

Good(d) == d # NoDir /\ Whole(d)

\* Recovery and commands exclude each other, and recovery comes first.
Exclusion ==
  /\ Scanning => pc = "idle" /\ session = NoApp
  /\ pc # "idle" => booted
  /\ pc \in EndSteps => session = target
  /\ pc # "idle" => "crash" \in Faults \/ \A a \in Apps \ {target} : ~doomed[a]
  /\ pc = "idle" => "crash" \in Faults \/ \A a \in Apps : ~doomed[a]

\* What the directories of an application look like when no command works on it.
Resting(a) ==
  /\ kept[a] => Good(app[a]) \/ (app[a] = NoDir /\ Good(backup[a]))
  /\ app[a] # NoDir => Whole(app[a]) \/ doomed[a]
  /\ app[a] = NoDir /\ backup[a] # NoDir => Whole(backup[a]) \/ doomed[a]

\* What they look like at each step of the command that works on it.
Working(a) ==
  /\ pc = "clearBackup" =>
       /\ Resting(a) /\ Good(staging[a]) /\ backup[a] = NoDir /\ ~saved
       /\ "crash" \in Faults \/ ~doomed[a]
  /\ pc \in {"commit", "restore"} =>
       /\ Resting(a) /\ app[a] = NoDir
       /\ IF saved THEN backup[a] # NoDir ELSE backup[a] = NoDir
       /\ "crash" \in Faults \/ ~doomed[a]
  /\ pc = "commit" => Good(staging[a])
  /\ pc = "restore" => saved
  /\ pc \in {"active", "dropOld"} =>
       /\ Good(app[a])
       /\ IF saved THEN pc = "active" => backup[a] # NoDir ELSE backup[a] = NoDir
       /\ "crash" \in Faults \/ ~doomed[a]
  /\ pc \in {"active", "dropNew"} =>
       /\ "activeFails" \in Faults /\ saved => Good(backup[a])
       /\ ~saved => ~kept[a]
  /\ pc = "dropNew" =>
       /\ "activeFails" \in Faults /\ doomed[a]
       /\ ~saved => backup[a] = NoDir
  /\ pc = "delete" => ~kept[a] /\ doomed[a] /\ backup[a] = NoDir

\* Recovery will get to every backup there is, and removes none it needs.
Recovering ==
  /\ Scanning => \A a \in Apps : backup[a] # NoDir =>
                   <<"backup", a>> \in todo \/ (gpc = "rmBackup" /\ gapp = a)
  /\ gpc = "rmBackup" => app[gapp] # NoDir

\* Once recovery has run, only the running command has a backup.
NoDebris ==
  /\ pc = "idle" /\ booted => \A a \in Apps : backup[a] = NoDir
  /\ pc # "idle" => \A a \in Apps \ {target} : backup[a] = NoDir

OthersRest  == \A a \in Apps : pc = "idle" \/ a # target => Resting(a)
TargetWorks == pc # "idle" => Working(target)

IInv ==
  TypeOK /\ Exclusion /\ OthersRest /\ TargetWorks /\ Recovering /\ NoDebris

=============================================================================
