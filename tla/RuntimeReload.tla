--------------------------- MODULE RuntimeReload ---------------------------
(***************************************************************************)
(* The life of the application on the Runtime page: launching, reloading,  *)
(* stopping and recovering it (main.c, vb_runtime_lua.c).                  *)
(*                                                                         *)
(* Four kinds of thread share the state.  Command threads (BLE worker,     *)
(* shell) write the active-app marker and publish a request; the GUI       *)
(* thread alone, from its 200 ms timer and from on_start and on_stop,      *)
(* touches the user interface; a close worker runs lua_close, which may    *)
(* never return; helpers (audio playback, the pet asset loader) must have  *)
(* finished before the host objects of a script may go.                    *)
(*                                                                         *)
(* One action is what the GUI thread does between two points at which it   *)
(* waits for the close worker (vb_lua_wait_stop_async); gui says where.    *)
(***************************************************************************)
EXTENDS Naturals

CONSTANTS
  Apps,      \* application ids, Home among them
  Home,      \* VIBEBOARD_DEFAULT_APP_ID
  NoApp,     \* the empty string: nothing was loaded since the page started
  Installed, \* applications with a manifest on the card
  Broken,    \* installed applications whose script fails to start
  Limit,     \* VB_RUNTIME_RECOVERY_RETRY_LIMIT
  Commands,  \* commands users and hosts give, see CommandKinds
  Trouble    \* what else may happen, see TroubleKinds

CommandKinds == {"launch", "select", "reload", "stop", "key"}
TroubleKinds ==
  { "slowClose", \* lua_close takes longer than 5 s, or does not return
    "helper",    \* audio is played or a loader works at any time, for any time
    "noMemory",  \* the close worker or the VM cannot be created
    "install",   \* an install session is open now and then
    "leavePage" }\* the GUI framework switches to another page

ASSUME ConstantsAssumption ==
  /\ Home \in Apps /\ NoApp \notin Apps /\ Installed \subseteq Apps /\ Broken \subseteq Installed
  /\ Limit \in Nat
  /\ Commands \subseteq CommandKinds /\ Trouble \subseteq TroubleKinds

VARIABLES
  page,          \* the page the GUI framework was last asked to show
  running,       \* on_start ran, on_stop did not
  root,          \* the user interface exists
  gui,           \* where the GUI thread waits, "idle" when it does not
  marker,        \* the .active file
  active,        \* active_app
  appRunning,    \* app_running
  pendingReload,
  pendingStop,
  reloading,     \* reload_in_progress
  phase,         \* reload_phase
  attempts,      \* recovery_attempts
  vm,            \* g_vb_lua.state is set
  stopState,     \* g_vb_lua.stop_async_state
  closer,        \* the close worker is inside lua_close
  host,          \* host objects of a script exist
  helper,        \* audio worker or asset loader: none, running, told to stop
  install,       \* an install session is open
  cmd            \* a command thread is about to call request_reload

ui       == <<page, running, root, gui>>
app      == <<marker, active, appRunning>>
requests == <<pendingReload, pendingStop>>
reload   == <<reloading, phase, attempts>>
lua      == <<vm, stopState, closer>>
hosts    == <<host, helper>>
vars     == <<page, running, root, gui, marker, active, appRunning, pendingReload,
              pendingStop, reloading, phase, attempts, vm, stopState, closer,
              host, helper, install, cmd>>

Init ==
  /\ page = "main" /\ running = FALSE /\ root = FALSE /\ gui = "idle"
  /\ marker = Home /\ active = NoApp /\ appRunning = FALSE
  /\ pendingReload = FALSE /\ pendingStop = FALSE
  /\ reloading = FALSE /\ phase = "idle" /\ attempts = 0
  /\ vm = FALSE /\ stopState = "idle" /\ closer = FALSE
  /\ host = FALSE /\ helper = "none" /\ install = FALSE /\ cmd = FALSE

-----------------------------------------------------------------------------
(* Recovery: vb_runtime_reload_fail, vb_runtime_controlled_reset           *)

\* A reload that failed n times over is out of retries.  Mutant: one too many.
ExhaustedLate(n) == attempts + n > Limit + 1
Exhausted(n)     == attempts + n > Limit

\* The reload ends and is tried again later, or not at all during an install.
\* Mutant: reload_in_progress stays set.
FailStuck(n) ==
  /\ phase' = "failed" /\ pendingReload' = ~install /\ UNCHANGED reloading
  /\ attempts' = IF install THEN attempts ELSE attempts + n

Fail(n) ==
  /\ reloading' = FALSE /\ phase' = "failed" /\ pendingReload' = ~install
  /\ attempts' = IF install THEN attempts ELSE attempts + n

\* A reset leaves the marker only.
ControlledReset ==
  /\ page' = "main" /\ running' = FALSE /\ root' = FALSE /\ gui' = "idle"
  /\ active' = NoApp /\ appRunning' = FALSE
  /\ pendingReload' = FALSE /\ pendingStop' = FALSE
  /\ reloading' = FALSE /\ phase' = "idle" /\ attempts' = 0
  /\ vm' = FALSE /\ stopState' = "idle" /\ closer' = FALSE
  /\ host' = FALSE /\ helper' = "none" /\ install' = FALSE /\ cmd' = FALSE
  /\ UNCHANGED marker

\* rest: what the caller changes besides, unless the board is reset.
ReloadFail(n, rest) ==
  IF ~install /\ Exhausted(n) THEN ControlledReset ELSE Fail(n) /\ rest

-----------------------------------------------------------------------------
(* Closing the Lua VM and stopping the host                                *)

\* vibeboard_lua_begin_stop_async with a VM: the close worker takes it over.
CloseBegins == vm /\ vm' = FALSE /\ stopState' = "closing" /\ closer' = TRUE

\* The first half of vibeboard_lua_stop_app: afterwards the GUI thread waits.
StopBegins ==
  \/ CloseBegins
  \/ (vm => "noMemory" \in Trouble) /\ UNCHANGED lua

\* vb_lua_wait_stop_async came to its end.  Mutant: it is not waited for.
ClosedUnwaited == ~vm
VmClosed       == ~vm /\ stopState # "closing"

\* The second half: the VM is closed and the host, asked once, has stopped.
StopOk ==
  /\ VmClosed /\ helper = "none"
  /\ host' = FALSE /\ stopState' = "idle"
  /\ UNCHANGED <<vm, closer, helper>>

StopFails ==
  \/ vm /\ UNCHANGED <<lua, hosts>>
  \/ stopState = "closing" /\ "slowClose" \in Trouble /\ UNCHANGED <<lua, hosts>>
  \/ VmClosed /\ helper # "none" /\ helper' = "told" /\ UNCHANGED <<lua, host>>

-----------------------------------------------------------------------------
(* Commands: BLE worker, shell, callbacks                                  *)

\* vb_runtime_app_launch answers "already running" and does nothing.
AlreadyRunning(a) == active = a /\ (appRunning \/ pendingReload \/ reloading)

\* vb_runtime_select_app up to the request: the marker names the application.
Selects(a) ==
  /\ ~cmd /\ ~pendingStop
  /\ ~(active = a /\ (pendingReload \/ reloading))
  /\ marker' = a /\ cmd' = TRUE
  /\ UNCHANGED <<ui, active, appRunning, requests, reload, lua, hosts, install>>

Launch(a) == "launch" \in Commands /\ a \in Installed /\ ~AlreadyRunning(a) /\ Selects(a)
Select(a) == "select" \in Commands /\ Selects(a)

ReloadCommand ==
  /\ "reload" \in Commands /\ ~cmd /\ cmd' = TRUE
  /\ UNCHANGED <<ui, app, requests, reload, lua, hosts, install>>

\* vb_runtime_request_reload: a flag for the timer, or the page is opened.
\* Mutant: a request during a reload is taken for the one under way.
RequestMerged ==
  /\ cmd /\ cmd' = FALSE
  /\ pendingReload' = (pendingReload \/ (running /\ ~reloading))
  /\ page' = IF reloading \/ pendingReload' THEN page ELSE "runtime"
  /\ UNCHANGED <<running, root, gui, app, pendingStop, reload, lua, hosts, install>>

Request ==
  /\ cmd /\ cmd' = FALSE
  /\ IF pendingReload \/ reloading \/ running
     THEN pendingReload' = TRUE /\ UNCHANGED page
     ELSE page' = "runtime" /\ UNCHANGED pendingReload
  /\ UNCHANGED <<running, root, gui, app, pendingStop, reload, lua, hosts, install>>

\* vb_runtime_app_stop, and the home gesture.
StopCommand ==
  /\ "stop" \in Commands
  /\ IF running THEN pendingStop' = TRUE /\ UNCHANGED appRunning
                ELSE appRunning' = FALSE /\ UNCHANGED pendingStop
  /\ UNCHANGED <<ui, marker, active, pendingReload, reload, lua, hosts, install, cmd>>

-----------------------------------------------------------------------------
(* The GUI timer                                                           *)

Tick == running /\ gui = "idle"

\* vb_runtime_reload_current from the timer
StartReload ==
  /\ Tick /\ ~reloading /\ ~pendingStop /\ pendingReload
  /\ stopState # "closing"
  /\ pendingReload' = FALSE
  /\ reloading' = TRUE /\ phase' = "lua_close" /\ UNCHANGED attempts
  /\ \/ CloseBegins
     \/ ~vm /\ stopState' = "complete" /\ UNCHANGED <<vm, closer>>
  /\ UNCHANGED <<ui, app, pendingStop, hosts, install, cmd>>

StartReloadFails ==
  /\ Tick /\ ~reloading /\ ~pendingStop /\ pendingReload
  /\ vm /\ "noMemory" \in Trouble
  /\ ReloadFail(1, UNCHANGED <<ui, app, pendingStop, lua, hosts, install, cmd>>)

\* The close worker still works: the request is kept, at most Limit times.
\* Mutant: and is not counted.
StartReloadUncounted ==
  /\ Tick /\ ~reloading /\ ~pendingStop /\ pendingReload /\ stopState = "closing"
  /\ UNCHANGED vars

StartReloadBusy ==
  /\ Tick /\ ~reloading /\ ~pendingStop /\ pendingReload /\ stopState = "closing"
  /\ IF attempts < Limit
     THEN /\ attempts' = attempts + 1
          /\ UNCHANGED <<ui, app, requests, reloading, phase, lua, hosts, install, cmd>>
     ELSE ReloadFail(1, UNCHANGED <<ui, app, pendingStop, lua, hosts, install, cmd>>)

\* vb_runtime_reload_step, phase lua_close: the worker has not finished in 5 s.
CloseTimesOut ==
  /\ Tick /\ reloading /\ phase = "lua_close"
  /\ stopState = "closing" /\ "slowClose" \in Trouble
  /\ ReloadFail(1, UNCHANGED <<ui, app, pendingStop, lua, hosts, install, cmd>>)

\* The VM of the reload is closed.  Mutant: whatever the worker says.
CloseNotChecked == phase \in {"lua_close", "host_stop"}
CloseChecked    == (phase = "lua_close" /\ stopState = "complete") \/ phase = "host_stop"

\* phase host_stop: helpers are told to stop and polled, for 5 s.
HostWaits ==
  /\ Tick /\ reloading /\ CloseChecked /\ helper # "none"
  /\ phase' = "host_stop" /\ helper' = "told"
  /\ UNCHANGED <<ui, app, requests, reloading, attempts, lua, host, install, cmd>>

HostTimesOut ==
  /\ Tick /\ reloading /\ phase = "host_stop" /\ helper # "none"
  /\ ReloadFail(1, /\ helper' = "told"
                   /\ UNCHANGED <<ui, app, pendingStop, lua, host, install, cmd>>)

\* The host has stopped, the user interface may go.
Teardown ==
  /\ Tick /\ reloading /\ CloseChecked /\ helper = "none"
  /\ host' = FALSE /\ stopState' = "idle" /\ root' = FALSE
  /\ phase' = "load" /\ gui' = "load"
  /\ UNCHANGED <<page, running, app, requests, reloading, attempts, vm, closer, helper,
                 install, cmd>>

-----------------------------------------------------------------------------
(* vb_load_active_package, called by the reload or by on_start             *)

ByReload == phase = "load"

\* The caller returns to the timer.  on_start takes no notice of a failure.
Loaded ==
  /\ reloading' = FALSE
  /\ IF ByReload THEN phase' = "idle" /\ attempts' = 0 ELSE UNCHANGED <<phase, attempts>>

\* Its own vibeboard_lua_stop_app fails: counted here, and again by the reload.
LoadBlocked ==
  /\ gui = "load" /\ (vm \/ stopState = "closing" \/ helper # "none")
  /\ ReloadFail(IF ByReload THEN 2 ELSE 1,
                /\ StopFails /\ gui' = "idle" /\ appRunning' = FALSE
                /\ UNCHANGED <<page, running, root, marker, active, pendingStop, install, cmd>>)

Loading == gui = "load" /\ VmClosed /\ helper = "none"

LoadStarts ==
  /\ Loading /\ marker \in Installed \ Broken
  /\ active' = marker /\ appRunning' = TRUE /\ root' = TRUE
  /\ vm' = TRUE /\ stopState' = "idle" /\ host' = TRUE
  /\ Loaded /\ gui' = "idle"
  /\ UNCHANGED <<page, running, marker, requests, closer, helper, install, cmd>>

\* The script fails: its VM goes to the close worker, the GUI thread waits.
LoadBreaks ==
  /\ Loading /\ marker \in Broken
  /\ active' = marker /\ appRunning' = FALSE /\ root' = TRUE /\ host' = TRUE
  /\ \/ vm' = FALSE /\ stopState' = "closing" /\ closer' = TRUE
     \/ "noMemory" \in Trouble /\ vm' = TRUE /\ stopState' = "idle" /\ UNCHANGED closer
  /\ gui' = "fail"
  /\ UNCHANGED <<page, running, marker, requests, reload, helper, install, cmd>>

LoadFailed ==
  /\ gui = "fail" /\ (stopState = "closing" => "slowClose" \in Trouble)
  /\ LET rest == /\ StopOk \/ StopFails
                 /\ gui' = "idle"
                 /\ UNCHANGED <<page, running, root, app, pendingStop, install, cmd>>
     IN IF ByReload THEN ReloadFail(1, rest)
                    ELSE rest /\ Loaded /\ UNCHANGED pendingReload

\* No memory for the script or the VM.
LoadStarves ==
  /\ Loading /\ marker \in Installed /\ "noMemory" \in Trouble
  /\ LET rest == /\ active' = marker /\ appRunning' = FALSE /\ root' = TRUE
                 /\ host' = FALSE /\ stopState' = "idle" /\ gui' = "idle"
                 /\ UNCHANGED <<page, running, marker, pendingStop, vm, closer, helper,
                                install, cmd>>
     IN IF ByReload THEN ReloadFail(1, rest)
                    ELSE rest /\ Loaded /\ UNCHANGED pendingReload

\* Nothing to run: home.  For the home application that is no failure.
GoesHome ==
  /\ pendingStop' = FALSE /\ marker' = Home /\ active' = Home /\ appRunning' = FALSE
  /\ root' = FALSE /\ page' = "main" /\ gui' = "idle"
  /\ host' = FALSE /\ stopState' = "idle"
  /\ UNCHANGED <<running, vm, closer, helper, install, cmd>>

LoadHome ==
  /\ Loading /\ marker \notin Installed
  /\ IF ByReload /\ marker # Home THEN ReloadFail(1, GoesHome)
                                  ELSE GoesHome /\ Loaded /\ pendingReload' = FALSE

-----------------------------------------------------------------------------
(* Going home: vb_runtime_stop_current_app, vb_runtime_return_home         *)

StopTick ==
  /\ Tick /\ ~reloading /\ pendingStop
  /\ pendingStop' = FALSE
  /\ StopBegins /\ gui' = "stop"
  /\ UNCHANGED <<page, running, root, app, pendingReload, reload, hosts, install, cmd>>

\* Whether the VM and the host have stopped or not, the interface goes.
StopCurrentApp ==
  /\ gui = "stop" /\ (StopOk \/ StopFails)
  /\ root' = FALSE /\ appRunning' = FALSE
  /\ marker' = Home /\ active' = Home
  /\ gui' = "leave"
  /\ UNCHANGED <<page, running, requests, reload, install, cmd>>

HomeKey ==
  /\ "key" \in Commands
  /\ Tick /\ ~reloading /\ ~pendingStop /\ ~pendingReload /\ root
  /\ gui' = "leave"
  /\ UNCHANGED <<page, running, root, app, requests, reload, lua, hosts, install, cmd>>

ReturnHome ==
  /\ gui = "leave"
  /\ pendingStop' = FALSE /\ pendingReload' = FALSE
  /\ StopBegins /\ gui' = "home"
  /\ UNCHANGED <<page, running, root, app, reload, hosts, install, cmd>>

ReturnedHome ==
  /\ gui = "home" /\ (StopOk \/ StopFails)
  /\ root' = FALSE /\ appRunning' = FALSE
  /\ marker' = Home /\ active' = Home
  /\ page' = "main" /\ gui' = "idle"
  /\ UNCHANGED <<running, requests, reload, install, cmd>>

-----------------------------------------------------------------------------
(* The page: on_start, on_stop                                             *)

OnStop ==
  /\ page = "main" /\ running /\ gui = "idle"
  /\ running' = FALSE
  /\ StopBegins /\ gui' = "close"
  /\ UNCHANGED <<page, root, app, requests, reload, hosts, install, cmd>>

PageClosed ==
  /\ gui = "close" /\ (StopOk \/ StopFails)
  /\ root' = FALSE /\ gui' = "idle"
  /\ UNCHANGED <<page, running, app, requests, reload, install, cmd>>

\* The state is cleared, reload_in_progress set, and the load begins.
OnStart ==
  /\ page = "runtime" /\ ~running /\ gui = "idle"
  /\ running' = TRUE /\ root' = FALSE
  /\ pendingReload' = FALSE /\ pendingStop' = FALSE
  /\ reloading' = TRUE /\ phase' = "idle" /\ attempts' = 0
  /\ active' = NoApp /\ appRunning' = FALSE /\ install' = FALSE
  /\ StopBegins /\ gui' = "load"
  /\ UNCHANGED <<page, marker, hosts, cmd>>

-----------------------------------------------------------------------------
(* The rest of the board                                                   *)

CloserDone ==
  /\ closer /\ closer' = FALSE /\ stopState' = "complete"
  /\ UNCHANGED <<ui, app, requests, reload, vm, hosts, install, cmd>>

HelperStarts ==
  /\ "helper" \in Trouble /\ helper = "none" /\ helper' = "running"
  /\ UNCHANGED <<ui, app, requests, reload, lua, host, install, cmd>>

HelperDone ==
  /\ helper # "none" /\ helper' = "none"
  /\ UNCHANGED <<ui, app, requests, reload, lua, host, install, cmd>>

InstallSession ==
  /\ "install" \in Trouble /\ install' = ~install
  /\ UNCHANGED <<ui, app, requests, reload, lua, hosts, cmd>>

OpenPage ==
  /\ page = "main" /\ ~running /\ page' = "runtime"
  /\ UNCHANGED <<running, root, gui, app, requests, reload, lua, hosts, install, cmd>>

LeavePage ==
  /\ "leavePage" \in Trouble /\ page = "runtime" /\ running /\ page' = "main"
  /\ UNCHANGED <<running, root, gui, app, requests, reload, lua, hosts, install, cmd>>

Gui ==
  \/ StartReload \/ StartReloadFails \/ StartReloadBusy
  \/ CloseTimesOut \/ HostWaits \/ HostTimesOut \/ Teardown
  \/ LoadBlocked \/ LoadStarts \/ LoadBreaks \/ LoadFailed \/ LoadStarves \/ LoadHome
  \/ StopTick \/ StopCurrentApp \/ ReturnHome \/ ReturnedHome
  \/ OnStop \/ PageClosed \/ OnStart

Command ==
  \/ \E a \in Apps : Launch(a) \/ Select(a)
  \/ ReloadCommand \/ StopCommand \/ HomeKey

Next ==
  \/ Gui \/ Command \/ Request \/ CloserDone \/ HelperStarts \/ HelperDone
  \/ InstallSession \/ OpenPage \/ LeavePage

Spec == Init /\ [][Next]_vars

\* The GUI thread and the command threads run.  Once the 5 s of phase host_stop
\* are over every tick ends the phase, one way or the other, so helpers that come
\* and go cannot hold it up.  Nothing is assumed of the close worker, of helpers,
\* of users or of an install session.
FairSpec ==
  /\ Spec /\ WF_vars(Gui) /\ WF_vars(Request)
  /\ SF_vars(HostTimesOut \/ Teardown)

-----------------------------------------------------------------------------
(* Properties                                                              *)

\* The values the variables range over; retries never exceed the limit.
UiTypes ==
  /\ page \in {"main", "runtime"} /\ running \in BOOLEAN /\ root \in BOOLEAN
  /\ gui \in {"idle", "load", "fail", "stop", "leave", "home", "close"}
AppTypes ==
  /\ marker \in Apps /\ active \in Apps \cup {NoApp} /\ appRunning \in BOOLEAN
  /\ pendingReload \in BOOLEAN /\ pendingStop \in BOOLEAN /\ cmd \in BOOLEAN
ReloadTypes ==
  /\ reloading \in BOOLEAN
  /\ phase \in {"idle", "lua_close", "host_stop", "load", "failed"}
RetriesTypes == attempts \in 0..Limit
ScriptTypes ==
  /\ vm \in BOOLEAN /\ stopState \in {"idle", "closing", "complete"}
  /\ closer \in BOOLEAN /\ host \in BOOLEAN
  /\ helper \in {"none", "running", "told"} /\ install \in BOOLEAN
TypeOK == UiTypes /\ AppTypes /\ ReloadTypes /\ RetriesTypes /\ ScriptTypes

\* A VM is never created while the close worker still works on the one before:
\* both would use the one g_vb_lua, whose state the new VM clears.
OneVm == vm => stopState = "idle" /\ ~closer

\* "never delete root or release caches while an unknown worker may still access
\* Lua, LVGL or PSRAM": the interface outlives the VM, its close worker and the
\* host objects that point into it.
UiOutlivesScript == vm \/ closer \/ host => root

\* When no request, command or reload is under way, the application the page
\* shows is the one selected last.
Quiet ==
  /\ running /\ page = "runtime" /\ gui = "idle" /\ phase = "idle"
  /\ ~cmd /\ ~pendingReload /\ ~reloading
LoadedIsSelected == Quiet => active = marker

\* A reload ends, whatever the close worker and the helpers do.
ReloadEnds == reloading ~> ~reloading

\* A published request is taken up, whatever the close worker does.
RequestTakenUp == pendingReload ~> ~pendingReload

=============================================================================
