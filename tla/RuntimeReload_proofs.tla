------------------------ MODULE RuntimeReload_proofs ------------------------
(***************************************************************************)
(* Proofs about RuntimeReload, for any number of applications, any retry   *)
(* limit and any choice of commands and troubles.                          *)
(***************************************************************************)
EXTENDS RuntimeReload, TLAPS

USE ConstantsAssumption

-----------------------------------------------------------------------------
(* Types                                                                   *)

\* A failed reload leaves the retries within the limit: it resets the board, or
\* counts n more, or, during an install, none.
LEMMA FailRetries ==
  ASSUME RetriesTypes, NEW n \in {1, 2},
         IF ~install /\ Exhausted(n)
         THEN attempts' = 0
         ELSE attempts' = IF install THEN attempts ELSE attempts + n
  PROVE  RetriesTypes'
<1>1. CASE ~install /\ Exhausted(n)
  BY <1>1 DEF RetriesTypes
<1>2. CASE ~install /\ ~Exhausted(n)
  BY <1>2 DEF RetriesTypes, Exhausted
<1>3. CASE install
  BY <1>3 DEF RetriesTypes
<1> QED
  BY <1>1, <1>2, <1>3

\* Every step of every thread keeps every variable in its range, and the retries
\* within the limit.
LEMMA TypeStep == TypeOK /\ [Next]_vars => TypeOK'
<1> SUFFICES ASSUME TypeOK, [Next]_vars PROVE TypeOK'
  OBVIOUS
<1> USE DEF ui, app, requests, reload, lua, hosts,
           UiTypes, AppTypes, ReloadTypes, RetriesTypes, ScriptTypes
<1>1. ASSUME NEW a \in Apps, Launch(a) PROVE TypeOK'
  BY <1>1 DEF Launch, Selects, TypeOK
<1>2. ASSUME NEW a \in Apps, Select(a) PROVE TypeOK'
  BY <1>2 DEF Select, Selects, TypeOK
<1>3. CASE StartReload
  BY <1>3 DEF StartReload, Tick, CloseBegins, TypeOK
<1>4. CASE StartReloadFails
  <2>1. UiTypes'
    BY <1>4 DEF StartReloadFails, Tick, ReloadFail, Fail, ControlledReset, Exhausted, TypeOK
  <2>2. AppTypes'
    BY <1>4 DEF StartReloadFails, Tick, ReloadFail, Fail, ControlledReset, Exhausted, TypeOK
  <2>3. ReloadTypes'
    BY <1>4 DEF StartReloadFails, Tick, ReloadFail, Fail, ControlledReset, Exhausted, TypeOK
  <2>4. RetriesTypes'
    <3>1. IF ~install /\ Exhausted(1)
          THEN attempts' = 0
          ELSE attempts' = IF install THEN attempts ELSE attempts + 1
      BY <1>4 DEF StartReloadFails, ReloadFail, Fail, ControlledReset
    <3> QED
      BY <3>1, FailRetries DEF TypeOK
  <2>5. ScriptTypes'
    BY <1>4 DEF StartReloadFails, Tick, ReloadFail, Fail, ControlledReset, Exhausted, TypeOK
  <2> QED
    BY <2>1, <2>2, <2>3, <2>4, <2>5 DEF TypeOK
<1>5. CASE StartReloadBusy
  <2>1. UiTypes'
    BY <1>5 DEF StartReloadBusy, Tick, ReloadFail, Fail, ControlledReset, Exhausted, TypeOK
  <2>2. AppTypes'
    BY <1>5 DEF StartReloadBusy, Tick, ReloadFail, Fail, ControlledReset, Exhausted, TypeOK
  <2>3. ReloadTypes'
    BY <1>5 DEF StartReloadBusy, Tick, ReloadFail, Fail, ControlledReset, Exhausted, TypeOK
  <2>4. RetriesTypes'
    <3>1. CASE attempts < Limit
      BY <1>5, <3>1 DEF StartReloadBusy, TypeOK
    <3>2. CASE ~(attempts < Limit)
      <4>1. IF ~install /\ Exhausted(1)
            THEN attempts' = 0
            ELSE attempts' = IF install THEN attempts ELSE attempts + 1
        BY <1>5, <3>2 DEF StartReloadBusy, ReloadFail, Fail, ControlledReset
      <4> QED
        BY <4>1, FailRetries DEF TypeOK
    <3> QED
      BY <3>1, <3>2 DEF TypeOK
  <2>5. ScriptTypes'
    BY <1>5 DEF StartReloadBusy, Tick, ReloadFail, Fail, ControlledReset, Exhausted, TypeOK
  <2> QED
    BY <2>1, <2>2, <2>3, <2>4, <2>5 DEF TypeOK
<1>6. CASE CloseTimesOut
  <2>1. UiTypes'
    BY <1>6 DEF CloseTimesOut, Tick, ReloadFail, Fail, ControlledReset, Exhausted, TypeOK
  <2>2. AppTypes'
    BY <1>6 DEF CloseTimesOut, Tick, ReloadFail, Fail, ControlledReset, Exhausted, TypeOK
  <2>3. ReloadTypes'
    BY <1>6 DEF CloseTimesOut, Tick, ReloadFail, Fail, ControlledReset, Exhausted, TypeOK
  <2>4. RetriesTypes'
    <3>1. IF ~install /\ Exhausted(1)
          THEN attempts' = 0
          ELSE attempts' = IF install THEN attempts ELSE attempts + 1
      BY <1>6 DEF CloseTimesOut, ReloadFail, Fail, ControlledReset
    <3> QED
      BY <3>1, FailRetries DEF TypeOK
  <2>5. ScriptTypes'
    BY <1>6 DEF CloseTimesOut, Tick, ReloadFail, Fail, ControlledReset, Exhausted, TypeOK
  <2> QED
    BY <2>1, <2>2, <2>3, <2>4, <2>5 DEF TypeOK
<1>7. CASE HostWaits
  BY <1>7 DEF HostWaits, Tick, CloseChecked, TypeOK
<1>8. CASE HostTimesOut
  <2>1. UiTypes'
    BY <1>8 DEF HostTimesOut, Tick, ReloadFail, Fail, ControlledReset, Exhausted, TypeOK
  <2>2. AppTypes'
    BY <1>8 DEF HostTimesOut, Tick, ReloadFail, Fail, ControlledReset, Exhausted, TypeOK
  <2>3. ReloadTypes'
    BY <1>8 DEF HostTimesOut, Tick, ReloadFail, Fail, ControlledReset, Exhausted, TypeOK
  <2>4. RetriesTypes'
    <3>1. IF ~install /\ Exhausted(1)
          THEN attempts' = 0
          ELSE attempts' = IF install THEN attempts ELSE attempts + 1
      BY <1>8 DEF HostTimesOut, ReloadFail, Fail, ControlledReset
    <3> QED
      BY <3>1, FailRetries DEF TypeOK
  <2>5. ScriptTypes'
    BY <1>8 DEF HostTimesOut, Tick, ReloadFail, Fail, ControlledReset, Exhausted, TypeOK
  <2> QED
    BY <2>1, <2>2, <2>3, <2>4, <2>5 DEF TypeOK
<1>9. CASE Teardown
  BY <1>9 DEF Teardown, Tick, CloseChecked, TypeOK
<1>10. CASE LoadBlocked
  <2>1. UiTypes'
    BY <1>10 DEF LoadBlocked, ByReload, StopFails, VmClosed, ReloadFail, Fail, ControlledReset, Exhausted, TypeOK
  <2>2. AppTypes'
    BY <1>10 DEF LoadBlocked, ByReload, StopFails, VmClosed, ReloadFail, Fail, ControlledReset, Exhausted, TypeOK
  <2>3. ReloadTypes'
    BY <1>10 DEF LoadBlocked, ByReload, StopFails, VmClosed, ReloadFail, Fail, ControlledReset, Exhausted, TypeOK
  <2>4. RetriesTypes'
    BY <1>10 DEF LoadBlocked, ByReload, StopFails, VmClosed, ReloadFail, Fail, ControlledReset, Exhausted, TypeOK
  <2>5. ScriptTypes'
    BY <1>10 DEF LoadBlocked, ByReload, StopFails, VmClosed, ReloadFail, Fail, ControlledReset, Exhausted, TypeOK
  <2> QED
    BY <2>1, <2>2, <2>3, <2>4, <2>5 DEF TypeOK
<1>11. CASE LoadStarts
  <2>1. UiTypes'
    BY <1>11 DEF LoadStarts, Loading, VmClosed, Loaded, ByReload, TypeOK
  <2>2. AppTypes'
    BY <1>11 DEF LoadStarts, Loading, VmClosed, Loaded, ByReload, TypeOK
  <2>3. ReloadTypes'
    BY <1>11 DEF LoadStarts, Loading, VmClosed, Loaded, ByReload, TypeOK
  <2>4. RetriesTypes'
    BY <1>11 DEF LoadStarts, Loading, VmClosed, Loaded, ByReload, TypeOK
  <2>5. ScriptTypes'
    BY <1>11 DEF LoadStarts, Loading, VmClosed, Loaded, ByReload, TypeOK
  <2> QED
    BY <2>1, <2>2, <2>3, <2>4, <2>5 DEF TypeOK
<1>12. CASE LoadBreaks
  BY <1>12 DEF LoadBreaks, Loading, VmClosed, TypeOK
<1>13. CASE LoadFailed
  <2>1. UiTypes'
    BY <1>13 DEF LoadFailed, ByReload, Loaded, StopOk, StopFails, VmClosed, ReloadFail, Fail, ControlledReset, Exhausted, TypeOK
  <2>2. AppTypes'
    BY <1>13 DEF LoadFailed, ByReload, Loaded, StopOk, StopFails, VmClosed, ReloadFail, Fail, ControlledReset, Exhausted, TypeOK
  <2>3. ReloadTypes'
    BY <1>13 DEF LoadFailed, ByReload, Loaded, StopOk, StopFails, VmClosed, ReloadFail, Fail, ControlledReset, Exhausted, TypeOK
  <2>4. RetriesTypes'
    BY <1>13 DEF LoadFailed, ByReload, Loaded, StopOk, StopFails, VmClosed, ReloadFail, Fail, ControlledReset, Exhausted, TypeOK
  <2>5. ScriptTypes'
    BY <1>13 DEF LoadFailed, ByReload, Loaded, StopOk, StopFails, VmClosed, ReloadFail, Fail, ControlledReset, Exhausted, TypeOK
  <2> QED
    BY <2>1, <2>2, <2>3, <2>4, <2>5 DEF TypeOK
<1>14. CASE LoadStarves
  <2>1. UiTypes'
    BY <1>14 DEF LoadStarves, Loading, VmClosed, ByReload, Loaded, ReloadFail, Fail, ControlledReset, Exhausted, TypeOK
  <2>2. AppTypes'
    BY <1>14 DEF LoadStarves, Loading, VmClosed, ByReload, Loaded, ReloadFail, Fail, ControlledReset, Exhausted, TypeOK
  <2>3. ReloadTypes'
    BY <1>14 DEF LoadStarves, Loading, VmClosed, ByReload, Loaded, ReloadFail, Fail, ControlledReset, Exhausted, TypeOK
  <2>4. RetriesTypes'
    BY <1>14 DEF LoadStarves, Loading, VmClosed, ByReload, Loaded, ReloadFail, Fail, ControlledReset, Exhausted, TypeOK
  <2>5. ScriptTypes'
    BY <1>14 DEF LoadStarves, Loading, VmClosed, ByReload, Loaded, ReloadFail, Fail, ControlledReset, Exhausted, TypeOK
  <2> QED
    BY <2>1, <2>2, <2>3, <2>4, <2>5 DEF TypeOK
<1>15. CASE LoadHome
  <2>1. UiTypes'
    BY <1>15 DEF LoadHome, Loading, VmClosed, ByReload, Loaded, GoesHome, ReloadFail, Fail, ControlledReset, Exhausted, TypeOK
  <2>2. AppTypes'
    BY <1>15 DEF LoadHome, Loading, VmClosed, ByReload, Loaded, GoesHome, ReloadFail, Fail, ControlledReset, Exhausted, TypeOK
  <2>3. ReloadTypes'
    BY <1>15 DEF LoadHome, Loading, VmClosed, ByReload, Loaded, GoesHome, ReloadFail, Fail, ControlledReset, Exhausted, TypeOK
  <2>4. RetriesTypes'
    BY <1>15 DEF LoadHome, Loading, VmClosed, ByReload, Loaded, GoesHome, ReloadFail, Fail, ControlledReset, Exhausted, TypeOK
  <2>5. ScriptTypes'
    BY <1>15 DEF LoadHome, Loading, VmClosed, ByReload, Loaded, GoesHome, ReloadFail, Fail, ControlledReset, Exhausted, TypeOK
  <2> QED
    BY <2>1, <2>2, <2>3, <2>4, <2>5 DEF TypeOK
<1>16. CASE StopTick
  <2>1. UiTypes'
    BY <1>16 DEF StopTick, Tick, StopBegins, CloseBegins, TypeOK
  <2>2. AppTypes'
    BY <1>16 DEF StopTick, Tick, StopBegins, CloseBegins, TypeOK
  <2>3. ReloadTypes'
    BY <1>16 DEF StopTick, Tick, StopBegins, CloseBegins, TypeOK
  <2>4. RetriesTypes'
    BY <1>16 DEF StopTick, Tick, StopBegins, CloseBegins, TypeOK
  <2>5. ScriptTypes'
    BY <1>16 DEF StopTick, Tick, StopBegins, CloseBegins, TypeOK
  <2> QED
    BY <2>1, <2>2, <2>3, <2>4, <2>5 DEF TypeOK
<1>17. CASE StopCurrentApp
  <2>1. UiTypes'
    BY <1>17 DEF StopCurrentApp, StopOk, StopFails, VmClosed, TypeOK
  <2>2. AppTypes'
    BY <1>17 DEF StopCurrentApp, StopOk, StopFails, VmClosed, TypeOK
  <2>3. ReloadTypes'
    BY <1>17 DEF StopCurrentApp, StopOk, StopFails, VmClosed, TypeOK
  <2>4. RetriesTypes'
    BY <1>17 DEF StopCurrentApp, StopOk, StopFails, VmClosed, TypeOK
  <2>5. ScriptTypes'
    BY <1>17 DEF StopCurrentApp, StopOk, StopFails, VmClosed, TypeOK
  <2> QED
    BY <2>1, <2>2, <2>3, <2>4, <2>5 DEF TypeOK
<1>18. CASE ReturnHome
  <2>1. UiTypes'
    BY <1>18 DEF ReturnHome, StopBegins, CloseBegins, TypeOK
  <2>2. AppTypes'
    BY <1>18 DEF ReturnHome, StopBegins, CloseBegins, TypeOK
  <2>3. ReloadTypes'
    BY <1>18 DEF ReturnHome, StopBegins, CloseBegins, TypeOK
  <2>4. RetriesTypes'
    BY <1>18 DEF ReturnHome, StopBegins, CloseBegins, TypeOK
  <2>5. ScriptTypes'
    BY <1>18 DEF ReturnHome, StopBegins, CloseBegins, TypeOK
  <2> QED
    BY <2>1, <2>2, <2>3, <2>4, <2>5 DEF TypeOK
<1>19. CASE ReturnedHome
  <2>1. UiTypes'
    BY <1>19 DEF ReturnedHome, StopOk, StopFails, VmClosed, TypeOK
  <2>2. AppTypes'
    BY <1>19 DEF ReturnedHome, StopOk, StopFails, VmClosed, TypeOK
  <2>3. ReloadTypes'
    BY <1>19 DEF ReturnedHome, StopOk, StopFails, VmClosed, TypeOK
  <2>4. RetriesTypes'
    BY <1>19 DEF ReturnedHome, StopOk, StopFails, VmClosed, TypeOK
  <2>5. ScriptTypes'
    BY <1>19 DEF ReturnedHome, StopOk, StopFails, VmClosed, TypeOK
  <2> QED
    BY <2>1, <2>2, <2>3, <2>4, <2>5 DEF TypeOK
<1>20. CASE OnStop
  <2>1. UiTypes'
    BY <1>20 DEF OnStop, StopBegins, CloseBegins, TypeOK
  <2>2. AppTypes'
    BY <1>20 DEF OnStop, StopBegins, CloseBegins, TypeOK
  <2>3. ReloadTypes'
    BY <1>20 DEF OnStop, StopBegins, CloseBegins, TypeOK
  <2>4. RetriesTypes'
    BY <1>20 DEF OnStop, StopBegins, CloseBegins, TypeOK
  <2>5. ScriptTypes'
    BY <1>20 DEF OnStop, StopBegins, CloseBegins, TypeOK
  <2> QED
    BY <2>1, <2>2, <2>3, <2>4, <2>5 DEF TypeOK
<1>21. CASE PageClosed
  <2>1. UiTypes'
    BY <1>21 DEF PageClosed, StopOk, StopFails, VmClosed, TypeOK
  <2>2. AppTypes'
    BY <1>21 DEF PageClosed, StopOk, StopFails, VmClosed, TypeOK
  <2>3. ReloadTypes'
    BY <1>21 DEF PageClosed, StopOk, StopFails, VmClosed, TypeOK
  <2>4. RetriesTypes'
    BY <1>21 DEF PageClosed, StopOk, StopFails, VmClosed, TypeOK
  <2>5. ScriptTypes'
    BY <1>21 DEF PageClosed, StopOk, StopFails, VmClosed, TypeOK
  <2> QED
    BY <2>1, <2>2, <2>3, <2>4, <2>5 DEF TypeOK
<1>22. CASE OnStart
  <2>1. UiTypes'
    BY <1>22 DEF OnStart, StopBegins, CloseBegins, TypeOK
  <2>2. AppTypes'
    BY <1>22 DEF OnStart, StopBegins, CloseBegins, TypeOK
  <2>3. ReloadTypes'
    BY <1>22 DEF OnStart, StopBegins, CloseBegins, TypeOK
  <2>4. RetriesTypes'
    BY <1>22 DEF OnStart, StopBegins, CloseBegins, TypeOK
  <2>5. ScriptTypes'
    BY <1>22 DEF OnStart, StopBegins, CloseBegins, TypeOK
  <2> QED
    BY <2>1, <2>2, <2>3, <2>4, <2>5 DEF TypeOK
<1>23. CASE ReloadCommand
  BY <1>23 DEF ReloadCommand, TypeOK
<1>24. CASE StopCommand
  <2>1. UiTypes'
    BY <1>24 DEF StopCommand, TypeOK
  <2>2. AppTypes'
    BY <1>24 DEF StopCommand, TypeOK
  <2>3. ReloadTypes'
    BY <1>24 DEF StopCommand, TypeOK
  <2>4. RetriesTypes'
    BY <1>24 DEF StopCommand, TypeOK
  <2>5. ScriptTypes'
    BY <1>24 DEF StopCommand, TypeOK
  <2> QED
    BY <2>1, <2>2, <2>3, <2>4, <2>5 DEF TypeOK
<1>25. CASE HomeKey
  BY <1>25 DEF HomeKey, Tick, TypeOK
<1>26. CASE Request
  <2>1. UiTypes'
    BY <1>26 DEF Request, TypeOK
  <2>2. AppTypes'
    BY <1>26 DEF Request, TypeOK
  <2>3. ReloadTypes'
    BY <1>26 DEF Request, TypeOK
  <2>4. RetriesTypes'
    BY <1>26 DEF Request, TypeOK
  <2>5. ScriptTypes'
    BY <1>26 DEF Request, TypeOK
  <2> QED
    BY <2>1, <2>2, <2>3, <2>4, <2>5 DEF TypeOK
<1>27. CASE CloserDone
  <2>1. UiTypes'
    BY <1>27 DEF CloserDone, TypeOK
  <2>2. AppTypes'
    BY <1>27 DEF CloserDone, TypeOK
  <2>3. ReloadTypes'
    BY <1>27 DEF CloserDone, TypeOK
  <2>4. RetriesTypes'
    BY <1>27 DEF CloserDone, TypeOK
  <2>5. ScriptTypes'
    BY <1>27 DEF CloserDone, TypeOK
  <2> QED
    BY <2>1, <2>2, <2>3, <2>4, <2>5 DEF TypeOK
<1>28. CASE HelperStarts
  BY <1>28 DEF HelperStarts, TypeOK
<1>29. CASE HelperDone
  BY <1>29 DEF HelperDone, TypeOK
<1>30. CASE InstallSession
  BY <1>30 DEF InstallSession, TypeOK
<1>31. CASE OpenPage
  BY <1>31 DEF OpenPage, TypeOK
<1>32. CASE LeavePage
  BY <1>32 DEF LeavePage, TypeOK
<1>33. CASE UNCHANGED vars
  BY <1>33 DEF TypeOK, vars
<1> QED
  BY <1>1, <1>2, <1>3, <1>4, <1>5, <1>6, <1>7, <1>8, <1>9, <1>10, <1>11, <1>12, <1>13, <1>14, <1>15, <1>16, <1>17, <1>18, <1>19, <1>20, <1>21, <1>22, <1>23, <1>24, <1>25, <1>26, <1>27, <1>28, <1>29, <1>30, <1>31, <1>32, <1>33
  DEF Next, Gui, Command

\* The initial state has the types.
LEMMA InitTypeOK == Init => TypeOK
<1> SUFFICES ASSUME Init PROVE TypeOK
  OBVIOUS
<1>1. UiTypes
  BY DEF Init, UiTypes
<1>2. AppTypes
  BY DEF Init, AppTypes
<1>3. ReloadTypes
  BY DEF Init, ReloadTypes
<1>4. RetriesTypes
  BY DEF Init, RetriesTypes
<1>5. ScriptTypes
  BY DEF Init, ScriptTypes
<1> QED
  BY <1>1, <1>2, <1>3, <1>4, <1>5 DEF TypeOK

\* Type correctness: the variables stay in their ranges, the retries of a failing
\* reload within VB_RUNTIME_RECOVERY_RETRY_LIMIT.
THEOREM TypeCorrect == Spec => []TypeOK
BY InitTypeOK, TypeStep, PTL DEF Spec

-----------------------------------------------------------------------------
(* One VM at a time                                                        *)

\* The close worker works exactly while the stop is "closing", and a VM exists
\* only while no stop is under way or waits to be finished.
VmAlone ==
  /\ closer <=> stopState = "closing"
  /\ vm => stopState = "idle"

\* When a reload asks the host to stop, the VM is closed and no script is loaded.
HostAfterVm ==
  /\ reloading /\ phase = "host_stop" => ~vm /\ ~closer
  /\ gui \in {"load", "fail"} => phase # "host_stop"

\* Every step keeps a VM and the close worker apart.
LEMMA VmStep == TypeOK /\ VmAlone /\ HostAfterVm /\ [Next]_vars => VmAlone'
<1> SUFFICES ASSUME ScriptTypes, VmAlone, HostAfterVm, [Next]_vars PROVE VmAlone'
  BY DEF TypeOK
<1> USE DEF ui, app, requests, reload, lua, hosts
<1>1. ASSUME NEW a \in Apps, Launch(a) PROVE VmAlone'
  BY <1>1 DEF Launch, Selects, VmAlone, HostAfterVm, ScriptTypes
<1>2. ASSUME NEW a \in Apps, Select(a) PROVE VmAlone'
  BY <1>2 DEF Select, Selects, VmAlone, HostAfterVm, ScriptTypes
<1>3. CASE StartReload
  BY <1>3 DEF StartReload, Tick, CloseBegins, VmAlone, HostAfterVm, ScriptTypes
<1>4. CASE StartReloadFails
  BY <1>4 DEF StartReloadFails, Tick, ReloadFail, Fail, ControlledReset, Exhausted, VmAlone, HostAfterVm, ScriptTypes
<1>5. CASE StartReloadBusy
  BY <1>5 DEF StartReloadBusy, Tick, ReloadFail, Fail, ControlledReset, Exhausted, VmAlone, HostAfterVm, ScriptTypes
<1>6. CASE CloseTimesOut
  BY <1>6 DEF CloseTimesOut, Tick, ReloadFail, Fail, ControlledReset, Exhausted, VmAlone, HostAfterVm, ScriptTypes
<1>7. CASE HostWaits
  BY <1>7 DEF HostWaits, Tick, CloseChecked, VmAlone, HostAfterVm, ScriptTypes
<1>8. CASE HostTimesOut
  BY <1>8 DEF HostTimesOut, Tick, ReloadFail, Fail, ControlledReset, Exhausted, VmAlone, HostAfterVm, ScriptTypes
<1>9. CASE Teardown
  BY <1>9 DEF Teardown, Tick, CloseChecked, VmAlone, HostAfterVm, ScriptTypes
<1>10. CASE LoadBlocked
  BY <1>10 DEF LoadBlocked, ByReload, StopFails, VmClosed, ReloadFail, Fail, ControlledReset, Exhausted, VmAlone, HostAfterVm, ScriptTypes
<1>11. CASE LoadStarts
  BY <1>11 DEF LoadStarts, Loading, VmClosed, Loaded, ByReload, VmAlone, HostAfterVm, ScriptTypes
<1>12. CASE LoadBreaks
  BY <1>12 DEF LoadBreaks, Loading, VmClosed, VmAlone, HostAfterVm, ScriptTypes
<1>13. CASE LoadFailed
  BY <1>13 DEF LoadFailed, ByReload, Loaded, StopOk, StopFails, VmClosed, ReloadFail, Fail, ControlledReset, Exhausted, VmAlone, HostAfterVm, ScriptTypes
<1>14. CASE LoadStarves
  BY <1>14 DEF LoadStarves, Loading, VmClosed, ByReload, Loaded, ReloadFail, Fail, ControlledReset, Exhausted, VmAlone, HostAfterVm, ScriptTypes
<1>15. CASE LoadHome
  BY <1>15 DEF LoadHome, Loading, VmClosed, ByReload, Loaded, GoesHome, ReloadFail, Fail, ControlledReset, Exhausted, VmAlone, HostAfterVm, ScriptTypes
<1>16. CASE StopTick
  BY <1>16 DEF StopTick, Tick, StopBegins, CloseBegins, VmAlone, HostAfterVm, ScriptTypes
<1>17. CASE StopCurrentApp
  BY <1>17 DEF StopCurrentApp, StopOk, StopFails, VmClosed, VmAlone, HostAfterVm, ScriptTypes
<1>18. CASE ReturnHome
  BY <1>18 DEF ReturnHome, StopBegins, CloseBegins, VmAlone, HostAfterVm, ScriptTypes
<1>19. CASE ReturnedHome
  BY <1>19 DEF ReturnedHome, StopOk, StopFails, VmClosed, VmAlone, HostAfterVm, ScriptTypes
<1>20. CASE OnStop
  BY <1>20 DEF OnStop, StopBegins, CloseBegins, VmAlone, HostAfterVm, ScriptTypes
<1>21. CASE PageClosed
  BY <1>21 DEF PageClosed, StopOk, StopFails, VmClosed, VmAlone, HostAfterVm, ScriptTypes
<1>22. CASE OnStart
  BY <1>22 DEF OnStart, StopBegins, CloseBegins, VmAlone, HostAfterVm, ScriptTypes
<1>23. CASE ReloadCommand
  BY <1>23 DEF ReloadCommand, VmAlone, HostAfterVm, ScriptTypes
<1>24. CASE StopCommand
  BY <1>24 DEF StopCommand, VmAlone, HostAfterVm, ScriptTypes
<1>25. CASE HomeKey
  BY <1>25 DEF HomeKey, Tick, VmAlone, HostAfterVm, ScriptTypes
<1>26. CASE Request
  BY <1>26 DEF Request, VmAlone, HostAfterVm, ScriptTypes
<1>27. CASE CloserDone
  BY <1>27 DEF CloserDone, VmAlone, HostAfterVm, ScriptTypes
<1>28. CASE HelperStarts
  BY <1>28 DEF HelperStarts, VmAlone, HostAfterVm, ScriptTypes
<1>29. CASE HelperDone
  BY <1>29 DEF HelperDone, VmAlone, HostAfterVm, ScriptTypes
<1>30. CASE InstallSession
  BY <1>30 DEF InstallSession, VmAlone, HostAfterVm, ScriptTypes
<1>31. CASE OpenPage
  BY <1>31 DEF OpenPage, VmAlone, HostAfterVm, ScriptTypes
<1>32. CASE LeavePage
  BY <1>32 DEF LeavePage, VmAlone, HostAfterVm, ScriptTypes
<1>33. CASE UNCHANGED vars
  BY <1>33 DEF VmAlone, HostAfterVm, ScriptTypes, vars
<1> QED
  BY <1>1, <1>2, <1>3, <1>4, <1>5, <1>6, <1>7, <1>8, <1>9, <1>10, <1>11, <1>12, <1>13, <1>14, <1>15, <1>16, <1>17, <1>18, <1>19, <1>20, <1>21, <1>22, <1>23, <1>24, <1>25, <1>26, <1>27, <1>28, <1>29, <1>30, <1>31, <1>32, <1>33
  DEF Next, Gui, Command

\* Every step keeps the host stop after the VM's end.
LEMMA HostStep == TypeOK /\ VmAlone /\ HostAfterVm /\ [Next]_vars => HostAfterVm'
<1> SUFFICES ASSUME ScriptTypes, UiTypes, VmAlone, HostAfterVm, [Next]_vars PROVE HostAfterVm'
  BY DEF TypeOK
<1> USE DEF ui, app, requests, reload, lua, hosts
<1>1. ASSUME NEW a \in Apps, Launch(a) PROVE HostAfterVm'
  BY <1>1 DEF Launch, Selects, VmAlone, HostAfterVm, ScriptTypes, UiTypes
<1>2. ASSUME NEW a \in Apps, Select(a) PROVE HostAfterVm'
  BY <1>2 DEF Select, Selects, VmAlone, HostAfterVm, ScriptTypes, UiTypes
<1>3. CASE StartReload
  BY <1>3 DEF StartReload, Tick, CloseBegins, VmAlone, HostAfterVm, ScriptTypes, UiTypes
<1>4. CASE StartReloadFails
  BY <1>4 DEF StartReloadFails, Tick, ReloadFail, Fail, ControlledReset, Exhausted, VmAlone, HostAfterVm, ScriptTypes, UiTypes
<1>5. CASE StartReloadBusy
  BY <1>5 DEF StartReloadBusy, Tick, ReloadFail, Fail, ControlledReset, Exhausted, VmAlone, HostAfterVm, ScriptTypes, UiTypes
<1>6. CASE CloseTimesOut
  BY <1>6 DEF CloseTimesOut, Tick, ReloadFail, Fail, ControlledReset, Exhausted, VmAlone, HostAfterVm, ScriptTypes, UiTypes
<1>7. CASE HostWaits
  BY <1>7 DEF HostWaits, Tick, CloseChecked, VmAlone, HostAfterVm, ScriptTypes, UiTypes
<1>8. CASE HostTimesOut
  BY <1>8 DEF HostTimesOut, Tick, ReloadFail, Fail, ControlledReset, Exhausted, VmAlone, HostAfterVm, ScriptTypes, UiTypes
<1>9. CASE Teardown
  BY <1>9 DEF Teardown, Tick, CloseChecked, VmAlone, HostAfterVm, ScriptTypes, UiTypes
<1>10. CASE LoadBlocked
  BY <1>10 DEF LoadBlocked, ByReload, StopFails, VmClosed, ReloadFail, Fail, ControlledReset, Exhausted, VmAlone, HostAfterVm, ScriptTypes, UiTypes
<1>11. CASE LoadStarts
  BY <1>11 DEF LoadStarts, Loading, VmClosed, Loaded, ByReload, VmAlone, HostAfterVm, ScriptTypes, UiTypes
<1>12. CASE LoadBreaks
  BY <1>12 DEF LoadBreaks, Loading, VmClosed, VmAlone, HostAfterVm, ScriptTypes, UiTypes
<1>13. CASE LoadFailed
  BY <1>13 DEF LoadFailed, ByReload, Loaded, StopOk, StopFails, VmClosed, ReloadFail, Fail, ControlledReset, Exhausted, VmAlone, HostAfterVm, ScriptTypes, UiTypes
<1>14. CASE LoadStarves
  BY <1>14 DEF LoadStarves, Loading, VmClosed, ByReload, Loaded, ReloadFail, Fail, ControlledReset, Exhausted, VmAlone, HostAfterVm, ScriptTypes, UiTypes
<1>15. CASE LoadHome
  BY <1>15 DEF LoadHome, Loading, VmClosed, ByReload, Loaded, GoesHome, ReloadFail, Fail, ControlledReset, Exhausted, VmAlone, HostAfterVm, ScriptTypes, UiTypes
<1>16. CASE StopTick
  BY <1>16 DEF StopTick, Tick, StopBegins, CloseBegins, VmAlone, HostAfterVm, ScriptTypes, UiTypes
<1>17. CASE StopCurrentApp
  BY <1>17 DEF StopCurrentApp, StopOk, StopFails, VmClosed, VmAlone, HostAfterVm, ScriptTypes, UiTypes
<1>18. CASE ReturnHome
  BY <1>18 DEF ReturnHome, StopBegins, CloseBegins, VmAlone, HostAfterVm, ScriptTypes, UiTypes
<1>19. CASE ReturnedHome
  BY <1>19 DEF ReturnedHome, StopOk, StopFails, VmClosed, VmAlone, HostAfterVm, ScriptTypes, UiTypes
<1>20. CASE OnStop
  BY <1>20 DEF OnStop, StopBegins, CloseBegins, VmAlone, HostAfterVm, ScriptTypes, UiTypes
<1>21. CASE PageClosed
  BY <1>21 DEF PageClosed, StopOk, StopFails, VmClosed, VmAlone, HostAfterVm, ScriptTypes, UiTypes
<1>22. CASE OnStart
  BY <1>22 DEF OnStart, StopBegins, CloseBegins, VmAlone, HostAfterVm, ScriptTypes, UiTypes
<1>23. CASE ReloadCommand
  BY <1>23 DEF ReloadCommand, VmAlone, HostAfterVm, ScriptTypes, UiTypes
<1>24. CASE StopCommand
  BY <1>24 DEF StopCommand, VmAlone, HostAfterVm, ScriptTypes, UiTypes
<1>25. CASE HomeKey
  BY <1>25 DEF HomeKey, Tick, VmAlone, HostAfterVm, ScriptTypes, UiTypes
<1>26. CASE Request
  BY <1>26 DEF Request, VmAlone, HostAfterVm, ScriptTypes, UiTypes
<1>27. CASE CloserDone
  BY <1>27 DEF CloserDone, VmAlone, HostAfterVm, ScriptTypes, UiTypes
<1>28. CASE HelperStarts
  BY <1>28 DEF HelperStarts, VmAlone, HostAfterVm, ScriptTypes, UiTypes
<1>29. CASE HelperDone
  BY <1>29 DEF HelperDone, VmAlone, HostAfterVm, ScriptTypes, UiTypes
<1>30. CASE InstallSession
  BY <1>30 DEF InstallSession, VmAlone, HostAfterVm, ScriptTypes, UiTypes
<1>31. CASE OpenPage
  BY <1>31 DEF OpenPage, VmAlone, HostAfterVm, ScriptTypes, UiTypes
<1>32. CASE LeavePage
  BY <1>32 DEF LeavePage, VmAlone, HostAfterVm, ScriptTypes, UiTypes
<1>33. CASE UNCHANGED vars
  BY <1>33 DEF VmAlone, HostAfterVm, ScriptTypes, UiTypes, vars
<1> QED
  BY <1>1, <1>2, <1>3, <1>4, <1>5, <1>6, <1>7, <1>8, <1>9, <1>10, <1>11, <1>12, <1>13, <1>14, <1>15, <1>16, <1>17, <1>18, <1>19, <1>20, <1>21, <1>22, <1>23, <1>24, <1>25, <1>26, <1>27, <1>28, <1>29, <1>30, <1>31, <1>32, <1>33
  DEF Next, Gui, Command

\* The invariant both theorems rest on.
Apart == TypeOK /\ VmAlone /\ HostAfterVm


\* A VM is never created, and its state never cleared, while the close worker
\* still works on the one before.
THEOREM OneVmHolds == Spec => []OneVm
<1>1. Init => Apart
  BY InitTypeOK DEF Init, Apart, VmAlone, HostAfterVm
<1>2. Apart /\ [Next]_vars => Apart'
  BY TypeStep, VmStep, HostStep DEF Apart
<1>3. Apart => OneVm
  BY DEF Apart, VmAlone, OneVm
<1> QED
  BY <1>1, <1>2, <1>3, PTL DEF Spec

-----------------------------------------------------------------------------
(* The interface outlives the script                                       *)

\* While the page stays open and nothing is stopped: no command but launch,
\* select and reload, and every application is on the card.
StayingOpen ==
  /\ Installed = Apps
  /\ "stop" \notin Commands /\ "key" \notin Commands /\ "leavePage" \notin Trouble

\* A page that was opened runs and stays open; before it runs there is no script.
Open ==
  /\ running => page = "runtime"
  /\ ~running => ~vm /\ ~closer /\ ~host
  /\ ~pendingStop
\* The GUI thread only waits for a load, and only on a running page.
OnlyLoads ==
  /\ gui \in {"idle", "load", "fail"}
  /\ gui # "idle" => running
KeepsUi == Open /\ OnlyLoads /\ UiOutlivesScript

\* Every step of a page that stays open keeps the interface under the script.
LEMMA KeepsUiStep ==
  ASSUME StayingOpen
  PROVE  Apart /\ KeepsUi /\ [Next]_vars => KeepsUi'
<1> SUFFICES ASSUME TypeOK, VmAlone, HostAfterVm, KeepsUi, [Next]_vars PROVE KeepsUi'
  BY DEF Apart
<1> USE DEF ui, app, requests, reload, lua, hosts
<1>1. ASSUME NEW a \in Apps, Launch(a) PROVE KeepsUi'
  BY <1>1 DEF Launch, Selects, KeepsUi, Open, OnlyLoads, UiOutlivesScript, StayingOpen, VmAlone, HostAfterVm, TypeOK, UiTypes, AppTypes, ReloadTypes, ScriptTypes
<1>2. ASSUME NEW a \in Apps, Select(a) PROVE KeepsUi'
  BY <1>2 DEF Select, Selects, KeepsUi, Open, OnlyLoads, UiOutlivesScript, StayingOpen, VmAlone, HostAfterVm, TypeOK, UiTypes, AppTypes, ReloadTypes, ScriptTypes
<1>3. CASE StartReload
  <2>1. Open'
    BY <1>3 DEF StartReload, Tick, CloseBegins, KeepsUi, Open, OnlyLoads, UiOutlivesScript, StayingOpen, VmAlone, HostAfterVm, TypeOK, UiTypes, AppTypes, ReloadTypes, ScriptTypes
  <2>2. OnlyLoads'
    BY <1>3 DEF StartReload, Tick, CloseBegins, KeepsUi, Open, OnlyLoads, UiOutlivesScript, StayingOpen, VmAlone, HostAfterVm, TypeOK, UiTypes, AppTypes, ReloadTypes, ScriptTypes
  <2>3. UiOutlivesScript'
    BY <1>3 DEF StartReload, Tick, CloseBegins, KeepsUi, Open, OnlyLoads, UiOutlivesScript, StayingOpen, VmAlone, HostAfterVm, TypeOK, UiTypes, AppTypes, ReloadTypes, ScriptTypes
  <2> QED
    BY <2>1, <2>2, <2>3 DEF KeepsUi
<1>4. CASE StartReloadFails
  <2>1. Open'
    BY <1>4 DEF StartReloadFails, Tick, ReloadFail, Fail, ControlledReset, Exhausted, KeepsUi, Open, OnlyLoads, UiOutlivesScript, StayingOpen, VmAlone, HostAfterVm, TypeOK, UiTypes, AppTypes, ReloadTypes, ScriptTypes
  <2>2. OnlyLoads'
    BY <1>4 DEF StartReloadFails, Tick, ReloadFail, Fail, ControlledReset, Exhausted, KeepsUi, Open, OnlyLoads, UiOutlivesScript, StayingOpen, VmAlone, HostAfterVm, TypeOK, UiTypes, AppTypes, ReloadTypes, ScriptTypes
  <2>3. UiOutlivesScript'
    BY <1>4 DEF StartReloadFails, Tick, ReloadFail, Fail, ControlledReset, Exhausted, KeepsUi, Open, OnlyLoads, UiOutlivesScript, StayingOpen, VmAlone, HostAfterVm, TypeOK, UiTypes, AppTypes, ReloadTypes, ScriptTypes
  <2> QED
    BY <2>1, <2>2, <2>3 DEF KeepsUi
<1>5. CASE StartReloadBusy
  <2>1. Open'
    BY <1>5 DEF StartReloadBusy, Tick, ReloadFail, Fail, ControlledReset, Exhausted, KeepsUi, Open, OnlyLoads, UiOutlivesScript, StayingOpen, VmAlone, HostAfterVm, TypeOK, UiTypes, AppTypes, ReloadTypes, ScriptTypes
  <2>2. OnlyLoads'
    BY <1>5 DEF StartReloadBusy, Tick, ReloadFail, Fail, ControlledReset, Exhausted, KeepsUi, Open, OnlyLoads, UiOutlivesScript, StayingOpen, VmAlone, HostAfterVm, TypeOK, UiTypes, AppTypes, ReloadTypes, ScriptTypes
  <2>3. UiOutlivesScript'
    BY <1>5 DEF StartReloadBusy, Tick, ReloadFail, Fail, ControlledReset, Exhausted, KeepsUi, Open, OnlyLoads, UiOutlivesScript, StayingOpen, VmAlone, HostAfterVm, TypeOK, UiTypes, AppTypes, ReloadTypes, ScriptTypes
  <2> QED
    BY <2>1, <2>2, <2>3 DEF KeepsUi
<1>6. CASE CloseTimesOut
  <2>1. Open'
    BY <1>6 DEF CloseTimesOut, Tick, ReloadFail, Fail, ControlledReset, Exhausted, KeepsUi, Open, OnlyLoads, UiOutlivesScript, StayingOpen, VmAlone, HostAfterVm, TypeOK, UiTypes, AppTypes, ReloadTypes, ScriptTypes
  <2>2. OnlyLoads'
    BY <1>6 DEF CloseTimesOut, Tick, ReloadFail, Fail, ControlledReset, Exhausted, KeepsUi, Open, OnlyLoads, UiOutlivesScript, StayingOpen, VmAlone, HostAfterVm, TypeOK, UiTypes, AppTypes, ReloadTypes, ScriptTypes
  <2>3. UiOutlivesScript'
    BY <1>6 DEF CloseTimesOut, Tick, ReloadFail, Fail, ControlledReset, Exhausted, KeepsUi, Open, OnlyLoads, UiOutlivesScript, StayingOpen, VmAlone, HostAfterVm, TypeOK, UiTypes, AppTypes, ReloadTypes, ScriptTypes
  <2> QED
    BY <2>1, <2>2, <2>3 DEF KeepsUi
<1>7. CASE HostWaits
  <2>1. Open'
    BY <1>7 DEF HostWaits, Tick, CloseChecked, KeepsUi, Open, OnlyLoads, UiOutlivesScript, StayingOpen, VmAlone, HostAfterVm, TypeOK, UiTypes, AppTypes, ReloadTypes, ScriptTypes
  <2>2. OnlyLoads'
    BY <1>7 DEF HostWaits, Tick, CloseChecked, KeepsUi, Open, OnlyLoads, UiOutlivesScript, StayingOpen, VmAlone, HostAfterVm, TypeOK, UiTypes, AppTypes, ReloadTypes, ScriptTypes
  <2>3. UiOutlivesScript'
    BY <1>7 DEF HostWaits, Tick, CloseChecked, KeepsUi, Open, OnlyLoads, UiOutlivesScript, StayingOpen, VmAlone, HostAfterVm, TypeOK, UiTypes, AppTypes, ReloadTypes, ScriptTypes
  <2> QED
    BY <2>1, <2>2, <2>3 DEF KeepsUi
<1>8. CASE HostTimesOut
  <2>1. Open'
    BY <1>8 DEF HostTimesOut, Tick, ReloadFail, Fail, ControlledReset, Exhausted, KeepsUi, Open, OnlyLoads, UiOutlivesScript, StayingOpen, VmAlone, HostAfterVm, TypeOK, UiTypes, AppTypes, ReloadTypes, ScriptTypes
  <2>2. OnlyLoads'
    BY <1>8 DEF HostTimesOut, Tick, ReloadFail, Fail, ControlledReset, Exhausted, KeepsUi, Open, OnlyLoads, UiOutlivesScript, StayingOpen, VmAlone, HostAfterVm, TypeOK, UiTypes, AppTypes, ReloadTypes, ScriptTypes
  <2>3. UiOutlivesScript'
    BY <1>8 DEF HostTimesOut, Tick, ReloadFail, Fail, ControlledReset, Exhausted, KeepsUi, Open, OnlyLoads, UiOutlivesScript, StayingOpen, VmAlone, HostAfterVm, TypeOK, UiTypes, AppTypes, ReloadTypes, ScriptTypes
  <2> QED
    BY <2>1, <2>2, <2>3 DEF KeepsUi
<1>9. CASE Teardown
  <2>1. Open'
    BY <1>9 DEF Teardown, Tick, CloseChecked, KeepsUi, Open, OnlyLoads, UiOutlivesScript, StayingOpen, VmAlone, HostAfterVm, TypeOK, UiTypes, AppTypes, ReloadTypes, ScriptTypes
  <2>2. OnlyLoads'
    BY <1>9 DEF Teardown, Tick, CloseChecked, KeepsUi, Open, OnlyLoads, UiOutlivesScript, StayingOpen, VmAlone, HostAfterVm, TypeOK, UiTypes, AppTypes, ReloadTypes, ScriptTypes
  <2>3. UiOutlivesScript'
    BY <1>9 DEF Teardown, Tick, CloseChecked, KeepsUi, Open, OnlyLoads, UiOutlivesScript, StayingOpen, VmAlone, HostAfterVm, TypeOK, UiTypes, AppTypes, ReloadTypes, ScriptTypes
  <2> QED
    BY <2>1, <2>2, <2>3 DEF KeepsUi
<1>10. CASE LoadBlocked
  <2>1. Open'
    BY <1>10 DEF LoadBlocked, ByReload, StopFails, VmClosed, ReloadFail, Fail, ControlledReset, Exhausted, KeepsUi, Open, OnlyLoads, UiOutlivesScript, StayingOpen, VmAlone, HostAfterVm, TypeOK, UiTypes, AppTypes, ReloadTypes, ScriptTypes
  <2>2. OnlyLoads'
    BY <1>10 DEF LoadBlocked, ByReload, StopFails, VmClosed, ReloadFail, Fail, ControlledReset, Exhausted, KeepsUi, Open, OnlyLoads, UiOutlivesScript, StayingOpen, VmAlone, HostAfterVm, TypeOK, UiTypes, AppTypes, ReloadTypes, ScriptTypes
  <2>3. UiOutlivesScript'
    BY <1>10 DEF LoadBlocked, ByReload, StopFails, VmClosed, ReloadFail, Fail, ControlledReset, Exhausted, KeepsUi, Open, OnlyLoads, UiOutlivesScript, StayingOpen, VmAlone, HostAfterVm, TypeOK, UiTypes, AppTypes, ReloadTypes, ScriptTypes
  <2> QED
    BY <2>1, <2>2, <2>3 DEF KeepsUi
<1>11. CASE LoadStarts
  <2>1. Open'
    BY <1>11 DEF LoadStarts, Loading, VmClosed, Loaded, ByReload, KeepsUi, Open, OnlyLoads, UiOutlivesScript, StayingOpen, VmAlone, HostAfterVm, TypeOK, UiTypes, AppTypes, ReloadTypes, ScriptTypes
  <2>2. OnlyLoads'
    BY <1>11 DEF LoadStarts, Loading, VmClosed, Loaded, ByReload, KeepsUi, Open, OnlyLoads, UiOutlivesScript, StayingOpen, VmAlone, HostAfterVm, TypeOK, UiTypes, AppTypes, ReloadTypes, ScriptTypes
  <2>3. UiOutlivesScript'
    BY <1>11 DEF LoadStarts, Loading, VmClosed, Loaded, ByReload, KeepsUi, Open, OnlyLoads, UiOutlivesScript, StayingOpen, VmAlone, HostAfterVm, TypeOK, UiTypes, AppTypes, ReloadTypes, ScriptTypes
  <2> QED
    BY <2>1, <2>2, <2>3 DEF KeepsUi
<1>12. CASE LoadBreaks
  <2>1. Open'
    BY <1>12 DEF LoadBreaks, Loading, VmClosed, KeepsUi, Open, OnlyLoads, UiOutlivesScript, StayingOpen, VmAlone, HostAfterVm, TypeOK, UiTypes, AppTypes, ReloadTypes, ScriptTypes
  <2>2. OnlyLoads'
    BY <1>12 DEF LoadBreaks, Loading, VmClosed, KeepsUi, Open, OnlyLoads, UiOutlivesScript, StayingOpen, VmAlone, HostAfterVm, TypeOK, UiTypes, AppTypes, ReloadTypes, ScriptTypes
  <2>3. UiOutlivesScript'
    BY <1>12 DEF LoadBreaks, Loading, VmClosed, KeepsUi, Open, OnlyLoads, UiOutlivesScript, StayingOpen, VmAlone, HostAfterVm, TypeOK, UiTypes, AppTypes, ReloadTypes, ScriptTypes
  <2> QED
    BY <2>1, <2>2, <2>3 DEF KeepsUi
<1>13. CASE LoadFailed
  <2>1. Open'
    BY <1>13 DEF LoadFailed, ByReload, Loaded, StopOk, StopFails, VmClosed, ReloadFail, Fail, ControlledReset, Exhausted, KeepsUi, Open, OnlyLoads, UiOutlivesScript, StayingOpen, VmAlone, HostAfterVm, TypeOK, UiTypes, AppTypes, ReloadTypes, ScriptTypes
  <2>2. OnlyLoads'
    BY <1>13 DEF LoadFailed, ByReload, Loaded, StopOk, StopFails, VmClosed, ReloadFail, Fail, ControlledReset, Exhausted, KeepsUi, Open, OnlyLoads, UiOutlivesScript, StayingOpen, VmAlone, HostAfterVm, TypeOK, UiTypes, AppTypes, ReloadTypes, ScriptTypes
  <2>3. UiOutlivesScript'
    BY <1>13 DEF LoadFailed, ByReload, Loaded, StopOk, StopFails, VmClosed, ReloadFail, Fail, ControlledReset, Exhausted, KeepsUi, Open, OnlyLoads, UiOutlivesScript, StayingOpen, VmAlone, HostAfterVm, TypeOK, UiTypes, AppTypes, ReloadTypes, ScriptTypes
  <2> QED
    BY <2>1, <2>2, <2>3 DEF KeepsUi
<1>14. CASE LoadStarves
  <2>1. Open'
    BY <1>14 DEF LoadStarves, Loading, VmClosed, ByReload, Loaded, ReloadFail, Fail, ControlledReset, Exhausted, KeepsUi, Open, OnlyLoads, UiOutlivesScript, StayingOpen, VmAlone, HostAfterVm, TypeOK, UiTypes, AppTypes, ReloadTypes, ScriptTypes
  <2>2. OnlyLoads'
    BY <1>14 DEF LoadStarves, Loading, VmClosed, ByReload, Loaded, ReloadFail, Fail, ControlledReset, Exhausted, KeepsUi, Open, OnlyLoads, UiOutlivesScript, StayingOpen, VmAlone, HostAfterVm, TypeOK, UiTypes, AppTypes, ReloadTypes, ScriptTypes
  <2>3. UiOutlivesScript'
    BY <1>14 DEF LoadStarves, Loading, VmClosed, ByReload, Loaded, ReloadFail, Fail, ControlledReset, Exhausted, KeepsUi, Open, OnlyLoads, UiOutlivesScript, StayingOpen, VmAlone, HostAfterVm, TypeOK, UiTypes, AppTypes, ReloadTypes, ScriptTypes
  <2> QED
    BY <2>1, <2>2, <2>3 DEF KeepsUi
<1>15. CASE LoadHome
  <2>1. Open'
    BY <1>15 DEF LoadHome, Loading, VmClosed, ByReload, Loaded, GoesHome, ReloadFail, Fail, ControlledReset, Exhausted, KeepsUi, Open, OnlyLoads, UiOutlivesScript, StayingOpen, VmAlone, HostAfterVm, TypeOK, UiTypes, AppTypes, ReloadTypes, ScriptTypes
  <2>2. OnlyLoads'
    BY <1>15 DEF LoadHome, Loading, VmClosed, ByReload, Loaded, GoesHome, ReloadFail, Fail, ControlledReset, Exhausted, KeepsUi, Open, OnlyLoads, UiOutlivesScript, StayingOpen, VmAlone, HostAfterVm, TypeOK, UiTypes, AppTypes, ReloadTypes, ScriptTypes
  <2>3. UiOutlivesScript'
    BY <1>15 DEF LoadHome, Loading, VmClosed, ByReload, Loaded, GoesHome, ReloadFail, Fail, ControlledReset, Exhausted, KeepsUi, Open, OnlyLoads, UiOutlivesScript, StayingOpen, VmAlone, HostAfterVm, TypeOK, UiTypes, AppTypes, ReloadTypes, ScriptTypes
  <2> QED
    BY <2>1, <2>2, <2>3 DEF KeepsUi
<1>16. CASE StopTick
  BY <1>16 DEF StopTick, Tick, StopBegins, CloseBegins, KeepsUi, Open, OnlyLoads, UiOutlivesScript, StayingOpen, VmAlone, HostAfterVm, TypeOK, UiTypes, AppTypes, ReloadTypes, ScriptTypes
<1>17. CASE StopCurrentApp
  BY <1>17 DEF StopCurrentApp, StopOk, StopFails, VmClosed, KeepsUi, Open, OnlyLoads, UiOutlivesScript, StayingOpen, VmAlone, HostAfterVm, TypeOK, UiTypes, AppTypes, ReloadTypes, ScriptTypes
<1>18. CASE ReturnHome
  BY <1>18 DEF ReturnHome, StopBegins, CloseBegins, KeepsUi, Open, OnlyLoads, UiOutlivesScript, StayingOpen, VmAlone, HostAfterVm, TypeOK, UiTypes, AppTypes, ReloadTypes, ScriptTypes
<1>19. CASE ReturnedHome
  BY <1>19 DEF ReturnedHome, StopOk, StopFails, VmClosed, KeepsUi, Open, OnlyLoads, UiOutlivesScript, StayingOpen, VmAlone, HostAfterVm, TypeOK, UiTypes, AppTypes, ReloadTypes, ScriptTypes
<1>20. CASE OnStop
  BY <1>20 DEF OnStop, StopBegins, CloseBegins, KeepsUi, Open, OnlyLoads, UiOutlivesScript, StayingOpen, VmAlone, HostAfterVm, TypeOK, UiTypes, AppTypes, ReloadTypes, ScriptTypes
<1>21. CASE PageClosed
  BY <1>21 DEF PageClosed, StopOk, StopFails, VmClosed, KeepsUi, Open, OnlyLoads, UiOutlivesScript, StayingOpen, VmAlone, HostAfterVm, TypeOK, UiTypes, AppTypes, ReloadTypes, ScriptTypes
<1>22. CASE OnStart
  <2>1. Open'
    BY <1>22 DEF OnStart, StopBegins, CloseBegins, KeepsUi, Open, OnlyLoads, UiOutlivesScript, StayingOpen, VmAlone, HostAfterVm, TypeOK, UiTypes, AppTypes, ReloadTypes, ScriptTypes
  <2>2. OnlyLoads'
    BY <1>22 DEF OnStart, StopBegins, CloseBegins, KeepsUi, Open, OnlyLoads, UiOutlivesScript, StayingOpen, VmAlone, HostAfterVm, TypeOK, UiTypes, AppTypes, ReloadTypes, ScriptTypes
  <2>3. UiOutlivesScript'
    BY <1>22 DEF OnStart, StopBegins, CloseBegins, KeepsUi, Open, OnlyLoads, UiOutlivesScript, StayingOpen, VmAlone, HostAfterVm, TypeOK, UiTypes, AppTypes, ReloadTypes, ScriptTypes
  <2> QED
    BY <2>1, <2>2, <2>3 DEF KeepsUi
<1>23. CASE ReloadCommand
  BY <1>23 DEF ReloadCommand, KeepsUi, Open, OnlyLoads, UiOutlivesScript, StayingOpen, VmAlone, HostAfterVm, TypeOK, UiTypes, AppTypes, ReloadTypes, ScriptTypes
<1>24. CASE StopCommand
  BY <1>24 DEF StopCommand, KeepsUi, Open, OnlyLoads, UiOutlivesScript, StayingOpen, VmAlone, HostAfterVm, TypeOK, UiTypes, AppTypes, ReloadTypes, ScriptTypes
<1>25. CASE HomeKey
  BY <1>25 DEF HomeKey, Tick, KeepsUi, Open, OnlyLoads, UiOutlivesScript, StayingOpen, VmAlone, HostAfterVm, TypeOK, UiTypes, AppTypes, ReloadTypes, ScriptTypes
<1>26. CASE Request
  BY <1>26 DEF Request, KeepsUi, Open, OnlyLoads, UiOutlivesScript, StayingOpen, VmAlone, HostAfterVm, TypeOK, UiTypes, AppTypes, ReloadTypes, ScriptTypes
<1>27. CASE CloserDone
  BY <1>27 DEF CloserDone, KeepsUi, Open, OnlyLoads, UiOutlivesScript, StayingOpen, VmAlone, HostAfterVm, TypeOK, UiTypes, AppTypes, ReloadTypes, ScriptTypes
<1>28. CASE HelperStarts
  BY <1>28 DEF HelperStarts, KeepsUi, Open, OnlyLoads, UiOutlivesScript, StayingOpen, VmAlone, HostAfterVm, TypeOK, UiTypes, AppTypes, ReloadTypes, ScriptTypes
<1>29. CASE HelperDone
  BY <1>29 DEF HelperDone, KeepsUi, Open, OnlyLoads, UiOutlivesScript, StayingOpen, VmAlone, HostAfterVm, TypeOK, UiTypes, AppTypes, ReloadTypes, ScriptTypes
<1>30. CASE InstallSession
  BY <1>30 DEF InstallSession, KeepsUi, Open, OnlyLoads, UiOutlivesScript, StayingOpen, VmAlone, HostAfterVm, TypeOK, UiTypes, AppTypes, ReloadTypes, ScriptTypes
<1>31. CASE OpenPage
  BY <1>31 DEF OpenPage, KeepsUi, Open, OnlyLoads, UiOutlivesScript, StayingOpen, VmAlone, HostAfterVm, TypeOK, UiTypes, AppTypes, ReloadTypes, ScriptTypes
<1>32. CASE LeavePage
  BY <1>32 DEF LeavePage, KeepsUi, Open, OnlyLoads, UiOutlivesScript, StayingOpen, VmAlone, HostAfterVm, TypeOK, UiTypes, AppTypes, ReloadTypes, ScriptTypes
<1>33. CASE UNCHANGED vars
  BY <1>33 DEF KeepsUi, Open, OnlyLoads, UiOutlivesScript, StayingOpen, VmAlone, HostAfterVm, TypeOK, UiTypes, AppTypes, ReloadTypes, ScriptTypes, vars
<1> QED
  BY <1>1, <1>2, <1>3, <1>4, <1>5, <1>6, <1>7, <1>8, <1>9, <1>10, <1>11, <1>12, <1>13, <1>14, <1>15, <1>16, <1>17, <1>18, <1>19, <1>20, <1>21, <1>22, <1>23, <1>24, <1>25, <1>26, <1>27, <1>28, <1>29, <1>30, <1>31, <1>32, <1>33
  DEF Next, Gui, Command

\* While the page stays open and nothing is stopped, no reload, retry or failed
\* start deletes the interface under a VM, its close worker or the host objects.
THEOREM UiKept ==
  ASSUME StayingOpen
  PROVE  Spec => []UiOutlivesScript
<1>1. Init => Apart /\ KeepsUi
  BY InitTypeOK DEF Init, Apart, VmAlone, HostAfterVm, KeepsUi, Open, OnlyLoads, UiOutlivesScript
<1>2. Apart /\ KeepsUi /\ [Next]_vars => (Apart /\ KeepsUi)'
  BY TypeStep, VmStep, HostStep, KeepsUiStep DEF Apart
<1>3. KeepsUi => UiOutlivesScript
  BY DEF KeepsUi
<1> QED
  BY <1>1, <1>2, <1>3, PTL DEF Spec

-----------------------------------------------------------------------------
(* The application shown                                                   *)

\* A choice that is not on the page yet has a command or a request that will
\* bring it there: also while the GUI thread waits for the VM of a failed start.
Chosen ==
  /\ running /\ gui = "idle" /\ phase = "idle" /\ ~reloading
       => cmd \/ pendingReload \/ active = marker
  /\ gui = "fail" => running /\ (cmd \/ pendingReload \/ active = marker)
  /\ gui = "load" => running
  /\ gui = "close" => ~running

\* Every step keeps it: a load takes the application last chosen, and what the
\* GUI thread forgets on the way home it forgets with the choice.
LEMMA ChosenStep == TypeOK /\ Chosen /\ [Next]_vars => Chosen'
<1> SUFFICES ASSUME UiTypes, AppTypes, ReloadTypes, Chosen, [Next]_vars PROVE Chosen'
  BY DEF TypeOK
<1> USE DEF ui, app, requests, reload, lua, hosts, Chosen, UiTypes, AppTypes, ReloadTypes
<1>1. ASSUME NEW a \in Apps, Launch(a) \/ Select(a) PROVE Chosen'
  BY <1>1 DEF Launch, Select, Selects
<1>2. CASE ReloadCommand \/ StopCommand \/ HomeKey
  BY <1>2 DEF ReloadCommand, StopCommand, HomeKey, Tick
<1>3. CASE Request
  BY <1>3 DEF Request
<1>4. CASE StartReload
  BY <1>4 DEF StartReload, Tick
<1>5. CASE StartReloadFails \/ CloseTimesOut
  BY <1>5 DEF StartReloadFails, CloseTimesOut, Tick, ReloadFail, Fail, ControlledReset
<1>6. CASE StartReloadBusy
  BY <1>6 DEF StartReloadBusy, Tick, ReloadFail, Fail, ControlledReset
<1>7. CASE HostWaits \/ Teardown
  BY <1>7 DEF HostWaits, Teardown, Tick
<1>8. CASE HostTimesOut
  BY <1>8 DEF HostTimesOut, Tick, ReloadFail, Fail, ControlledReset
<1>9. CASE LoadBlocked
  BY <1>9 DEF LoadBlocked, StopFails, ReloadFail, Fail, ControlledReset
<1>10. CASE LoadStarts
  BY <1>10 DEF LoadStarts, Loaded
<1>11. CASE LoadBreaks
  BY <1>11 DEF LoadBreaks, Loading
<1>12. CASE LoadFailed
  BY <1>12 DEF LoadFailed, StopOk, StopFails, Loaded, ReloadFail, Fail, ControlledReset
<1>13. CASE LoadStarves
  BY <1>13 DEF LoadStarves, Loading, Loaded, ReloadFail, Fail, ControlledReset
<1>14. CASE LoadHome
  BY <1>14 DEF LoadHome, Loading, GoesHome, Loaded, ReloadFail, Fail, ControlledReset
<1>15. CASE StopTick \/ ReturnHome
  BY <1>15 DEF StopTick, ReturnHome, Tick, StopBegins, CloseBegins
<1>16. CASE StopCurrentApp \/ ReturnedHome
  BY <1>16 DEF StopCurrentApp, ReturnedHome, StopOk, StopFails
<1>17. CASE OnStop \/ OnStart
  BY <1>17 DEF OnStop, OnStart, StopBegins, CloseBegins
<1>18. CASE PageClosed
  BY <1>18 DEF PageClosed, StopOk, StopFails
<1>19. CASE CloserDone \/ HelperStarts \/ HelperDone \/ InstallSession \/ OpenPage \/ LeavePage
  BY <1>19 DEF CloserDone, HelperStarts, HelperDone, InstallSession, OpenPage, LeavePage
<1>20. CASE UNCHANGED vars
  BY <1>20 DEF vars
<1> QED
  BY <1>1, <1>2, <1>3, <1>4, <1>5, <1>6, <1>7, <1>8, <1>9, <1>10, <1>11, <1>12, <1>13, <1>14,
     <1>15, <1>16, <1>17, <1>18, <1>19, <1>20
  DEF Next, Gui, Command

\* When no request, command or reload is under way the page shows the
\* application selected last, whatever is commanded, hangs or fails
\* (vb_runtime_select_app, vb_runtime_request_reload, vb_load_active_package).
THEOREM ShownIsSelected == Spec => []LoadedIsSelected
<1>1. Init => Chosen
  BY DEF Init, Chosen
<1>2. TypeOK /\ Chosen => LoadedIsSelected
  BY DEF Chosen, LoadedIsSelected, Quiet
<1> QED
  BY <1>1, <1>2, InitTypeOK, TypeStep, ChosenStep, PTL DEF Spec

=============================================================================
