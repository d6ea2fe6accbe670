----------------------------- MODULE CardUsers -----------------------------
(***************************************************************************)
(* The two helpers a Runtime page starts, AudioPlayer and PetLoader, with  *)
(* what they share: the lock of the card, and the GUI thread that starts   *)
(* both and, when the page's script ends, polls until both have gone       *)
(* (vibeboard_lua_host_stop).  RuntimeReload only knows that helpers are   *)
(* busy or not; here is why they end.                                      *)
(***************************************************************************)
EXTENDS Naturals

CONSTANTS
  Workers, NoWorker, Faults,                         \* see AudioPlayer
  States, Home, Resident, NoState, MaxTokens, LoadFails, \* see PetLoader
  MaxCalls                                           \* bound: calls of both

VARIABLES
  card, call, calls,
  worker, playing, stop, source, pc, reads, cues, reserved, capture,
  active, alive, bytes, bank, shown, wanted, cache, request, done, applied,
  handle, halt, tokens, step, mine,
  stopping \* the script is being stopped

Audio == INSTANCE AudioPlayer
Pet   == INSTANCE PetLoader

ASSUME HelpersAssumption == Audio!AudioAssumption /\ Pet!LoaderAssumption

shared == <<card, call, calls>>
player == <<worker, playing, stop, source, pc, reads, cues, reserved, capture>>
pet    == <<active, alive, bytes, bank, shown, wanted, cache, request, done, applied,
            handle, halt, tokens, step, mine>>
vars   == <<shared, player, pet, stopping>>

Init ==
  /\ card = "free" /\ call = [t \in Audio!Callers |-> "idle"] /\ calls = 0
  /\ Audio!Init /\ Pet!Init /\ stopping = FALSE

-----------------------------------------------------------------------------
(* The GUI thread                                                          *)

\* vibe_codex_pet of a script: the cues, then the pet; buttons and commands of
\* the player need no script.
Script ==
  /\ ~stopping
  /\ \/ Audio!Preload /\ UNCHANGED pet
     \/ Pet!Begin /\ UNCHANGED player
  /\ UNCHANGED stopping

Tick(s) == ~stopping /\ Pet!Tick(s) /\ UNCHANGED <<player, stopping>>

\* vibeboard_lua_host_reset, before a script is loaded: the pet is stopped and
\* the cues are freed, unless its loader is still there.
HostReset ==
  /\ ~stopping /\ Pet!GuiIdle
  /\ IF active THEN Pet!Stop ELSE UNCHANGED pet
  /\ IF active /\ handle THEN Pet!Counted /\ UNCHANGED <<card, call, player>>
                         ELSE Audio!Release
  /\ UNCHANGED stopping

HostStopBegins ==
  /\ ~stopping /\ Pet!GuiIdle /\ Pet!Counted
  /\ stopping' = TRUE
  /\ UNCHANGED <<card, call, player, pet>>

\* vibeboard_lua_host_stop, once per timer tick: the player, then the pet.
HostStop ==
  /\ stopping /\ Pet!GuiIdle
  /\ Audio!Shutdown
  /\ IF ~Audio!Busy /\ active THEN Pet!Stop ELSE UNCHANGED pet
  /\ stopping' = (Audio!Busy \/ (active /\ handle))
  /\ UNCHANGED shared

\* The reload gives up, or the stop was asked for once only.
HostStopGivesUp ==
  /\ stopping /\ Pet!GuiIdle /\ stopping' = FALSE
  /\ UNCHANGED <<shared, player, pet>>

Page == Script \/ HostReset \/ HostStopBegins \/ HostStop \/ HostStopGivesUp

PlayerNext ==
  /\ \/ \E t \in Audio!Callers : Audio!Call(t) \/ Audio!InCall(t)
     \/ Audio!InPreload \/ Audio!CaptureEnds
     \/ \E w \in Workers : Audio!Runs(w) \/ Audio!Service(w)
  /\ UNCHANGED <<pet, stopping>>

PetNext == (Pet!InBegin \/ Pet!Runs) /\ UNCHANGED <<player, stopping>>

Next == Page \/ (\E s \in States : Tick(s)) \/ PlayerNext \/ PetNext

Spec == Init /\ [][Next]_vars

\* Every thread runs on, and so does the timer of the GUI thread.  A playback
\* that is not stopped may last, a host stop need not give up.
Fairness ==
  /\ \A t \in Audio!Callers : WF_vars(Audio!InCall(t) /\ UNCHANGED <<pet, stopping>>)
  /\ WF_vars(Audio!InPreload /\ UNCHANGED <<pet, stopping>>)
  /\ \A w \in Workers : WF_vars(Audio!Runs(w) /\ UNCHANGED <<pet, stopping>>)
  /\ WF_vars(Pet!InBegin /\ UNCHANGED <<player, stopping>>)
  /\ WF_vars(Pet!Runs /\ UNCHANGED <<player, stopping>>)
  /\ WF_vars(HostStop) /\ WF_vars(\E s \in States : Tick(s))

FairSpec == Spec /\ Fairness

-----------------------------------------------------------------------------
(* Properties                                                              *)

TypeOK ==
  /\ Audio!TypeOK /\ Pet!TypeOK /\ stopping \in BOOLEAN
  /\ call \in [Audio!Callers -> Audio!AudioCalls \cup Pet!PetCalls]

\* Nobody copies from cues that have been freed, or inflates a state into a bank
\* that has been (vb_runtime_audio_release_codex_cues, vb_codex_pet_stop).
MemoryAlive == Audio!CueAlive /\ Pet!BanksOutliveLoader

\* The codec records or plays, never both.
CaptureAlone == Audio!CaptureAlone

\* What the pet shows, and would switch to, is what it believes it shows.
BanksTrue == Pet!BanksTrue

\* Whoever holds the lock of the card is at work on the card and will return it
\* (vb_runtime_storage_take, vb_runtime_storage_release).
CardAccounted ==
  /\ Audio!CardReturned
  /\ card = "pet" => step = "load"
  /\ card = "gui" => call["gui"] \in {"load", "petLoad"}

\* The animation that stays wanted is shown in the end.
WantedShown == Pet!WantedShown

\* Stopping a script ends: no helper keeps it waiting for ever.
HostStops == stopping ~> ~stopping
=============================================================================
