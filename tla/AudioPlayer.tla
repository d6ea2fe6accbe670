---------------------------- MODULE AudioPlayer ----------------------------
(***************************************************************************)
(* The WAV player of the Runtime (vb_runtime_audio.c).  One worker thread  *)
(* at a time plays a tone, a file of the card, or a cue from memory; the   *)
(* GUI thread and the command thread start and stop it, reserve the codec  *)
(* for a voice capture, and the GUI thread loads and frees the cues.       *)
(*                                                                         *)
(* The worker holds the lock of the card (vb_runtime_storage.c) while it   *)
(* plays a file; other users of that lock are in PetLoader, CardUsers      *)
(* composes the two.  A caller that waits, for the worker to end or for    *)
(* the lock, is inside its call and does nothing else.                     *)
(***************************************************************************)
EXTENDS Naturals

CONSTANTS
  Workers,  \* identities of worker threads
  NoWorker, \* RT_NULL
  MaxCalls, \* bound: calls of one behaviour, shared with PetLoader
  Faults    \* what may go wrong, see FaultKinds

FaultKinds ==
  { "slowAudio",   \* the audio service keeps the worker busy for longer than a stop waits
    "startRace",   \* a thread starts the player while another is inside a call of it
    "damagedCue" } \* a cue on the card cannot be read

\* A worker thread is none of the other users of the lock of the card.
AudioAssumption ==
  /\ NoWorker \notin Workers /\ Workers \cap {"free", "gui", "pet"} = {}
  /\ MaxCalls \in Nat /\ Faults \subseteq FaultKinds

VARIABLES
  card,     \* who holds the lock of the card
  call,     \* what a calling thread is inside of
  calls,    \* calls made so far
  worker,   \* the handle of the worker thread
  playing, stop, \* stop_requested
  source,   \* what was asked for last: path and tone_requested
  pc,       \* what a worker thread is doing
  reads,    \* where it reads from
  cues,     \* the cues are in memory
  reserved, \* capture_reserved
  capture   \* a voice capture runs (main.c)

shared == <<card, call, calls>>
player == <<worker, playing, stop, source>>
thread == <<pc, reads>>
codec  == <<reserved, capture>>
audio  == <<player, thread, cues, codec>>

Callers == {"gui", "command"}
Sources == {"tone", "file", "cue"}
Steps   == {"none", "start", "take", "open", "play", "drain", "done", "exit"}
\* Calls of the player; the GUI thread may be inside a call of PetLoader instead.
Waiting    == {"stop", "capture", "release"}
AudioCalls == Waiting \cup {"idle", "preload", "load"} \cup {"tone", "file", "cue"}
Holders    == Workers \cup {"free", "gui", "pet"}

Init ==
  /\ worker = NoWorker /\ playing = FALSE /\ stop = FALSE /\ source = "tone"
  /\ pc = [w \in Workers |-> "none"] /\ reads = [w \in Workers |-> "none"]
  /\ cues = FALSE /\ reserved = FALSE /\ capture = FALSE

Idle(t)      == call[t] = "idle"
Enters(t, c) == call' = [call EXCEPT ![t] = c]
Counted      == calls < MaxCalls /\ calls' = calls + 1
Busy         == worker # NoWorker \/ playing
Step(w, s)   == pc' = [pc EXCEPT ![w] = s]
Others(t)    == Callers \ {t}

\* A worker that waits for the lock does so for up to 15 s, a stop for 2 s.
Late == \E w \in Workers : pc[w] = "take"
\* One that sees a new playback waits for it, and has not told it to stop.
StopGivesUp == worker # NoWorker /\ (Late \/ ~stop \/ "slowAudio" \in Faults)

-----------------------------------------------------------------------------
(* vb_runtime_audio_play_wav, vb_runtime_audio_play_tone                   *)

Undisturbed(t, busy) == "startRace" \in Faults \/ \A u \in Others(t) : call[u] \notin busy

\* The checks, in the thread of the caller ...
PlayAsk(t, s) ==
  /\ Idle(t) /\ Undisturbed(t, Sources \cup {"stop", "release"})
  /\ ~reserved /\ ~Busy /\ (s = "cue" => cues)
  /\ Counted /\ Enters(t, s)
  /\ UNCHANGED <<card, audio>>

\* ... and the start; another thread may have freed the cues in between.
PlayStart(t, w) ==
  /\ call[t] \in Sources /\ pc[w] = "none"
  /\ worker' = w /\ playing' = TRUE /\ stop' = FALSE /\ source' = call[t]
  /\ Step(w, "start") /\ Enters(t, "idle")
  /\ UNCHANGED <<card, calls, reads, cues, codec>>

-----------------------------------------------------------------------------
(* vb_runtime_audio_stop, and what waits for it                            *)

\* The rest of a call that stops the player, when that has ended or has not.
After(c, ended) ==
  /\ reserved' = IF c = "capture" THEN ended ELSE reserved
  /\ capture' = (capture \/ (c = "capture" /\ ended))
  /\ cues' = (cues /\ c # "release")

\* A player that is not running need not be waited for.
Stops(t, c) ==
  /\ Counted
  /\ IF Busy
     THEN /\ stop' = TRUE /\ Enters(t, c)
          /\ reserved' = (reserved \/ c = "capture") /\ UNCHANGED <<capture, cues>>
     ELSE After(c, TRUE) /\ UNCHANGED <<call, stop>>
  /\ UNCHANGED <<card, worker, playing, source, thread>>

Stop(t) == Idle(t) /\ Busy /\ Stops(t, "stop")

\* vb_runtime_audio_prepare_capture for a recording; the mutant reserves the
\* codec after the player has stopped.
ReserveLate(t) ==
  /\ Idle(t) /\ Undisturbed(t, Sources) /\ ~reserved /\ Counted
  /\ stop' = (stop \/ Busy) /\ Enters(t, "capture")
  /\ UNCHANGED <<card, worker, playing, source, thread, cues, codec>>

Reserve(t) == Idle(t) /\ Undisturbed(t, Sources) /\ ~reserved /\ Stops(t, "capture")

\* vb_runtime_audio_release_codex_cues (GUI thread).  The mutant does not wait.
ReleaseAtOnce ==
  /\ Idle("gui") /\ Counted /\ stop' = (stop \/ Busy) /\ cues' = FALSE
  /\ UNCHANGED <<card, call, worker, playing, source, thread, codec>>

Release == Idle("gui") /\ Stops("gui", "release")

\* The wait ends with the worker, or after 2 s.  The cues are freed either way.
StopReturns(t) ==
  /\ call[t] \in Waiting /\ (worker = NoWorker \/ StopGivesUp)
  /\ Enters(t, "idle") /\ After(call[t], worker = NoWorker)
  /\ UNCHANGED <<card, calls, player, thread>>

\* vb_runtime_audio_shutdown (GUI thread): it does not wait.
Shutdown ==
  IF Busy THEN stop' = TRUE /\ UNCHANGED <<worker, playing, source, thread, cues, codec>>
          ELSE cues' = FALSE /\ UNCHANGED <<player, thread, codec>>

\* The recording ends: vb_runtime_audio_finish_capture.
CaptureEnds ==
  /\ capture /\ capture' = FALSE /\ reserved' = FALSE
  /\ UNCHANGED <<shared, player, thread, cues>>

-----------------------------------------------------------------------------
(* vb_runtime_audio_preload_codex_cues (GUI thread)                        *)

Preload ==
  /\ Idle("gui") /\ ~cues /\ ~Busy
  /\ Counted /\ Enters("gui", "preload")
  /\ UNCHANGED <<card, audio>>

PreloadTakes ==
  /\ call["gui"] = "preload"
  /\ \/ card = "free" /\ card' = "gui" /\ Enters("gui", "load")
     \/ card # "free" /\ Enters("gui", "idle") /\ UNCHANGED card
  /\ UNCHANGED <<calls, audio>>

\* All cues, or none.
PreloadEnds ==
  /\ call["gui"] = "load"
  /\ cues' = TRUE \/ ("damagedCue" \in Faults /\ UNCHANGED cues)
  /\ card' = "free" /\ Enters("gui", "idle")
  /\ UNCHANGED <<calls, player, thread, codec>>

-----------------------------------------------------------------------------
(* The worker: vb_audio_worker                                             *)

\* A cue is looked up again; one that is gone is read from the card.
Start(w) ==
  /\ pc[w] = "start"
  /\ LET from == IF source = "cue" /\ ~cues THEN "file" ELSE source
     IN IF from = "file" THEN Step(w, "take") /\ UNCHANGED reads
                         ELSE Step(w, "open") /\ reads' = [reads EXCEPT ![w] = from]
  /\ UNCHANGED <<shared, player, cues, codec>>

TakeCard(w) ==
  /\ pc[w] = "take" /\ card = "free" /\ card' = w
  /\ reads' = [reads EXCEPT ![w] = "file"] /\ Step(w, "open")
  /\ UNCHANGED <<call, calls, player, cues, codec>>

TakeTimesOut(w) ==
  /\ pc[w] = "take" /\ card # "free" /\ Step(w, "done")
  /\ UNCHANGED <<shared, player, reads, cues, codec>>

\* File and format are checked and the audio service is opened.
Open(w) ==
  /\ pc[w] = "open" /\ (Step(w, "play") \/ Step(w, "done"))
  /\ UNCHANGED <<shared, player, reads, cues, codec>>

Returned(w) == IF card = w THEN "free" ELSE card

\* All was played, or reading or writing failed.  A stop seen between two
\* chunks counts as the former, one seen while writing as the latter.
PlayEnds(w) ==
  /\ pc[w] = "play"
  /\ \/ Step(w, "drain") /\ card' = Returned(w) /\ reads' = [reads EXCEPT ![w] = "none"]
     \/ Step(w, "done") /\ UNCHANGED <<card, reads>>
  /\ UNCHANGED <<call, calls, player, cues, codec>>

\* The mutant does not look at stop_requested.
PlayStopsNever(w) == FALSE /\ PlayEnds(w)
PlayStops(w)      == stop /\ PlayEnds(w)

Drained(w) ==
  /\ pc[w] = "drain" /\ Step(w, "done")
  /\ UNCHANGED <<shared, player, reads, cues, codec>>

\* vb_audio_callback: the service has closed the stream.
ServiceCloses(w) ==
  /\ pc[w] \in {"play", "drain"} /\ playing
  /\ playing' = FALSE
  /\ UNCHANGED <<shared, worker, stop, source, thread, cues, codec>>

\* The end of the worker; the mutant keeps the lock of a playback that failed.
DoneKeepsCard(w) ==
  /\ pc[w] = "done" /\ Step(w, "exit")
  /\ reads' = [reads EXCEPT ![w] = "none"]
  /\ playing' = FALSE /\ stop' = FALSE
  /\ UNCHANGED <<shared, worker, source, cues, codec>>

Done(w) ==
  /\ pc[w] = "done" /\ Step(w, "exit")
  /\ card' = Returned(w) /\ reads' = [reads EXCEPT ![w] = "none"]
  /\ playing' = FALSE /\ stop' = FALSE
  /\ UNCHANGED <<call, calls, worker, source, cues, codec>>

Exit(w) ==
  /\ pc[w] = "exit" /\ Step(w, "none")
  /\ worker' = NoWorker
  /\ UNCHANGED <<shared, playing, stop, source, reads, cues, codec>>

Call(t) == (\E s \in Sources : PlayAsk(t, s)) \/ Stop(t) \/ Reserve(t)
InCall(t) == StopReturns(t) \/ \E w \in Workers : PlayStart(t, w)
InPreload == PreloadTakes \/ PreloadEnds
Runs(w) ==
  \/ Start(w) \/ TakeCard(w) \/ TakeTimesOut(w) \/ Open(w) \/ PlayStops(w)
  \/ Drained(w) \/ Done(w) \/ Exit(w)
Service(w) == PlayEnds(w) \/ ServiceCloses(w)

-----------------------------------------------------------------------------
(* Properties                                                              *)

TypeOK ==
  /\ worker \in Workers \cup {NoWorker} /\ playing \in BOOLEAN /\ stop \in BOOLEAN
  /\ source \in Sources
  /\ pc \in [Workers -> Steps] /\ reads \in [Workers -> Sources \cup {"none"}]
  /\ cues \in BOOLEAN /\ reserved \in BOOLEAN /\ capture \in BOOLEAN
  /\ card \in Holders /\ calls \in 0..MaxCalls

Running(w) == pc[w] # "none"

\* Nobody copies from cues that have been freed.
CueAlive == \A w \in Workers : reads[w] = "cue" => cues

\* The codec records or plays, never both.
CaptureAlone == capture => \A w \in Workers : ~Running(w)

\* A worker that ends has returned the lock of the card.
CardReturned == \A w \in Workers : card = w => pc[w] \in {"open", "play", "done"}
=============================================================================
