----------------------------- MODULE PetLoader -----------------------------
(***************************************************************************)
(* How the Codex pet gets its animations (vb_runtime_codex_pet.c).  Two    *)
(* banks hold the frames of one state each; the GUI thread shows one bank  *)
(* and has a loader thread inflate the next state into the other one.      *)
(* Requests and completions are plain variables with sequence numbers and  *)
(* a semaphore wakes the loader.                                           *)
(*                                                                         *)
(* The GUI thread has the higher priority: what it does without waiting is *)
(* one step, which may come between any two accesses of the loader.  The   *)
(* lock of the card is shared with AudioPlayer, see CardUsers.             *)
(***************************************************************************)
EXTENDS Naturals

CONSTANTS
  States,   \* animation states
  Home,     \* the state loaded at the start
  Resident, \* the states whose compressed frames are in memory
  NoState,  \* -1
  MaxTokens, \* RT_SEM_VALUE_MAX
  MaxCalls,  \* bound: requests of one behaviour, shared with AudioPlayer
  LoadFails  \* loading a state may fail

LoaderAssumption ==
  /\ Home \in Resident /\ Resident \subseteq States /\ NoState \notin States
  /\ MaxTokens \in Nat \ {0} /\ MaxCalls \in Nat /\ LoadFails \in BOOLEAN

VARIABLES
  card,    \* who holds the lock of the card
  call,    \* what a calling thread is inside of
  calls,   \* calls made so far
  active,  \* g_pet.active: the pet is on the screen
  alive,   \* preloaded_data: the banks are allocated
  bytes,   \* the state whose frames a bank holds, NoState for a mixture
  bank,    \* active_cache_bank
  shown,   \* custom_state
  wanted,  \* requested_asset_state
  cache,   \* cache_state of each bank
  request, \* loader_request_*
  done,    \* loader_completed_*
  applied, \* loader_applied_sequence
  handle,  \* loader_thread is set
  halt,    \* loader_stop
  tokens,  \* the semaphore
  step,      \* what the loader is doing
  mine     \* its copy of the request

shared == <<card, call, calls>>
screen == <<bank, shown, wanted, cache, applied>>
memory == <<active, alive, bytes>>
loader == <<done, step, mine>>
wake   == <<request, handle, halt, tokens>>
pet    == <<memory, screen, loader, wake>>

Banks    == {0, 1}
Known    == States \cup {NoState}
Sequence == 0..MaxCalls
Steps    == {"none", "wait", "drain", "sequence", "state", "bank", "take", "load", "report", "publish"}
PetCalls == {"idle", "petTake", "petLoad"}
Requests == [seq : Sequence, state : Known, bank : Banks]
Results  == [seq : Sequence, state : Known, bank : Banks, ok : BOOLEAN]
NoRequest == [seq |-> 0, state |-> NoState, bank |-> 0]
NoResult  == [seq |-> 0, state |-> NoState, bank |-> 0, ok |-> FALSE]

Init ==
  /\ active = FALSE /\ alive = FALSE /\ bytes = [b \in Banks |-> NoState]
  /\ bank = 0 /\ shown = NoState /\ wanted = NoState
  /\ cache = [b \in Banks |-> NoState] /\ applied = 0
  /\ request = NoRequest /\ done = NoResult
  /\ handle = FALSE /\ halt = FALSE /\ tokens = 0
  /\ step = "none" /\ mine = NoRequest

GuiIdle   == call["gui"] = "idle"
Enters(c) == call' = [call EXCEPT !["gui"] = c]
Counted   == calls < MaxCalls /\ calls' = calls + 1

\* rt_sem_release: a semaphore that is full stays as it is.
Released(n) == IF n < MaxTokens THEN n + 1 ELSE n

-----------------------------------------------------------------------------
(* The GUI thread: vb_codex_pet_start, vb_pet_preload_assets               *)

\* A pet that is there is stopped first, see Stop.
Begin ==
  /\ GuiIdle /\ ~active /\ Counted
  /\ active' = TRUE /\ Enters("petTake")
  /\ UNCHANGED <<card, alive, bytes, screen, loader, wake>>

\* The lock may be held for longer than the start waits; the pet then does
\* without its own animations.
BeginTakes ==
  /\ call["gui"] = "petTake"
  /\ \/ card = "free" /\ card' = "gui" /\ Enters("petLoad")
     \/ card # "free" /\ Enters("idle") /\ UNCHANGED card
  /\ UNCHANGED <<calls, pet>>

\* The banks are allocated, Home is loaded into bank 0, the loader started and
\* the first state activated.
BeginLoads ==
  /\ call["gui"] = "petLoad"
  /\ card' = "free" /\ Enters("idle")
  /\ \/ /\ alive' = TRUE /\ bytes' = [bytes EXCEPT ![0] = Home]
        /\ cache' = [cache EXCEPT ![0] = Home] /\ shown' = Home /\ wanted' = Home
        /\ handle' = TRUE /\ step' = "wait"
        /\ UNCHANGED <<bank, applied, request, halt, tokens>>
     \/ LoadFails /\ UNCHANGED <<alive, bytes, screen, step, wake>>
  /\ UNCHANGED <<calls, active, done, mine>>

-----------------------------------------------------------------------------
(* The GUI thread: vb_codex_pet_tick                                       *)

Fields == [bank |-> bank, shown |-> shown, wanted |-> wanted, cache |-> cache,
           applied |-> applied, request |-> request, tokens |-> tokens]

Show(f, b, s) == [f EXCEPT !.bank = b, !.shown = s]

\* vb_pet_apply_preload_completion: a result counts once, and only that of the
\* last request.
Fresh(f)      == done.seq # 0 /\ done.seq # f.applied
Applied(f) ==
  IF ~Fresh(f) THEN f
  ELSE LET g == [f EXCEPT !.applied = done.seq]
           h == [g EXCEPT !.cache[done.bank] = done.state]
       IN IF done.seq # f.request.seq \/ ~done.ok THEN g
          ELSE IF f.wanted = done.state THEN Show(h, done.bank, done.state) ELSE h

\* vb_pet_activate_preloaded_state: show the bank that has the state, or ask for
\* it unless it is being loaded.
Cached(f, s)  == {b \in Banks : f.cache[b] = s}
Pending(f, s) == f.request.state = s /\ done.seq # f.request.seq

\* The mutant loads into the bank on the screen.
RequestedShown(f, s) ==
  [f EXCEPT !.cache[f.bank] = NoState, !.tokens = Released(@),
            !.request = [seq |-> @.seq + 1, state |-> s, bank |-> f.bank]]
Requested(f, s) ==
  [f EXCEPT !.cache[1 - f.bank] = NoState, !.tokens = Released(@),
            !.request = [seq |-> @.seq + 1, state |-> s, bank |-> 1 - f.bank]]

Activated(f, s) ==
  LET g == [f EXCEPT !.wanted = s]
  IN IF Cached(f, s) # {} THEN Show(g, CHOOSE b \in Cached(f, s) : TRUE, s)
     ELSE IF ~handle \/ Pending(f, s) THEN g
     ELSE Requested(g, s)

\* One tick: the completion, then vb_pet_render with the desired state, which
\* asks for a state unless it is the one on the screen.
Becomes(f) ==
  /\ bank' = f.bank /\ shown' = f.shown /\ wanted' = f.wanted /\ cache' = f.cache
  /\ applied' = f.applied /\ request' = f.request /\ tokens' = f.tokens
  /\ calls' = calls + (f.request.seq - request.seq)

Tick(s) ==
  /\ GuiIdle /\ active /\ alive
  /\ LET f == Applied(Fields)
         g == IF s = f.shown THEN f ELSE Activated(f, s)
     IN g.request.seq - request.seq + calls <= MaxCalls /\ Becomes(g)
  /\ UNCHANGED <<card, call, memory, loader, handle, halt>>

\* vb_codex_pet_stop: the loader is told to stop, and the caller to try again;
\* when it has gone everything is freed and cleared.
Stop ==
  /\ active
  /\ IF handle
     THEN halt' = TRUE /\ tokens' = Released(tokens) /\ UNCHANGED <<memory, screen, loader, request, handle>>
     ELSE /\ active' = FALSE /\ alive' = FALSE /\ bytes' = [b \in Banks |-> NoState]
          /\ bank' = 0 /\ shown' = NoState /\ wanted' = NoState
          /\ cache' = [b \in Banks |-> NoState] /\ applied' = 0
          /\ request' = NoRequest /\ done' = NoResult /\ mine' = NoRequest
          /\ halt' = FALSE /\ tokens' = 0 /\ UNCHANGED <<handle, step>>

-----------------------------------------------------------------------------
(* The loader: vb_pet_preload_worker                                       *)

Goes(from, to) == step = from /\ step' = to

Take ==
  /\ tokens > 0 /\ tokens' = tokens - 1
  /\ step = "wait" /\ step' = IF halt THEN "none" ELSE "drain"
  /\ handle' = (handle /\ ~halt)
  /\ UNCHANGED <<shared, memory, screen, request, halt, done, mine>>

\* Tokens of requests that are superseded are taken as well.
Drain ==
  /\ step = "drain" /\ step' = IF halt THEN "none" ELSE "sequence"
  /\ tokens' = 0 /\ handle' = (handle /\ ~halt)
  /\ UNCHANGED <<shared, memory, screen, request, halt, done, mine>>

ReadSequence ==
  /\ Goes("sequence", "state") /\ mine' = [mine EXCEPT !.seq = request.seq]
  /\ UNCHANGED <<shared, memory, screen, done, wake>>

ReadState ==
  /\ Goes("state", "bank") /\ mine' = [mine EXCEPT !.state = request.state]
  /\ UNCHANGED <<shared, memory, screen, done, wake>>

\* Inflating a state over itself writes the bytes that are there.
Begun(s, b) == [bytes EXCEPT ![b] = IF @ = s THEN s ELSE NoState]

ReadBank ==
  /\ mine' = [mine EXCEPT !.bank = request.bank]
  /\ step = "bank"
  /\ IF mine.state \in Resident
     THEN step' = "load" /\ bytes' = Begun(mine.state, request.bank)
     ELSE step' = "take" /\ UNCHANGED bytes
  /\ UNCHANGED <<shared, active, alive, screen, done, wake>>

TakeCard ==
  /\ Goes("take", "load") /\ card = "free" /\ card' = "pet"
  /\ bytes' = Begun(mine.state, mine.bank)
  /\ UNCHANGED <<call, calls, active, alive, screen, done, mine, wake>>

\* loader_completed_state, _bank and _result, before loader_completed_sequence.
Report(ok) ==
  /\ step' = "publish"
  /\ done' = [done EXCEPT !.state = mine.state, !.bank = mine.bank, !.ok = ok]

TakeTimesOut ==
  /\ step = "take" /\ card # "free" /\ Report(FALSE)
  /\ UNCHANGED <<shared, memory, screen, mine, wake>>

Load ==
  /\ step = "load"
  /\ \/ Report(TRUE) /\ bytes' = [bytes EXCEPT ![mine.bank] = mine.state]
     \/ LoadFails /\ Report(FALSE) /\ UNCHANGED bytes
  /\ card' = IF card = "pet" THEN "free" ELSE card
  /\ UNCHANGED <<call, calls, active, alive, screen, mine, wake>>

\* The mutant drains the semaphore here, after the load.
PublishDrains ==
  /\ Goes("publish", "wait") /\ done' = [done EXCEPT !.seq = mine.seq] /\ tokens' = 0
  /\ UNCHANGED <<shared, memory, screen, mine, request, handle, halt>>

Publish ==
  /\ Goes("publish", "wait") /\ done' = [done EXCEPT !.seq = mine.seq]
  /\ UNCHANGED <<shared, memory, screen, mine, wake>>

InBegin == BeginTakes \/ BeginLoads
Runs ==
  \/ Take \/ Drain \/ ReadSequence \/ ReadState \/ ReadBank
  \/ TakeCard \/ TakeTimesOut \/ Load \/ Publish

-----------------------------------------------------------------------------
(* Properties                                                              *)

TypeOK ==
  /\ active \in BOOLEAN /\ alive \in BOOLEAN /\ bytes \in [Banks -> Known]
  /\ bank \in Banks /\ shown \in Known /\ wanted \in Known /\ cache \in [Banks -> Known]
  /\ request \in Requests /\ done \in Results /\ mine \in Requests /\ applied \in Sequence
  /\ handle \in BOOLEAN /\ halt \in BOOLEAN /\ tokens \in 0..MaxTokens /\ step \in Steps

\* The bank on the screen, and any the GUI thread would switch to, holds the
\* frames of the state it stands for.
BanksTrue ==
  alive => /\ \A b \in Banks : cache[b] # NoState => bytes[b] = cache[b]
           /\ shown # NoState => bytes[bank] = shown

\* The banks outlive the loader.
BanksOutliveLoader == step # "none" => alive

\* A state that stays wanted is shown, unless its load failed, the last result
\* having been applied and its bank left empty, or the pet is being stopped.
Failed == applied = request.seq /\ cache[request.bank] # request.state
WantedShown == \A s \in States :
  (alive /\ wanted = s) ~> (shown = s \/ wanted # s \/ Failed \/ halt \/ ~alive)
=============================================================================
