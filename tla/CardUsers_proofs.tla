-------------------------- MODULE CardUsers_proofs ---------------------------
(***************************************************************************)
(* Proofs about CardUsers, AudioPlayer and PetLoader composed, for any     *)
(* number of worker threads and animation states.                          *)
(***************************************************************************)
EXTENDS CardUsers, TLAPS

USE HelpersAssumption DEF Audio!AudioAssumption, Pet!LoaderAssumption

-----------------------------------------------------------------------------
(* The screen of the pet, as one tick of the GUI thread works on it        *)

ScreenFields ==
  [bank : Pet!Banks, shown : Pet!Known, wanted : Pet!Known, cache : [Pet!Banks -> Pet!Known],
   applied : Nat, request : [seq : Nat, state : Pet!Known, bank : Pet!Banks], tokens : 0..MaxTokens]

\* Writing state s into bank b does no harm: nobody takes the bank for another's.
Fits(f, s, b) ==
  /\ f.cache[b] \in {NoState, s}
  /\ f.bank = b => f.shown \in {NoState, s}

\* What is shown, or would be, is in the banks.
ScreenTrue(f) ==
  /\ \A b \in Pet!Banks : f.cache[b] # NoState => bytes[b] = f.cache[b]
  /\ f.shown # NoState => bytes[f.bank] = f.shown

\* The bank of the last request may be written; until its result has been
\* applied it is neither shown nor taken for any state's.
BankFree(f) ==
  f.request.seq # 0 =>
    /\ Fits(f, f.request.state, f.request.bank)
    /\ f.applied # f.request.seq => f.cache[f.request.bank] = NoState /\ f.bank # f.request.bank

\* Results follow requests: none is applied before it is published, or
\* published before it is asked for.
InSequence(f) ==
  f.applied <= done.seq /\ done.seq <= mine.seq /\ mine.seq <= f.request.seq

\* The loader reads number, state and bank one after the other; if the number is
\* that of the last request, so are the others.
Copied(f) ==
  mine.seq = f.request.seq =>
    /\ step \in {"bank", "take", "load", "publish"} => mine.state = f.request.state
    /\ step \in {"take", "load", "publish"} => mine.bank = f.request.bank

\* The bank the loader works on may be written.
LoadsAside(f) == step \in {"take", "load"} => Fits(f, mine.state, mine.bank)

\* A result for the last request tells the truth about its bank, as does the one
\* about to be published.
ResultTrue(f) ==
  /\ step = "publish" => done.state = mine.state /\ done.bank = mine.bank
                         /\ (done.ok => bytes[mine.bank] = mine.state)
  /\ done.seq = f.request.seq /\ done.seq # 0 =>
       /\ done.state = f.request.state /\ done.bank = f.request.bank
       /\ done.ok => bytes[done.bank] = done.state

ScreenInv(f) ==
  ScreenTrue(f) /\ BankFree(f) /\ InSequence(f) /\ Copied(f) /\ LoadsAside(f) /\ ResultTrue(f)

\* Types of what a tick does not change.
LoaderTypes ==
  /\ bytes \in [Pet!Banks -> Pet!Known]
  /\ done \in [seq : Nat, state : Pet!Known, bank : Pet!Banks, ok : BOOLEAN]
  /\ mine \in [seq : Nat, state : Pet!Known, bank : Pet!Banks]

\* A record of the screen is its fields.
LEMMA Fields ==
  ASSUME NEW f \in ScreenFields
  PROVE  f = [bank |-> f.bank, shown |-> f.shown, wanted |-> f.wanted, cache |-> f.cache,
              applied |-> f.applied, request |-> f.request, tokens |-> f.tokens]
BY DEF ScreenFields

\* Showing a bank changes two fields.
LEMMA ShowFields ==
  ASSUME NEW f \in ScreenFields, NEW b \in Pet!Banks, NEW s \in Pet!Known
  PROVE  Pet!Show(f, b, s) =
           [bank |-> b, shown |-> s, wanted |-> f.wanted, cache |-> f.cache,
            applied |-> f.applied, request |-> f.request, tokens |-> f.tokens]
<1> DEFINE g == [f EXCEPT !.bank = b]
<1>1. g = [bank |-> b, shown |-> f.shown, wanted |-> f.wanted, cache |-> f.cache,
           applied |-> f.applied, request |-> f.request, tokens |-> f.tokens]
  BY Fields DEF ScreenFields
<1>2. Pet!Show(f, b, s) = [g EXCEPT !.shown = s]
  BY DEF Pet!Show
<1> HIDE DEF g
<1> QED
  BY <1>1, <1>2

\* vb_pet_apply_preload_completion
LEMMA AppliedScreen ==
  ASSUME LoaderTypes, NEW f \in ScreenFields, ScreenInv(f)
  PROVE  Pet!Applied(f) \in ScreenFields /\ ScreenInv(Pet!Applied(f))
         /\ Pet!Applied(f).request = f.request /\ Pet!Applied(f).tokens = f.tokens
<1> DEFINE g == [f EXCEPT !.applied = done.seq]
           c == [f.cache EXCEPT ![done.bank] = done.state]
           h == [g EXCEPT !.cache[done.bank] = done.state]
<1> USE DEF Pet!Banks, Pet!Known, LoaderTypes
<1>1. g \in ScreenFields /\ g = [bank |-> f.bank, shown |-> f.shown, wanted |-> f.wanted,
        cache |-> f.cache, applied |-> done.seq, request |-> f.request, tokens |-> f.tokens]
  BY DEF ScreenFields
<1>2. h = [bank |-> f.bank, shown |-> f.shown, wanted |-> f.wanted,
           cache |-> c, applied |-> done.seq, request |-> f.request, tokens |-> f.tokens]
  <2>1. h = [g EXCEPT !.cache = [g.cache EXCEPT ![done.bank] = done.state]]
    OBVIOUS
  <2>2. [g.cache EXCEPT ![done.bank] = done.state] = c
    BY <1>1
  <2> HIDE DEF g, c
  <2> QED
    BY <1>1, <2>1, <2>2
<1>3. h \in ScreenFields /\
      Pet!Show(h, done.bank, done.state) =
        [bank |-> done.bank, shown |-> done.state, wanted |-> f.wanted,
         cache |-> c, applied |-> done.seq, request |-> f.request, tokens |-> f.tokens]
  <2>1. c \in [Pet!Banks -> Pet!Known]
    BY DEF ScreenFields
  <2> HIDE DEF h, c
  <2>2. h \in ScreenFields
    BY <1>2, <2>1 DEF ScreenFields
  <2> QED
    BY <1>2, <2>2, ShowFields
<1>4. c \in [Pet!Banks -> Pet!Known] /\ \A b \in Pet!Banks : c[b] = IF b = done.bank THEN done.state ELSE f.cache[b]
  BY DEF ScreenFields
<1> HIDE DEF g, h, c
<1>5. CASE ~Pet!Fresh(f)
  BY <1>5 DEF Pet!Applied
<1>6. CASE Pet!Fresh(f) /\ (done.seq # f.request.seq \/ ~done.ok)
  <2>1. Pet!Applied(f) = g
    BY <1>6 DEF Pet!Applied, g, h
  <2>2. ScreenInv(g)
    BY <1>1, <1>6 DEF ScreenInv, ScreenTrue, BankFree, InSequence, Copied, LoadsAside, ResultTrue, Fits,
       Pet!Fresh, ScreenFields
  <2> QED
    BY <1>1, <2>1, <2>2
<1>7. CASE Pet!Fresh(f) /\ done.seq = f.request.seq /\ done.ok
  <2>1. Pet!Applied(f) = IF f.wanted = done.state THEN Pet!Show(h, done.bank, done.state) ELSE h
    BY <1>7 DEF Pet!Applied, g, h
  <2>2. /\ f.request.seq # 0 /\ f.applied # f.request.seq /\ mine.seq = f.request.seq
        /\ done.state = f.request.state /\ done.bank = f.request.bank
        /\ bytes[done.bank] = done.state /\ f.bank # done.bank
    BY <1>7 DEF Pet!Fresh, ScreenInv, BankFree, InSequence, ResultTrue, ScreenFields
  <2>3. ASSUME NEW x \in ScreenFields, x.cache = c, x.applied = done.seq, x.request = f.request,
               \/ x.bank = f.bank /\ x.shown = f.shown
               \/ x.bank = done.bank /\ x.shown = done.state
        PROVE  ScreenInv(x)
    <3>1. ScreenTrue(x)
      BY <1>4, <2>2, <2>3 DEF ScreenInv, ScreenTrue, ScreenFields
    <3>0. x.cache[done.bank] = done.state /\ (x.bank = done.bank => x.shown = done.state)
      BY <1>4, <2>2, <2>3
    <3>2. BankFree(x)
      <4>1. x.request = f.request /\ x.applied = f.request.seq /\ f.request.bank = done.bank
            /\ f.request.state = done.state
        BY <1>7, <2>2, <2>3
      <4> QED
        BY <3>0, <4>1 DEF BankFree, Fits
    <3>4. LoadsAside(x)
      BY <2>2, <3>0 DEF ScreenInv, LoadsAside, Copied, Fits
    <3>3. InSequence(x) /\ Copied(x) /\ ResultTrue(x)
      BY <2>2, <2>3 DEF ScreenInv, InSequence, Copied, ResultTrue, ScreenFields
    <3> QED
      BY <3>1, <3>2, <3>3, <3>4 DEF ScreenInv
  <2>4. CASE f.wanted = done.state
    BY <1>3, <1>4, <2>1, <2>3, <2>4 DEF ScreenFields
  <2>5. CASE f.wanted # done.state
    BY <1>2, <1>4, <2>1, <2>3, <2>5 DEF ScreenFields
  <2> QED
    BY <2>4, <2>5
<1> QED
  BY <1>5, <1>6, <1>7

\* vb_pet_activate_preloaded_state
LEMMA ActivatedScreen ==
  ASSUME LoaderTypes, NEW f \in ScreenFields, ScreenInv(f), NEW s \in States
  PROVE  LET g == Pet!Activated(f, s)
         IN /\ g \in ScreenFields /\ ScreenInv(g)
            /\ \/ g.request = f.request /\ g.tokens = f.tokens
               \/ g.request.seq = f.request.seq + 1
<1> DEFINE g == [f EXCEPT !.wanted = s]
           r == [seq |-> f.request.seq + 1, state |-> s, bank |-> 1 - f.bank]
           c == [f.cache EXCEPT ![1 - f.bank] = NoState]
           q == [bank |-> f.bank, shown |-> f.shown, wanted |-> s, cache |-> c,
                 applied |-> f.applied, request |-> r, tokens |-> Pet!Released(f.tokens)]
<1> USE DEF Pet!Banks, Pet!Known, LoaderTypes
<1>0. s # NoState /\ 1 - f.bank \in Pet!Banks /\ 1 - f.bank # f.bank
  BY DEF ScreenFields
<1>1. g \in ScreenFields /\ g = [bank |-> f.bank, shown |-> f.shown, wanted |-> s,
        cache |-> f.cache, applied |-> f.applied, request |-> f.request, tokens |-> f.tokens]
  BY DEF ScreenFields
<1>2. ScreenInv(g)
  BY <1>1 DEF ScreenInv, ScreenTrue, BankFree, InSequence, Copied, LoadsAside, ResultTrue, Fits, ScreenFields
<1>3. ASSUME NEW b \in Pet!Cached(f, s)
      PROVE  Pet!Show(g, b, s) \in ScreenFields /\ ScreenInv(Pet!Show(g, b, s))
             /\ Pet!Show(g, b, s).request = f.request /\ Pet!Show(g, b, s).tokens = f.tokens
  <2> DEFINE h == [bank |-> b, shown |-> s, wanted |-> s, cache |-> f.cache,
                   applied |-> f.applied, request |-> f.request, tokens |-> f.tokens]
  <2>1. b \in Pet!Banks /\ f.cache[b] = s
    BY <1>3 DEF Pet!Cached
  <2>2. Pet!Show(g, b, s) = h
    <3>1. s \in Pet!Known
      OBVIOUS
    <3> HIDE DEF g
    <3>2. Pet!Show(g, b, s) =
           [bank |-> b, shown |-> s, wanted |-> g.wanted, cache |-> g.cache,
            applied |-> g.applied, request |-> g.request, tokens |-> g.tokens]
      BY <1>1, <2>1, <3>1, ShowFields
    <3> QED
      BY <1>1, <3>2
  <2>6. h \in ScreenFields
    BY <2>1 DEF ScreenFields
  <2>3. ScreenTrue(h)
    BY <2>1 DEF ScreenInv, ScreenTrue
  <2>4. BankFree(h) /\ LoadsAside(h)
    BY <1>0, <2>1 DEF ScreenInv, BankFree, LoadsAside, Fits
  <2>5. InSequence(h) /\ Copied(h) /\ ResultTrue(h)
    BY DEF ScreenInv, InSequence, Copied, ResultTrue
  <2> QED
    BY <2>2, <2>3, <2>4, <2>5, <2>6 DEF ScreenInv
<1>4. Pet!Requested(g, s) = q
  <2>1. Pet!Requested(g, s) =
          [g EXCEPT !.cache = [g.cache EXCEPT ![1 - g.bank] = NoState],
                    !.tokens = Pet!Released(g.tokens),
                    !.request = [seq |-> g.request.seq + 1, state |-> s, bank |-> 1 - g.bank]]
    BY <1>1 DEF Pet!Requested, ScreenFields
  <2>2. /\ g.cache = f.cache /\ g.bank = f.bank /\ g.tokens = f.tokens /\ g.request = f.request
    BY <1>1
  <2> DEFINE t == Pet!Released(f.tokens)
             a1 == [g EXCEPT !.cache = c]
             a2 == [a1 EXCEPT !.tokens = t]
             a3 == [a2 EXCEPT !.request = r]
  <2>3. Pet!Requested(g, s) = a3
    BY <2>1, <2>2
  <2> HIDE DEF g, c, r, t
  <2>4. a1 = [bank |-> f.bank, shown |-> f.shown, wanted |-> s, cache |-> c,
              applied |-> f.applied, request |-> f.request, tokens |-> f.tokens]
    BY <1>1
  <2> HIDE DEF a1
  <2>5. a2 = [bank |-> f.bank, shown |-> f.shown, wanted |-> s, cache |-> c,
              applied |-> f.applied, request |-> f.request, tokens |-> t]
    BY <2>4
  <2> HIDE DEF a2
  <2>6. a3 = [bank |-> f.bank, shown |-> f.shown, wanted |-> s, cache |-> c,
              applied |-> f.applied, request |-> r, tokens |-> t]
    BY <2>5
  <2> QED
    BY <2>3, <2>6 DEF t
<1>5. q \in ScreenFields /\ q.request.seq = f.request.seq + 1
  <2>1. Pet!Released(f.tokens) \in 0..MaxTokens
    BY DEF Pet!Released, ScreenFields
  <2>2. r \in [seq : Nat, state : Pet!Known, bank : Pet!Banks] /\ c \in [Pet!Banks -> Pet!Known]
    BY <1>0 DEF ScreenFields
  <2> QED
    BY <2>1, <2>2 DEF ScreenFields
<1>6. ScreenInv(q)
  <2>1. \A b \in Pet!Banks : c[b] = IF b = 1 - f.bank THEN NoState ELSE f.cache[b]
    BY DEF ScreenFields
  <2>2. InSequence(f) /\ f.request.seq \in Nat
    BY DEF ScreenInv, ScreenFields
  <2>3. ScreenTrue(q)
    BY <2>1 DEF ScreenInv, ScreenTrue, ScreenFields
  <2>4. BankFree(q)
    BY <1>0, <2>1 DEF BankFree, Fits
  <2>5. LoadsAside(q)
    BY <2>1 DEF ScreenInv, LoadsAside, Fits
  <2>6. InSequence(q) /\ Copied(q)
    BY <2>2 DEF InSequence, Copied
  <2>7. ResultTrue(q)
    <3>1. step = "publish" => done.state = mine.state /\ done.bank = mine.bank
                              /\ (done.ok => bytes[mine.bank] = mine.state)
      BY DEF ScreenInv, ResultTrue
    <3>2. done.seq # q.request.seq
      BY <2>2 DEF InSequence
    <3> QED
      BY <3>1, <3>2 DEF ResultTrue
  <2> HIDE DEF q
  <2> QED
    BY <2>3, <2>4, <2>5, <2>6, <2>7 DEF ScreenInv
<1> HIDE DEF g, q
<1>7. CASE Pet!Cached(f, s) # {}
  <2>1. Pet!Activated(f, s) = Pet!Show(g, CHOOSE b \in Pet!Cached(f, s) : TRUE, s)
    BY <1>7 DEF Pet!Activated, g
  <2>2. (CHOOSE b \in Pet!Cached(f, s) : TRUE) \in Pet!Cached(f, s)
    BY <1>7
  <2> QED
    BY <1>3, <2>1, <2>2
<1>8. CASE Pet!Cached(f, s) = {} /\ (~handle \/ Pet!Pending(f, s))
  <2>1. Pet!Activated(f, s) = g
    BY <1>8 DEF Pet!Activated, g
  <2> QED
    BY <1>1, <1>2, <2>1
<1>9. CASE Pet!Cached(f, s) = {} /\ handle /\ ~Pet!Pending(f, s)
  <2>1. Pet!Activated(f, s) = Pet!Requested(g, s)
    BY <1>9 DEF Pet!Activated, g
  <2> QED
    BY <1>4, <1>5, <1>6, <1>9, <2>1
<1> QED
  BY <1>7, <1>8, <1>9

-----------------------------------------------------------------------------
(* The pet                                                                 *)

PetTypes ==
  /\ active \in BOOLEAN /\ alive \in BOOLEAN /\ handle \in BOOLEAN /\ halt \in BOOLEAN
  /\ step \in Pet!Steps /\ LoaderTypes /\ Pet!Fields \in ScreenFields
  /\ calls \in 0..MaxCalls /\ request.seq <= calls

\* The pet is in memory while its loader runs, and is begun in one call.
PetAlive ==
  /\ handle <=> step # "none"
  /\ alive => active
  /\ call["gui"] \in {"petTake", "petLoad"} => active /\ ~alive
  /\ ~alive => /\ step = "none" /\ bank = 0 /\ shown = NoState /\ cache = [b \in Pet!Banks |-> NoState]
               /\ applied = 0 /\ request = Pet!NoRequest /\ done = Pet!NoResult /\ mine = Pet!NoRequest
               /\ tokens = 0 /\ ~halt

\* The loader is woken for a request, or to stop.
Woken ==
  /\ tokens > 0 \/ step = "drain" => request.seq # 0 \/ halt
  /\ step \notin {"none", "wait", "drain"} => request.seq # 0

PetInv == PetTypes /\ PetAlive /\ Woken /\ ScreenInv(Pet!Fields)

\* A step of the player leaves the pet alone.
LEMMA PetFrame ==
  ASSUME PetInv, UNCHANGED pet, calls' \in 0..MaxCalls, calls <= calls',
         call'["gui"] \in {"petTake", "petLoad"} => call'["gui"] = call["gui"]
  PROVE  PetInv'
<1>1. PetTypes'
  BY DEF PetInv, PetTypes, pet, LoaderTypes, Pet!Fields, ScreenFields
<1>2. PetAlive' /\ Woken'
  BY DEF PetInv, PetAlive, Woken, pet
<1>3. ScreenInv(Pet!Fields)'
  BY DEF PetInv, pet, Pet!Fields, ScreenInv, ScreenTrue, BankFree, InSequence, Copied, LoadsAside, ResultTrue, Fits
<1> QED
  BY <1>1, <1>2, <1>3 DEF PetInv

\* vb_codex_pet_tick
LEMMA TickPet ==
  ASSUME PetInv, NEW s \in States, Pet!Tick(s)
  PROVE  PetInv'
<1> DEFINE f == Pet!Applied(Pet!Fields)
           g == IF s = f.shown THEN f ELSE Pet!Activated(f, s)
<1>1. /\ LoaderTypes /\ Pet!Fields \in ScreenFields /\ ScreenInv(Pet!Fields)
      /\ Pet!Fields.request = request /\ Pet!Fields.tokens = tokens
      /\ request.seq \in Nat /\ calls \in 0..MaxCalls /\ request.seq <= calls
  BY DEF PetInv, PetTypes, Pet!Fields, ScreenFields
<1>2. f \in ScreenFields /\ ScreenInv(f) /\ f.request = request /\ f.tokens = tokens
  BY <1>1, AppliedScreen
<1>3. /\ g \in ScreenFields /\ ScreenInv(g)
      /\ \/ g.request = request /\ g.tokens = tokens
         \/ g.request.seq = request.seq + 1
  BY <1>1, <1>2, ActivatedScreen
<1>4. /\ g.request.seq - request.seq + calls <= MaxCalls /\ Pet!Becomes(g)
      /\ UNCHANGED <<call, bytes, active, alive, done, step, mine, handle, halt>> /\ alive
  BY DEF Pet!Tick, Pet!memory, Pet!loader
<1> HIDE DEF f, g
<1>5. Pet!Fields' = g
  BY <1>3, <1>4, Fields DEF Pet!Becomes, Pet!Fields
<1>6. /\ bank' = g.bank /\ shown' = g.shown /\ cache' = g.cache /\ applied' = g.applied /\ request' = g.request
      /\ tokens' = g.tokens /\ calls' = calls + (g.request.seq - request.seq)
  BY <1>4 DEF Pet!Becomes
<1>7. PetTypes'
  <2>1. calls' \in 0..MaxCalls /\ request'.seq <= calls'
    BY <1>1, <1>3, <1>4, <1>6
  <2> QED
    BY <1>3, <1>4, <1>5, <2>1 DEF PetInv, PetTypes, LoaderTypes
<1>8. PetAlive' /\ Woken'
  BY <1>1, <1>3, <1>4, <1>6 DEF PetInv, PetAlive, Woken
<1>9. ScreenInv(Pet!Fields)'
  BY <1>3, <1>4, <1>5 DEF ScreenInv, ScreenTrue, BankFree, InSequence, Copied, LoadsAside, ResultTrue, Fits
<1> QED
  BY <1>7, <1>8, <1>9 DEF PetInv

\* vb_codex_pet_stop
LEMMA StopPet ==
  ASSUME PetInv, Pet!Stop, calls' \in 0..MaxCalls, calls <= calls',
         call["gui"] = "idle", call'["gui"] \in Audio!AudioCalls
  PROVE  PetInv'
<1> USE DEF PetInv, PetTypes, PetAlive, Woken, LoaderTypes, ScreenFields, Pet!Fields, Pet!Banks, Pet!Known
<1>0. call'["gui"] \notin {"petTake", "petLoad"}
  BY DEF Audio!AudioCalls, Audio!Waiting
<1>1. CASE handle
  <2>1. /\ halt' = TRUE /\ tokens' = Pet!Released(tokens) /\ tokens' \in 0..MaxTokens
        /\ UNCHANGED <<active, alive, bytes, bank, shown, wanted, cache, applied, done, step, mine, request, handle>>
    BY <1>1 DEF Pet!Stop, Pet!Released, Pet!memory, Pet!screen, Pet!loader
  <2>2. PetTypes'
    BY <2>1
  <2>3. PetAlive' /\ Woken'
    BY <1>0, <1>1, <2>1
  <2>4. ScreenInv(Pet!Fields)'
    BY <2>1 DEF ScreenInv, ScreenTrue, BankFree, InSequence, Copied, LoadsAside, ResultTrue, Fits
  <2> QED
    BY <2>2, <2>3, <2>4
<1>2. CASE ~handle
  <2>1. /\ active' = FALSE /\ alive' = FALSE /\ bytes' = [b \in Pet!Banks |-> NoState]
        /\ bank' = 0 /\ shown' = NoState /\ wanted' = NoState
        /\ cache' = [b \in Pet!Banks |-> NoState] /\ applied' = 0
        /\ request' = Pet!NoRequest /\ done' = Pet!NoResult /\ mine' = Pet!NoRequest
        /\ halt' = FALSE /\ tokens' = 0 /\ handle' = handle /\ step' = step /\ step = "none"
    BY <1>2 DEF Pet!Stop
  <2>2. PetTypes'
    <3> DEFINE empty == [b \in Pet!Banks |-> NoState]
    <3>0. empty \in [Pet!Banks -> Pet!Known]
      OBVIOUS
    <3>1. LoaderTypes'
      BY <2>1, <3>0 DEF Pet!NoRequest, Pet!NoResult
    <3>2. (Pet!Fields \in ScreenFields)'
      <4>1. /\ bank' \in Pet!Banks /\ shown' \in Pet!Known /\ wanted' \in Pet!Known /\ applied' \in Nat
            /\ cache' \in [Pet!Banks -> Pet!Known] /\ tokens' \in 0..MaxTokens
        BY <2>1, <3>0
      <4>2. request' \in [seq : Nat, state : Pet!Known, bank : Pet!Banks]
        BY <2>1 DEF Pet!NoRequest
      <4> QED
        BY <4>1, <4>2
    <3>3. request'.seq <= calls'
      BY <2>1 DEF Pet!NoRequest
    <3>4. /\ active' \in BOOLEAN /\ alive' \in BOOLEAN /\ handle' \in BOOLEAN /\ halt' \in BOOLEAN
          /\ step' \in Pet!Steps
      BY <2>1
    <3> HIDE DEF LoaderTypes, ScreenFields, Pet!Fields
    <3> QED
      BY <3>1, <3>2, <3>3, <3>4
  <2>3. PetAlive' /\ Woken'
    BY <1>0, <1>2, <2>1
  <2>4. ScreenInv(Pet!Fields)'
    BY <2>1 DEF ScreenInv, ScreenTrue, BankFree, InSequence, Copied, LoadsAside, ResultTrue, Fits,
                Pet!NoRequest, Pet!NoResult
  <2> QED
    BY <2>2, <2>3, <2>4
<1> QED
  BY <1>1, <1>2

\* vb_codex_pet_start
LEMMA BeginPet ==
  ASSUME PetInv, Pet!Begin \/ Pet!InBegin, call \in [Audio!Callers -> Audio!AudioCalls \cup Pet!PetCalls]
  PROVE  PetInv'
<1> USE DEF PetInv, PetTypes, PetAlive, Woken, LoaderTypes, ScreenFields, Pet!Fields, Pet!Banks, Pet!Known,
            Pet!Enters, Audio!Callers
<1>1. CASE Pet!Begin
  <2>1. /\ ~active /\ active' = TRUE /\ calls' = calls + 1 /\ calls < MaxCalls
        /\ UNCHANGED <<alive, bytes, bank, shown, wanted, cache, applied, done, step, mine, request, handle, halt, tokens>>
    BY <1>1 DEF Pet!Begin, Pet!Counted, Pet!screen, Pet!loader, Pet!wake
  <2>2. PetTypes'
    BY <2>1
  <2>3. PetAlive' /\ Woken'
    BY <2>1
  <2>4. ScreenInv(Pet!Fields)'
    BY <2>1 DEF ScreenInv, ScreenTrue, BankFree, InSequence, Copied, LoadsAside, ResultTrue, Fits
  <2> QED
    BY <2>2, <2>3, <2>4
<1>2. CASE Pet!BeginTakes
  <2>1. UNCHANGED pet /\ calls' = calls /\ call["gui"] = "petTake" /\ call'["gui"] \in {"petLoad", "idle"}
    BY <1>2 DEF Pet!BeginTakes, Pet!pet, Pet!memory, Pet!screen, Pet!loader, Pet!wake, pet
  <2>2. PetTypes' /\ PetAlive' /\ Woken'
    BY <2>1 DEF pet
  <2>3. ScreenInv(Pet!Fields)'
    BY <2>1 DEF pet, ScreenInv, ScreenTrue, BankFree, InSequence, Copied, LoadsAside, ResultTrue, Fits
  <2> QED
    BY <2>2, <2>3
<1>3. CASE Pet!BeginLoads
  <2>1. /\ call'["gui"] = "idle" /\ calls' = calls /\ active' = active /\ active /\ ~alive /\ done' = done /\ mine' = mine
        /\ Home \in States
    BY <1>3 DEF Pet!BeginLoads
  <2>2. CASE UNCHANGED <<alive, bytes, bank, shown, wanted, cache, applied, step, request, handle, halt, tokens>>
    <3>1. PetTypes' /\ PetAlive' /\ Woken'
      BY <2>1, <2>2
    <3>2. ScreenInv(Pet!Fields)'
      BY <2>1, <2>2 DEF ScreenInv, ScreenTrue, BankFree, InSequence, Copied, LoadsAside, ResultTrue, Fits
    <3> QED
      BY <3>1, <3>2
  <2>3. CASE /\ alive' = TRUE /\ bytes' = [bytes EXCEPT ![0] = Home]
             /\ cache' = [cache EXCEPT ![0] = Home] /\ shown' = Home /\ wanted' = Home
             /\ handle' = TRUE /\ step' = "wait"
             /\ UNCHANGED <<bank, applied, request, halt, tokens>>
    <3>1. PetTypes'
      BY <2>1, <2>3 DEF Pet!Steps
    <3>2. PetAlive' /\ Woken'
      BY <2>1, <2>3
    <3>3. ScreenInv(Pet!Fields)'
      BY <2>1, <2>3 DEF ScreenInv, ScreenTrue, BankFree, InSequence, Copied, LoadsAside, ResultTrue, Fits,
                        Pet!NoRequest, Pet!NoResult
    <3> QED
      BY <3>1, <3>2, <3>3
  <2> QED
    BY <1>3, <2>2, <2>3 DEF Pet!BeginLoads, Pet!screen, Pet!wake
<1> QED
  BY <1>1, <1>2, <1>3 DEF Pet!InBegin

\* vb_pet_preload_worker
LEMMA LoaderPet ==
  ASSUME PetInv, Pet!Runs
  PROVE  PetInv'
<1> USE DEF PetInv, PetTypes, PetAlive, Woken, LoaderTypes, ScreenFields, Pet!Fields, Pet!Banks, Pet!Known
<1>1. CASE Pet!Take \/ Pet!Drain
  <2>1. /\ step \in {"wait", "drain"} /\ step' \in {"none", "drain", "sequence"}
        /\ step' = "none" <=> halt
        /\ step' = "drain" => tokens > 0
        /\ step' = "sequence" => step = "drain"
        /\ handle' = (handle /\ ~halt) /\ tokens' \in 0..MaxTokens /\ tokens' <= tokens
        /\ UNCHANGED <<call, calls, active, alive, bytes, bank, shown, wanted, cache, applied, request, halt, done, mine>>
    BY <1>1 DEF Pet!Take, Pet!Drain, Pet!shared, Pet!memory, Pet!screen
  <2>2. PetTypes'
    BY <2>1 DEF Pet!Steps
  <2>3. PetAlive' /\ Woken'
    BY <2>1
  <2>4. ScreenInv(Pet!Fields)'
    BY <2>1 DEF ScreenInv, ScreenTrue, BankFree, InSequence, Copied, LoadsAside, ResultTrue, Fits
  <2> QED
    BY <2>2, <2>3, <2>4
<1>2. CASE Pet!ReadSequence \/ Pet!ReadState
  <2>1. /\ \/ step = "sequence" /\ step' = "state" /\ mine' = [mine EXCEPT !.seq = request.seq]
           \/ step = "state" /\ step' = "bank" /\ mine' = [mine EXCEPT !.state = request.state]
        /\ UNCHANGED <<call, calls, active, alive, bytes, bank, shown, wanted, cache, applied, request, halt, done,
                       handle, tokens>>
    BY <1>2 DEF Pet!ReadSequence, Pet!ReadState, Pet!Goes, Pet!shared, Pet!memory, Pet!screen, Pet!wake
  <2>2. PetTypes'
    BY <2>1 DEF Pet!Steps
  <2>3. PetAlive' /\ Woken'
    BY <2>1
  <2>4. ScreenInv(Pet!Fields)'
    BY <2>1 DEF ScreenInv, ScreenTrue, BankFree, InSequence, Copied, LoadsAside, ResultTrue, Fits
  <2> QED
    BY <2>2, <2>3, <2>4
<1>3. CASE Pet!ReadBank
  <2>1. /\ step = "bank" /\ step' \in {"load", "take"} /\ mine' = [mine EXCEPT !.bank = request.bank]
        /\ bytes' \in {bytes, Pet!Begun(mine.state, request.bank)}
        /\ UNCHANGED <<call, calls, active, alive, bank, shown, wanted, cache, applied, request, halt, done, handle, tokens>>
    BY <1>3 DEF Pet!ReadBank, Pet!shared, Pet!screen, Pet!wake
  <2>2. Fits(Pet!Fields, mine.state, request.bank) /\ request.seq # 0
    BY <2>1 DEF ScreenInv, BankFree, InSequence, Copied, Fits
  <2>3. \A b \in Pet!Banks : bytes'[b] = bytes[b] \/ (b = request.bank /\ bytes[b] # mine.state /\ bytes'[b] = NoState)
    BY <2>1 DEF Pet!Begun
  <2>4. PetTypes'
    BY <2>1 DEF Pet!Steps, Pet!Begun
  <2>5. PetAlive' /\ Woken'
    BY <2>1
  <2>6. ScreenTrue(Pet!Fields)' /\ ResultTrue(Pet!Fields)'
    BY <2>1, <2>2, <2>3 DEF ScreenInv, ScreenTrue, ResultTrue, InSequence, Copied, Fits
  <2>7. BankFree(Pet!Fields)' /\ InSequence(Pet!Fields)' /\ Copied(Pet!Fields)' /\ LoadsAside(Pet!Fields)'
    BY <2>1, <2>2 DEF ScreenInv, BankFree, InSequence, Copied, LoadsAside, Fits
  <2> QED
    BY <2>4, <2>5, <2>6, <2>7 DEF ScreenInv
<1>4. CASE Pet!TakeCard
  <2>1. /\ step = "take" /\ step' = "load" /\ bytes' = Pet!Begun(mine.state, mine.bank)
        /\ UNCHANGED <<call, calls, active, alive, bank, shown, wanted, cache, applied, request, halt, done, handle,
                       tokens, mine>>
    BY <1>4 DEF Pet!TakeCard, Pet!Goes, Pet!screen, Pet!wake
  <2>2. Fits(Pet!Fields, mine.state, mine.bank)
    BY <2>1 DEF ScreenInv, LoadsAside
  <2>3. \A b \in Pet!Banks : bytes'[b] = bytes[b] \/ (b = mine.bank /\ bytes[b] # mine.state /\ bytes'[b] = NoState)
    BY <2>1 DEF Pet!Begun
  <2>4. PetTypes'
    BY <2>1 DEF Pet!Steps, Pet!Begun
  <2>5. PetAlive' /\ Woken'
    BY <2>1
  <2>6. ScreenTrue(Pet!Fields)' /\ ResultTrue(Pet!Fields)'
    BY <2>1, <2>2, <2>3 DEF ScreenInv, ScreenTrue, ResultTrue, InSequence, Copied, Fits
  <2>7. BankFree(Pet!Fields)' /\ InSequence(Pet!Fields)' /\ Copied(Pet!Fields)' /\ LoadsAside(Pet!Fields)'
    BY <2>1, <2>2 DEF ScreenInv, BankFree, InSequence, Copied, LoadsAside, Fits
  <2> QED
    BY <2>4, <2>5, <2>6, <2>7 DEF ScreenInv
<1>5. CASE Pet!TakeTimesOut \/ Pet!Load
  <2> DEFINE LoadEnds(ok) ==
        /\ step \in {"take", "load"} /\ step' = "publish"
        /\ done' = [done EXCEPT !.state = mine.state, !.bank = mine.bank, !.ok = ok]
        /\ bytes' = IF ok THEN [bytes EXCEPT ![mine.bank] = mine.state] ELSE bytes
        /\ UNCHANGED <<call, calls, active, alive, bank, shown, wanted, cache, applied, request, halt, handle,
                       tokens, mine>>
  <2>0. PICK ok \in BOOLEAN : LoadEnds(ok)
    <3>1. CASE Pet!TakeTimesOut
      <4>1. LoadEnds(FALSE)
        BY <3>1 DEF Pet!TakeTimesOut, Pet!Report, Pet!shared, Pet!memory, Pet!screen, Pet!wake
      <4> QED
        BY <4>1
    <3>2. CASE Pet!Load
      <4>1. LoadEnds(TRUE) \/ LoadEnds(FALSE)
        BY <3>2 DEF Pet!Load, Pet!Report, Pet!screen, Pet!wake
      <4> QED
        BY <4>1
    <3> QED
      BY <1>5, <3>1, <3>2
  <2>1. LoadEnds(ok)
    BY <2>0
  <2>2. Fits(Pet!Fields, mine.state, mine.bank)
    BY <2>1 DEF ScreenInv, LoadsAside
  <2>3. \A b \in Pet!Banks : bytes'[b] = IF ok /\ b = mine.bank THEN mine.state ELSE bytes[b]
    BY <2>1
  <2>4. PetTypes'
    BY <2>1 DEF Pet!Steps
  <2>5. PetAlive' /\ Woken'
    BY <2>1
  <2>6. ScreenTrue(Pet!Fields)'
    BY <2>1, <2>2, <2>3 DEF ScreenInv, ScreenTrue, Fits
  <2>7. /\ done'.seq = done.seq /\ done'.state = mine.state /\ done'.bank = mine.bank
        /\ done'.ok => bytes'[mine.bank] = mine.state
    BY <2>1, <2>3
  <2>8. ResultTrue(Pet!Fields)'
    BY <2>1, <2>7 DEF ScreenInv, ResultTrue, InSequence, Copied
  <2>9. BankFree(Pet!Fields)' /\ InSequence(Pet!Fields)' /\ Copied(Pet!Fields)' /\ LoadsAside(Pet!Fields)'
    BY <2>1, <2>7 DEF ScreenInv, BankFree, InSequence, Copied, LoadsAside, Fits
  <2> QED
    BY <2>4, <2>5, <2>6, <2>8, <2>9 DEF ScreenInv
<1>6. CASE Pet!Publish
  <2>1. /\ step = "publish" /\ step' = "wait" /\ done' = [done EXCEPT !.seq = mine.seq]
        /\ UNCHANGED <<call, calls, active, alive, bytes, bank, shown, wanted, cache, applied, request, halt, handle,
                       tokens, mine>>
    BY <1>6 DEF Pet!Publish, Pet!Goes, Pet!shared, Pet!memory, Pet!screen, Pet!wake
  <2>2. PetTypes'
    BY <2>1 DEF Pet!Steps
  <2>3. PetAlive' /\ Woken'
    BY <2>1
  <2>4. ScreenInv(Pet!Fields)'
    BY <2>1 DEF ScreenInv, ScreenTrue, BankFree, InSequence, Copied, LoadsAside, ResultTrue, Fits
  <2> QED
    BY <2>2, <2>3, <2>4
<1> QED
  BY <1>1, <1>2, <1>3, <1>4, <1>5, <1>6 DEF Pet!Runs

-----------------------------------------------------------------------------
(* The player                                                              *)

\* A caller starts the player alone: two of them may not both find it idle.
NoRace == "startRace" \notin Faults

PlayerTypes ==
  /\ Audio!TypeOK
  /\ call \in [Audio!Callers -> Audio!AudioCalls \cup Pet!PetCalls]

\* The handle is that of the one worker there is, and a playback needs it.
OneWorker ==
  /\ \A w \in Workers : pc[w] # "none" => worker = w
  /\ playing => worker # NoWorker /\ pc[worker] # "exit"

\* Whoever is about to start the player found it idle, and nobody else starts,
\* stops or reserves it.
StartsAlone == \A t \in Audio!Callers : call[t] \in Audio!Sources =>
  /\ worker = NoWorker /\ ~playing
  /\ \A u \in Audio!Callers \ {t} : call[u] \notin Audio!Sources \cup Audio!Waiting

\* The codec is reserved from the wait for the player to the end of the capture.
CodecHeld ==
  /\ \A t \in Audio!Callers : call[t] = "capture" =>
       /\ reserved /\ ~capture
       /\ \A u \in Audio!Callers \ {t} : call[u] # "capture"
  /\ capture => reserved
  /\ reserved => \A t \in Audio!Callers : call[t] \notin Audio!Sources

PlayerInv == PlayerTypes /\ OneWorker /\ StartsAlone /\ CodecHeld /\ Audio!CaptureAlone

\* Whoever waits for the player has told it to stop, or it has ended.
Told == \A t \in Audio!Callers :
  call[t] \in Audio!Waiting /\ worker # NoWorker => stop \/ pc[worker] = "exit"

\* Only a worker between opening its source and its end reads.
ReadsOpen == \A w \in Workers : reads[w] # "none" => pc[w] \in {"open", "play", "done"}

CueInv == Told /\ ReadsOpen /\ Audio!CueAlive

\* Steps of the player, among them those of the script and of the host.
PlayerStep ==
  \/ Audio!Preload \/ Audio!Release \/ Audio!InPreload \/ Audio!CaptureEnds
  \/ Audio!Shutdown /\ UNCHANGED shared
  \/ \E t \in Audio!Callers : Audio!Call(t) \/ Audio!InCall(t)
  \/ \E w \in Workers : Audio!Runs(w) \/ Audio!Service(w)

\* The GUI thread enters or leaves a call of the pet.
PetCall ==
  /\ UNCHANGED player /\ calls' \in 0..MaxCalls /\ card' \in Audio!Holders
  /\ \/ UNCHANGED call
     \/ /\ call["gui"] \in {"idle", "petTake", "petLoad"}
        /\ \E c \in {"idle", "petTake", "petLoad"} : call' = [call EXCEPT !["gui"] = c]

LEMMA PlayerStepTypes ==
  ASSUME PlayerTypes, PlayerStep \/ PetCall
  PROVE  PlayerTypes'
<1> USE DEF PlayerTypes, Audio!TypeOK, Audio!Callers, Audio!AudioCalls, Audio!Waiting, Audio!Sources,
            Audio!Holders, Pet!PetCalls, Audio!Steps, Audio!Enters, Audio!Counted, Audio!Step, Audio!Returned
<1>1. CASE Audio!Preload
  BY <1>1 DEF Audio!Preload, Audio!audio, Audio!player, Audio!thread, Audio!codec
<1>2. ASSUME NEW t \in Audio!Callers, NEW c \in Audio!Waiting, Audio!Stops(t, c)
      PROVE  PlayerTypes'
  <2>1. /\ UNCHANGED <<card, worker, playing, source, pc, reads>> /\ calls < MaxCalls /\ calls' = calls + 1
        /\ call' = call \/ call' = [call EXCEPT ![t] = c]
    BY <1>2 DEF Audio!Stops, Audio!thread
  <2>2. stop' \in BOOLEAN
    BY <1>2 DEF Audio!Stops
  <2>3. reserved' \in BOOLEAN /\ capture' \in BOOLEAN /\ cues' \in BOOLEAN
    BY <1>2 DEF Audio!Stops, Audio!After
  <2> QED
    BY <2>1, <2>2, <2>3
<1>3. CASE Audio!Release
  <2>1. Audio!Stops("gui", "release") /\ "gui" \in Audio!Callers /\ "release" \in Audio!Waiting
    BY <1>3 DEF Audio!Release
  <2> HIDE DEF PlayerTypes, Audio!Callers, Audio!Waiting
  <2> QED
    BY <1>2, <2>1
<1>4. CASE Audio!InPreload
  <2>1. CASE Audio!PreloadTakes
    BY <2>1 DEF Audio!PreloadTakes, Audio!audio, Audio!player, Audio!thread, Audio!codec
  <2>2. CASE Audio!PreloadEnds
    <3>1. /\ UNCHANGED <<worker, playing, stop, source, pc, reads, reserved, capture, calls>>
          /\ card' = "free" /\ call' = [call EXCEPT !["gui"] = "idle"]
      BY <2>2 DEF Audio!PreloadEnds, Audio!player, Audio!thread, Audio!codec
    <3>2. cues' \in BOOLEAN
      BY <2>2 DEF Audio!PreloadEnds
    <3> QED
      BY <3>1, <3>2
  <2> QED
    BY <1>4, <2>1, <2>2 DEF Audio!InPreload
<1>5. CASE Audio!CaptureEnds
  BY <1>5 DEF Audio!CaptureEnds, Audio!shared, Audio!player, Audio!thread
<1>6. CASE Audio!Shutdown /\ UNCHANGED shared
  BY <1>6 DEF Audio!Shutdown, shared, Audio!player, Audio!thread, Audio!codec
<1>7. ASSUME NEW t \in Audio!Callers, Audio!Call(t)
      PROVE  PlayerTypes'
  <2>1. ASSUME NEW s \in Audio!Sources, Audio!PlayAsk(t, s)
        PROVE  PlayerTypes'
    BY <2>1 DEF Audio!PlayAsk, Audio!audio, Audio!player, Audio!thread, Audio!codec
  <2> QED
    BY <1>2, <1>7, <2>1 DEF Audio!Call, Audio!Stop, Audio!Reserve
<1>8. ASSUME NEW t \in Audio!Callers, Audio!InCall(t)
      PROVE  PlayerTypes'
  <2>1. CASE Audio!StopReturns(t)
    BY <2>1 DEF Audio!StopReturns, Audio!After, Audio!player, Audio!thread
  <2>2. ASSUME NEW w \in Workers, Audio!PlayStart(t, w)
        PROVE  PlayerTypes'
    BY <2>2 DEF Audio!PlayStart, Audio!codec
  <2> QED
    BY <1>8, <2>1, <2>2 DEF Audio!InCall
<1>9. ASSUME NEW w \in Workers, Audio!Runs(w) \/ Audio!Service(w)
      PROVE  PlayerTypes'
  <2> USE DEF Audio!shared, Audio!player, Audio!codec, Audio!thread
  <2>1. CASE Audio!Start(w)
    BY <2>1 DEF Audio!Start
  <2>2. CASE Audio!TakeCard(w) \/ Audio!TakeTimesOut(w)
    BY <2>2 DEF Audio!TakeCard, Audio!TakeTimesOut
  <2>3. CASE Audio!Open(w) \/ Audio!Drained(w)
    BY <2>3 DEF Audio!Open, Audio!Drained
  <2>4. CASE Audio!PlayEnds(w)
    BY <2>4 DEF Audio!PlayEnds
  <2>5. CASE Audio!ServiceCloses(w)
    BY <2>5 DEF Audio!ServiceCloses
  <2>6. CASE Audio!Done(w) \/ Audio!Exit(w)
    BY <2>6 DEF Audio!Done, Audio!Exit
  <2> QED
    BY <1>9, <2>1, <2>2, <2>3, <2>4, <2>5, <2>6 DEF Audio!Runs, Audio!Service, Audio!PlayStops
<1>10. CASE PetCall
  BY <1>10 DEF PetCall, player
<1> QED
  BY <1>1, <1>3, <1>4, <1>5, <1>6, <1>7, <1>8, <1>9, <1>10 DEF PlayerStep

LEMMA PlayerStepInv ==
  ASSUME NoRace, PlayerInv, PlayerStep \/ PetCall
  PROVE  PlayerInv'
<1>0. PlayerTypes'
  BY PlayerStepTypes DEF PlayerInv
<1> USE DEF PlayerInv, PlayerTypes, Audio!TypeOK, OneWorker, StartsAlone, CodecHeld, Audio!CaptureAlone,
            Audio!Running, Audio!Callers, Audio!Waiting, Audio!Sources, Audio!Enters, Audio!Step
<1>1. CASE Audio!Preload
  BY <1>0, <1>1 DEF Audio!Preload, Audio!audio, Audio!player, Audio!thread, Audio!codec
<1>2. ASSUME NEW t \in Audio!Callers, NEW c \in Audio!Waiting, Audio!Stops(t, c), call[t] = "idle",
             c = "stop" => Audio!Busy,
             c = "capture" => ~reserved /\ Audio!Undisturbed(t, Audio!Sources)
      PROVE  PlayerInv'
  <2>1. CASE Audio!Busy
    <3>1. /\ UNCHANGED <<worker, playing, pc, capture>> /\ call' = [call EXCEPT ![t] = c]
          /\ reserved' = (reserved \/ c = "capture") /\ worker # NoWorker
      BY <1>2, <2>1 DEF Audio!Stops, Audio!thread, Audio!Busy
    <3>2. c = "capture" => ~reserved /\ \A u \in Audio!Callers \ {t} : call[u] \notin Audio!Sources
      BY <1>2 DEF NoRace, Audio!Undisturbed, Audio!Others
    <3>3. OneWorker' /\ Audio!CaptureAlone'
      BY <3>1
    <3>4. \A u \in Audio!Callers : call[u] \notin Audio!Sources
      BY <3>1
    <3>5. StartsAlone'
      BY <3>1, <3>4
    <3>6. CodecHeld'
      <4>1. CASE c = "capture"
        BY <1>2, <3>1, <3>2, <3>4, <4>1
      <4>2. CASE c # "capture"
        BY <1>2, <3>1, <3>4, <4>2
      <4> QED
        BY <4>1, <4>2
    <3> HIDE DEF PlayerTypes, OneWorker, StartsAlone, CodecHeld, Audio!CaptureAlone
    <3> QED
      BY <1>0, <3>3, <3>5, <3>6
  <2>2. CASE ~Audio!Busy
    BY <1>0, <1>2, <2>2 DEF Audio!Stops, Audio!After, Audio!thread, Audio!Busy, NoRace, Audio!Undisturbed,
                            Audio!Others
  <2> QED
    BY <2>1, <2>2
<1>3. CASE Audio!Release
  BY <1>2, <1>3 DEF Audio!Release, Audio!Idle
<1>4. CASE Audio!InPreload
  BY <1>0, <1>4 DEF Audio!InPreload, Audio!PreloadTakes, Audio!PreloadEnds, Audio!audio, Audio!player,
                    Audio!thread, Audio!codec
<1>5. CASE Audio!CaptureEnds
  BY <1>0, <1>5 DEF Audio!CaptureEnds, Audio!shared, Audio!player, Audio!thread
<1>6. CASE Audio!Shutdown /\ UNCHANGED shared
  BY <1>0, <1>6 DEF Audio!Shutdown, shared, Audio!player, Audio!thread, Audio!codec
<1>7. ASSUME NEW t \in Audio!Callers, Audio!Call(t)
      PROVE  PlayerInv'
  <2>1. ASSUME NEW s \in Audio!Sources, Audio!PlayAsk(t, s)
        PROVE  PlayerInv'
    BY <1>0, <2>1 DEF Audio!PlayAsk, Audio!audio, Audio!player, Audio!thread, Audio!codec, Audio!Busy, NoRace,
                      Audio!Undisturbed, Audio!Others, Audio!Idle
  <2> QED
    BY <1>2, <1>7, <2>1 DEF Audio!Call, Audio!Stop, Audio!Reserve, Audio!Idle
<1>8. ASSUME NEW t \in Audio!Callers, Audio!InCall(t)
      PROVE  PlayerInv'
  <2>1. CASE Audio!StopReturns(t)
    BY <1>0, <2>1 DEF Audio!StopReturns, Audio!After, Audio!player, Audio!thread
  <2>2. ASSUME NEW w \in Workers, Audio!PlayStart(t, w)
        PROVE  PlayerInv'
    BY <1>0, <2>2 DEF Audio!PlayStart, Audio!codec
  <2> QED
    BY <1>8, <2>1, <2>2 DEF Audio!InCall
<1>9. ASSUME NEW w \in Workers, Audio!Runs(w) \/ Audio!Service(w)
      PROVE  PlayerInv'
  <2> USE DEF Audio!shared, Audio!player, Audio!codec, Audio!thread
  <2>1. CASE Audio!Start(w)
    BY <1>0, <2>1 DEF Audio!Start
  <2>2. CASE Audio!TakeCard(w) \/ Audio!TakeTimesOut(w)
    BY <1>0, <2>2 DEF Audio!TakeCard, Audio!TakeTimesOut
  <2>3. CASE Audio!Open(w) \/ Audio!Drained(w)
    BY <1>0, <2>3 DEF Audio!Open, Audio!Drained
  <2>4. CASE Audio!PlayEnds(w)
    BY <1>0, <2>4 DEF Audio!PlayEnds
  <2>5. CASE Audio!ServiceCloses(w)
    BY <1>0, <2>5 DEF Audio!ServiceCloses
  <2>6. CASE Audio!Done(w) \/ Audio!Exit(w)
    BY <1>0, <2>6 DEF Audio!Done, Audio!Exit
  <2> QED
    BY <1>9, <2>1, <2>2, <2>3, <2>4, <2>5, <2>6 DEF Audio!Runs, Audio!Service, Audio!PlayStops
<1>10. CASE PetCall
  BY <1>0, <1>10 DEF PetCall, player
<1> QED
  BY <1>1, <1>3, <1>4, <1>5, <1>6, <1>7, <1>8, <1>9, <1>10 DEF PlayerStep

\* The cues outlive a worker that reads them, if the player stops in time.
LEMMA CueStepInv ==
  ASSUME NoRace, "slowAudio" \notin Faults, PlayerInv, CueInv, PlayerStep \/ PetCall
  PROVE  CueInv'
<1> USE DEF CueInv, Told, ReadsOpen, Audio!CueAlive, PlayerInv, PlayerTypes, Audio!TypeOK, OneWorker, StartsAlone,
            Audio!Running, Audio!Callers, Audio!Waiting, Audio!Sources, Audio!Enters, Audio!Step
<1>1. CASE Audio!Preload
  BY <1>1 DEF Audio!Preload, Audio!audio, Audio!player, Audio!thread, Audio!codec
<1>2. ASSUME NEW t \in Audio!Callers, NEW c \in Audio!Waiting, Audio!Stops(t, c), call[t] = "idle"
      PROVE  CueInv'
  <2>1. CASE Audio!Busy
    BY <1>2, <2>1 DEF Audio!Stops, Audio!thread, Audio!Busy
  <2>2. CASE ~Audio!Busy
    BY <1>2, <2>2 DEF Audio!Stops, Audio!After, Audio!thread, Audio!Busy
  <2> QED
    BY <2>1, <2>2
<1>3. CASE Audio!Release
  BY <1>2, <1>3 DEF Audio!Release, Audio!Idle
<1>4. CASE Audio!InPreload
  BY <1>4 DEF Audio!InPreload, Audio!PreloadTakes, Audio!PreloadEnds, Audio!audio, Audio!player,
              Audio!thread, Audio!codec
<1>5. CASE Audio!CaptureEnds
  BY <1>5 DEF Audio!CaptureEnds, Audio!shared, Audio!player, Audio!thread
<1>6. CASE Audio!Shutdown /\ UNCHANGED shared
  BY <1>6 DEF Audio!Shutdown, shared, Audio!player, Audio!thread, Audio!codec, Audio!Busy
<1>7. ASSUME NEW t \in Audio!Callers, Audio!Call(t)
      PROVE  CueInv'
  <2>1. ASSUME NEW s \in Audio!Sources, Audio!PlayAsk(t, s)
        PROVE  CueInv'
    BY <2>1 DEF Audio!PlayAsk, Audio!audio, Audio!player, Audio!thread, Audio!codec
  <2> QED
    BY <1>2, <1>7, <2>1 DEF Audio!Call, Audio!Stop, Audio!Reserve, Audio!Idle
<1>8. ASSUME NEW t \in Audio!Callers, Audio!InCall(t)
      PROVE  CueInv'
  <2>1. CASE Audio!StopReturns(t)
    <3>1. worker # NoWorker => pc[worker] \in {"take", "exit"}
      <4>1. worker # NoWorker => Audio!Late \/ ~stop
        BY <2>1 DEF Audio!StopReturns, Audio!StopGivesUp
      <4>2. Audio!Late => pc[worker] = "take"
        BY DEF Audio!Late
      <4>3. worker # NoWorker /\ ~stop => pc[worker] = "exit"
        BY <2>1 DEF Audio!StopReturns
      <4> QED
        BY <4>1, <4>2, <4>3
    <3>2. ASSUME NEW w \in Workers
          PROVE  reads[w] # "cue"
      <4>1. w # NoWorker
        OBVIOUS
      <4>2. pc[w] \in {"open", "play", "done"} => worker = w
        OBVIOUS
      <4> QED
        BY <3>1, <4>1, <4>2
    <3>3. UNCHANGED <<worker, playing, stop, source, pc, reads>> /\ call' = [call EXCEPT ![t] = "idle"]
      BY <2>1 DEF Audio!StopReturns, Audio!player, Audio!thread
    <3> QED
      BY <3>2, <3>3
  <2>2. ASSUME NEW w \in Workers, Audio!PlayStart(t, w)
        PROVE  CueInv'
    BY <2>2 DEF Audio!PlayStart, Audio!codec
  <2> QED
    BY <1>8, <2>1, <2>2 DEF Audio!InCall
<1>9. ASSUME NEW w \in Workers, Audio!Runs(w) \/ Audio!Service(w)
      PROVE  CueInv'
  <2> USE DEF Audio!shared, Audio!player, Audio!codec, Audio!thread
  <2>1. CASE Audio!Start(w)
    BY <2>1 DEF Audio!Start
  <2>2. CASE Audio!TakeCard(w) \/ Audio!TakeTimesOut(w)
    BY <2>2 DEF Audio!TakeCard, Audio!TakeTimesOut
  <2>3. CASE Audio!Open(w) \/ Audio!Drained(w)
    BY <2>3 DEF Audio!Open, Audio!Drained
  <2>4. CASE Audio!PlayEnds(w)
    BY <2>4 DEF Audio!PlayEnds
  <2>5. CASE Audio!ServiceCloses(w)
    BY <2>5 DEF Audio!ServiceCloses
  <2>6. CASE Audio!Done(w) \/ Audio!Exit(w)
    BY <2>6 DEF Audio!Done, Audio!Exit
  <2> QED
    BY <1>9, <2>1, <2>2, <2>3, <2>4, <2>5, <2>6 DEF Audio!Runs, Audio!Service, Audio!PlayStops
<1>10. CASE PetCall
  BY <1>10 DEF PetCall, player
<1> QED
  BY <1>1, <1>3, <1>4, <1>5, <1>6, <1>7, <1>8, <1>9, <1>10 DEF PlayerStep

-----------------------------------------------------------------------------
(* The lock of the card                                                    *)

\* A step of the player leaves the lock with somebody at work on the card.
LEMMA CardPlayer ==
  ASSUME PlayerTypes, CardAccounted, PlayerStep, step' = step
  PROVE  CardAccounted'
<1> USE DEF CardAccounted, Audio!CardReturned, PlayerTypes, Audio!TypeOK, Audio!Callers, Audio!Waiting, Audio!Sources,
            Audio!Enters, Audio!Step, Audio!Holders, Audio!Returned
<1>1. CASE Audio!Preload
  BY <1>1 DEF Audio!Preload, Audio!audio, Audio!player, Audio!thread, Audio!codec, Audio!Idle
<1>2. ASSUME NEW t \in Audio!Callers, NEW c \in Audio!Waiting, Audio!Stops(t, c), call[t] = "idle"
      PROVE  CardAccounted'
  BY <1>2 DEF Audio!Stops, Audio!thread
<1>3. CASE Audio!Release
  BY <1>2, <1>3 DEF Audio!Release, Audio!Idle
<1>4. CASE Audio!InPreload
  BY <1>4 DEF Audio!InPreload, Audio!PreloadTakes, Audio!PreloadEnds, Audio!audio, Audio!player,
              Audio!thread, Audio!codec
<1>5. CASE Audio!CaptureEnds
  BY <1>5 DEF Audio!CaptureEnds, Audio!shared, Audio!player, Audio!thread
<1>6. CASE Audio!Shutdown /\ UNCHANGED shared
  BY <1>6 DEF Audio!Shutdown, shared, Audio!player, Audio!thread, Audio!codec
<1>7. ASSUME NEW t \in Audio!Callers, Audio!Call(t)
      PROVE  CardAccounted'
  <2>1. ASSUME NEW s \in Audio!Sources, Audio!PlayAsk(t, s)
        PROVE  CardAccounted'
    BY <2>1 DEF Audio!PlayAsk, Audio!audio, Audio!player, Audio!thread, Audio!codec, Audio!Idle
  <2> QED
    BY <1>2, <1>7, <2>1 DEF Audio!Call, Audio!Stop, Audio!Reserve, Audio!Idle
<1>8. ASSUME NEW t \in Audio!Callers, Audio!InCall(t)
      PROVE  CardAccounted'
  <2>1. CASE Audio!StopReturns(t)
    BY <2>1 DEF Audio!StopReturns, Audio!player, Audio!thread
  <2>2. ASSUME NEW w \in Workers, Audio!PlayStart(t, w)
        PROVE  CardAccounted'
    BY <2>2 DEF Audio!PlayStart, Audio!codec
  <2> QED
    BY <1>8, <2>1, <2>2 DEF Audio!InCall
<1>9. ASSUME NEW w \in Workers, Audio!Runs(w) \/ Audio!Service(w)
      PROVE  CardAccounted'
  <2> USE DEF Audio!shared, Audio!player, Audio!codec, Audio!thread
  <2>1. CASE Audio!Start(w)
    BY <2>1 DEF Audio!Start
  <2>2. CASE Audio!TakeCard(w) \/ Audio!TakeTimesOut(w)
    BY <2>2 DEF Audio!TakeCard, Audio!TakeTimesOut
  <2>3. CASE Audio!Open(w) \/ Audio!Drained(w)
    BY <2>3 DEF Audio!Open, Audio!Drained
  <2>4. CASE Audio!PlayEnds(w)
    BY <2>4 DEF Audio!PlayEnds
  <2>5. CASE Audio!ServiceCloses(w)
    BY <2>5 DEF Audio!ServiceCloses
  <2>6. CASE Audio!Done(w) \/ Audio!Exit(w)
    BY <2>6 DEF Audio!Done, Audio!Exit
  <2> QED
    BY <1>9, <2>1, <2>2, <2>3, <2>4, <2>5, <2>6 DEF Audio!Runs, Audio!Service, Audio!PlayStops
<1> QED
  BY <1>1, <1>3, <1>4, <1>5, <1>6, <1>7, <1>8, <1>9 DEF PlayerStep

\* So does a step of the pet, none of which stops its loader while it loads.
LEMMA CardPet ==
  ASSUME PlayerTypes, PetTypes, PetAlive, CardAccounted, UNCHANGED player,
         Pet!Begin \/ Pet!InBegin \/ Pet!Runs \/ (\E s \in States : Pet!Tick(s))
           \/ (Pet!Stop /\ UNCHANGED <<card, call>>)
  PROVE  CardAccounted'
<1> USE DEF CardAccounted, Audio!CardReturned, PlayerTypes, Audio!TypeOK, Audio!Callers, Audio!Holders, player,
            Pet!Enters, PetAlive, Pet!shared, Pet!pet, Pet!memory, Pet!screen, Pet!loader, Pet!wake
<1>1. CASE Pet!Begin
  BY <1>1 DEF Pet!Begin, Pet!GuiIdle
<1>2. CASE Pet!BeginTakes
  BY <1>2 DEF Pet!BeginTakes
<1>3. CASE Pet!BeginLoads
  BY <1>3 DEF Pet!BeginLoads
<1>4. ASSUME NEW s \in States, Pet!Tick(s)
      PROVE  CardAccounted'
  BY <1>4 DEF Pet!Tick
<1>5. CASE Pet!Stop /\ UNCHANGED <<card, call>>
  BY <1>5 DEF Pet!Stop
<1>6. CASE Pet!Take \/ Pet!Drain \/ Pet!ReadSequence \/ Pet!ReadState \/ Pet!ReadBank \/ Pet!Publish
  BY <1>6 DEF Pet!Take, Pet!Drain, Pet!ReadSequence, Pet!ReadState, Pet!ReadBank, Pet!Publish, Pet!Goes
<1>7. CASE Pet!TakeCard \/ Pet!TakeTimesOut \/ Pet!Load
  BY <1>7 DEF Pet!TakeCard, Pet!TakeTimesOut, Pet!Load, Pet!Report, Pet!Goes
<1> QED
  BY <1>1, <1>2, <1>3, <1>4, <1>5, <1>6, <1>7 DEF Pet!InBegin, Pet!Runs

-----------------------------------------------------------------------------
(* The composition                                                         *)

SafeInv == PlayerTypes /\ PetInv /\ CardAccounted /\ stopping \in BOOLEAN

\* Every step of the composition is one of the player, of the pet, or of both.
LEMMA StepKinds ==
  ASSUME SafeInv, Next
  PROVE  \/ PlayerStep /\ UNCHANGED pet
         \/ PlayerStep /\ Pet!Stop /\ call["gui"] = "idle"
         \/ /\ UNCHANGED player
            /\ Pet!Begin \/ Pet!InBegin \/ Pet!Runs \/ (\E s \in States : Pet!Tick(s))
               \/ (Pet!Stop /\ Pet!GuiIdle /\ UNCHANGED <<card, call>> /\ calls < MaxCalls /\ calls' = calls + 1)
         \/ UNCHANGED <<card, call, player, pet>> /\ calls' \in {calls, calls + 1} /\ calls' \in 0..MaxCalls
<1>1. CASE Script
  BY <1>1 DEF Script, PlayerStep
<1>2. CASE HostReset
  BY <1>2 DEF HostReset, PlayerStep, Pet!GuiIdle, Pet!Counted
<1>3. CASE HostStopBegins \/ HostStopGivesUp
  BY <1>3 DEF HostStopBegins, HostStopGivesUp, shared, Pet!Counted, SafeInv, PlayerTypes, Audio!TypeOK
<1>4. CASE HostStop
  BY <1>4 DEF HostStop, PlayerStep, Pet!GuiIdle
<1>5. CASE PlayerNext
  BY <1>5 DEF PlayerNext, PlayerStep
<1>6. CASE PetNext \/ \E s \in States : Tick(s)
  BY <1>6 DEF PetNext, Tick
<1> QED
  BY <1>1, <1>2, <1>3, <1>4, <1>5, <1>6 DEF Next, Page

\* The player counts its calls and enters none of the pet.
PlayerCounts == calls <= calls' /\ (call'["gui"] = call["gui"] \/ call'["gui"] \in Audio!AudioCalls)

LEMMA PlayerCalls ==
  ASSUME PlayerTypes, PlayerStep
  PROVE  PlayerCounts
<1> USE DEF PlayerCounts, PlayerTypes, Audio!TypeOK, Audio!Callers, Audio!AudioCalls, Audio!Waiting, Audio!Sources,
            Audio!Enters, Audio!Counted, Audio!shared, Audio!player, Audio!codec, Audio!thread
<1>1. CASE Audio!Preload \/ Audio!InPreload
  BY <1>1 DEF Audio!Preload, Audio!InPreload, Audio!PreloadTakes, Audio!PreloadEnds
<1>2. ASSUME NEW t \in Audio!Callers, NEW c \in Audio!Waiting, Audio!Stops(t, c)
      PROVE  PlayerCounts
  <2>1. calls' = calls + 1 /\ (call' = call \/ call' = [call EXCEPT ![t] = c])
    BY <1>2 DEF Audio!Stops
  <2> QED
    BY <2>1
<1>3. CASE Audio!Release
  BY <1>2, <1>3 DEF Audio!Release
<1>4. CASE Audio!CaptureEnds \/ (Audio!Shutdown /\ UNCHANGED shared)
  BY <1>4 DEF Audio!CaptureEnds, shared
<1>5. ASSUME NEW t \in Audio!Callers, Audio!Call(t) \/ Audio!InCall(t)
      PROVE  PlayerCounts
  <2>1. ASSUME NEW s \in Audio!Sources, Audio!PlayAsk(t, s)
        PROVE  PlayerCounts
    BY <2>1 DEF Audio!PlayAsk
  <2>2. CASE Audio!StopReturns(t)
    BY <2>2 DEF Audio!StopReturns
  <2>3. ASSUME NEW w \in Workers, Audio!PlayStart(t, w)
        PROVE  PlayerCounts
    BY <2>3 DEF Audio!PlayStart
  <2> HIDE DEF PlayerCounts
  <2> QED
    BY <1>2, <1>5, <2>1, <2>2, <2>3 DEF Audio!Call, Audio!Stop, Audio!Reserve, Audio!InCall
<1>6. ASSUME NEW w \in Workers, Audio!Runs(w) \/ Audio!Service(w)
      PROVE  PlayerCounts
  BY <1>6 DEF Audio!Runs, Audio!Service, Audio!Start, Audio!TakeCard, Audio!TakeTimesOut, Audio!Open, Audio!Drained,
              Audio!PlayStops, Audio!PlayEnds, Audio!ServiceCloses, Audio!Done, Audio!Exit
<1> HIDE DEF PlayerCounts
<1> QED
  BY <1>1, <1>3, <1>4, <1>5, <1>6 DEF PlayerStep

\* A step of the pet, as the player sees it.
LEMMA PetCalls ==
  ASSUME PlayerTypes, UNCHANGED player, calls' \in 0..MaxCalls,
         Pet!Begin \/ Pet!InBegin \/ Pet!Runs \/ (\E s \in States : Pet!Tick(s))
           \/ (Pet!Stop /\ UNCHANGED <<card, call>>)
  PROVE  PetCall
<1> USE DEF PetCall, PlayerTypes, Audio!TypeOK, Audio!Holders, Pet!Enters, Pet!shared
<1>1. CASE Pet!Begin \/ Pet!BeginTakes \/ Pet!BeginLoads
  BY <1>1 DEF Pet!Begin, Pet!GuiIdle, Pet!BeginTakes, Pet!BeginLoads
<1>2. CASE (\E s \in States : Pet!Tick(s)) \/ (Pet!Stop /\ UNCHANGED <<card, call>>)
  BY <1>2 DEF Pet!Tick
<1>3. CASE Pet!Runs
  BY <1>3 DEF Pet!Runs, Pet!Take, Pet!Drain, Pet!ReadSequence, Pet!ReadState, Pet!ReadBank, Pet!Publish,
              Pet!TakeCard, Pet!TakeTimesOut, Pet!Load
<1> QED
  BY <1>1, <1>2, <1>3 DEF Pet!InBegin

LEMMA StoppingTyped ==
  ASSUME SafeInv, Next
  PROVE  stopping' \in BOOLEAN
BY DEF SafeInv, Next, Page, Script, Tick, HostReset, HostStopBegins, HostStop, HostStopGivesUp, PlayerNext, PetNext

\* What a step is to the player, with the invariant of the rest.
LEMMA SafeNext ==
  ASSUME SafeInv, Next
  PROVE  SafeInv' /\ (PlayerStep \/ PetCall)
<1> USE DEF SafeInv
<1>0. stopping' \in BOOLEAN
  BY StoppingTyped
<1>1. CASE PlayerStep /\ UNCHANGED pet
  <2>1. PlayerTypes'
    BY <1>1, PlayerStepTypes
  <2>2. calls' \in 0..MaxCalls /\ step' = step
    BY <1>1, <2>1 DEF PlayerTypes, Audio!TypeOK, pet
  <2>3. call'["gui"] \in {"petTake", "petLoad"} => call'["gui"] = call["gui"]
    BY <1>1, PlayerCalls DEF PlayerCounts, Audio!AudioCalls, Audio!Waiting
  <2>4. PetInv'
    BY <1>1, <2>2, <2>3, PlayerCalls, PetFrame DEF PlayerCounts
  <2> QED
    BY <1>0, <1>1, <2>1, <2>2, <2>4, CardPlayer
<1>2. CASE PlayerStep /\ Pet!Stop /\ call["gui"] = "idle"
  <2>1. PlayerTypes'
    BY <1>2, PlayerStepTypes
  <2>2. calls' \in 0..MaxCalls /\ step' = step
    BY <1>2, <2>1 DEF PlayerTypes, Audio!TypeOK, Pet!Stop, Pet!loader
  <2>3. call'["gui"] \in Audio!AudioCalls
    BY <1>2, PlayerCalls DEF PlayerCounts, Audio!AudioCalls
  <2>4. PetInv'
    BY <1>2, <2>2, <2>3, PlayerCalls, StopPet DEF PlayerCounts
  <2> QED
    BY <1>0, <1>2, <2>1, <2>2, <2>4, CardPlayer
<1>3. CASE UNCHANGED player /\ (Pet!Begin \/ Pet!InBegin \/ Pet!Runs \/ \E s \in States : Pet!Tick(s))
  <2>1. PetInv'
    BY <1>3, BeginPet, LoaderPet, TickPet DEF PlayerTypes
  <2>2. PetCall
    BY <1>3, <2>1, PetCalls DEF PetInv, PetTypes
  <2> QED
    BY <1>0, <1>3, <2>1, <2>2, PlayerStepTypes, CardPet DEF PetInv
<1>4. CASE UNCHANGED player /\ Pet!Stop /\ Pet!GuiIdle /\ UNCHANGED <<card, call>>
           /\ calls < MaxCalls /\ calls' = calls + 1
  <2>1. calls' \in 0..MaxCalls /\ calls <= calls' /\ call["gui"] = "idle" /\ call'["gui"] \in Audio!AudioCalls
    BY <1>4 DEF PlayerTypes, Audio!TypeOK, Pet!GuiIdle, Audio!AudioCalls
  <2>2. PetInv'
    BY <1>4, <2>1, StopPet
  <2>3. PetCall
    BY <1>4, <2>1, PetCalls
  <2> QED
    BY <1>0, <1>4, <2>2, <2>3, PlayerStepTypes, CardPet DEF PetInv
<1>5. CASE UNCHANGED <<card, call, player, pet>> /\ calls' \in {calls, calls + 1} /\ calls' \in 0..MaxCalls
  <2>1. PetCall
    BY <1>5 DEF PetCall, PlayerTypes, Audio!TypeOK
  <2>2. calls <= calls' /\ call' = call
    BY <1>5 DEF PlayerTypes, Audio!TypeOK
  <2>3. PetInv'
    BY <1>5, <2>2, PetFrame
  <2>4. CardAccounted'
    BY <1>5 DEF CardAccounted, Audio!CardReturned, player, pet
  <2> QED
    BY <1>0, <2>1, <2>3, <2>4, PlayerStepTypes
<1> QED
  BY <1>1, <1>2, <1>3, <1>4, <1>5, StepKinds

LEMMA SafeInit ==
  ASSUME Init
  PROVE  SafeInv
<1>1. PlayerTypes
  <2>1. Audio!TypeOK
    <3>1. pc \in [Workers -> Audio!Steps]
      BY DEF Init, Audio!Init, Audio!Steps
    <3>2. reads \in [Workers -> Audio!Sources \cup {"none"}]
      BY DEF Init, Audio!Init
    <3>3. /\ playing \in BOOLEAN /\ stop \in BOOLEAN /\ cues \in BOOLEAN /\ reserved \in BOOLEAN
          /\ capture \in BOOLEAN
      BY DEF Init, Audio!Init
    <3>4. worker \in Workers \cup {NoWorker} /\ source \in Audio!Sources /\ card \in Audio!Holders
      BY DEF Init, Audio!Init, Audio!Sources, Audio!Holders
    <3>5. calls \in 0..MaxCalls
      BY DEF Init
    <3> QED
      BY <3>1, <3>2, <3>3, <3>4, <3>5 DEF Audio!TypeOK
  <2>2. call \in [Audio!Callers -> Audio!AudioCalls \cup Pet!PetCalls]
    BY DEF Init, Audio!AudioCalls
  <2> QED
    BY <2>1, <2>2 DEF PlayerTypes
<1>2. PetTypes
  <2>1. request \in [seq : Nat, state : Pet!Known, bank : Pet!Banks]
    BY DEF Init, Pet!Init, Pet!Banks, Pet!Known, Pet!NoRequest
  <2>2. Pet!Fields \in ScreenFields
    BY <2>1 DEF Init, Pet!Init, Pet!Fields, ScreenFields, Pet!Banks, Pet!Known
  <2>3. LoaderTypes
    BY DEF Init, Pet!Init, LoaderTypes, Pet!Banks, Pet!Known, Pet!NoRequest, Pet!NoResult
  <2>4. calls \in 0..MaxCalls /\ request.seq <= calls
    BY DEF Init, Pet!Init, Pet!NoRequest
  <2> QED
    BY <2>2, <2>3, <2>4 DEF Init, Pet!Init, PetTypes, Pet!Steps
<1>3. PetAlive /\ Woken
  BY DEF Init, Pet!Init, PetAlive, Woken, Audio!Callers
<1>4. ScreenInv(Pet!Fields)
  BY DEF Init, Pet!Init, Pet!Fields, ScreenInv, ScreenTrue, BankFree, InSequence, Copied, LoadsAside, ResultTrue,
         Pet!NoRequest, Pet!NoResult, Pet!Banks
<1>5. CardAccounted /\ stopping \in BOOLEAN
  BY DEF Init, CardAccounted, Audio!CardReturned
<1> QED
  BY <1>1, <1>2, <1>3, <1>4, <1>5 DEF SafeInv, PetInv

LEMMA SafeUnchanged ==
  ASSUME SafeInv, UNCHANGED vars
  PROVE  SafeInv'
<1>1. PlayerTypes' /\ CardAccounted' /\ stopping' \in BOOLEAN
  BY DEF SafeInv, vars, shared, player, pet, PlayerTypes, Audio!TypeOK, CardAccounted, Audio!CardReturned
<1>2. PetInv'
  BY PetFrame DEF SafeInv, vars, shared, PlayerTypes, Audio!TypeOK
<1> QED
  BY <1>1, <1>2 DEF SafeInv

LEMMA Safe == Spec => []SafeInv
<1>1. Init => SafeInv
  BY SafeInit
<1>2. SafeInv /\ [Next]_vars => SafeInv'
  BY SafeNext, SafeUnchanged
<1> QED
  BY <1>1, <1>2, PTL DEF Spec

-----------------------------------------------------------------------------
(* Theorems                                                                *)

\* Every variable of the player, of the pet and of what they share keeps its
\* type; in particular the sequence numbers stay within the bound on calls.
THEOREM TypeCorrect == Spec => []TypeOK
<1>1. SafeInv => TypeOK
  <2> SUFFICES ASSUME SafeInv
               PROVE  TypeOK
    OBVIOUS
  <2>1. /\ request.seq \in Nat /\ mine.seq \in Nat /\ done.seq \in Nat /\ applied \in Nat
        /\ applied <= done.seq /\ done.seq <= mine.seq /\ mine.seq <= request.seq /\ request.seq <= calls
        /\ calls \in 0..MaxCalls
    BY DEF SafeInv, PetInv, PetTypes, LoaderTypes, ScreenInv, InSequence, Pet!Fields, ScreenFields
  <2>2. /\ request.seq \in Pet!Sequence /\ mine.seq \in Pet!Sequence /\ done.seq \in Pet!Sequence
        /\ applied \in Pet!Sequence
    BY <2>1 DEF Pet!Sequence
  <2>3. request \in Pet!Requests /\ mine \in Pet!Requests /\ done \in Pet!Results
    BY <2>2 DEF SafeInv, PetInv, PetTypes, LoaderTypes, Pet!Fields, ScreenFields, Pet!Requests, Pet!Results
  <2>4. Pet!TypeOK
    BY <2>2, <2>3 DEF SafeInv, PetInv, PetTypes, LoaderTypes, Pet!Fields, ScreenFields, Pet!TypeOK
  <2> QED
    BY <2>4 DEF SafeInv, PlayerTypes, TypeOK
<1> QED
  BY <1>1, Safe, PTL

\* Whatever the audio service does and whoever races, the lock of the card is
\* held by somebody at work on the card (vb_runtime_storage_take, _release).
THEOREM LockAccounted == Spec => []CardAccounted
<1>1. SafeInv => CardAccounted
  BY DEF SafeInv
<1> QED
  BY <1>1, Safe, PTL

\* The pet never shows, or switches to, a bank of another state or half of one,
\* however requests overtake the loader (vb_pet_apply_preload_completion,
\* vb_pet_activate_preloaded_state, vb_pet_preload_worker).
THEOREM PetShowsTruth == Spec => []BanksTrue
<1>1. SafeInv => BanksTrue
  BY DEF SafeInv, PetInv, ScreenInv, ScreenTrue, Pet!Fields, BanksTrue, Pet!BanksTrue
<1> QED
  BY <1>1, Safe, PTL

\* The banks are freed only when the loader has gone (vb_codex_pet_stop).
THEOREM BanksOutlive == Spec => []Pet!BanksOutliveLoader
<1>1. SafeInv => Pet!BanksOutliveLoader
  BY DEF SafeInv, PetInv, PetAlive, Pet!BanksOutliveLoader
<1> QED
  BY <1>1, Safe, PTL

LEMMA PlayerAlone == ASSUME NoRace PROVE Spec => []PlayerInv
<1>1. Init => PlayerInv
  <2> SUFFICES ASSUME Init
               PROVE  PlayerInv
    OBVIOUS
  <2>1. PlayerTypes
    BY SafeInit DEF SafeInv
  <2> QED
    BY <2>1 DEF Init, Audio!Init, PlayerInv, OneWorker, StartsAlone, CodecHeld, Audio!CaptureAlone, Audio!Sources
<1>2. SafeInv /\ PlayerInv /\ [Next]_vars => PlayerInv'
  <2>1. SafeInv /\ PlayerInv /\ Next => PlayerInv'
    BY SafeNext, PlayerStepInv
  <2>2. PlayerInv /\ UNCHANGED vars => PlayerInv'
    BY DEF PlayerInv, vars, shared, player, PlayerTypes, Audio!TypeOK, OneWorker, StartsAlone, CodecHeld,
           Audio!CaptureAlone, Audio!Running
  <2> QED
    BY <2>1, <2>2
<1> QED
  BY <1>1, <1>2, Safe, PTL DEF Spec

\* The codec never records and plays at once, even if the audio service is slow:
\* the reservation is made before the player is waited for
\* (vb_runtime_audio_prepare_capture).
THEOREM CodecAlone == ASSUME NoRace PROVE Spec => []CaptureAlone
<1>1. PlayerInv => CaptureAlone
  BY DEF PlayerInv, CaptureAlone
<1> QED
  BY <1>1, PlayerAlone, PTL

\* Neither cues nor banks are freed while they are read or written, provided a
\* stop gets through to the audio service within the 2 s it waits
\* (vb_runtime_audio_release_codex_cues, vb_runtime_audio_shutdown,
\* vb_codex_pet_stop).
THEOREM MemorySafe == ASSUME NoRace, "slowAudio" \notin Faults PROVE Spec => []MemoryAlive
<1>1. Init => CueInv
  BY DEF Init, Audio!Init, CueInv, Told, ReadsOpen, Audio!CueAlive, Audio!Waiting
<1>2. SafeInv /\ PlayerInv /\ CueInv /\ [Next]_vars => CueInv'
  <2>1. SafeInv /\ PlayerInv /\ CueInv /\ Next => CueInv'
    BY SafeNext, CueStepInv
  <2>2. CueInv /\ UNCHANGED vars => CueInv'
    BY DEF CueInv, vars, shared, player, Told, ReadsOpen, Audio!CueAlive
  <2> QED
    BY <2>1, <2>2
<1>3. SafeInv /\ CueInv => MemoryAlive
  BY DEF SafeInv, PetInv, PetAlive, CueInv, MemoryAlive, Pet!BanksOutliveLoader
<1> QED
  BY <1>1, <1>2, <1>3, Safe, PlayerAlone, PTL DEF Spec
=============================================================================
