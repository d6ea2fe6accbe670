---------------------------- MODULE PeerPairing ----------------------------
(***************************************************************************)
(* How boards pair (vb_peer_link.c).  Within a window both users open, the *)
(* boards connect, exchange a nonce in a HELLO, show a code computed from  *)
(* both addresses and nonces, and commit when both users have confirmed.   *)
(* A paired board only connects to its peer, and is ready after a HELLO    *)
(* from it.  How boards find each other is PeerDiscovery, what a ready     *)
(* link carries is PeerDelivery.                                           *)
(*                                                                         *)
(* The worker takes one event at a time; a second thread runs the commands *)
(* of the user.  Both can commit, in two steps: the pairing in memory, and *)
(* its file.  A nonce is the number of the window of its board.            *)
(***************************************************************************)
EXTENDS Naturals, Sequences, FiniteSets

CONSTANTS
  Boards,     \* addresses; the lower one of two connects
  Nobody,     \* the address of no board, all zeros in the code
  MaxWindows, \* bound: pairing windows a user opens on one board
  MaxFaults,  \* bound: drops and crashes of one behaviour
  MaxFlight,  \* bound: packets under way in one direction
  Acts,       \* what users may do besides opening a window and confirming
  Faults      \* what may go wrong, see FaultKinds

ActKinds   == {"cancel", "expire", "forget", "switch"}
FaultKinds ==
  { "drop",           \* a connection is lost
    "crash",          \* a board is reset
    "saveFails",      \* the pair file cannot be written
    "forgetInCommit" } \* a user forgets the peer while the worker commits

ASSUME PairingAssumption ==
  /\ Boards \subseteq Nat \ {0} /\ IsFiniteSet(Boards)
  /\ Nobody \in Nat \ ({0} \cup Boards)
  /\ MaxWindows \in Nat \ {0} /\ MaxFaults \in Nat /\ MaxFlight \in Nat \ {0}
  /\ Acts \subseteq ActKinds /\ Faults \subseteq FaultKinds

VARIABLES
  on,      \* enabled
  pairing, \* the window is open
  mine,    \* local_confirmed
  theirs,  \* remote_confirmed
  nonce,   \* local_nonce
  remote,  \* remote_nonce, 0 for none
  code,    \* pairing_code, {} for none
  paired,  \* the address a board is paired with in memory, 0 for none
  file,    \* the address in pair.bin, 0 for none
  conn,    \* the board at the other end of peer_connected, 0 for none
  open,    \* client_ready of the central, notify_cccd of the peripheral
  hello,   \* hello_deadline is set
  ready,   \* state == VB_PEER_STATE_READY
  save,    \* the threads that have yet to write the pair file
  call,    \* where the command thread is inside confirm or forget
  links,   \* connections of the radio, <<central, peripheral>>
  closing, \* those a board has asked the stack to close
  news,    \* a CONNECTED event is queued
  wire,    \* packets on their way to a board, in order
  pressed, \* history: the codes the user of a board has confirmed
  faults   \* faults that have happened

window  == <<pairing, mine, theirs, nonce, remote, code>>
store   == <<paired, file>>
session == <<conn, open, hello, ready>>
threads == <<save, call>>
air     == <<links, closing, news, wire>>
vars    == <<on, window, store, session, threads, air, pressed, faults>>

NoCode == {}
Threads == {"worker", "command"}
Calls   == {"idle", "send", "commit", "unlink", "clear"}
Nonces  == 0..MaxWindows
Packets == [type : {"hello", "confirm", "cancel", "cccd"}, from : Boards,
            nonce : Nonces, sure : BOOLEAN]
Codes   == {NoCode} \cup {{x, y} : x, y \in Boards \X Nonces}

\* vb_peer_compute_pairing_code: both boards compute it from the same data.
\* The mutant has not noted the nonce of the other board yet.
CodeOfEarly(b, n, c, m) == {<<b, n>>, <<c, 0>>}
CodeOf(b, n, c, m) == {<<b, n>>, <<c, m>>}

Ends(l)    == {l[1], l[2]}
Linked(b)  == \E l \in links : b \in Ends(l)
LinkOf(b)  == CHOOSE l \in links : b \in Ends(l)
FarEnd(b)  == CHOOSE c \in Ends(LinkOf(b)) : c # b
Central(b) == LinkOf(b)[1] = b

Init ==
  /\ on = [b \in Boards |-> FALSE]
  /\ pairing = [b \in Boards |-> FALSE] /\ mine = [b \in Boards |-> FALSE]
  /\ theirs = [b \in Boards |-> FALSE] /\ nonce = [b \in Boards |-> 0]
  /\ remote = [b \in Boards |-> 0] /\ code = [b \in Boards |-> NoCode]
  /\ paired = [b \in Boards |-> 0] /\ file = [b \in Boards |-> 0]
  /\ conn = [b \in Boards |-> 0] /\ open = [b \in Boards |-> FALSE]
  /\ hello = [b \in Boards |-> FALSE] /\ ready = [b \in Boards |-> FALSE]
  /\ save = [b \in Boards |-> {}] /\ call = [b \in Boards |-> "idle"]
  /\ links = {} /\ closing = {} /\ news = [b \in Boards |-> FALSE]
  /\ wire = [b \in Boards |-> <<>>]
  /\ pressed = [b \in Boards |-> {}] /\ faults = 0

Fault(kind) == kind \in Faults /\ faults < MaxFaults /\ faults' = faults + 1

\* vb_peer_send_pair of the given packets: a board whose channel is not open
\* gives up after 20 tries, and on a link that is gone a packet vanishes.
Packet(b, type, n, sure) == [type |-> type, from |-> b, nonce |-> n, sure |-> sure]
Reaches(b) == conn[b] # 0 /\ open[b] /\ Linked(b)
Sent(w, b, ps) ==
  IF Reaches(b) THEN [w EXCEPT ![conn[b]] = @ \o ps] ELSE w
Room(b)    == Reaches(b) => Len(wire[conn[b]]) < MaxFlight
Say(b, ps) == wire' = Sent(wire, b, ps)

\* vb_peer_disconnect
Disconnect(b) == closing' = IF conn[b] # 0 /\ Linked(b) THEN closing \cup {LinkOf(b)} ELSE closing

\* The window is closed and what was agreed in it forgotten.
CloseWindow(b) ==
  /\ pairing' = [pairing EXCEPT ![b] = FALSE]
  /\ mine' = [mine EXCEPT ![b] = FALSE] /\ theirs' = [theirs EXCEPT ![b] = FALSE]
  /\ code' = [code EXCEPT ![b] = NoCode]
  /\ UNCHANGED <<nonce, remote>>

-----------------------------------------------------------------------------
(* Commands of the user                                                    *)

\* The command thread has finished what it was told before.
Idle(b) == call[b] = "idle" /\ "command" \notin save[b]

\* vb_peer_enable
SwitchOn(b) ==
  /\ "switch" \in Acts /\ Idle(b) /\ ~on[b]
  /\ on' = [on EXCEPT ![b] = TRUE] /\ ready' = [ready EXCEPT ![b] = FALSE]
  /\ UNCHANGED <<window, store, conn, open, hello, threads, air, pressed, faults>>

SwitchOff(b) ==
  /\ "switch" \in Acts /\ Idle(b) /\ on[b]
  /\ on' = [on EXCEPT ![b] = FALSE] /\ ready' = [ready EXCEPT ![b] = FALSE]
  /\ pairing' = [pairing EXCEPT ![b] = FALSE]
  /\ Disconnect(b)
  /\ UNCHANGED <<mine, theirs, nonce, remote, code, store, conn, open, hello, threads,
                 links, news, wire, pressed, faults>>

\* vb_peer_pair_start switches the board on; a connection stays up.
PairStart(b) ==
  /\ Idle(b) /\ paired[b] = 0 /\ nonce[b] < MaxWindows
  /\ on' = [on EXCEPT ![b] = TRUE] /\ ready' = [ready EXCEPT ![b] = FALSE]
  /\ pairing' = [pairing EXCEPT ![b] = TRUE]
  /\ mine' = [mine EXCEPT ![b] = FALSE] /\ theirs' = [theirs EXCEPT ![b] = FALSE]
  /\ remote' = [remote EXCEPT ![b] = 0] /\ code' = [code EXCEPT ![b] = NoCode]
  /\ nonce' = [nonce EXCEPT ![b] = @ + 1]
  /\ UNCHANGED <<store, conn, open, hello, threads, air, pressed, faults>>

\* vb_peer_pair_confirm: the decision ...
ConfirmMark(b) ==
  /\ Idle(b) /\ pairing[b] /\ code[b] # NoCode
  /\ mine' = [mine EXCEPT ![b] = TRUE]
  /\ pressed' = [pressed EXCEPT ![b] = @ \cup {code[b]}]
  /\ call' = [call EXCEPT ![b] = "send"]
  /\ UNCHANGED <<on, pairing, theirs, nonce, remote, code, store, session, save, air, faults>>

\* ... is sent, unless the channel is not open yet, which ends the command ...
ConfirmSend(b) ==
  /\ call[b] = "send" /\ Room(b)
  /\ IF conn[b] # 0 THEN Say(b, <<Packet(b, "confirm", nonce[b], mine[b])>>) ELSE UNCHANGED wire
  /\ call' = [call EXCEPT ![b] = IF conn[b] # 0 /\ ~open[b] THEN "idle" ELSE "commit"]
  /\ UNCHANGED <<on, window, store, session, save, links, closing, news, pressed, faults>>

\* ... and the pairing committed when the other user has confirmed.  The mutant
\* does not wait for that.
MayCommitAlone(b) == conn[b] # 0
MayCommit(b)      == conn[b] # 0 /\ theirs[b]

ConfirmCommit(b) ==
  /\ call[b] = "commit"
  /\ call' = [call EXCEPT ![b] = "idle"]
  /\ IF MayCommit(b)
     THEN /\ paired' = [paired EXCEPT ![b] = conn[b]]
          /\ save' = [save EXCEPT ![b] = @ \cup {"command"}]
     ELSE UNCHANGED <<paired, save>>
  /\ UNCHANGED <<on, window, file, session, air, pressed, faults>>

\* vb_peer_pair_cancel
Cancels(b) ==
  /\ Room(b)
  /\ IF conn[b] # 0 THEN Say(b, <<Packet(b, "cancel", nonce[b], mine[b])>>) ELSE UNCHANGED wire
  /\ CloseWindow(b)
  /\ Disconnect(b)
  /\ ready' = [ready EXCEPT ![b] = @ /\ ~on[b]]
  /\ UNCHANGED <<on, conn, open, hello, links, news, pressed, faults>>

Cancel(b) ==
  /\ "cancel" \in Acts /\ Idle(b) /\ pairing[b]
  /\ Cancels(b)
  /\ UNCHANGED <<store, threads>>

\* The worker closes a window that has been open for too long.
Expire(b) ==
  /\ "expire" \in Acts /\ "worker" \notin save[b] /\ on[b] /\ pairing[b]
  /\ Cancels(b)
  /\ UNCHANGED <<store, threads>>

\* vb_peer_forget: cancel, unlink the file, clear the memory.  The mutant leaves
\* the file.
Forget(b) ==
  /\ "forget" \in Acts /\ Idle(b) /\ paired[b] # 0
  /\ "forgetInCommit" \notin Faults => save[b] = {}
  /\ Cancels(b)
  /\ call' = [call EXCEPT ![b] = "unlink"]
  /\ UNCHANGED <<store, save>>

ForgetKeepsFile(b) ==
  /\ call[b] = "unlink"
  /\ call' = [call EXCEPT ![b] = "clear"]
  /\ UNCHANGED <<on, window, store, session, save, air, pressed, faults>>

ForgetUnlink(b) ==
  /\ call[b] = "unlink"
  /\ file' = [file EXCEPT ![b] = 0]
  /\ call' = [call EXCEPT ![b] = "clear"]
  /\ UNCHANGED <<on, window, paired, session, save, air, pressed, faults>>

ForgetClear(b) ==
  /\ call[b] = "clear"
  /\ paired' = [paired EXCEPT ![b] = 0]
  /\ ready' = [ready EXCEPT ![b] = FALSE]
  /\ call' = [call EXCEPT ![b] = "idle"]
  /\ UNCHANGED <<on, window, file, conn, open, hello, save, air, pressed, faults>>

-----------------------------------------------------------------------------
(* The worker and the commit                                               *)

\* vb_peer_ready
Readies(b) ==
  /\ pairing' = [pairing EXCEPT ![b] = FALSE]
  /\ ready' = [ready EXCEPT ![b] = TRUE]

\* vb_peer_commit_pair after the pairing was set in memory: pair_save, ready.
\* What vb_peer_forget has cleared meanwhile is written as it is.
CommitSave(b, t) ==
  /\ t \in save[b]
  /\ save' = [save EXCEPT ![b] = @ \ {t}]
  /\ \/ file' = [file EXCEPT ![b] = IF paired[b] = 0 THEN Nobody ELSE paired[b]] /\ Readies(b) /\ UNCHANGED faults
     \/ Fault("saveFails") /\ ready' = [ready EXCEPT ![b] = FALSE] /\ UNCHANGED <<file, pairing>>
  /\ UNCHANGED <<on, mine, theirs, nonce, remote, code, paired, conn, open, hello, call, air, pressed>>

Free(b)       == "worker" \notin save[b]
Due(b)        == Free(b) /\ ~news[b] /\ wire[b] # <<>>
Arrives(b, T) == Due(b) /\ conn[b] = Head(wire[b]).from /\ Head(wire[b]).type \in T
Rest(b)       == [wire EXCEPT ![b] = Tail(@)]

\* A frame of a connection the board does not track.
RecvStray(b) ==
  /\ Due(b) /\ conn[b] # Head(wire[b]).from
  /\ wire' = Rest(b)
  /\ UNCHANGED <<on, window, store, session, threads, links, closing, news, pressed, faults>>

\* VB_PEER_EVT_CCCD: the other board listens.
RecvSubscribed(b) ==
  /\ Arrives(b, {"cccd"}) /\ wire' = Rest(b)
  /\ open' = [open EXCEPT ![b] = TRUE] /\ hello' = [hello EXCEPT ![b] = TRUE]
  /\ UNCHANGED <<on, window, store, conn, ready, threads, links, closing, news, pressed, faults>>

RecvCancel(b) ==
  /\ Arrives(b, {"cancel"}) /\ wire' = Rest(b)
  /\ CloseWindow(b)
  /\ Disconnect(b)
  /\ ready' = [ready EXCEPT ![b] = @ /\ ~on[b]]
  /\ UNCHANGED <<on, store, conn, open, hello, threads, links, news, pressed, faults>>

\* The nonce and the decision of the other board are noted in any case.  The
\* mutant reads the decision from the flag of a HELLO alone.
NotesHello(b, p) ==
  /\ remote' = [remote EXCEPT ![b] = p.nonce]
  /\ theirs' = [theirs EXCEPT ![b] = @ \/ (p.type = "hello" /\ p.sure)]

Notes(b, p) ==
  /\ remote' = [remote EXCEPT ![b] = p.nonce]
  /\ theirs' = [theirs EXCEPT ![b] = @ \/ p.type = "confirm" \/ p.sure]

\* vb_peer_handle_pair of a board that is paired, or not pairing.  The mutant
\* does not compare the sender with the peer.
TrustsAll(b) == TRUE
Trusts(b)    == paired[b] = conn[b]

RecvPairNoted(b) ==
  /\ Arrives(b, {"hello", "confirm"}) /\ wire' = Rest(b)
  /\ paired[b] # 0 \/ ~pairing[b]
  /\ Notes(b, Head(wire[b]))
  /\ IF Trusts(b) THEN Readies(b) ELSE UNCHANGED <<pairing, ready>>
  /\ UNCHANGED <<on, mine, nonce, code, store, conn, open, hello, threads, links, closing, news,
                 pressed, faults>>

\* The answers to a packet within the window.
Answers(b, p) ==
  (IF p.type = "hello" /\ remote[b] = 0 THEN <<Packet(b, "hello", nonce[b], mine[b])>> ELSE <<>>)
  \o (IF mine[b] THEN <<Packet(b, "confirm", nonce[b], TRUE)>> ELSE <<>>)

\* vb_peer_handle_pair within the window: the code, the answers, the commit.
RecvPair(b) ==
  /\ Arrives(b, {"hello", "confirm"})
  /\ paired[b] = 0 /\ pairing[b]
  /\ LET p == Head(wire[b])
     IN /\ Notes(b, p)
        /\ code' = [code EXCEPT ![b] = CodeOf(b, nonce[b], p.from, p.nonce)]
        /\ wire' = Sent(Rest(b), b, Answers(b, p))
        /\ IF mine[b] /\ theirs'[b]
           THEN /\ paired' = [paired EXCEPT ![b] = conn[b]]
                /\ save' = [save EXCEPT ![b] = @ \cup {"worker"}]
           ELSE UNCHANGED <<paired, save>>
  /\ ready' = [ready EXCEPT ![b] = FALSE]
  /\ UNCHANGED <<on, pairing, mine, nonce, file, conn, open, hello, call, links, closing, news,
                 pressed, faults>>

\* vb_peer_accept_connection; a connection that is not wanted stays up.
Wanted(b) ==
  /\ on[b] /\ conn[b] = 0
  /\ paired[b] = FarEnd(b) \/ pairing[b] \/ Central(b)

Accept(b) ==
  /\ Free(b) /\ news[b] /\ Linked(b)
  /\ news' = [news EXCEPT ![b] = FALSE]
  /\ IF Wanted(b)
     THEN /\ conn' = [conn EXCEPT ![b] = FarEnd(b)]
          /\ hello' = [hello EXCEPT ![b] = FALSE]
          /\ ready' = [ready EXCEPT ![b] = FALSE]
     ELSE UNCHANGED <<conn, hello, ready>>
  /\ UNCHANGED <<on, window, store, open, threads, links, closing, wire, pressed, faults>>

\* vb_peer_client_ready: the central has found the service and subscribes.
Subscribe(b) ==
  /\ Free(b) /\ conn[b] # 0 /\ ~open[b] /\ Linked(b) /\ Central(b)
  /\ Len(wire[conn[b]]) < MaxFlight
  /\ open' = [open EXCEPT ![b] = TRUE] /\ hello' = [hello EXCEPT ![b] = TRUE]
  /\ wire' = [wire EXCEPT ![conn[b]] = Append(@, Packet(b, "cccd", 0, FALSE))]
  /\ UNCHANGED <<on, window, store, conn, ready, threads, links, closing, news, pressed, faults>>

\* hello_deadline
SendHello(b) ==
  /\ Free(b) /\ on[b] /\ conn[b] # 0 /\ hello[b] /\ Room(b)
  /\ hello' = [hello EXCEPT ![b] = FALSE]
  /\ Say(b, <<Packet(b, "hello", nonce[b], mine[b])>>)
  /\ UNCHANGED <<on, window, store, conn, open, ready, threads, links, closing, news, pressed, faults>>

\* vb_peer_handle_disconnect; the mutant takes the channel for open for ever.
HandleDisconnectStale(b) ==
  /\ Free(b) /\ conn[b] # 0 /\ ~Linked(b) /\ wire[b] = <<>>
  /\ conn' = [conn EXCEPT ![b] = 0] /\ ready' = [ready EXCEPT ![b] = FALSE]
  /\ UNCHANGED <<on, window, store, open, hello, threads, air, pressed, faults>>

HandleDisconnect(b) ==
  /\ Free(b) /\ conn[b] # 0 /\ ~Linked(b) /\ wire[b] = <<>>
  /\ conn' = [conn EXCEPT ![b] = 0]
  /\ open' = [open EXCEPT ![b] = FALSE] /\ ready' = [ready EXCEPT ![b] = FALSE]
  /\ UNCHANGED <<on, window, store, hello, threads, air, pressed, faults>>

-----------------------------------------------------------------------------
(* The radio and the power supply                                          *)

\* vb_peer_handle_adv of the board that connects: the flags the other board
\* advertises say paired or pairable, not with whom.  Both workers have handled
\* what came of the connection before.
Sees(c, p) ==
  IF paired[c] # 0 THEN paired[c] = p /\ paired[p] # 0 ELSE pairing[c] /\ pairing[p]

Connect(c, p) ==
  /\ c < p
  /\ \A b \in {c, p} : on[b] /\ conn[b] = 0 /\ wire[b] = <<>> /\ ~Linked(b)
  /\ Sees(c, p)
  /\ links' = links \cup {<<c, p>>}
  /\ news' = [news EXCEPT ![c] = TRUE, ![p] = TRUE]
  /\ UNCHANGED <<on, window, store, session, threads, closing, wire, pressed, faults>>

\* A connection ends; frames that have arrived are still handled, or are lost.
LinkDown(l) ==
  /\ links' = links \ {l} /\ closing' = closing \ {l}
  /\ news' = [b \in Boards |-> news[b] /\ b \notin Ends(l)]
  /\ \E kept \in SUBSET Ends(l) :
       wire' = [b \in Boards |-> IF b \in Ends(l) \ kept THEN <<>> ELSE wire[b]]
  /\ UNCHANGED <<on, window, store, session, threads, pressed>>

Closed(l)  == l \in closing /\ LinkDown(l) /\ UNCHANGED faults
Drop(l)    == l \in links \ closing /\ Fault("drop") /\ LinkDown(l)

\* Reset: memory is lost and vb_peer_pair_load brings back the file.
Crash(b) ==
  /\ Fault("crash")
  /\ on' = [on EXCEPT ![b] = FALSE]
  /\ pairing' = [pairing EXCEPT ![b] = FALSE] /\ mine' = [mine EXCEPT ![b] = FALSE]
  /\ theirs' = [theirs EXCEPT ![b] = FALSE] /\ remote' = [remote EXCEPT ![b] = 0]
  /\ code' = [code EXCEPT ![b] = NoCode] /\ UNCHANGED nonce
  /\ paired' = [paired EXCEPT ![b] = file[b]] /\ UNCHANGED file
  /\ conn' = [conn EXCEPT ![b] = 0] /\ open' = [open EXCEPT ![b] = FALSE]
  /\ hello' = [hello EXCEPT ![b] = FALSE] /\ ready' = [ready EXCEPT ![b] = FALSE]
  /\ save' = [save EXCEPT ![b] = {}] /\ call' = [call EXCEPT ![b] = "idle"]
  /\ LET gone == {l \in links : b \in Ends(l)}
     IN /\ links' = links \ gone /\ closing' = closing \ gone
        /\ news' = [c \in Boards |-> news[c] /\ \A l \in gone : c \notin Ends(l)]
  /\ wire' = [wire EXCEPT ![b] = <<>>]
  /\ UNCHANGED pressed

User(b) ==
  \/ SwitchOn(b) \/ SwitchOff(b) \/ PairStart(b) \/ ConfirmMark(b) \/ Cancel(b) \/ Forget(b)
Running(b) ==
  \/ ConfirmSend(b) \/ ConfirmCommit(b) \/ ForgetUnlink(b) \/ ForgetClear(b)
  \/ \E t \in Threads : CommitSave(b, t)
Receive(b) ==
  RecvStray(b) \/ RecvSubscribed(b) \/ RecvCancel(b) \/ RecvPairNoted(b) \/ RecvPair(b)
Worker(b) ==
  Receive(b) \/ Accept(b) \/ Subscribe(b) \/ SendHello(b) \/ HandleDisconnect(b)

Next ==
  \/ \E b \in Boards : User(b) \/ Running(b) \/ Worker(b) \/ Expire(b) \/ Crash(b)
  \/ \E c, p \in Boards : Connect(c, p)
  \/ \E l \in links : Closed(l) \/ Drop(l)

Spec == Init /\ [][Next]_vars

\* The threads run, the stack closes what it was asked to close, and boards
\* that look for each other find each other.  Users need not do anything.
Fairness ==
  /\ \A b \in Boards :
       /\ WF_vars(ConfirmSend(b)) /\ WF_vars(ConfirmCommit(b))
       /\ WF_vars(ForgetUnlink(b)) /\ WF_vars(ForgetClear(b))
       /\ \A t \in Threads : WF_vars(CommitSave(b, t))
       /\ WF_vars(Receive(b)) /\ WF_vars(Accept(b)) /\ WF_vars(Subscribe(b))
       /\ WF_vars(SendHello(b)) /\ WF_vars(HandleDisconnect(b))
  /\ WF_vars(\E c, p \in Boards : Connect(c, p))
  /\ WF_vars(\E l \in links : Closed(l))

FairSpec == Spec /\ Fairness

-----------------------------------------------------------------------------
(* Properties                                                              *)

WindowTypes ==
  /\ on \in [Boards -> BOOLEAN] /\ pairing \in [Boards -> BOOLEAN]
  /\ mine \in [Boards -> BOOLEAN] /\ theirs \in [Boards -> BOOLEAN]
  /\ nonce \in [Boards -> Nonces] /\ remote \in [Boards -> Nonces]
  /\ code \in [Boards -> Codes] /\ pressed \in [Boards -> SUBSET Codes]

BoardTypes ==
  /\ paired \in [Boards -> Boards \cup {0, Nobody}] /\ file \in [Boards -> Boards \cup {0, Nobody}]
  /\ conn \in [Boards -> Boards \cup {0}] /\ open \in [Boards -> BOOLEAN]
  /\ hello \in [Boards -> BOOLEAN] /\ ready \in [Boards -> BOOLEAN]
  /\ save \in [Boards -> SUBSET Threads] /\ call \in [Boards -> Calls]

\* A connection is between two boards, the one with the lower address central.
AirTypes ==
  /\ links \subseteq {l \in Boards \X Boards : l[1] < l[2]} /\ closing \subseteq links
  /\ news \in [Boards -> BOOLEAN] /\ wire \in [Boards -> Seq(Packets)]

TypeOK == WindowTypes /\ BoardTypes /\ AirTypes /\ faults \in 0..MaxFaults

\* "Pair confirmation prevents accidental association with another nearby
\* board": a board is paired only with a board whose user has confirmed a code
\* of the two, as its own user has.
Agreed(b, c) == \E k \in pressed[b] : \E x, y \in k : x[1] = b /\ y[1] = c
BothConfirmed ==
  \A b \in Boards : paired[b] # 0 => Agreed(b, paired[b]) /\ Agreed(paired[b], b)

\* ... and it was one and the same code on both screens.
SameCode == \A b \in Boards : paired[b] # 0 =>
  \E k \in pressed[b] \cap pressed[paired[b]] : \E x, y \in k : x[1] = b /\ y[1] = paired[b]

\* No thread is about to change the file.
Quiet(b) == save[b] = {} /\ call[b] \notin {"unlink", "clear"}

\* What a board remembers after a reset is what it believes now, as long as
\* no attempt to write the file has failed.
Written == faults = 0 \/ "saveFails" \notin Faults
FileIsMemory == Written => \A b \in Boards : Quiet(b) => file[b] = paired[b]

\* A ready board talks to the board it is paired with, over a connection whose
\* other end has not been taken by a third board.
ReadyWithPeer == \A b \in Boards : ready[b] /\ conn[b] # 0 => paired[b] = conn[b]

\* When both users have confirmed the same code the boards are both paired in
\* the end, unless a window is closed or a connection lost before that: a board
\* that has committed no longer looks like one to pair with.
Abandoned(b) == ~pairing[b] /\ paired[b] = 0
PairingCompletes ==
  \A b, c \in Boards : b < c =>
    (pressed[b] \cap pressed[c] # {} ~>
       \/ paired[b] = c /\ paired[c] = b
       \/ Abandoned(b) \/ Abandoned(c) \/ faults > 0)

\* Paired boards that are switched on get ready, unless they are switched off,
\* forget each other, or a connection stays that one of them turned away.
Couple(b, c) == paired[b] = c /\ paired[c] = b /\ on[b] /\ on[c]
Refused(b)   == Linked(b) /\ ~news[b] /\ conn[b] = 0
CoupleReady ==
  \A b, c \in Boards : b < c =>
    (Couple(b, c) ~> (ready[b] /\ ready[c]) \/ ~Couple(b, c) \/ Refused(b) \/ Refused(c))
=============================================================================
