---------------------------- MODULE PeerDelivery ----------------------------
(***************************************************************************)
(* Text delivery between two paired boards (vb_peer_link.c): a stop-and-   *)
(* wait protocol with acknowledgements, a bounded number of retries and    *)
(* duplicate suppression by message id, over a BLE connection that drops   *)
(* frames and comes and goes.                                              *)
(*                                                                         *)
(* A board has two threads.  The application thread stores a text in the   *)
(* message ring, saves the ring and wakes the worker (vb_peer_send_text);  *)
(* the worker sends, receives and watches the timers.  A text is named by  *)
(* the number it has among the texts of its board, which tells it apart    *)
(* from another text that carries the same id.                             *)
(***************************************************************************)
EXTENDS Naturals, Sequences

CONSTANTS
  Boards,     \* the two boards
  Capacity,   \* VB_PEER_HISTORY_CAPACITY, entries of the ring
  MaxRetries, \* VB_PEER_MAX_RETRIES
  Senders,    \* bound: the boards whose user sends texts
  MaxTexts,   \* bound: texts a user sends from one board
  MaxFlight,  \* bound: packets the BLE stack queues in one direction
  MaxFaults,  \* bound: lost packets, drops, crashes of one behaviour
  Faults      \* what may go wrong, see FaultKinds

FaultKinds ==
  { "lost",      \* a text or an acknowledgement is dropped
    "helloLost", \* a HELLO is dropped
    "sendFails", \* the stack refuses a packet 20 times
    "drop",      \* the connection is lost
    "saveFails", \* the ring cannot be written to the card
    "crash" }    \* a board is reset

ASSUME ConstantsAssumption ==
  /\ \E a, b \in Boards : a # b /\ Boards = {a, b}
  /\ Senders \subseteq Boards
  /\ Capacity \in Nat \ {0} /\ MaxRetries \in Nat /\ MaxTexts \in Nat
  /\ MaxFlight \in Nat \ {0} /\ MaxFaults \in Nat
  /\ Faults \subseteq FaultKinds

VARIABLES
  ring,     \* history, oldest entry first
  tx,       \* tx_sequence
  disk,     \* what messages.bin holds
  app,      \* the application thread: idle, or about to save
  up,       \* the board sees its connection (peer_connected)
  ready,    \* state == VB_PEER_STATE_READY
  hello,    \* hello_deadline is set
  wake,     \* a SEND_PENDING event is queued
  awaiting, \* awaiting_id, 0 for none
  timer,    \* ack_deadline is set
  retries,
  link,     \* the radio connection
  wire,     \* packets on their way to a board, in order
  said,     \* texts the user of a board has sent so far
  shown,    \* texts a board has added for its user, in that order
  faults    \* faults that have happened

store  == <<ring, tx, disk>>
worker == <<up, ready, hello, wake, awaiting, timer, retries>>
air    == <<link, wire>>
vars   == <<ring, tx, disk, app, up, ready, hello, wake, awaiting, timer,
            retries, link, wire, said, shown, faults>>

Other(b) == CHOOSE c \in Boards : c # b

Ids       == 0..MaxTexts
Statuses  == {"pending", "delivered", "failed", "received"}
Messages  == [id : Ids, out : BOOLEAN, status : Statuses, text : Ids]
Packets   == [type : {"hello", "text", "ack"}, id : Ids, text : Ids]

Hello      == [type |-> "hello", id |-> 0, text |-> 0]
Ack(id)    == [type |-> "ack", id |-> id, text |-> 0]
Text(m)    == [type |-> "text", id |-> m.id, text |-> m.text]
EmptyStore == [ring |-> <<>>, tx |-> 0]

\* vb_peer_history_find_locked and the append to a full ring.
Slots(r, id, out) == {i \in DOMAIN r : r[i].id = id /\ r[i].out = out}
KnownNever(r, id) == FALSE
Known(r, id)      == Slots(r, id, FALSE) # {}
Added(r, m)       == IF Len(r) < Capacity THEN Append(r, m) ELSE Append(Tail(r), m)
Marked(r, id, s)  == [i \in DOMAIN r |->
                       IF i \in Slots(r, id, TRUE) THEN [r[i] EXCEPT !.status = s] ELSE r[i]]
Unsent(r)         == {i \in DOMAIN r : r[i].out /\ r[i].status = "pending"}
Oldest(S)         == CHOOSE i \in S : \A j \in S : i <= j

Init ==
  /\ ring = [b \in Boards |-> <<>>] /\ tx = [b \in Boards |-> 0]
  /\ disk = [b \in Boards |-> EmptyStore]
  /\ app = [b \in Boards |-> "idle"]
  /\ up = [b \in Boards |-> FALSE] /\ ready = [b \in Boards |-> FALSE]
  /\ hello = [b \in Boards |-> FALSE] /\ wake = [b \in Boards |-> FALSE]
  /\ awaiting = [b \in Boards |-> 0] /\ timer = [b \in Boards |-> FALSE]
  /\ retries = [b \in Boards |-> 0]
  /\ link = FALSE /\ wire = [b \in Boards |-> <<>>]
  /\ said = [b \in Boards |-> 0] /\ shown = [b \in Boards |-> <<>>]
  /\ faults = 0

\* A fault of the given kind, within the bound.
Fault(kind) == kind \in Faults /\ faults < MaxFaults /\ faults' = faults + 1

\* Mutant of Save: the snapshot is taken before the ring changes.
SaveEarly(b) ==
  disk' = [disk EXCEPT ![b] = [ring |-> ring[b], tx |-> tx'[b]]] /\ UNCHANGED faults

\* vb_peer_history_save of what the ring and the sequence become.
Save(b) ==
  \/ disk' = [disk EXCEPT ![b] = [ring |-> ring'[b], tx |-> tx'[b]]] /\ UNCHANGED faults
  \/ Fault("saveFails") /\ UNCHANGED disk

\* vb_peer_send_packet: queued in order; on a connection that is gone the
\* packet vanishes.  A full queue makes the sender wait.
Room(b)    == link => Len(wire[Other(b)]) < MaxFlight
Send(b, p) == wire' = [wire EXCEPT ![Other(b)] = IF link THEN Append(@, p) ELSE @]

-----------------------------------------------------------------------------
(* The application thread: vb_peer_send_text                               *)

SendText(b) ==
  /\ app[b] = "idle" /\ b \in Senders /\ said[b] < MaxTexts
  /\ tx' = [tx EXCEPT ![b] = @ + 1]
  /\ said' = [said EXCEPT ![b] = @ + 1]
  /\ ring' = [ring EXCEPT ![b] = Added(@, [id |-> tx[b] + 1, out |-> TRUE,
                                           status |-> "pending", text |-> said[b] + 1])]
  /\ app' = [app EXCEPT ![b] = "save"]
  /\ UNCHANGED <<disk, worker, air, shown, faults>>

\* The new text is saved and the worker woken, whether the save worked or not.
SendSaved(b) ==
  /\ app[b] = "save"
  /\ UNCHANGED <<ring, tx>>
  /\ Save(b)
  /\ app' = [app EXCEPT ![b] = "idle"]
  /\ wake' = [wake EXCEPT ![b] = TRUE]
  /\ UNCHANGED <<up, ready, hello, awaiting, timer, retries, air, said, shown>>

-----------------------------------------------------------------------------
(* The worker                                                              *)

\* ack_deadline, awaiting_id and retries are cleared together.
NotAwaitingKeepsTimer(b) ==
  /\ UNCHANGED timer
  /\ awaiting' = [awaiting EXCEPT ![b] = 0]
  /\ retries' = [retries EXCEPT ![b] = 0]

NotAwaiting(b) ==
  /\ timer' = [timer EXCEPT ![b] = FALSE]
  /\ awaiting' = [awaiting EXCEPT ![b] = 0]
  /\ retries' = [retries EXCEPT ![b] = 0]

\* vb_peer_send_pending with nothing to send, or a text still awaited.
SendNothing(b) ==
  /\ wake[b]
  /\ ~ready[b] \/ timer[b] \/ Unsent(ring[b]) = {}
  /\ wake' = [wake EXCEPT ![b] = FALSE]
  /\ UNCHANGED <<store, app, up, ready, hello, awaiting, timer, retries, air,
                 said, shown, faults>>

\* vb_peer_send_pending: the oldest pending text goes out and is awaited.
SendPending(b) ==
  /\ wake[b] /\ ready[b] /\ ~timer[b] /\ Unsent(ring[b]) # {}
  /\ wake' = [wake EXCEPT ![b] = FALSE]
  /\ LET m == ring[b][Oldest(Unsent(ring[b]))]
     IN \/ /\ Room(b) /\ Send(b, Text(m))
           /\ timer' = [timer EXCEPT ![b] = TRUE]
           /\ awaiting' = [awaiting EXCEPT ![b] = m.id]
           /\ UNCHANGED faults
        \/ /\ Fault("sendFails")
           /\ UNCHANGED <<wire, timer, awaiting>>
  /\ UNCHANGED <<store, app, up, ready, hello, retries, link, said, shown>>

\* hello_deadline: the board says who it is.
SendHello(b) ==
  /\ up[b] /\ hello[b] /\ Room(b)
  /\ hello' = [hello EXCEPT ![b] = FALSE]
  /\ Send(b, Hello)
  /\ UNCHANGED <<store, app, up, ready, wake, awaiting, timer, retries, link,
                 said, shown, faults>>

\* A packet arrives at the worker of b.
Arrives(b, type) == up[b] /\ wire[b] # <<>> /\ wire[b][1].type = type
Taken(b)         == wire' = [wire EXCEPT ![b] = Tail(@)]

\* vb_peer_handle_pair of a paired board: vb_peer_ready.
RecvHello(b) ==
  /\ Arrives(b, "hello") /\ Taken(b)
  /\ ready' = [ready EXCEPT ![b] = TRUE]
  /\ timer' = [timer EXCEPT ![b] = FALSE]
  /\ retries' = [retries EXCEPT ![b] = 0]
  /\ wake' = [wake EXCEPT ![b] = TRUE]
  /\ UNCHANGED <<store, app, up, hello, awaiting, link, said, shown, faults>>

\* vb_peer_handle_text: added unless its id is known, saved, acknowledged.
RecvText(b) ==
  /\ Arrives(b, "text")
  /\ IF ~ready[b]
     THEN Taken(b) /\ UNCHANGED <<store, shown, faults>>
     ELSE LET p == wire[b][1]
          IN /\ Room(b)
             /\ wire' = [wire EXCEPT ![b] = Tail(@),
                                     ![Other(b)] = IF link THEN Append(@, Ack(p.id)) ELSE @]
             /\ UNCHANGED tx
             /\ IF Known(ring[b], p.id)
                THEN UNCHANGED <<ring, disk, shown, faults>>
                ELSE /\ ring' = [ring EXCEPT ![b] =
                                   Added(@, [id |-> p.id, out |-> FALSE,
                                             status |-> "received", text |-> p.text])]
                     /\ shown' = [shown EXCEPT ![b] = Append(@, p.text)]
                     /\ Save(b)
  /\ UNCHANGED <<app, worker, link, said>>

\* The text an acknowledgement is for; the mutant takes the awaited one.
AckedIdAwaited(b) == awaiting[b]
AckedId(b)        == wire[b][1].id

\* vb_peer_handle_ack: a late one also turns a failed text into a delivered one.
RecvAck(b) ==
  /\ Arrives(b, "ack") /\ Taken(b)
  /\ LET id == AckedId(b)
     IN IF Slots(ring[b], id, TRUE) = {}
        THEN UNCHANGED <<store, awaiting, timer, retries, wake, faults>>
        ELSE /\ ring' = [ring EXCEPT ![b] = Marked(@, id, "delivered")]
             /\ UNCHANGED tx
             /\ Save(b)
             /\ wake' = [wake EXCEPT ![b] = TRUE]
             /\ IF awaiting[b] = id
                THEN NotAwaiting(b)
                ELSE UNCHANGED <<awaiting, timer, retries>>
  /\ UNCHANGED <<app, up, ready, hello, link, said, shown>>

\* vb_peer_process_timeouts, ack_deadline: send again ...  The mutant
\* forgets to post SEND_PENDING.
RetriesLeft(b)    == retries[b] < MaxRetries

RetrySilent(b) ==
  /\ ready[b] /\ timer[b] /\ RetriesLeft(b)
  /\ retries' = [retries EXCEPT ![b] = @ + 1]
  /\ timer' = [timer EXCEPT ![b] = FALSE]
  /\ UNCHANGED <<store, app, up, ready, hello, wake, awaiting, air, said, shown, faults>>

Retry(b) ==
  /\ ready[b] /\ timer[b] /\ RetriesLeft(b)
  /\ retries' = [retries EXCEPT ![b] = @ + 1]
  /\ timer' = [timer EXCEPT ![b] = FALSE]
  /\ wake' = [wake EXCEPT ![b] = TRUE]
  /\ UNCHANGED <<store, app, up, ready, hello, awaiting, air, said, shown, faults>>

\* ... or give the text up.
GiveUp(b) ==
  /\ ready[b] /\ timer[b] /\ ~RetriesLeft(b)
  /\ UNCHANGED tx
  /\ IF Slots(ring[b], awaiting[b], TRUE) = {}
     THEN UNCHANGED <<ring, disk, faults>>
     ELSE ring' = [ring EXCEPT ![b] = Marked(@, awaiting[b], "failed")] /\ Save(b)
  /\ NotAwaiting(b)
  /\ wake' = [wake EXCEPT ![b] = TRUE]
  /\ UNCHANGED <<app, up, ready, hello, air, said, shown>>

\* vb_peer_handle_disconnect
HandleDisconnect(b) ==
  /\ up[b] /\ ~link
  /\ up' = [up EXCEPT ![b] = FALSE]
  /\ ready' = [ready EXCEPT ![b] = FALSE]
  /\ NotAwaiting(b)
  /\ UNCHANGED <<store, app, hello, wake, air, said, shown, faults>>

-----------------------------------------------------------------------------
(* The radio and the power supply                                          *)

\* The boards find each other, connect and discover the service.
Connect ==
  /\ ~link /\ \A b \in Boards : ~up[b]
  /\ link' = TRUE
  /\ up' = [b \in Boards |-> TRUE]
  /\ hello' = [b \in Boards |-> TRUE]
  /\ UNCHANGED <<store, app, ready, wake, awaiting, timer, retries, wire, said, shown, faults>>

Drop ==
  /\ link /\ Fault("drop")
  /\ link' = FALSE /\ wire' = [b \in Boards |-> <<>>]
  /\ UNCHANGED <<store, app, worker, said, shown>>

Lose(b) ==
  /\ wire[b] # <<>> /\ Taken(b)
  /\ IF wire[b][1].type = "hello" THEN Fault("helloLost") ELSE Fault("lost")
  /\ UNCHANGED <<store, app, worker, link, said, shown>>

\* Reset: memory is lost and history_load brings back the file.
Crash(b) ==
  /\ Fault("crash")
  /\ UNCHANGED disk
  /\ ring' = [ring EXCEPT ![b] = disk[b].ring]
  /\ tx' = [tx EXCEPT ![b] = disk[b].tx]
  /\ app' = [app EXCEPT ![b] = "idle"]
  /\ up' = [up EXCEPT ![b] = FALSE] /\ ready' = [ready EXCEPT ![b] = FALSE]
  /\ hello' = [hello EXCEPT ![b] = FALSE] /\ wake' = [wake EXCEPT ![b] = FALSE]
  /\ awaiting' = [awaiting EXCEPT ![b] = 0] /\ timer' = [timer EXCEPT ![b] = FALSE]
  /\ retries' = [retries EXCEPT ![b] = 0]
  /\ link' = FALSE /\ wire' = [c \in Boards |-> <<>>]
  /\ UNCHANGED <<said, shown>>

Worker(b) ==
  \/ SendNothing(b) \/ SendPending(b) \/ SendHello(b)
  \/ RecvHello(b) \/ RecvText(b) \/ RecvAck(b)
  \/ Retry(b) \/ GiveUp(b) \/ HandleDisconnect(b)

Next ==
  \/ \E b \in Boards : SendText(b) \/ SendSaved(b) \/ Worker(b) \/ Lose(b) \/ Crash(b)
  \/ Connect \/ Drop

Spec == Init /\ [][Next]_vars

\* The threads run, the radio connects when both boards look for each other.
Fairness ==
  /\ \A b \in Boards : WF_vars(SendSaved(b)) /\ WF_vars(Worker(b))
  /\ WF_vars(Connect)

FairSpec == Spec /\ Fairness

-----------------------------------------------------------------------------
(* Properties                                                              *)

TextsOf(b) == {shown[b][i] : i \in DOMAIN shown[b]}

StoreTypes ==
  /\ ring \in [Boards -> Seq(Messages)]
  /\ tx \in [Boards -> Ids]
  /\ disk \in [Boards -> [ring : Seq(Messages), tx : Ids]]
  /\ \A b \in Boards : Len(ring[b]) <= Capacity /\ Len(disk[b].ring) <= Capacity

WorkerTypes ==
  /\ app \in [Boards -> {"idle", "save"}]
  /\ up \in [Boards -> BOOLEAN] /\ ready \in [Boards -> BOOLEAN]
  /\ hello \in [Boards -> BOOLEAN] /\ wake \in [Boards -> BOOLEAN]
  /\ awaiting \in [Boards -> Ids] /\ timer \in [Boards -> BOOLEAN]
  /\ retries \in [Boards -> 0..MaxRetries]

AirTypes == link \in BOOLEAN /\ wire \in [Boards -> Seq(Packets)]

\* The values the variables range over; the ring never outgrows its capacity.
TypeOK ==
  /\ StoreTypes /\ WorkerTypes /\ AirTypes
  /\ said \in [Boards -> Ids] /\ shown \in [Boards -> Seq(Ids)]
  /\ faults \in 0..MaxFaults

\* The user of a board sees the texts of the other board in the order in which
\* they were sent, and none of them twice, whatever is retried.
ShownInOrder ==
  \A b \in Boards : \A i, j \in DOMAIN shown[b] : i < j => shown[b][i] < shown[b][j]

\* A text its sender shows as delivered was added for the user of the other
\* board.
DeliveredReceived ==
  \A b \in Boards : \A i \in DOMAIN ring[b] :
    ring[b][i].out /\ ring[b][i].status = "delivered" => ring[b][i].text \in TextsOf(Other(b))

\* "A complete text is persisted before ACK": while an acknowledgement is under
\* way or has been counted, the file of the board that sent it holds the text.
PersistedBeforeAck ==
  \A b \in Boards :
    /\ \A i \in DOMAIN wire[b] :
         wire[b][i].type = "ack" => Known(disk[Other(b)].ring, wire[b][i].id)
    /\ \A i \in DOMAIN ring[b] :
         ring[b][i].out /\ ring[b][i].status = "delivered"
           => Known(disk[Other(b)].ring, ring[b][i].id)

\* The acknowledgement timer always watches a text that is still pending.
TimerHasText ==
  \A b \in Boards : timer[b] =>
    \E i \in Unsent(ring[b]) : ring[b][i].id = awaiting[b]

\* A text stays pending no longer than the connection allows: it is delivered or
\* given up in the end.
Pending(b, n) == \E i \in Unsent(ring[b]) : ring[b][i].text = n
EveryTextSettles ==
  \A b \in Boards : \A n \in 1..MaxTexts : Pending(b, n) ~> ~Pending(b, n)

-----------------------------------------------------------------------------
(* What the link promises: see TextDelivery.                               *)

Status(b, n) ==
  IF \E i \in DOMAIN ring[b] : ring[b][i].out /\ ring[b][i].text = n
  THEN ring[b][CHOOSE i \in DOMAIN ring[b] : ring[b][i].out /\ ring[b][i].text = n].status
  ELSE "unsent"

Promise == INSTANCE TextDelivery WITH
  status <- [b \in Boards |-> [n \in 1..MaxTexts |-> Status(b, n)]],
  inbox  <- shown

\* While the ring has room for every text and no board is reset, the protocol
\* implements TextDelivery: a text is shown at most once and in order, is
\* delivered only after it was shown, and delivered is final.
Delivers == Promise!Spec

=============================================================================
