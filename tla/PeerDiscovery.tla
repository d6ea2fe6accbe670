--------------------------- MODULE PeerDiscovery ---------------------------
(***************************************************************************)
(* How a paired board finds the other one again (vb_peer_link.c): it scans *)
(* in rounds, remembers the advertiser it saw, and the board of the lower  *)
(* address stops its scan and connects.  Every round ends in a deadline    *)
(* that starts the next one; a round that ends without one leaves the      *)
(* board silent until its user switches the link off and on.               *)
(*                                                                         *)
(* Three threads take part: the worker (events from its mailbox, then the  *)
(* deadlines), the BLE stack (posts events; confirms a scan in its own     *)
(* thread) and the application (enable, disable, cancel).  Deadlines are   *)
(* booleans: a deadline that is set may be due at any later moment.        *)
(***************************************************************************)
EXTENDS Naturals, Sequences

CONSTANTS
  Capacity, \* events the mailbox of the worker holds (24 in the code)
  Faults    \* what may go wrong, see FaultKinds

FaultKinds ==
  { "scanRefused",   \* the stack refuses or fails to start a scan
    "createRefused", \* the stack refuses to open a connection
    "overflow" }     \* an event is posted to a full mailbox

ASSUME DiscoveryAssumption == Capacity \in Nat \ {0} /\ Faults \subseteq FaultKinds

VARIABLES
  lower,      \* this board has the lower address: it connects
  enabled,
  power,      \* power_on
  connected,  \* peer_connected
  scanning,   \* the flag of that name
  candidate,  \* candidate_tick is set
  pending,    \* pending_connect
  connecting,
  reconnect,  \* reconnect_deadline is set
  mail,       \* events the worker has not handled, oldest first
  lit,        \* the radio has announced that it is on
  radio,      \* the scanner of the stack
  attempt,    \* the stack is opening a connection
  link,       \* the connection exists in the stack
  hurt        \* history: a fault that nothing has made good yet

flags == <<enabled, power, connected, scanning, candidate, pending, connecting, reconnect>>
stack == <<lit, radio, attempt, link>>
vars  == <<lower, flags, mail, stack, hurt>>

Events      == {"power", "adv", "connected", "disconnected", "scanStopped"}
RadioStates == {"off", "starting", "on", "stopping"}
Hurts       == {"no", "round", "mail"} \* none, a refused request, a lost event

Queued(e) == \E i \in DOMAIN mail : mail[i] = e

Init ==
  /\ lower \in BOOLEAN
  /\ enabled = FALSE /\ power = FALSE /\ connected = FALSE /\ scanning = FALSE
  /\ candidate = FALSE /\ pending = FALSE /\ connecting = FALSE /\ reconnect = FALSE
  /\ mail = <<>>
  /\ lit = FALSE /\ radio = "off" /\ attempt = FALSE /\ link = FALSE
  /\ hurt = "no"

\* vb_peer_post.  Without the fault the worker drains the mailbox in time.
Post(e) ==
  \/ Len(mail) < Capacity /\ mail' = Append(mail, e) /\ UNCHANGED hurt
  \/ "overflow" \in Faults /\ Len(mail) >= Capacity /\ hurt' = "mail" /\ UNCHANGED mail

\* A request of the worker is refused: this round comes to nothing.
Refused(kind) == kind \in Faults /\ hurt' = IF hurt = "no" THEN "round" ELSE hurt

\* vb_peer_start_scan with the given value of power_on.  A stack that still
\* scans refuses; its scan ends by itself.
StartScan(on) ==
  \/ (~on \/ scanning \/ radio # "off") /\ UNCHANGED <<radio, hurt>>
  \/ on /\ ~scanning /\ radio = "off" /\ radio' = "starting" /\ UNCHANGED hurt
  \/ on /\ ~scanning /\ Refused("scanRefused") /\ UNCHANGED radio

\* ble_gap_scan_stop
StopScan == radio' = IF radio = "on" THEN "stopping" ELSE radio

\* vb_peer_disconnect: the stack closes the connection and says so.
Disconnect ==
  IF connected /\ link THEN link' = FALSE /\ Post("disconnected")
                       ELSE UNCHANGED <<link, mail, hurt>>

-----------------------------------------------------------------------------
(* The application: vb_peer_enable, vb_peer_pair_cancel                    *)

Enable ==
  /\ enabled' = TRUE /\ reconnect' = TRUE
  /\ hurt' = IF hurt = "round" THEN "no" ELSE hurt
  /\ UNCHANGED <<lower, power, connected, scanning, candidate, pending, connecting, mail, stack>>

\* Neither connecting nor the candidate is cleared; an attempt goes on.
Disable ==
  /\ enabled
  /\ enabled' = FALSE /\ scanning' = FALSE /\ pending' = FALSE /\ reconnect' = FALSE
  /\ IF scanning THEN StopScan ELSE UNCHANGED radio
  /\ Disconnect
  /\ UNCHANGED <<lower, power, connected, candidate, connecting, lit, attempt>>

Cancel ==
  /\ connected
  /\ Disconnect
  /\ UNCHANGED <<lower, flags, lit, radio, attempt>>

-----------------------------------------------------------------------------
(* The worker: vb_peer_process_event                                       *)

Handles(e) == mail # <<>> /\ Head(mail) = e /\ mail' = Tail(mail)

PowerEvent ==
  /\ Handles("power")
  /\ power' = TRUE
  /\ IF enabled /\ ~connected THEN StartScan(TRUE) ELSE UNCHANGED <<radio, hurt>>
  /\ UNCHANGED <<lower, enabled, connected, scanning, candidate, pending, connecting,
                 reconnect, lit, attempt, link>>

\* vb_peer_handle_adv of an advertiser that is the paired board.
AdvEvent ==
  /\ Handles("adv")
  /\ candidate' = (candidate \/ (enabled /\ ~connected))
  /\ UNCHANGED <<lower, enabled, power, connected, scanning, pending, connecting, reconnect, stack, hurt>>

\* vb_peer_accept_connection: a board that is switched off looks away, and the
\* connection stays.
ConnectedEvent ==
  /\ Handles("connected")
  /\ IF enabled /\ ~connected
     THEN connected' = TRUE /\ connecting' = FALSE /\ scanning' = FALSE
     ELSE UNCHANGED <<connected, connecting, scanning>>
  /\ UNCHANGED <<lower, enabled, power, candidate, pending, reconnect, stack, hurt>>

\* vb_peer_handle_disconnect; the mutant forgets to schedule the next round.
DisconnectedSilent ==
  /\ Handles("disconnected")
  /\ connected' = FALSE
  /\ UNCHANGED <<lower, enabled, power, scanning, candidate, pending, connecting, reconnect, stack, hurt>>

DisconnectedEvent ==
  /\ Handles("disconnected")
  /\ connected' = FALSE
  /\ reconnect' = (reconnect \/ (connected /\ enabled))
  /\ UNCHANGED <<lower, enabled, power, scanning, candidate, pending, connecting, stack, hurt>>

ScanStoppedStale ==
  /\ Handles("scanStopped")
  /\ reconnect' = (reconnect \/ (~pending /\ enabled /\ ~connected))
  /\ UNCHANGED <<lower, enabled, power, connected, scanning, candidate, pending, connecting, stack, hurt>>

\* VB_PEER_EVT_SCAN_STOPPED; the mutant above leaves the flag set.
ScanStoppedEvent ==
  /\ Handles("scanStopped")
  /\ scanning' = FALSE
  /\ reconnect' = (reconnect \/ (~pending /\ enabled /\ ~connected))
  /\ UNCHANGED <<lower, enabled, power, connected, candidate, pending, connecting, stack, hurt>>

-----------------------------------------------------------------------------
(* The worker: vb_peer_process_timeouts                                    *)

\* The candidate has been seen for long enough; the lower address connects.
\* The mutant swaps the two boards' parts and both wait.
InitiatesNever == FALSE
Initiates      == lower

Settle ==
  /\ enabled /\ ~connected /\ candidate
  /\ candidate' = FALSE
  /\ IF Initiates THEN pending' = TRUE /\ (IF scanning THEN StopScan ELSE UNCHANGED radio)
                  ELSE UNCHANGED <<pending, radio>>
  /\ UNCHANGED <<lower, enabled, power, connected, scanning, connecting, reconnect, mail,
                 lit, attempt, link, hurt>>

\* vb_peer_create_connection
CreateConnection ==
  /\ enabled /\ ~connected /\ pending
  /\ pending' = FALSE
  /\ \/ connecting' = TRUE /\ attempt' = TRUE /\ UNCHANGED hurt
     \/ Refused("createRefused") /\ connecting' = FALSE /\ UNCHANGED attempt
  /\ UNCHANGED <<lower, enabled, power, connected, scanning, candidate, reconnect, mail,
                 lit, radio, link>>

\* reconnect_deadline: a new round.
NextRound ==
  /\ enabled /\ ~connected /\ ~connecting /\ reconnect
  /\ reconnect' = FALSE
  /\ StartScan(power)
  /\ UNCHANGED <<lower, enabled, power, connected, scanning, candidate, pending, connecting, mail,
                 lit, attempt, link>>

\* connect_deadline, 6 s; the stack ends an attempt after 5 s.
ConnectingTimeout ==
  /\ enabled /\ connecting /\ ~attempt
  /\ connecting' = FALSE /\ reconnect' = TRUE
  /\ UNCHANGED <<lower, enabled, power, connected, scanning, candidate, pending, mail, stack, hurt>>

-----------------------------------------------------------------------------
(* The BLE stack, the other board, and main.c                              *)

PowerOn ==
  /\ ~lit /\ lit' = TRUE
  /\ Post("power")
  /\ UNCHANGED <<lower, flags, radio, attempt, link>>

\* BLE_GAP_SCAN_START_CNF sets the flag in the thread of the stack, whatever
\* the application has done since.
ScanConfirm ==
  /\ radio = "starting"
  /\ \/ radio' = "on" /\ scanning' = TRUE /\ UNCHANGED hurt
     \/ Refused("scanRefused") /\ radio' = "off" /\ scanning' = FALSE
  /\ UNCHANGED <<lower, enabled, power, connected, candidate, pending, connecting, reconnect, mail,
                 lit, attempt, link>>

\* The scan runs out after 10 s, or was stopped.
ScanEnds ==
  /\ radio \in {"on", "stopping"} /\ radio' = "off"
  /\ Post("scanStopped")
  /\ UNCHANGED <<lower, flags, lit, attempt, link>>

\* The scanner hears the other board, which advertises while it has no link.
Adv ==
  /\ radio = "on" /\ ~link /\ ~Queued("adv")
  /\ Post("adv")
  /\ UNCHANGED <<lower, flags, stack>>

AttemptSucceeds ==
  /\ attempt /\ ~link
  /\ attempt' = FALSE /\ link' = TRUE
  /\ Post("connected")
  /\ UNCHANGED <<lower, flags, lit, radio>>

\* The attempt runs out; the worker is never a whole mailbox behind then.
AttemptEnds ==
  /\ attempt /\ Len(mail) < Capacity
  /\ attempt' = FALSE
  /\ UNCHANGED <<lower, flags, mail, lit, radio, link, hurt>>

\* The other board, of the lower address, connects to this one.
PeerConnects ==
  /\ ~lower /\ lit /\ ~link
  /\ link' = TRUE
  /\ Post("connected")
  /\ UNCHANGED <<lower, flags, lit, radio, attempt>>

LinkLost ==
  /\ link /\ link' = FALSE
  /\ Post("disconnected")
  /\ UNCHANGED <<lower, flags, lit, radio, attempt>>

\* vb_peer_release_host_connection: the health check of the host service finds
\* a link of the peripheral role that the stack no longer has.
ReleaseStale ==
  /\ connected /\ ~lower /\ ~link
  /\ connected' = FALSE /\ candidate' = FALSE /\ pending' = FALSE /\ connecting' = FALSE
  /\ reconnect' = TRUE
  /\ UNCHANGED <<lower, enabled, power, scanning, mail, stack, hurt>>

Worker ==
  \/ PowerEvent \/ AdvEvent \/ ConnectedEvent \/ DisconnectedEvent \/ ScanStoppedEvent
  \/ Settle \/ CreateConnection \/ NextRound \/ ConnectingTimeout

Next ==
  \/ Enable \/ Disable \/ Cancel
  \/ Worker
  \/ PowerOn \/ ScanConfirm \/ ScanEnds \/ Adv
  \/ AttemptSucceeds \/ AttemptEnds \/ PeerConnects \/ LinkLost \/ ReleaseStale

Spec == Init /\ [][Next]_vars

-----------------------------------------------------------------------------
(* Fairness                                                                *)

\* The worker takes every event and every deadline in its loop.
WorkerFair ==
  /\ WF_vars(PowerEvent \/ AdvEvent \/ ConnectedEvent \/ DisconnectedEvent \/ ScanStoppedEvent)
  /\ WF_vars(Settle) /\ WF_vars(CreateConnection) /\ WF_vars(NextRound)
  /\ WF_vars(ConnectingTimeout)

\* The stack is switched on, confirms and ends what it was asked for.  The
\* other board is in range: it is heard in the end, and an attempt or the
\* other board's own attempt succeeds in the end.
StackFair ==
  /\ WF_vars(PowerOn) /\ WF_vars(ScanConfirm) /\ WF_vars(ScanEnds) /\ WF_vars(AttemptEnds)
  /\ SF_vars(Adv) /\ SF_vars(AttemptSucceeds) /\ SF_vars(PeerConnects)

FairSpec == Spec /\ WorkerFair /\ StackFair

-----------------------------------------------------------------------------
(* Properties                                                              *)

TypeOK ==
  /\ lower \in BOOLEAN /\ enabled \in BOOLEAN /\ power \in BOOLEAN /\ connected \in BOOLEAN
  /\ scanning \in BOOLEAN /\ candidate \in BOOLEAN /\ pending \in BOOLEAN
  /\ connecting \in BOOLEAN /\ reconnect \in BOOLEAN
  /\ mail \in Seq(Events) /\ Len(mail) <= Capacity
  /\ lit \in BOOLEAN /\ radio \in RadioStates /\ attempt \in BOOLEAN /\ link \in BOOLEAN
  /\ hurt \in Hurts

\* A board that looks for the other one always has something under way that
\* ends in a new round: a deadline, an attempt, a scan, or an event about one.
\* Only a refused request or a lost event can break that, and switching on again
\* makes good for a refused request.
NeverIdle ==
  hurt = "no" /\ enabled /\ lit /\ ~connected =>
    reconnect \/ pending \/ connecting \/ radio # "off" \/ Queued("scanStopped") \/ Queued("power")

\* The scanning flag is only set while a scan runs or the event that clears it
\* is on its way: a stale flag would keep the board from ever scanning again.
ScanFlagTrue == scanning /\ hurt # "mail" => radio \in {"on", "stopping"} \/ Queued("scanStopped")

\* A connection of the stack the worker will not take.
Orphan == link /\ ~connected /\ ~Queued("connected")

\* A board that is switched on and whose peer is in range connects, unless it
\* is switched off, hit by a fault, or holds a connection it turned away.
FindsPeer == enabled ~> connected \/ ~enabled \/ Orphan \/ hurt # "no"
=============================================================================
