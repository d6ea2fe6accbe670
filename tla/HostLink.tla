------------------------------ MODULE HostLink ------------------------------
(***************************************************************************)
(* The BLE service through which a host commands the board (main.c).  The  *)
(* board advertises while nobody is connected; the first central that      *)
(* writes a command or subscribes owns the board until it disconnects; its *)
(* bytes are collected into lines that wait in a mailbox for the worker.   *)
(*                                                                         *)
(* Callbacks run in the thread of the BLE stack and are not interrupted by *)
(* the worker; the worker takes a mailbox entry at a time and, when none   *)
(* has come for a second, checks the health of the link.  Its steps are    *)
(* cut where a callback between them matters.                              *)
(***************************************************************************)
EXTENDS Naturals, Sequences, FiniteSets

CONSTANTS
  Conns,     \* connection indexes of the stack
  NoConn,    \* INVALID_CONN_IDX
  Capacity,  \* entries of the mailbox (8 in the code)
  Attempts,  \* starts of advertising one restart tries (6 in the code)
  MaxLinks,  \* bound: connections of one behaviour
  MaxFaults, \* bound: faults of one behaviour
  Faults     \* what may go wrong, see FaultKinds

FaultKinds ==
  { "startRefused", \* advertising cannot be started
    "startFails",   \* advertising fails to start after it was accepted
    "advEnds",      \* the stack stops advertising by itself
    "eventLost" }   \* the stack does not report that a connection ended

ASSUME HostLinkAssumption ==
  /\ NoConn \notin Conns
  /\ Capacity \in Nat \ {0} /\ Attempts \in Nat \ {0}
  /\ MaxLinks \in Nat \ {0} /\ MaxFaults \in Nat /\ Faults \subseteq FaultKinds

VARIABLES
  power,  \* power_on and service_ready
  active, \* link_conn_idx while link_active, NoConn otherwise
  young,  \* link_started_tick is within the grace time
  owner,  \* conn_idx while connected, NoConn otherwise
  notify, \* notify_cccd
  flag,   \* advertising
  rx,     \* the connections whose bytes are in rx_line
  mail,   \* the mailbox: power, restart, or a line and the connections it is from
  pc,     \* what the worker is doing
  tries,  \* starts of advertising the restart under way has tried
  link,   \* the connection that holds an index, 0 for none
  ending, \* indexes whose end has not been reported yet
  radio,  \* advertising in the stack
  made,   \* connections made so far
  faults, \* faults that have happened
  lost    \* history: the end of a connection was never reported

board  == <<power, active, young, owner, notify, flag>>
input  == <<rx, mail>>
worker == <<pc, tries>>
stack  == <<link, ending, radio, made>>
vars   == <<board, input, worker, stack, faults, lost>>

Links  == 1..MaxLinks
Steps  == {"wait", "restart", "check", "clear", "start", "force"}
Radios == {"off", "starting", "on", "stopping"}
Up(i)  == link[i] # 0

Init ==
  /\ power = FALSE /\ active = NoConn /\ young = FALSE /\ owner = NoConn
  /\ notify = FALSE /\ flag = FALSE
  /\ rx = {} /\ mail = <<>>
  /\ pc = "wait" /\ tries = 0
  /\ link = [i \in Conns |-> 0] /\ ending = {} /\ radio = "off" /\ made = 0
  /\ faults = 0 /\ lost = FALSE

Fault(kind) == kind \in Faults /\ faults < MaxFaults /\ faults' = faults + 1

\* rt_mb_send: a full mailbox drops the entry.
Entry(kind) == [kind |-> kind, from |-> {}]
Line(from)  == [kind |-> "line", from |-> from]
Entries     == [kind : {"power", "restart", "line"}, from : SUBSET Links]
Sent(m, entry)       == IF Len(m) < Capacity THEN Append(m, entry) ELSE m
Post(entry)          == mail' = Sent(mail, entry)

-----------------------------------------------------------------------------
(* Callbacks: vb_ble_event_handler, vb_ble_advertising_event               *)

\* BLE_POWER_ON_IND
PowerOn ==
  /\ ~power /\ mail = <<>> /\ pc = "wait" /\ Post(Entry("power"))
  /\ UNCHANGED <<board, rx, worker, stack, faults, lost>>

\* A central connects: BLE_GAP_CONNECTED_IND.  Advertising ends with it.
Connect(i) ==
  /\ radio = "on" /\ ~Up(i) /\ i \notin ending /\ made < MaxLinks
  /\ made' = made + 1 /\ link' = [link EXCEPT ![i] = made + 1]
  /\ radio' = "stopping"
  /\ active' = i /\ young' = TRUE /\ flag' = FALSE
  /\ UNCHANGED <<power, owner, notify, input, worker, ending, faults, lost>>

\* SIBLES_ADV_EVT_ADV_STARTED
AdvStarted ==
  /\ radio = "starting"
  /\ \/ radio' = "on" /\ flag' = TRUE /\ UNCHANGED <<mail, faults>>
     \/ /\ Fault("startFails") /\ radio' = "off" /\ flag' = FALSE
        /\ IF active = NoConn THEN Post(Entry("restart")) ELSE UNCHANGED mail
  /\ UNCHANGED <<power, active, young, owner, notify, rx, worker, link, ending, made, lost>>

\* SIBLES_ADV_EVT_ADV_STOPPED; the mutant believes it goes on.
AdvStoppedUnseen ==
  /\ radio = "stopping" /\ radio' = "off"
  /\ Post(Entry("restart"))
  /\ UNCHANGED <<board, rx, worker, link, ending, made, faults, lost>>

AdvStopped ==
  /\ radio = "stopping" /\ radio' = "off"
  /\ flag' = FALSE /\ Post(Entry("restart"))
  /\ UNCHANGED <<power, active, young, owner, notify, rx, worker, link, ending, made, faults, lost>>

\* A connection ends; its index is free once that is reported.
LinkDown(i) ==
  /\ Up(i)
  /\ link' = [link EXCEPT ![i] = 0] /\ ending' = ending \cup {i}
  /\ UNCHANGED <<board, input, worker, radio, made, faults, lost>>

\* BLE_GAP_DISCONNECTED_IND.  The end of the active or the owner's connection
\* clears the former; only that of the owner's the ownership.
Disconnected(i) ==
  /\ i \in ending /\ ending' = ending \ {i}
  /\ IF i \in {active, owner}
     THEN active' = NoConn /\ young' = FALSE /\ Post(Entry("restart"))
     ELSE UNCHANGED <<active, young, mail>>
  /\ IF i = owner
     THEN owner' = NoConn /\ notify' = FALSE /\ rx' = {}
     ELSE UNCHANGED <<owner, notify, rx>>
  /\ UNCHANGED <<power, flag, worker, link, radio, made, faults, lost>>

EventLost(i) ==
  /\ i \in ending /\ Fault("eventLost")
  /\ ending' = ending \ {i} /\ lost' = TRUE
  /\ UNCHANGED <<board, input, worker, link, radio, made>>

AdvEnds ==
  /\ radio = "on" /\ Fault("advEnds") /\ radio' = "stopping"
  /\ UNCHANGED <<board, input, worker, link, ending, made, lost>>

\* The grace time of a connection passes.
Ages ==
  /\ young /\ young' = FALSE
  /\ UNCHANGED <<power, active, owner, notify, flag, input, worker, stack, faults, lost>>

-----------------------------------------------------------------------------
(* Callbacks: vb_ble_gatts_set_cbk over an encrypted connection            *)

\* vb_ble_claim_host_connection: the first to write owns the board, and what
\* was collected before it did is dropped.  The mutant keeps it.
MayClaim(i) == Up(i) /\ owner \in {NoConn, i}
KeptAll(i)  == rx
Kept(i)     == IF owner = i THEN rx ELSE {}

\* vb_ble_receive_bytes: a part of a line ...
WritePart(i) ==
  /\ MayClaim(i) /\ owner' = i
  /\ rx' = Kept(i) \cup {link[i]}
  /\ UNCHANGED <<power, active, young, notify, flag, mail, worker, stack, faults, lost>>

\* ... the end of one, which may find the mailbox full ...
WriteLine(i) ==
  /\ MayClaim(i) /\ owner' = i
  /\ Post(Line(Kept(i) \cup {link[i]})) /\ rx' = {}
  /\ UNCHANGED <<power, active, young, notify, flag, worker, stack, faults, lost>>

\* ... or a bulk packet, which drops a line that has begun; so does a line that
\* gets too long.
WritePacket(i) ==
  /\ MayClaim(i) /\ owner' = i /\ rx' = {}
  /\ Post(Line({link[i]})) \/ UNCHANGED mail
  /\ UNCHANGED <<power, active, young, notify, flag, worker, stack, faults, lost>>

\* VB_BLE_INSTALL_STATUS_CCCD
Subscribe(i) ==
  /\ MayClaim(i) /\ owner' = i /\ rx' = Kept(i)
  /\ notify' \in BOOLEAN
  /\ UNCHANGED <<power, active, young, flag, mail, worker, stack, faults, lost>>

-----------------------------------------------------------------------------
(* The worker: vb_ble_worker_entry                                         *)

\* vb_ble_advertising_start when the flag has the given value.
Started(f) == UNCHANGED faults /\ (IF f THEN UNCHANGED radio ELSE radio = "off" /\ radio' = "starting")
Refused(f) ==
  /\ ~f /\ UNCHANGED radio
  /\ \/ radio # "off" /\ UNCHANGED faults
     \/ Fault("startRefused")

Takes(kind) == pc = "wait" /\ mail # <<>> /\ Head(mail).kind = kind /\ mail' = Tail(mail)

TakePower ==
  /\ Takes("power") /\ power' = TRUE
  /\ Started(flag) \/ Refused(flag)
  /\ UNCHANGED <<active, young, owner, notify, flag, rx, worker, link, ending, made, lost>>

TakeRestart ==
  /\ Takes("restart") /\ pc' = "restart" /\ tries' = 0
  /\ UNCHANGED <<board, rx, stack, faults, lost>>

\* VB_BLE_EVT_RESTART_ADV: one round of its loop; the health check follows.
Wanted == power /\ active = NoConn /\ owner = NoConn /\ ~flag
Restart ==
  /\ pc = "restart"
  /\ \/ ~Wanted /\ pc' = "check" /\ UNCHANGED <<tries, radio, faults>>
     \/ Wanted /\ Started(flag) /\ pc' = "check" /\ UNCHANGED tries
     \/ /\ Wanted /\ Refused(flag) /\ tries' = tries + 1
        /\ pc' = IF tries + 1 = Attempts THEN "check" ELSE "restart"
  /\ UNCHANGED <<board, input, link, ending, made, lost>>

\* vb_ble_execute_line, vb_runtime_install_bulk_packet
TakeLine ==
  /\ Takes("line")
  /\ UNCHANGED <<board, rx, worker, stack, faults, lost>>

\* The command ble_restart, vb_ble_advertising_force_restart: whoever is
\* connected, advertising is stopped, and started again when the stop was
\* reported or two seconds have passed.
TakeForce ==
  /\ Takes("line") /\ power /\ pc' = "force"
  /\ radio' = IF radio = "on" THEN "stopping" ELSE radio
  /\ UNCHANGED <<board, rx, tries, link, ending, made, faults, lost>>

ForceRestart ==
  /\ pc = "force" /\ pc' = "wait"
  /\ flag' = FALSE
  /\ Started(FALSE) \/ Refused(FALSE)
  /\ UNCHANGED <<power, active, young, owner, notify, input, tries, link, ending, made, lost>>

\* vb_ble_health_check looks at the active connection, or else at the owner's.
\* The mutant looks at the active one only.
CheckedActive == active
Checked       == IF active # NoConn THEN active ELSE owner

\* vb_ble_link_state_is_live: one that has ended is taken for live as long as
\* it is young.
HealthCheck ==
  /\ pc = "check" \/ (pc = "wait" /\ mail = <<>>)
  /\ pc' = IF ~power THEN "wait"
           ELSE IF Checked = NoConn THEN "start"
           ELSE IF Up(Checked) \/ young THEN "wait" ELSE "clear"
  /\ UNCHANGED <<board, input, tries, stack, faults, lost>>

\* The stale connection and the owner are forgotten, not what was collected.
HealthClear ==
  /\ pc = "clear" /\ pc' = "start"
  /\ active' = NoConn /\ young' = FALSE /\ owner' = NoConn /\ notify' = FALSE
  /\ UNCHANGED <<power, flag, input, tries, stack, faults, lost>>

HealthStartNot ==
  /\ pc = "start" /\ pc' = "wait"
  /\ UNCHANGED <<board, input, tries, stack, faults, lost>>

\* The mutant above leaves advertising to the events of the stack.
HealthStart ==
  /\ pc = "start" /\ pc' = "wait"
  /\ Started(flag) \/ Refused(flag)
  /\ UNCHANGED <<board, input, tries, link, ending, made, lost>>

Worker ==
  \/ TakePower \/ TakeRestart \/ Restart \/ TakeLine \/ TakeForce \/ ForceRestart
  \/ HealthCheck \/ HealthClear \/ HealthStart

Next ==
  \/ PowerOn \/ AdvStarted \/ AdvStopped \/ AdvEnds \/ Ages
  \/ \E i \in Conns :
       \/ Connect(i) \/ LinkDown(i) \/ Disconnected(i) \/ EventLost(i)
       \/ WritePart(i) \/ WriteLine(i) \/ WritePacket(i) \/ Subscribe(i)
  \/ Worker

Spec == Init /\ [][Next]_vars

\* The worker runs, the stack reports what it has done, and time passes.
\* Neither hosts nor faults need do anything.
FairSpec ==
  /\ Spec
  /\ WF_vars(Worker) /\ WF_vars(Ages) /\ WF_vars(AdvStarted) /\ WF_vars(AdvStopped)
  /\ \A i \in Conns : WF_vars(Disconnected(i))

-----------------------------------------------------------------------------
(* Properties                                                              *)

BoardTypes ==
  /\ power \in BOOLEAN /\ young \in BOOLEAN /\ notify \in BOOLEAN /\ flag \in BOOLEAN
  /\ active \in Conns \cup {NoConn} /\ owner \in Conns \cup {NoConn}

InputTypes == rx \subseteq Links /\ mail \in Seq(Entries) /\ Len(mail) <= Capacity

StackTypes ==
  /\ link \in [Conns -> 0..MaxLinks] /\ ending \subseteq {i \in Conns : ~Up(i)}
  /\ radio \in Radios /\ made \in 0..MaxLinks

TypeOK ==
  /\ BoardTypes /\ InputTypes /\ StackTypes
  /\ pc \in Steps /\ tries \in 0..Attempts
  /\ faults \in 0..MaxFaults /\ lost \in BOOLEAN

\* The worker never skips a start because it believes, wrongly, that the board
\* is advertising.
FlagTrue == flag => radio \in {"on", "stopping"}

\* A line the worker executes was written by one connection from its first byte
\* to its last, as long as the end of every connection is reported.
OneWriterPerLine ==
  ~lost => \A k \in DOMAIN mail : mail[k].kind = "line" => Cardinality(mail[k].from) = 1

\* A board without a connection can be found again.
NoLink  == \A i \in Conns : ~Up(i)
Visible == (power /\ NoLink) ~> (radio = "on" \/ ~NoLink)

\* Nobody owns the board for ever after it has gone, unless another connection
\* keeps the health check satisfied.
Gone       == owner # NoConn /\ ~Up(owner)
OwnerFreed == Gone ~> (~Gone \/ (active # NoConn /\ Up(active)))
=============================================================================
