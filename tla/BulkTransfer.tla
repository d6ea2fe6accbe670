---------------------------- MODULE BulkTransfer ----------------------------
(***************************************************************************)
(* The transfer of a package over BLE: install_package of the host         *)
(* (runtime_transport.py) with the bulk commands of the board (main.c).    *)
(* The host opens a transaction, announces each file with an identifier of *)
(* its own, sends it frame by frame and waits for the acknowledgement of   *)
(* each, then ends the transaction.  It retries a frame, then reconnects   *)
(* and announces the file again, then starts the transaction over.         *)
(*                                                                         *)
(* The board takes commands and frames from one mailbox, in order, and     *)
(* answers each by a notification and in its status, which the host also   *)
(* reads.  A frame stands for the bytes of one frame; its sequence number  *)
(* and its offset are then the same number.  What install_end does after   *)
(* its first check is PackageInstall; the format and the digests of files  *)
(* are left out, so a package here is one without an inventory.            *)
(***************************************************************************)
EXTENDS Naturals, Sequences, FiniteSets

CONSTANTS
  Sizes,      \* how many frames each file of the package has, in the order sent
  Buffer,     \* frames the write buffer holds (4096 bytes in the code)
  Mailbox,    \* entries of the board's mailbox (8 in the code)
  Pool,       \* notifications on their way at most: the TX pool of the stack
  Attempts,   \* BLE_BULK_V2_RETRIES (5)
  Reconnects, \* BLE_BULK_V2_RECONNECT_RETRIES (4)
  Restarts,   \* BLE_INSTALL_SESSION_RESTARTS (2)
  MaxFaults,  \* bound: faults of one behaviour
  Faults      \* what may go wrong, see FaultKinds

FaultKinds ==
  { "lost",        \* a message or a notification is lost
    "slow",        \* the host gives up waiting for what is still under way
    "drop",        \* the link goes down
    "unreachable", \* the host cannot connect again
    "corrupt",     \* a frame fails its CRC
    "reset",       \* the board is reset, or the Runtime page opened again
    "page",        \* the Runtime page is closed
    "card",        \* a file cannot be opened, written or renamed
    "tail",        \* the last write to a file, its fsync or its close fails
    "refused" }    \* no memory for the buffer, or the package is invalid

ASSUME BulkTransferAssumption ==
  /\ Sizes \in Seq(Nat) /\ Len(Sizes) > 0
  /\ Buffer \in Nat \ {0} /\ Mailbox \in Nat \ {0} /\ Pool \in Nat \ {0}
  /\ Attempts \in Nat \ {0} /\ Reconnects \in Nat \ {0} /\ Restarts \in Nat
  /\ MaxFaults \in Nat /\ Faults \subseteq FaultKinds

VARIABLES
  host,   \* the host: what it asks for, and how often it has tried
  down,   \* commands and frames in the board's mailbox
  up,     \* notifications the host has not looked at
  status, \* the status of the board, which the host can read
  board,  \* the install session and the bulk transfer of the board
  buffer, \* install_bulk_buffer, up to install_bulk_buffered
  stage,  \* what the staging directory holds of each file
  taken,  \* what install_end found in the staging directory
  faults, \* faults that have happened
  seen    \* history: their kinds

net  == <<down, up, status>>
card == <<board, buffer, stage, taken>>
past == <<faults, seen>>
vars == <<host, net, card, past>>

Files == 1..Len(Sizes)
Txns  == 1..(Restarts + 1)
NoFile == 0

\* The contents of file f, and what is handed to write() of it.
Frame(f, n) == <<f, n>>
Whole(f)    == [n \in 1..Sizes[f] |-> Frame(f, n - 1)]

Message(kind, t, f, n)   == [kind |-> kind, txn |-> t, file |-> f, off |-> n]
Reply(kind, t, f, n, rc) == [kind |-> kind, txn |-> t, file |-> f, off |-> n, rc |-> rc]

Controls == {"begin", "bulk", "resume", "end"}
Requests == Controls \cup {"data"}
Leaving  == {"abort", "quit"}
Ended    == {"done", "failed", "uncertain"}

Idle == [session |-> FALSE, active |-> FALSE, complete |-> FALSE,
         txn |-> 0, file |-> NoFile, got |-> 0, path |-> NoFile]

Init ==
  /\ host = [at |-> "begin", txn |-> 1, file |-> 1, off |-> 0,
             sent |-> FALSE, linked |-> TRUE, tries |-> 0, stalls |-> 0]
  /\ down = <<>> /\ up = <<>> /\ status = Reply("none", 0, 0, 0, "ok")
  /\ board = Idle /\ buffer = <<>> /\ stage = [f \in Files |-> <<>>]
  /\ taken = <<>>
  /\ faults = 0 /\ seen = {}

Fault(kind) ==
  /\ kind \in Faults /\ faults < MaxFaults
  /\ faults' = faults + 1 /\ seen' = seen \cup {kind}
NoFault == UNCHANGED past

-----------------------------------------------------------------------------
(* The host                                                                *)

\* rt_mb_send: a full mailbox drops the message.
Put(m) == down' = IF Len(down) < Mailbox THEN Append(down, m) ELSE down

\* _clear_response_notifications: whatever has arrived by now is dropped.
Cleared == \E n \in 0..Len(up) : up' = SubSeq(up, n + 1, Len(up))

Request ==
  LET kind == IF host.at = "resume" THEN "bulk" ELSE host.at
  IN Message(kind, host.txn,
             IF kind \in {"bulk", "data"} THEN host.file ELSE NoFile,
             IF kind = "data" THEN host.off ELSE 0)

\* A command or a frame is written (Write Without Response: it may get lost).
Send ==
  /\ host.at \in Requests /\ ~host.sent /\ host.linked
  /\ host' = [host EXCEPT !.sent = TRUE]
  /\ Cleared
  /\ \/ Put(Request) /\ NoFault
     \/ Fault("lost") /\ UNCHANGED down
  /\ UNCHANGED <<status, card>>

\* install_ack_matches, and the test on the identifier in _send_bulk_window.
\* The acknowledgements of begin and end name the application only.
Awaited(r) ==
  CASE host.at \in {"bulk", "resume"} ->
         r.kind = "bulk" /\ r.txn = host.txn /\ r.file = host.file
    [] host.at = "data" ->
         r.kind = "data" /\ r.txn = host.txn /\ r.file = host.file
    [] OTHER -> r.kind = host.at

\* ble_bulk_ack_is_stale
Stale(r) == r.rc = "ok" /\ r.off < host.off + 1

\* ble_bulk_ack_confirms_progress; busy is BLE_BULK_V2_ALREADY_APPLIED_RC.  The
\* mutant takes any answer about the frame for a confirmation.
ConfirmsAny(r) == r.off <= host.off + 1
Confirms(r)    == r.off = host.off + 1 /\ r.rc \in {"ok", "busy"}

\* Time is up.  It counts as a fault while the board still has something to do
\* or to say.
Late ==
  \/ down = <<>> /\ up = <<>> /\ NoFault
  \/ (down # <<>> \/ up # <<>>) /\ Fault("slow")

\* An answer comes as a notification, or is read from the status after a while.
Notified(r) == up # <<>> /\ r = Head(up) /\ up' = Tail(up) /\ NoFault
Polled(r)   == up = <<>> /\ r = status /\ UNCHANGED up /\ Late
Heard(r)    == host.sent /\ (Notified(r) \/ Polled(r))

\* What the host does next.
Ask(what)  == [host EXCEPT !.at = what, !.sent = FALSE, !.tries = 0]
ToFile(f)  == [Ask("bulk") EXCEPT !.file = f, !.off = 0, !.stalls = 0]
NextFile   == IF host.file < Len(Sizes) THEN ToFile(host.file + 1)
                                        ELSE [Ask("end") EXCEPT !.off = 0]

\* The next request after an answer that says ok.
Proceeds ==
  CASE host.at = "begin"  -> ToFile(1)
    [] host.at = "bulk"   -> IF Sizes[host.file] = 0 THEN NextFile ELSE Ask("data")
    [] host.at = "resume" -> Ask("data")
    [] host.at = "end"    -> Ask("done")

\* A command is answered.  rc -1 and -7 make the host start over, any other
\* error ends the installation.
Answered ==
  /\ host.at \in Controls
  /\ \E r \in {status} \cup {up[i] : i \in 1..Len(up)} :
       /\ Heard(r) /\ Awaited(r)
       /\ host' = IF r.rc = "ok" THEN Proceeds
                  ELSE Ask(IF r.rc \in {"error", "busy"} THEN "abort" ELSE "quit")
  /\ UNCHANGED <<down, status, card>>

\* A notification that answers something else, or acknowledges an earlier frame.
Skip ==
  /\ host.sent /\ up # <<>>
  /\ ~Awaited(Head(up)) \/ (host.at = "data" /\ Stale(Head(up)))
  /\ up' = Tail(up)
  /\ NoFault
  /\ UNCHANGED <<host, down, status, card>>

\* No answer to a command: reconnect and send it again, but for install_end,
\* which may have been done.
ControlFails ==
  IF host.at = "end" THEN Ask("uncertain")
  ELSE IF host.tries + 1 < Reconnects
       THEN [host EXCEPT !.sent = FALSE, !.linked = FALSE, !.tries = host.tries + 1]
       ELSE Ask("abort")

ControlTimesOut ==
  /\ host.at \in Controls /\ host.sent /\ Late
  /\ host' = ControlFails
  /\ UNCHANGED <<net, card>>

\* The frame is confirmed: the host goes on to the next frame or file.
Confirmed ==
  /\ host.at = "data"
  /\ \E r \in {status} \cup {up[i] : i \in 1..Len(up)} :
       Heard(r) /\ Awaited(r) /\ Confirms(r)
  /\ host' = IF host.off + 1 < Sizes[host.file]
             THEN [Ask("data") EXCEPT !.off = host.off + 1, !.stalls = 0]
             ELSE NextFile
  /\ UNCHANGED <<down, status, card>>

\* Every attempt has failed: reconnect and announce the file again.  The mutant
\* does so for ever.
WindowFailsAgain == [Ask("resume") EXCEPT !.linked = FALSE]
WindowFails ==
  IF host.stalls < Reconnects
  THEN [Ask("resume") EXCEPT !.linked = FALSE, !.stalls = host.stalls + 1]
  ELSE Ask("abort")

AttemptFails ==
  IF host.tries + 1 < Attempts
  THEN [host EXCEPT !.sent = FALSE, !.tries = host.tries + 1]
  ELSE WindowFails

\* The board refuses the frame, or its answer does not fit.
Denied ==
  /\ host.at = "data" /\ host.sent /\ up # <<>>
  /\ Awaited(Head(up)) /\ ~Stale(Head(up)) /\ ~Confirms(Head(up))
  /\ up' = Tail(up)
  /\ host' = AttemptFails
  /\ NoFault
  /\ UNCHANGED <<down, status, card>>

\* Nothing came, and the status does not confirm the frame either.
DataTimesOut ==
  /\ host.at = "data" /\ host.sent /\ Late
  /\ up = <<>> => ~(Awaited(status) /\ Confirms(status))
  /\ host' = AttemptFails
  /\ UNCHANGED <<net, card>>

\* The link goes down: writing and reading fail from now on.
LinkDrops ==
  /\ host.sent /\ Fault("drop")
  /\ host' = IF host.at = "data" THEN WindowFails ELSE ControlFails
  /\ UNCHANGED <<net, card>>

\* _refresh_bulk_connection; what the board still has to say about the old
\* connection's commands is said on the new one.
Reconnect ==
  /\ host.at \in Requests /\ ~host.linked
  /\ up' = <<>>
  /\ \/ host' = [host EXCEPT !.linked = TRUE] /\ NoFault
     \/ host' = [Ask("abort") EXCEPT !.linked = TRUE] /\ Fault("unreachable")
  /\ UNCHANGED <<down, status, card>>

\* InstallTransactionInterrupted: reconnect, abort, start over.  abort_install
\* is not retried and its answer changes nothing.
Leave ==
  /\ host.at \in Leaving
  /\ up' = <<>>
  /\ \/ /\ host' = IF host.at = "abort" /\ host.txn <= Restarts
                   THEN [Ask("begin") EXCEPT !.txn = host.txn + 1, !.linked = TRUE]
                   ELSE Ask("failed")
        /\ \/ Put(Message("abort", host.txn, NoFile, 0)) /\ NoFault
           \/ Fault("lost") /\ UNCHANGED down
     \/ host' = Ask("failed") /\ Fault("unreachable") /\ UNCHANGED down
  /\ UNCHANGED <<status, card>>

Host == Send \/ Answered \/ Skip \/ ControlTimesOut \/ Confirmed \/ Denied
          \/ DataTimesOut \/ Reconnect \/ Leave

-----------------------------------------------------------------------------
(* The board: one handler for each entry of the mailbox                    *)

Take(kind) == down # <<>> /\ Head(down).kind = kind /\ down' = Tail(down)

\* The status is set and notified; a full pool of the stack drops the
\* notification, the status stays.
Say(r) ==
  /\ status' = r
  /\ up' = IF Len(up) < Pool THEN Append(up, r) ELSE up

SayFor(m, rc) == Say(Reply(m.kind, IF m.kind = "bulk" THEN m.txn ELSE 0, m.file, 0, rc))

NoStage == [f \in Files |-> <<>>]

\* install_begin: the same application again is a no-op.
HandleBegin ==
  /\ Take("begin")
  /\ IF board.session THEN UNCHANGED <<board, buffer, stage>>
     ELSE /\ board' = [Idle EXCEPT !.session = TRUE]
          /\ buffer' = <<>> /\ stage' = NoStage
  /\ SayFor(Head(down), "ok")
  /\ NoFault
  /\ UNCHANGED <<host, taken>>

\* install_abort: the session and what was staged are dropped; the mutant keeps
\* the session.
HandleAbortStays ==
  /\ Take("abort")
  /\ stage' = NoStage
  /\ SayFor(Head(down), "ok")
  /\ NoFault
  /\ UNCHANGED <<host, board, buffer, taken>>
HandleAbort ==
  /\ Take("abort")
  /\ board' = Idle /\ buffer' = <<>> /\ stage' = NoStage
  /\ SayFor(Head(down), "ok")
  /\ NoFault
  /\ UNCHANGED <<host, taken>>

\* The announcement of a file.  A file whose last frame has been stored is
\* closed, and has lost its path: announced again, it is opened again.
SameTransfer(m) ==
  board.active /\ board.txn = m.txn /\ board.file = m.file /\ board.path = m.file
IncompleteNever == FALSE
Incomplete      == board.active /\ ~board.complete
MayOpen(m) == board.session /\ ~SameTransfer(m) /\ ~Incomplete

BulkRefused ==
  /\ Take("bulk")
  /\ ~board.session \/ (Incomplete /\ ~SameTransfer(Head(down)))
  /\ SayFor(Head(down), "busy")
  /\ NoFault
  /\ UNCHANGED <<host, card>>

BulkRepeated ==
  /\ Take("bulk")
  /\ board.session /\ SameTransfer(Head(down))
  /\ SayFor(Head(down), "ok")
  /\ NoFault
  /\ UNCHANGED <<host, card>>

Opened(m) ==
  [session |-> TRUE, active |-> TRUE, complete |-> Sizes[m.file] = 0,
   txn |-> m.txn, file |-> m.file, got |-> 0,
   path |-> IF Sizes[m.file] = 0 THEN NoFile ELSE m.file]

BulkOpens ==
  /\ Take("bulk") /\ MayOpen(Head(down))
  /\ board' = Opened(Head(down))
  /\ buffer' = <<>>
  /\ stage' = [stage EXCEPT ![Head(down).file] = <<>>]
  /\ SayFor(Head(down), "ok")
  /\ NoFault
  /\ UNCHANGED <<host, taken>>

\* The file cannot be opened, or there is no memory for the buffer.
BulkOpenFails ==
  /\ Take("bulk") /\ MayOpen(Head(down))
  /\ board' = IF board.active THEN [Idle EXCEPT !.session = TRUE]
                              ELSE [board EXCEPT !.path = NoFile]
  /\ buffer' = IF board.active THEN <<>> ELSE buffer
  /\ \/ /\ Fault("card") /\ SayFor(Head(down), "error") /\ UNCHANGED stage
     \/ /\ Fault("refused") /\ SayFor(Head(down), "invalid")
        /\ stage' = [stage EXCEPT ![Head(down).file] = <<>>]
  /\ UNCHANGED <<host, taken>>

Ack(m, got, rc) == Say(Reply("data", m.txn, m.file, got, rc))

\* The tests of install_bulk_packet, in its order.  The mutant trusts the offset.
Mine(m)     == board.active /\ board.txn = m.txn /\ board.file = m.file
Repeated(m) == m.off < board.got
ExpectedAny(m) == ~board.complete /\ m.off < Sizes[board.file]
Expected(m) == ~board.complete /\ m.off = board.got /\ m.off < Sizes[board.file]

FrameRefused ==
  /\ Take("data")
  /\ LET m == Head(down) IN
       \/ ~Mine(m) /\ Ack(m, board.got, "busy") /\ NoFault
       \/ Mine(m) /\ Ack(m, board.got, "error") /\ Fault("corrupt")
       \/ /\ Mine(m) /\ ~Repeated(m) /\ ~Expected(m)
          /\ Ack(m, board.got, "invalid") /\ NoFault
  /\ UNCHANGED <<host, card>>

FrameRepeated ==
  /\ Take("data")
  /\ Mine(Head(down)) /\ Repeated(Head(down))
  /\ Ack(Head(down), board.got, "ok")
  /\ NoFault
  /\ UNCHANGED <<host, card>>

\* vb_runtime_install_bulk_append: the buffer is written when it is full.
Filled(m) == Append(buffer, Frame(m.file, m.off))
Fits(m)   == Len(buffer) + 1 < Buffer
Last(m)   == board.got + 1 = Sizes[board.file]

\* The frame is appended; after the last one the file is written and closed.
FrameStored ==
  /\ Take("data")
  /\ LET m == Head(down) IN
       /\ Mine(m) /\ ~Repeated(m) /\ Expected(m)
       /\ (Fits(m) /\ ~Last(m)) \/ board.path # NoFile
       /\ board' = [board EXCEPT !.got = board.got + 1, !.complete = Last(m),
                                 !.path = IF Last(m) THEN NoFile ELSE board.path]
       /\ IF Fits(m) /\ ~Last(m)
          THEN buffer' = Filled(m) /\ UNCHANGED stage
          ELSE /\ buffer' = <<>>
               /\ stage' = [stage EXCEPT ![board.path] = stage[board.path] \o Filled(m)]
       /\ Ack(m, board.got + 1, "ok")
  /\ NoFault
  /\ UNCHANGED <<host, taken>>

\* A write fails, the final fsync or close does, or the file was closed
\* together with the page.  The transfer ends; a frame that was appended before
\* the failure stays counted.
Broken(m, got) ==
  /\ board' = [board EXCEPT !.got = got, !.active = FALSE, !.path = NoFile]
  /\ buffer' = <<>>
  /\ Ack(m, got, "error")

Written(m, n) ==
  stage' = [stage EXCEPT ![board.path] = stage[board.path] \o SubSeq(Filled(m), 1, n)]

\* The full buffer cannot be written: the frame is not counted.
FlushFails ==
  /\ Take("data")
  /\ LET m == Head(down) IN
       /\ Mine(m) /\ ~Repeated(m) /\ Expected(m) /\ ~Fits(m)
       /\ \/ board.path = NoFile /\ NoFault /\ UNCHANGED stage
          \/ /\ board.path # NoFile /\ Fault(IF Last(m) THEN "tail" ELSE "card")
             /\ \E n \in 0..Len(Filled(m)) : Written(m, n)
       /\ Broken(m, board.got)
  /\ UNCHANGED <<host, taken>>

\* The rest of the file cannot be written, synchronised or closed: the last
\* frame has been counted.
TailFails ==
  /\ Take("data")
  /\ LET m == Head(down) IN
       /\ Mine(m) /\ ~Repeated(m) /\ Expected(m) /\ Last(m)
       /\ \/ board.path = NoFile /\ Fits(m) /\ NoFault /\ UNCHANGED stage
          \/ /\ board.path # NoFile /\ Fault("tail")
             /\ \E n \in 0..Len(Filled(m)) :
                  (~Fits(m) => n = Len(Filled(m))) /\ Written(m, n)
       /\ Broken(m, board.got + 1)
  /\ UNCHANGED <<host, taken>>

\* install_end: what follows its first check is PackageInstall, reduced to
\* whether it takes the staging directory or fails.
EndRefused ==
  /\ Take("end")
  /\ ~board.session \/ Incomplete
  /\ SayFor(Head(down), "busy")
  /\ NoFault
  /\ UNCHANGED <<host, card>>

EndTakes ==
  /\ Take("end")
  /\ board.session /\ ~Incomplete
  /\ taken' = stage
  /\ board' = Idle /\ buffer' = <<>> /\ stage' = NoStage
  /\ SayFor(Head(down), "ok")
  /\ NoFault
  /\ UNCHANGED host

EndFails ==
  /\ Take("end")
  /\ board.session /\ ~Incomplete
  /\ board' = [board EXCEPT !.path = NoFile]
  /\ \/ Fault("card") /\ SayFor(Head(down), "error")
     \/ Fault("refused") /\ SayFor(Head(down), "invalid")
  /\ UNCHANGED <<host, buffer, stage, taken>>

Board == HandleBegin \/ HandleAbort \/ BulkRefused \/ BulkRepeated \/ BulkOpens
           \/ BulkOpenFails \/ FrameRefused \/ FrameRepeated \/ FrameStored
           \/ FlushFails \/ TailFails \/ EndRefused \/ EndTakes \/ EndFails

-----------------------------------------------------------------------------
(* The environment                                                         *)

\* on_stop closes the file, on_start forgets the session and clears staging.
PageCloses ==
  /\ board.path # NoFile /\ Fault("page")
  /\ board' = [board EXCEPT !.path = NoFile]
  /\ UNCHANGED <<host, net, buffer, stage, taken>>

Forgets ==
  /\ Fault("reset")
  /\ board' = Idle /\ buffer' = <<>> /\ stage' = NoStage
  /\ \/ UNCHANGED net
     \/ down' = <<>> /\ up' = <<>> /\ status' = Reply("none", 0, 0, 0, "ok")
  /\ UNCHANGED <<host, taken>>

NoteLost ==
  /\ up # <<>> /\ Fault("lost")
  /\ up' = Tail(up)
  /\ UNCHANGED <<host, down, status, card>>

Environment == LinkDrops \/ PageCloses \/ Forgets \/ NoteLost

Next == Host \/ Board \/ Environment

Spec == Init /\ [][Next]_vars

\* Neither program waits for anything but the other.
FairSpec == Spec /\ WF_vars(Host) /\ WF_vars(Board)

-----------------------------------------------------------------------------
Messages == [kind : {"begin", "end", "abort"}, txn : Txns, file : {NoFile}, off : {0}]
       \cup [kind : {"bulk", "data"}, txn : Txns, file : Files, off : Nat]
Replies  == [kind : Controls \cup {"none", "data", "abort"}, txn : Txns \cup {0},
             file : Files \cup {NoFile}, off : Nat,
             rc : {"ok", "busy", "error", "invalid"}]
Contents == Seq(Files \X Nat)

Hosts    == [at : Requests \cup Leaving \cup Ended, txn : Txns, file : Files,
             off : Nat, sent : BOOLEAN, linked : BOOLEAN,
             tries : 0..(Attempts + Reconnects), stalls : 0..Reconnects]
Sessions == [session : BOOLEAN, active : BOOLEAN, complete : BOOLEAN,
             txn : Txns \cup {0}, file : Files \cup {NoFile}, got : Nat,
             path : Files \cup {NoFile}]

NetOK  == /\ down \in Seq(Messages) /\ Len(down) <= Mailbox
          /\ up \in Seq(Replies) /\ Len(up) <= Pool
          /\ status \in Replies
CardOK == /\ board \in Sessions
          /\ buffer \in Contents /\ Len(buffer) < Buffer
          /\ stage \in [Files -> Contents]
          /\ taken = <<>> \/ taken \in [Files -> Contents]
PastOK == faults \in 0..MaxFaults /\ seen \subseteq Faults

TypeOK == host \in Hosts /\ NetOK /\ CardOK /\ PastOK

\* What the board has of a file, on the card and in its buffer, is what the
\* host sends of it, from its beginning and without a gap, whatever was lost,
\* repeated or sent again under another identifier; and the offset it
\* acknowledges is what it has, as long as the file is open.
Held(f) == IF board.active /\ board.file = f THEN stage[f] \o buffer ELSE stage[f]
Start(s, f) == /\ Len(s) <= Sizes[f]
               /\ \A n \in 1..Len(s) : s[n] = Frame(f, n - 1)
InOrder ==
  /\ \A f \in Files : Start(Held(f), f)
  /\ board.path # NoFile => Len(Held(board.path)) = board.got

\* What is left out of the next two: the end of a file was not written, or a
\* file that was opened again could not be kept.
TailKept == seen \cap {"tail", "page", "refused"} = {}

\* What install_end takes is the whole package, and the host reports success
\* only for a package that was taken.
TakenWhole ==
  /\ TailKept /\ taken # <<>> => \A f \in Files : taken[f] = Whole(f)
  /\ host.at = "done" => taken # <<>>

\* The host has moved on to another file only when the board has the whole of
\* the one before on the card.  A late announcement may open it again, but then
\* the board neither opens another file nor ends the transaction.
InTransaction == host.at \in Requests \ {"begin"} /\ board.session
Passed(f)     == f < host.file \/ (f = host.file /\ host.at = "end")
PassedWhole ==
  TailKept /\ InTransaction =>
    \A f \in Files : Passed(f) =>
      stage[f] = Whole(f) \/ (Incomplete /\ board.file = f)

\* The host gives up only after more faults than it may start over.
Survives ==
  host.at = "failed" => faults > Restarts \/ seen \cap {"unreachable", "refused"} # {}

\* The transfer ends: each retry is bounded, and so are all together.
TransferEnds == <>(host.at \in Ended)
=============================================================================
