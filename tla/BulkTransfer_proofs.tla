------------------------ MODULE BulkTransfer_proofs ------------------------
(***************************************************************************)
(* Proofs about BulkTransfer, for packages of any number of files of any   *)
(* size, any buffer, mailbox and pool, any numbers of retries and any      *)
(* number of faults.  TypeOK, InOrder, PassedWhole and TakenWhole hold     *)
(* under all faults; Survives where the mailbox has room for what a host   *)
(* that starts over leaves in it (Roomy) and a command is sent twice at    *)
(* least (Patient).                                                        *)
(***************************************************************************)
EXTENDS BulkTransfer, SequenceTheorems, TLAPS

-----------------------------------------------------------------------------
(* Types: the host                                                         *)

\* What the proofs need of the constants.
LEMMA Constants ==
  /\ Len(Sizes) \in Nat \ {0} /\ \A f \in Files : Sizes[f] \in Nat
  /\ Buffer \in Nat \ {0} /\ Mailbox \in Nat /\ Pool \in Nat
  /\ Attempts \in Nat \ {0} /\ Reconnects \in Nat \ {0} /\ Restarts \in Nat /\ MaxFaults \in Nat
  /\ Files \subseteq Nat \ {0} /\ NoFile \notin Files /\ 1 \in Files
  /\ Txns \subseteq Nat \ {0} /\ 1 \in Txns
<1>1. /\ Sizes \in Seq(Nat) /\ Len(Sizes) > 0
      /\ Buffer \in Nat \ {0} /\ Mailbox \in Nat /\ Pool \in Nat
      /\ Attempts \in Nat \ {0} /\ Reconnects \in Nat \ {0} /\ Restarts \in Nat /\ MaxFaults \in Nat
  BY BulkTransferAssumption DEF BulkTransferAssumption
<1>2. Len(Sizes) \in Nat \ {0} /\ \A f \in Files : Sizes[f] \in Nat
  BY <1>1, LenProperties, ElementOfSeq DEF Files
<1> QED
  BY <1>1, <1>2 DEF Files, Txns, NoFile

\* The attempts that are counted.
LEMMA Counters ==
  /\ 0 \in 0..(Attempts + Reconnects) /\ 0 \in 0..Reconnects
  /\ \A n \in Nat : n < Attempts \/ n < Reconnects => n \in 0..(Attempts + Reconnects)
  /\ \A n \in 0..(Attempts + Reconnects) : n \in Nat /\ n + 1 \in Nat
  /\ \A n \in 0..Reconnects : n < Reconnects => n + 1 \in 0..Reconnects
BY Constants

\* What the host does next is typed; only its place and the attempt are new.
LEMMA AskTyped ==
  ASSUME host \in Hosts, NEW w \in Requests \cup Leaving \cup Ended
  PROVE  /\ Ask(w) \in Hosts
         /\ Ask(w) = [host EXCEPT !.at = w, !.sent = FALSE, !.tries = 0]
         /\ Ask(w).at = w
BY Counters DEF Ask, Hosts

LEMMA ToFileTyped ==
  ASSUME host \in Hosts, NEW f \in Files
  PROVE  ToFile(f) \in Hosts
BY Constants, Counters DEF ToFile, Ask, Hosts, Requests, Controls

LEMMA NextFileTyped ==
  ASSUME host \in Hosts
  PROVE  NextFile \in Hosts
<1>1. CASE host.file < Len(Sizes)
  <2>1. host.file + 1 \in Files
    BY <1>1, Constants DEF Hosts, Files
  <2> QED
    BY <1>1, <2>1, ToFileTyped DEF NextFile
<1>2. CASE ~(host.file < Len(Sizes))
  BY <1>2, Counters DEF NextFile, Ask, Hosts, Requests, Controls
<1> QED
  BY <1>1, <1>2

LEMMA ProceedsTyped ==
  ASSUME host \in Hosts, host.at \in Controls
  PROVE  Proceeds \in Hosts
<1>1. \A w \in Requests \cup Ended : Ask(w) \in Hosts
  BY AskTyped
<1>2. Ask("data") \in Hosts /\ Ask("done") \in Hosts
  BY <1>1 DEF Requests, Ended
<1> QED
  BY <1>2, Constants, ToFileTyped, NextFileTyped DEF Proceeds, Controls

LEMMA FailsTyped ==
  ASSUME host \in Hosts
  PROVE  ControlFails \in Hosts /\ WindowFails \in Hosts /\ AttemptFails \in Hosts
<1>1. \A w \in {"abort", "quit", "resume", "uncertain"} : Ask(w) \in Hosts
  BY AskTyped DEF Requests, Controls, Leaving, Ended
<1>2. ControlFails \in Hosts
  BY <1>1, Counters DEF ControlFails, Hosts
<1>3. WindowFails \in Hosts
  <2>1. CASE host.stalls < Reconnects
    <3>1. [Ask("resume") EXCEPT !.linked = FALSE, !.stalls = host.stalls + 1] \in Hosts
      BY <2>1, Counters DEF Ask, Hosts, Requests, Controls
    <3> QED
      BY <2>1, <3>1 DEF WindowFails
  <2>2. CASE ~(host.stalls < Reconnects)
    BY <1>1, <2>2 DEF WindowFails
  <2> QED
    BY <2>1, <2>2
<1>4. AttemptFails \in Hosts
  BY <1>3, Counters DEF AttemptFails, Hosts
<1> QED
  BY <1>2, <1>3, <1>4

\* A step of the host leaves it typed.
LEMMA HostTyped ==
  ASSUME host \in Hosts, [Next]_vars
  PROVE  host' \in Hosts
<1>1. \A w \in Requests \cup Leaving \cup Ended : Ask(w) \in Hosts
  BY AskTyped
<1>2. CASE Send
  BY <1>2 DEF Send, Hosts
<1>3. CASE Answered
  <2>1. Ask("abort") \in Hosts /\ Ask("quit") \in Hosts
    BY <1>1 DEF Leaving
  <2> QED
    BY <1>3, <2>1, ProceedsTyped DEF Answered
<1>4. CASE ControlTimesOut
  BY <1>4, FailsTyped DEF ControlTimesOut
<1>5. CASE Confirmed
  <2>1. [Ask("data") EXCEPT !.off = host.off + 1, !.stalls = 0] \in Hosts
    <3>1. Ask("data") \in Hosts
      BY <1>1 DEF Requests
    <3>2. host.off + 1 \in Nat /\ 0 \in 0..Reconnects
      BY Counters DEF Hosts
    <3> HIDE DEF Ask
    <3> QED
      BY <3>1, <3>2 DEF Hosts
  <2>2. \/ host' = [Ask("data") EXCEPT !.off = host.off + 1, !.stalls = 0]
        \/ host' = NextFile
    BY <1>5, Zenon DEF Confirmed
  <2> QED
    BY <2>1, <2>2, NextFileTyped
<1>6. CASE Denied
  BY <1>6, FailsTyped DEF Denied
<1>7. CASE DataTimesOut
  BY <1>7, FailsTyped DEF DataTimesOut
<1>8. CASE LinkDrops
  BY <1>8, FailsTyped DEF LinkDrops
<1>9. CASE Reconnect
  <2>1. [host EXCEPT !.linked = TRUE] \in Hosts /\ [Ask("abort") EXCEPT !.linked = TRUE] \in Hosts
    BY Counters DEF Ask, Hosts, Leaving
  <2> QED
    BY <1>9, <2>1 DEF Reconnect
<1>10. CASE Leave
  <2>1. Ask("failed") \in Hosts
    BY <1>1 DEF Ended
  <2>2. ASSUME host.txn <= Restarts
        PROVE  [Ask("begin") EXCEPT !.txn = host.txn + 1, !.linked = TRUE] \in Hosts
    <3>1. host.txn + 1 \in Txns
      BY <2>2, Constants DEF Hosts, Txns
    <3>2. Ask("begin") \in Hosts
      BY <1>1 DEF Requests, Controls
    <3> HIDE DEF Ask
    <3> QED
      BY <3>1, <3>2 DEF Hosts
  <2>3. \/ host' = Ask("failed")
        \/ host.txn <= Restarts /\ host' = [Ask("begin") EXCEPT !.txn = host.txn + 1, !.linked = TRUE]
    BY <1>10, Zenon DEF Leave
  <2> QED
    BY <2>1, <2>2, <2>3
<1>11. CASE UNCHANGED host
  BY <1>11
<1>12. ASSUME Skip \/ Board \/ PageCloses \/ Forgets \/ NoteLost \/ UNCHANGED vars
       PROVE  UNCHANGED host
  BY <1>12 DEF Skip, PageCloses, Forgets, NoteLost, vars, Board, HandleBegin, HandleAbort,
     BulkRefused, BulkRepeated, BulkOpens, BulkOpenFails, FrameRefused, FrameRepeated,
     FrameStored, FlushFails, TailFails, EndRefused, EndTakes, EndFails
<1> QED
  BY <1>2, <1>3, <1>4, <1>5, <1>6, <1>7, <1>8, <1>9, <1>10, <1>11, <1>12
     DEF Next, Host, Environment

-----------------------------------------------------------------------------
(* Types: the mailbox and the notifications                                *)

LEMMA RequestTyped ==
  ASSUME host \in Hosts, host.at \in Requests
  PROVE  Request \in Messages
BY Constants DEF Request, Message, Messages, Hosts, Requests, Controls, NoFile

LEMMA AbortTyped ==
  ASSUME host \in Hosts
  PROVE  Message("abort", host.txn, NoFile, 0) \in Messages
BY DEF Message, Messages, Hosts

LEMMA ReplyTyped ==
  ASSUME NEW m \in Messages, NEW rc \in {"ok", "busy", "error", "invalid"}
  PROVE  /\ m.kind # "data" =>
              Reply(m.kind, IF m.kind = "bulk" THEN m.txn ELSE 0, m.file, 0, rc) \in Replies
         /\ m.kind = "data" => \A n \in Nat : Reply("data", m.txn, m.file, n, rc) \in Replies
BY DEF Reply, Replies, Messages, Controls

LEMMA PutTyped ==
  ASSUME NetOK, NEW m \in Messages, Put(m)
  PROVE  down' \in Seq(Messages) /\ Len(down') <= Mailbox
<1>1. CASE Len(down) < Mailbox
  <2>1. down' = Append(down, m)
    BY <1>1 DEF Put
  <2>2. Append(down, m) \in Seq(Messages) /\ Len(Append(down, m)) = Len(down) + 1
    BY AppendProperties DEF NetOK
  <2> QED
    BY <1>1, <2>1, <2>2, Constants, LenProperties DEF NetOK
<1>2. CASE ~(Len(down) < Mailbox)
  BY <1>2 DEF Put, NetOK
<1> QED
  BY <1>1, <1>2

LEMMA TakeTyped ==
  ASSUME NetOK, NEW kind, Take(kind)
  PROVE  /\ down # <<>> /\ down' = Tail(down)
         /\ down' \in Seq(Messages) /\ Len(down') <= Mailbox
         /\ Head(down) \in Messages /\ Head(down).kind = kind
<1>1. /\ Head(down) \in Messages /\ Tail(down) \in Seq(Messages)
      /\ Len(Tail(down)) = Len(down) - 1
  BY HeadTailProperties DEF NetOK, Take
<1> QED
  BY <1>1, Constants, LenProperties DEF NetOK, Take

LEMMA SayTyped ==
  ASSUME NetOK, NEW r \in Replies, Say(r)
  PROVE  status' \in Replies /\ up' \in Seq(Replies) /\ Len(up') <= Pool
<1>1. CASE Len(up) < Pool
  <2>1. up' = Append(up, r) /\ status' = r
    BY <1>1 DEF Say
  <2>2. Append(up, r) \in Seq(Replies) /\ Len(Append(up, r)) = Len(up) + 1
    BY AppendProperties DEF NetOK
  <2> QED
    BY <1>1, <2>1, <2>2, Constants, LenProperties DEF NetOK
<1>2. CASE ~(Len(up) < Pool)
  BY <1>2 DEF Say, NetOK
<1> QED
  BY <1>1, <1>2

LEMMA HeardTyped ==
  ASSUME NetOK, up' = up \/ up' = <<>> \/ (up # <<>> /\ up' = Tail(up)) \/ Cleared
  PROVE  up' \in Seq(Replies) /\ Len(up') <= Pool
<1>1. CASE up' = up
  BY <1>1 DEF NetOK
<1>2. CASE up' = <<>>
  <2>1. up' \in Seq(Replies) /\ Len(up') = 0
    BY <1>2, EmptySeq
  <2> QED
    BY <2>1, Constants
<1>3. CASE up # <<>> /\ up' = Tail(up)
  <2>1. up' \in Seq(Replies) /\ Len(up') = Len(up) - 1
    BY <1>3, HeadTailProperties DEF NetOK
  <2>2. Len(up) \in Nat /\ Len(up) <= Pool
    BY LenProperties DEF NetOK
  <2> QED
    BY <2>1, <2>2, Constants
<1>4. CASE Cleared
  <2>1. PICK n \in 0..Len(up) : up' = SubSeq(up, n + 1, Len(up))
    BY <1>4 DEF Cleared
  <2>2. Len(up) \in Nat /\ \A i \in (n + 1)..Len(up) : up[i] \in Replies
    BY LenProperties, ElementOfSeq DEF NetOK
  <2>3. /\ SubSeq(up, n + 1, Len(up)) \in Seq(Replies)
        /\ Len(SubSeq(up, n + 1, Len(up))) <= Len(up)
    BY <2>2, SubSeqProperties
  <2> QED
    BY <2>1, <2>3, <2>2, Constants, LenProperties DEF NetOK
<1> QED
  BY <1>1, <1>2, <1>3, <1>4

\* What a step of the host, or of the link, does to mailbox and notifications.
LEMMA HostNet ==
  ASSUME Host \/ LinkDrops \/ NoteLost
  PROVE  /\ up' = up \/ up' = <<>> \/ (up # <<>> /\ up' = Tail(up)) \/ Cleared
         /\ status' = status
         /\ \/ down' = down
            \/ host.at \in Requests /\ Put(Request)
            \/ Put(Message("abort", host.txn, NoFile, 0))
<1>1. CASE Send
  BY <1>1 DEF Send
<1>2. CASE Answered
  BY <1>2 DEF Answered, Heard, Notified, Polled
<1>3. CASE Confirmed
  BY <1>3 DEF Confirmed, Heard, Notified, Polled
<1>4. CASE Skip \/ ControlTimesOut \/ Denied \/ DataTimesOut \/ LinkDrops \/ NoteLost
  BY <1>4 DEF Skip, ControlTimesOut, Denied, DataTimesOut, LinkDrops, NoteLost, net
<1>5. CASE Reconnect \/ Leave
  BY <1>5 DEF Reconnect, Leave
<1> QED
  BY <1>1, <1>2, <1>3, <1>4, <1>5 DEF Host

\* What a handler of the board does to them.
LEMMA BoardNet ==
  ASSUME Board, NetOK, board \in Sessions
  PROVE  /\ down # <<>> /\ down' = Tail(down)
         /\ \E rc \in {"ok", "busy", "error", "invalid"} :
              \/ Head(down).kind # "data" /\ SayFor(Head(down), rc)
              \/ /\ Head(down).kind = "data"
                 /\ \E n \in Nat : Ack(Head(down), n, rc)
<1>0. board.got \in Nat /\ board.got + 1 \in Nat
  BY DEF Sessions
<1>1. CASE HandleBegin \/ HandleAbort \/ BulkRefused \/ BulkRepeated \/ BulkOpens
  BY <1>1 DEF HandleBegin, HandleAbort, BulkRefused, BulkRepeated, BulkOpens, Take
<1>2. CASE BulkOpenFails
  BY <1>2 DEF BulkOpenFails, Take
<1>3. CASE EndRefused \/ EndTakes \/ EndFails
  BY <1>3 DEF EndRefused, EndTakes, EndFails, Take
<1>4. CASE FrameRefused \/ FrameRepeated
  BY <1>0, <1>4 DEF FrameRefused, FrameRepeated, Take
<1>5. CASE FrameStored
  BY <1>0, <1>5 DEF FrameStored, Take
<1>6. CASE FlushFails \/ TailFails
  BY <1>0, <1>6 DEF FlushFails, TailFails, Take, Broken
<1> QED
  BY <1>1, <1>2, <1>3, <1>4, <1>5, <1>6 DEF Board

LEMMA NetTyped ==
  ASSUME host \in Hosts, NetOK, board \in Sessions, [Next]_vars
  PROVE  NetOK'
<1>1. CASE Host \/ LinkDrops \/ NoteLost
  <2>1. up' \in Seq(Replies) /\ Len(up') <= Pool /\ status' \in Replies
    BY <1>1, HostNet, HeardTyped DEF NetOK
  <2>2. down' \in Seq(Messages) /\ Len(down') <= Mailbox
    <3>1. CASE down' = down
      BY <3>1 DEF NetOK
    <3>2. CASE host.at \in Requests /\ Put(Request)
      BY <3>2, RequestTyped, PutTyped
    <3>3. CASE Put(Message("abort", host.txn, NoFile, 0))
      BY <3>3, AbortTyped, PutTyped
    <3> QED
      BY <1>1, HostNet, <3>1, <3>2, <3>3
  <2> QED
    BY <2>1, <2>2 DEF NetOK
<1>2. CASE Board
  <2>1. Take(Head(down).kind)
    BY <1>2, BoardNet DEF Take
  <2>2. PICK rc \in {"ok", "busy", "error", "invalid"} :
          \/ Head(down).kind # "data" /\ SayFor(Head(down), rc)
          \/ Head(down).kind = "data" /\ \E n \in Nat : Ack(Head(down), n, rc)
    BY <1>2, BoardNet
  <2>3. Head(down) \in Messages
    BY <2>1, TakeTyped
  <2>4. \E r \in Replies : Say(r)
    BY <2>2, <2>3, ReplyTyped DEF SayFor, Ack
  <2> QED
    BY <2>1, <2>4, TakeTyped, SayTyped DEF NetOK
<1>3. CASE Forgets
  <2>1. Reply("none", 0, 0, 0, "ok") \in Replies
    BY DEF Reply, Replies, NoFile
  <2>2. <<>> \in Seq(Messages) /\ <<>> \in Seq(Replies) /\ Len(<<>>) = 0
    BY EmptySeq
  <2> QED
    <3>1. CASE UNCHANGED net
      BY <3>1 DEF net, NetOK
    <3>2. CASE down' = <<>> /\ up' = <<>> /\ status' = Reply("none", 0, 0, 0, "ok")
      <4>1. down' \in Seq(Messages) /\ up' \in Seq(Replies) /\ Len(down') = 0 /\ Len(up') = 0
        BY <2>2, <3>2
      <4>2. status' \in Replies
        BY <2>1, <3>2
      <4> QED
        BY <4>1, <4>2, Constants DEF NetOK
    <3> QED
      BY <1>3, <3>1, <3>2 DEF Forgets
<1>4. CASE PageCloses \/ UNCHANGED vars
  BY <1>4 DEF PageCloses, vars, net, NetOK
<1> QED
  BY <1>1, <1>2, <1>3, <1>4 DEF Next, Environment

-----------------------------------------------------------------------------
(* Types: the board                                                        *)

\* A step is one fault, or none.
LEMMA OneFault ==
  ASSUME [Next]_vars
  PROVE  NoFault \/ \E kind : Fault(kind)
<1>1. CASE Host
  <2>1. CASE Answered \/ Confirmed
    <3>1. \E r : Heard(r)
      BY <2>1, Zenon DEF Answered, Confirmed
    <3> QED
      BY <3>1, Zenon DEF Heard, Notified, Polled, Late
  <2>3. CASE ControlTimesOut \/ DataTimesOut
    BY <2>3, Zenon DEF ControlTimesOut, DataTimesOut, Late
  <2>2. CASE Send \/ Skip \/ Denied \/ Reconnect \/ Leave
    BY <2>2, Zenon DEF Send, Skip, Denied, Reconnect, Leave
  <2> QED
    BY <1>1, <2>1, <2>2, <2>3 DEF Host
<1>2. CASE HandleBegin \/ HandleAbort \/ BulkRefused \/ BulkRepeated \/ BulkOpens \/ BulkOpenFails
  BY <1>2 DEF HandleBegin, HandleAbort, BulkRefused, BulkRepeated, BulkOpens, BulkOpenFails
<1>3. CASE FrameRefused \/ FrameRepeated \/ FrameStored
  BY <1>3 DEF FrameRefused, FrameRepeated, FrameStored
<1>4. CASE FlushFails \/ TailFails
  BY <1>4 DEF FlushFails, TailFails
<1>5. CASE EndRefused \/ EndTakes \/ EndFails
  BY <1>5 DEF EndRefused, EndTakes, EndFails
<1>6. CASE Environment
  BY <1>6 DEF Environment, LinkDrops, PageCloses, Forgets, NoteLost
<1>7. CASE UNCHANGED vars
  BY <1>7 DEF vars, NoFault
<1> QED
  BY <1>1, <1>2, <1>3, <1>4, <1>5, <1>6, <1>7 DEF Next, Board

LEMMA PastTyped ==
  ASSUME PastOK, [Next]_vars
  PROVE  PastOK'
<1>1. NoFault \/ \E kind : Fault(kind)
  BY OneFault
<1>2. CASE NoFault
  BY <1>2 DEF NoFault, past, PastOK
<1>3. ASSUME NEW kind, Fault(kind) PROVE PastOK'
  BY <1>3, Constants DEF Fault, PastOK
<1> QED
  BY <1>1, <1>2, <1>3

\* What has happened stays so.
LEMMA SeenGrows ==
  ASSUME [Next]_vars
  PROVE  seen \subseteq seen'
BY OneFault DEF NoFault, Fault, past

LEMMA Nothing ==
  /\ Idle \in Sessions /\ [Idle EXCEPT !.session = TRUE] \in Sessions
  /\ NoStage \in [Files -> Contents]
  /\ <<>> \in Contents /\ Len(<<>>) = 0 /\ Len(<<>>) < Buffer
<1>1. Idle \in Sessions /\ [Idle EXCEPT !.session = TRUE] \in Sessions
  BY DEF Idle, Sessions
<1>2. <<>> \in Contents /\ Len(<<>>) = 0
  BY EmptySeq DEF Contents
<1>3. Len(<<>>) < Buffer
  BY <1>2, Constants
<1> QED
  BY <1>1, <1>2, <1>3 DEF NoStage

\* The frame of a message, behind what the buffer holds.
LEMMA FilledTyped ==
  ASSUME CardOK, NEW m \in Messages, m.kind = "data"
  PROVE  /\ m.file \in Files /\ m.off \in Nat /\ m.txn \in Txns
         /\ Filled(m) \in Contents /\ Len(Filled(m)) = Len(buffer) + 1 /\ Len(buffer) \in Nat
         /\ \A i \in 1..Len(buffer) : Filled(m)[i] = buffer[i]
         /\ Filled(m)[Len(buffer) + 1] = Frame(m.file, m.off)
<1>1. m.file \in Files /\ m.off \in Nat /\ m.txn \in Txns
  BY DEF Messages
<1>2. Frame(m.file, m.off) \in Files \X Nat
  BY <1>1 DEF Frame
<1>3. buffer \in Seq(Files \X Nat) /\ Len(buffer) \in Nat
  BY LenProperties DEF CardOK, Contents
<1> QED
  BY <1>1, <1>2, <1>3, AppendProperties DEF Filled, Contents

\* What a write leaves in a file.
LEMMA WriteTyped ==
  ASSUME CardOK, NEW f \in Files, NEW s \in Contents
  PROVE  [stage EXCEPT ![f] = stage[f] \o s] \in [Files -> Contents]
<1>1. stage[f] \o s \in Contents
  BY ConcatProperties DEF CardOK, Contents
<1> QED
  BY <1>1 DEF CardOK

LEMMA PrefixTyped ==
  ASSUME NEW s \in Contents, NEW n \in 0..Len(s)
  PROVE  /\ SubSeq(s, 1, n) \in Contents /\ Len(SubSeq(s, 1, n)) = n
         /\ \A i \in 1..n : SubSeq(s, 1, n)[i] = s[i]
<1>1. Len(s) \in Nat /\ \A i \in 1..n : s[i] \in Files \X Nat
  BY LenProperties, ElementOfSeq DEF Contents
<1>2. /\ SubSeq(s, 1, n) \in Seq(Files \X Nat)
      /\ Len(SubSeq(s, 1, n)) = IF 1 <= n THEN n - 1 + 1 ELSE 0
      /\ \A i \in 1..(n - 1 + 1) : SubSeq(s, 1, n)[i] = s[1 + i - 1]
  BY <1>1, SubSeqProperties
<1> QED
  BY <1>1, <1>2 DEF Contents

\* Each handler leaves the board typed.
LEMMA CardTyped ==
  ASSUME NetOK, CardOK, [Next]_vars
  PROVE  CardOK'
<1>1. CASE HandleBegin
  BY <1>1, Nothing DEF HandleBegin, CardOK
<1>2. CASE HandleAbort
  BY <1>2, Nothing DEF HandleAbort, CardOK
<1>3. CASE BulkRefused \/ BulkRepeated \/ FrameRefused \/ FrameRepeated \/ EndRefused
  BY <1>3 DEF BulkRefused, BulkRepeated, FrameRefused, FrameRepeated, EndRefused, card, CardOK
<1>4. ASSUME Take("bulk") PROVE Head(down).file \in Files /\ Head(down).txn \in Txns
  BY <1>4, TakeTyped DEF Messages
<1>5. CASE BulkOpens
  <2>1. Opened(Head(down)) \in Sessions
    BY <1>4, <1>5 DEF BulkOpens, Opened, Sessions
  <2>2. [stage EXCEPT ![Head(down).file] = <<>>] \in [Files -> Contents]
    BY <1>4, <1>5, Nothing DEF BulkOpens, CardOK
  <2> QED
    BY <1>5, <2>1, <2>2, Nothing DEF BulkOpens, CardOK
<1>6. CASE BulkOpenFails
  <2>1. [board EXCEPT !.path = NoFile] \in Sessions
    BY DEF CardOK, Sessions
  <2>2. [stage EXCEPT ![Head(down).file] = <<>>] \in [Files -> Contents]
    BY <1>4, <1>6, Nothing DEF BulkOpenFails, CardOK
  <2>3. board' \in Sessions
    BY <1>6, <2>1, Nothing DEF BulkOpenFails
  <2>4. buffer' \in Contents /\ Len(buffer') < Buffer
    BY <1>6, Nothing DEF BulkOpenFails, CardOK
  <2>5. stage' \in [Files -> Contents] /\ taken' = taken
    BY <1>6, <2>2 DEF BulkOpenFails, CardOK
  <2> QED
    BY <2>3, <2>4, <2>5 DEF CardOK
<1>7. ASSUME Take("data")
      PROVE  /\ Filled(Head(down)) \in Contents /\ Len(Filled(Head(down))) = Len(buffer) + 1
             /\ Len(buffer) \in Nat
  BY <1>7, TakeTyped, FilledTyped
<1>8. ASSUME NEW s \in Contents, board.path # NoFile
      PROVE  [stage EXCEPT ![board.path] = stage[board.path] \o s] \in [Files -> Contents]
  BY <1>8, WriteTyped DEF CardOK, Sessions
<1>9. CASE FrameStored
  <2>1. board' \in Sessions
    <3>1. board.got + 1 \in Nat /\ Last(Head(down)) \in BOOLEAN
      BY DEF CardOK, Sessions, Last
    <3>2. board' = [board EXCEPT !.got = board.got + 1, !.complete = Last(Head(down)),
                                 !.path = IF Last(Head(down)) THEN NoFile ELSE board.path]
      BY <1>9, Zenon DEF FrameStored
    <3> HIDE DEF Last
    <3> QED
      BY <3>1, <3>2 DEF CardOK, Sessions
  <2>2. CASE Fits(Head(down)) /\ ~Last(Head(down))
    BY <1>7, <1>9, <2>1, <2>2 DEF FrameStored, CardOK, Fits
  <2>3. CASE ~(Fits(Head(down)) /\ ~Last(Head(down)))
    <3>1. [stage EXCEPT ![board.path] = stage[board.path] \o Filled(Head(down))] \in [Files -> Contents]
      BY <1>7, <1>8, <1>9, <2>3 DEF FrameStored
    <3> QED
      BY <1>9, <2>1, <2>3, <3>1, Nothing DEF FrameStored, CardOK
  <2> QED
    BY <2>2, <2>3
<1>10. CASE FlushFails \/ TailFails
  <2>1. Take("data")
    BY <1>10 DEF FlushFails, TailFails
  <2>2. PICK n \in {board.got, board.got + 1} : Broken(Head(down), n)
    BY <1>10, Zenon DEF FlushFails, TailFails
  <2>3. board' \in Sessions /\ buffer' = <<>>
    <3>1. n \in Nat
      BY <2>2 DEF CardOK, Sessions
    <3>2. board' = [board EXCEPT !.got = n, !.active = FALSE, !.path = NoFile] /\ buffer' = <<>>
      BY <2>2 DEF Broken
    <3> QED
      BY <3>1, <3>2 DEF CardOK, Sessions
  <2>4. CASE stage' = stage
    BY <1>10, <2>3, <2>4, Nothing DEF FlushFails, TailFails, CardOK
  <2>5. ASSUME board.path # NoFile, NEW k \in 0..Len(Filled(Head(down))), Written(Head(down), k)
        PROVE  CardOK'
    <3>1. SubSeq(Filled(Head(down)), 1, k) \in Contents
      BY <1>7, <2>1, PrefixTyped
    <3>2. stage' \in [Files -> Contents]
      BY <1>8, <2>5, <3>1 DEF Written
    <3> QED
      BY <1>10, <2>3, <3>2, Nothing DEF FlushFails, TailFails, CardOK
  <2>6. \/ stage' = stage
        \/ board.path # NoFile /\ \E k \in 0..Len(Filled(Head(down))) : Written(Head(down), k)
    BY <1>10, Zenon DEF FlushFails, TailFails
  <2> QED
    BY <2>4, <2>5, <2>6
<1>11. CASE EndTakes
  BY <1>11, Nothing DEF EndTakes, CardOK
<1>12. CASE EndFails
  <2>1. [board EXCEPT !.path = NoFile] \in Sessions
    BY DEF CardOK, Sessions
  <2> QED
    BY <1>12, <2>1 DEF EndFails, CardOK
<1>13. CASE PageCloses
  <2>1. [board EXCEPT !.path = NoFile] \in Sessions
    BY DEF CardOK, Sessions
  <2> QED
    BY <1>13, <2>1 DEF PageCloses, CardOK
<1>14. CASE Forgets
  BY <1>14, Nothing DEF Forgets, CardOK
<1>15. CASE Host \/ LinkDrops \/ NoteLost \/ UNCHANGED vars
  <2>1. UNCHANGED card
    BY <1>15 DEF Host, Send, Answered, Skip, ControlTimesOut, Confirmed, Denied, DataTimesOut,
       Reconnect, Leave, LinkDrops, NoteLost, vars
  <2> QED
    BY <2>1 DEF card, CardOK
<1> QED
  BY <1>1, <1>2, <1>3, <1>5, <1>6, <1>9, <1>10, <1>11, <1>12, <1>13, <1>14, <1>15
     DEF Next, Board, Environment

LEMMA InitTyped == Init => TypeOK
<1>1. <<>> \in Seq(Messages) /\ <<>> \in Seq(Replies) /\ Len(<<>>) = 0
  BY EmptySeq
<1>2. Reply("none", 0, 0, 0, "ok") \in Replies
  BY DEF Reply, Replies, NoFile
<1>3. ASSUME Init PROVE host \in Hosts
  BY <1>3, Constants, Counters DEF Init, Hosts, Requests, Controls
<1>4. ASSUME Init PROVE NetOK
  <2>1. down = <<>> /\ up = <<>> /\ status = Reply("none", 0, 0, 0, "ok")
    BY <1>4 DEF Init
  <2>2. down \in Seq(Messages) /\ Len(down) = 0 /\ up \in Seq(Replies) /\ Len(up) = 0
    BY <1>1, <2>1
  <2> QED
    BY <1>2, <2>1, <2>2, Constants DEF NetOK
<1>5. ASSUME Init PROVE CardOK
  BY <1>5, Nothing DEF Init, NoStage, CardOK
<1>6. ASSUME Init PROVE PastOK
  BY <1>6, Constants DEF Init, PastOK
<1> QED
  BY <1>3, <1>4, <1>5, <1>6 DEF TypeOK

\* Host, mailbox, notifications and board stay what they are, and counters
\* within their limits, under all faults.
THEOREM TypeCorrect == Spec => []TypeOK
<1>1. TypeOK /\ [Next]_vars => TypeOK'
  BY HostTyped, NetTyped, CardTyped, PastTyped DEF TypeOK, CardOK
<1> QED
  BY <1>1, InitTyped, PTL DEF Spec

-----------------------------------------------------------------------------
(* The beginning of each file                                              *)

\* What is on the card and in the buffer begins the file, and while the file is
\* incomplete both together are as long as the board has counted.
Prefixed == \A f \in Files : Start(Held(f), f)
AtRest   == ~board.active => buffer = <<>> /\ ~board.complete /\ board.path = NoFile
AtWork   == board.active => board.file \in Files /\ board.txn \in Txns /\ board.session
AtEnd    == board.complete => buffer = <<>> /\ board.path = NoFile
InBetween ==
  Incomplete => /\ Len(stage[board.file]) + Len(buffer) = board.got
                /\ board.got < Sizes[board.file]
                /\ board.path \in {NoFile, board.file}
Counted == AtRest /\ AtWork /\ AtEnd /\ InBetween /\ Prefixed

\* An empty file begins any file.
LEMMA EmptyStarts ==
  ASSUME NEW f \in Files
  PROVE  Start(<<>>, f) /\ Start(NoStage[f], f)
<1>1. Len(<<>>) = 0
  BY EmptySeq
<1> QED
  BY <1>1, Constants DEF Start, NoStage

\* What is on the card alone begins the file.
LEMMA StageStarts ==
  ASSUME CardOK, Prefixed, NEW f \in Files
  PROVE  Start(stage[f], f)
<1>1. CASE Held(f) = stage[f]
  BY <1>1 DEF Prefixed
<1>2. CASE Held(f) = stage[f] \o buffer
  <2>1. stage[f] \in Seq(Files \X Nat) /\ buffer \in Seq(Files \X Nat)
    BY DEF CardOK, Contents
  <2>2. Len(stage[f]) \in Nat /\ Len(buffer) \in Nat
    BY <2>1, LenProperties
  <2>3. /\ Len(Held(f)) = Len(stage[f]) + Len(buffer)
        /\ \A i \in 1..Len(stage[f]) : Held(f)[i] = stage[f][i]
    BY <1>2, <2>1, <2>2, ConcatProperties
  <2>4. Start(Held(f), f)
    BY DEF Prefixed
  <2> QED
    BY <2>2, <2>3, <2>4, Constants DEF Start
<1> QED
  BY <1>1, <1>2 DEF Held

\* With an empty buffer the card says it all.
LEMMA Flushed ==
  ASSUME CardOK', buffer' = <<>>, \A f \in Files : Start(stage'[f], f)
  PROVE  Prefixed'
<1> SUFFICES ASSUME NEW f \in Files
             PROVE  Start(Held(f)', f)
  BY DEF Prefixed
<1>1. stage'[f] \in Seq(Files \X Nat)
  BY DEF CardOK, Contents
<1>2. stage'[f] \o buffer' = stage'[f]
  BY <1>1, ConcatEmptySeq
<1> QED
  BY <1>2 DEF Held

\* What replaces the end of a beginning by the same, or by one frame more, is
\* a beginning too.
LEMMA Extends ==
  ASSUME NEW T, NEW s \in Seq(T), NEW u \in Seq(T), NEW c \in Seq(T), NEW f \in Files,
         Start(s \o u, f), Len(s) + Len(u) < Sizes[f], Len(c) <= Len(u) + 1,
         \A i \in 1..Len(c) : c[i] = IF i <= Len(u) THEN u[i] ELSE Frame(f, Len(s) + Len(u))
  PROVE  Start(s \o c, f) /\ Len(s \o c) = Len(s) + Len(c)
<1> DEFINE su == s \o u
           sc == s \o c
<1>1. Len(s) \in Nat /\ Len(u) \in Nat /\ Len(c) \in Nat /\ Sizes[f] \in Nat
  BY LenProperties, Constants
<1>2. /\ Len(su) = Len(s) + Len(u)
      /\ \A i \in 1..(Len(s) + Len(u)) : su[i] = IF i <= Len(s) THEN s[i] ELSE u[i - Len(s)]
  BY ConcatProperties
<1>3. /\ Len(sc) = Len(s) + Len(c)
      /\ \A i \in 1..(Len(s) + Len(c)) : sc[i] = IF i <= Len(s) THEN s[i] ELSE c[i - Len(s)]
  BY ConcatProperties
<1>4. \A i \in 1..Len(su) : su[i] = Frame(f, i - 1)
  BY DEF Start
<1> HIDE DEF su, sc
<1>5. ASSUME NEW i \in 1..Len(sc) PROVE sc[i] = Frame(f, i - 1)
  <2>1. i \in Nat /\ i >= 1 /\ i <= Len(s) + Len(c)
    BY <1>1, <1>3
  <2>2. CASE i <= Len(s) + Len(u)
    <3>1. su[i] = Frame(f, i - 1) /\ su[i] = IF i <= Len(s) THEN s[i] ELSE u[i - Len(s)]
      BY <1>1, <1>2, <1>4, <2>1, <2>2
    <3>2. CASE i <= Len(s)
      BY <1>3, <2>1, <3>1, <3>2
    <3>3. CASE ~(i <= Len(s))
      <4>1. i - Len(s) \in 1..Len(c) /\ i - Len(s) <= Len(u)
        BY <1>1, <2>1, <2>2, <3>3
      <4> QED
        BY <1>3, <2>1, <3>1, <3>3, <4>1
    <3> QED
      BY <3>2, <3>3
  <2>3. CASE ~(i <= Len(s) + Len(u))
    <3>1. /\ i - Len(s) \in 1..Len(c) /\ ~(i - Len(s) <= Len(u)) /\ ~(i <= Len(s))
          /\ i - 1 = Len(s) + Len(u)
      BY <1>1, <2>1, <2>3
    <3> QED
      BY <1>3, <2>1, <3>1
  <2> QED
    BY <2>2, <2>3
<1>6. Len(sc) <= Sizes[f]
  BY <1>1, <1>3
<1>7. Start(sc, f)
  BY <1>5, <1>6 DEF Start
<1> QED
  BY <1>3, <1>7 DEF sc

\* The frame the board expects goes on where buffer and card end.
LEMMA Appended ==
  ASSUME CardOK, Counted, NEW m \in Messages, m.kind = "data", Mine(m), Expected(m)
  PROVE  /\ board.file \in Files /\ m.file = board.file
         /\ Start(stage[board.file] \o Filled(m), board.file)
         /\ Len(stage[board.file] \o Filled(m)) = board.got + 1
         /\ \A n \in 0..Len(Filled(m)) :
              Start(stage[board.file] \o SubSeq(Filled(m), 1, n), board.file)
<1> DEFINE f == board.file
           s == stage[f]
           b == Filled(m)
<1>1. /\ f \in Files /\ m.file = f /\ Incomplete /\ m.off = board.got /\ board.got \in Nat
      /\ Len(s) + Len(buffer) = board.got /\ board.got < Sizes[f] /\ Sizes[f] \in Nat
  BY Constants DEF Counted, AtWork, InBetween, Mine, Expected, Incomplete, CardOK, Sessions
<1>2. /\ s \in Contents /\ buffer \in Contents /\ b \in Contents
      /\ Len(s) \in Nat /\ Len(buffer) \in Nat /\ Len(b) = Len(buffer) + 1
      /\ \A i \in 1..Len(buffer) : b[i] = buffer[i]
      /\ b[Len(buffer) + 1] = Frame(f, board.got)
  <2>1. s \in Contents /\ buffer \in Contents
    BY <1>1 DEF CardOK
  <2> QED
    BY <1>1, <2>1, FilledTyped, LenProperties DEF Contents
<1>3. Start(s \o buffer, f)
  BY <1>1 DEF Counted, Prefixed, Held, Incomplete
<1> HIDE DEF b, s, f
<1>4. \A i \in 1..Len(b) : b[i] = IF i <= Len(buffer) THEN buffer[i] ELSE Frame(f, Len(s) + Len(buffer))
  BY <1>1, <1>2
<1>5. ASSUME NEW c \in Contents, Len(c) <= Len(b), \A i \in 1..Len(c) : c[i] = b[i]
      PROVE  Start(s \o c, f) /\ Len(s \o c) = Len(s) + Len(c)
  <2>1. Len(c) \in Nat
    BY LenProperties DEF Contents
  <2>2. \A i \in 1..Len(c) : c[i] = IF i <= Len(buffer) THEN buffer[i] ELSE Frame(f, Len(s) + Len(buffer))
    BY <1>2, <1>4, <1>5, <2>1
  <2>3. /\ s \in Seq(Files \X Nat) /\ buffer \in Seq(Files \X Nat) /\ c \in Seq(Files \X Nat)
        /\ f \in Files /\ Start(s \o buffer, f) /\ Len(s) + Len(buffer) < Sizes[f]
        /\ Len(c) <= Len(buffer) + 1
    BY <1>1, <1>2, <1>3, <1>5 DEF Contents
  <2> QED
    BY <2>2, <2>3, Extends
<1>6. Start(s \o b, f) /\ Len(s \o b) = board.got + 1
  <2>1. Start(s \o b, f) /\ Len(s \o b) = Len(s) + Len(b)
    BY <1>2, <1>5
  <2> QED
    BY <1>1, <1>2, <2>1
<1>7. ASSUME NEW n \in 0..Len(b) PROVE Start(s \o SubSeq(b, 1, n), f)
  <2>1. /\ SubSeq(b, 1, n) \in Contents /\ Len(SubSeq(b, 1, n)) = n
        /\ \A i \in 1..n : SubSeq(b, 1, n)[i] = b[i]
    BY <1>2, PrefixTyped
  <2>2. n <= Len(b)
    BY <1>2
  <2> QED
    BY <1>5, <2>1, <2>2
<1> QED
  BY <1>1, <1>6, <1>7 DEF b, s, f

LEMMA Idles ==
  /\ Idle.active = FALSE /\ Idle.complete = FALSE /\ Idle.path = NoFile
  /\ [Idle EXCEPT !.session = TRUE].active = FALSE /\ [Idle EXCEPT !.session = TRUE].complete = FALSE
  /\ [Idle EXCEPT !.session = TRUE].path = NoFile
BY DEF Idle

\* The board at rest, with files that begin as they should.
LEMMA RestCounts ==
  ASSUME CardOK', ~board'.active, ~board'.complete, board'.path = NoFile, buffer' = <<>>,
         \A f \in Files : Start(stage'[f], f)
  PROVE  Counted'
BY Flushed DEF Counted, AtRest, AtWork, AtEnd, InBetween, Incomplete

\* Closing the file, or doing nothing, keeps what was counted.
LEMMA ClosedCounts ==
  ASSUME CardOK, Counted, stage' = stage, buffer' = buffer,
         board' = board \/ board' = [board EXCEPT !.path = NoFile]
  PROVE  Counted'
<1>1. /\ board'.active = board.active /\ board'.complete = board.complete /\ board'.file = board.file
      /\ board'.txn = board.txn /\ board'.session = board.session /\ board'.got = board.got
      /\ board'.path \in {board.path, NoFile}
  BY DEF CardOK, Sessions
<1>2. AtRest' /\ AtWork' /\ AtEnd' /\ InBetween'
  BY <1>1 DEF Counted, AtRest, AtWork, AtEnd, InBetween, Incomplete
<1>3. Prefixed'
  BY <1>1 DEF Counted, Prefixed, Held
<1> QED
  BY <1>2, <1>3 DEF Counted

LEMMA StoredCounts ==
  ASSUME NetOK, CardOK, CardOK', Counted, FrameStored
  PROVE  Counted'
<1> DEFINE m == Head(down)
           f == board.file
<1>1. m \in Messages /\ m.kind = "data" /\ Mine(m) /\ Expected(m)
  BY TakeTyped DEF FrameStored
<1>2. /\ f \in Files /\ m.file = f /\ Start(stage[f] \o Filled(m), f)
      /\ Len(stage[f] \o Filled(m)) = board.got + 1
  BY <1>1, Appended
<1>3. /\ Incomplete /\ board.active /\ board.session /\ f \in Files /\ board.txn \in Txns
      /\ board.path \in {NoFile, f} /\ board.got \in Nat /\ board.got < Sizes[f] /\ Sizes[f] \in Nat
  BY <1>1, Constants DEF Mine, Expected, Incomplete, Counted, AtWork, InBetween, CardOK, Sessions
<1>4. /\ board'.active /\ board'.session /\ board'.file = f /\ board'.txn = board.txn
      /\ board'.got = board.got + 1 /\ (board'.complete <=> Last(m))
      /\ board'.path = IF Last(m) THEN NoFile ELSE board.path
  <2>1. board' = [board EXCEPT !.got = board.got + 1, !.complete = Last(m),
                               !.path = IF Last(m) THEN NoFile ELSE board.path]
    BY Zenon DEF FrameStored
  <2> QED
    BY <1>3, <2>1 DEF CardOK, Sessions
<1>5. CASE Fits(m) /\ ~Last(m)
  <2>1. buffer' = Filled(m) /\ stage' = stage
    BY <1>5, Zenon DEF FrameStored
  <2>2. AtRest' /\ AtWork' /\ AtEnd'
    BY <1>3, <1>4, <1>5 DEF AtRest, AtWork, AtEnd
  <2>3. Len(stage[f] \o Filled(m)) = Len(stage[f]) + Len(Filled(m))
    <3>1. stage[f] \in Seq(Files \X Nat) /\ Filled(m) \in Seq(Files \X Nat)
      BY <1>1, <1>2, FilledTyped DEF CardOK, Contents
    <3> QED
      BY <3>1, ConcatProperties
  <2>4. InBetween'
    <3>1. /\ Len(stage'[board'.file]) + Len(buffer') = board'.got
          /\ board'.path \in {NoFile, board'.file}
      BY <1>2, <1>3, <1>4, <1>5, <2>1, <2>3
    <3>2. board'.got < Sizes[board'.file]
      BY <1>3, <1>4, <1>5 DEF Last
    <3> QED
      BY <3>1, <3>2 DEF InBetween
  <2>5. ASSUME NEW g \in Files PROVE Start(Held(g)', g)
    <3>1. CASE g = f
      BY <1>2, <1>4, <2>1, <3>1 DEF Held
    <3>2. CASE g # f
      BY <1>4, <2>1, <3>2 DEF Held, Counted, Prefixed
    <3> QED
      BY <3>1, <3>2
  <2> QED
    BY <2>2, <2>4, <2>5 DEF Counted, Prefixed
<1>6. CASE ~(Fits(m) /\ ~Last(m))
  <2>1. buffer' = <<>> /\ stage' = [stage EXCEPT ![board.path] = stage[board.path] \o Filled(m)]
    BY <1>6, Zenon DEF FrameStored
  <2>2. board.path = f
    BY <1>3, <1>6, Zenon DEF FrameStored
  <2>3. stage' = [stage EXCEPT ![f] = stage[f] \o Filled(m)]
    BY <2>1, <2>2
  <2>4. \A g \in Files : Start(stage'[g], g)
    BY <1>2, <2>3, StageStarts DEF Counted, CardOK
  <2>5. AtRest' /\ AtWork' /\ AtEnd'
    BY <1>3, <1>4, <2>1 DEF AtRest, AtWork, AtEnd
  <2>6. InBetween'
    <3>1. Len(stage'[f]) = board.got + 1 /\ Len(buffer') = 0
      BY <1>2, <1>3, <2>1, <2>3, EmptySeq DEF CardOK
    <3>2. /\ Len(stage'[board'.file]) + Len(buffer') = board'.got
          /\ board'.path \in {NoFile, board'.file}
      BY <1>3, <1>4, <3>1
    <3>3. ~board'.complete => board'.got < Sizes[board'.file]
      <4>1. ~Last(m) => board.got + 1 # Sizes[f]
        BY DEF Last
      <4> QED
        BY <1>3, <1>4, <4>1
    <3> QED
      BY <3>2, <3>3, Zenon DEF InBetween, Incomplete
  <2> QED
    BY <2>1, <2>4, <2>5, <2>6, Flushed DEF Counted
<1> QED
  BY <1>5, <1>6

LEMMA BrokenCounts ==
  ASSUME NetOK, CardOK, CardOK', Counted, FlushFails \/ TailFails
  PROVE  Counted'
<1> DEFINE m == Head(down)
           f == board.file
<1>1. m \in Messages /\ m.kind = "data" /\ Mine(m) /\ Expected(m)
  BY TakeTyped DEF FlushFails, TailFails
<1>2. /\ f \in Files
      /\ \A n \in 0..Len(Filled(m)) : Start(stage[f] \o SubSeq(Filled(m), 1, n), f)
  BY <1>1, Appended
<1>3. \E n \in {board.got, board.got + 1} : Broken(m, n)
  BY Zenon DEF FlushFails, TailFails
<1>4. ~board'.active /\ board'.complete = board.complete /\ board'.path = NoFile /\ buffer' = <<>>
  BY <1>3 DEF Broken, CardOK, Sessions
<1>5. ~board.complete /\ board.path \in {NoFile, f}
  BY <1>1 DEF Mine, Expected, Incomplete, Counted, InBetween
<1>6. \/ stage' = stage
      \/ board.path # NoFile /\ \E k \in 0..Len(Filled(m)) : Written(m, k)
  BY Zenon DEF FlushFails, TailFails
<1>7. \A g \in Files : Start(stage'[g], g)
  <2>1. CASE stage' = stage
    BY <2>1, StageStarts DEF Counted
  <2>2. ASSUME board.path # NoFile, NEW k \in 0..Len(Filled(m)), Written(m, k)
        PROVE  \A g \in Files : Start(stage'[g], g)
    <3>1. stage' = [stage EXCEPT ![f] = stage[f] \o SubSeq(Filled(m), 1, k)]
      BY <1>5, <2>2 DEF Written
    <3> QED
      BY <1>2, <3>1, StageStarts DEF Counted, CardOK
  <2> QED
    BY <1>6, <2>1, <2>2
<1> QED
  BY <1>4, <1>5, <1>7, RestCounts

LEMMA CountedStep ==
  ASSUME NetOK, CardOK, CardOK', Counted, [Next]_vars
  PROVE  Counted'
<1>0. \A f \in Files : Start(stage[f], f) /\ Start(NoStage[f], f) /\ Start(<<>>, f)
  BY StageStarts, EmptyStarts DEF Counted
<1>1. CASE HandleBegin
  <2>1. CASE board.session
    BY <1>1, <2>1, ClosedCounts DEF HandleBegin
  <2>2. CASE ~board.session
    BY <1>0, <1>1, <2>2, Idles, RestCounts DEF HandleBegin
  <2> QED
    BY <2>1, <2>2
<1>2. CASE HandleAbort
  BY <1>0, <1>2, Idles, RestCounts DEF HandleAbort
<1>3. CASE BulkRefused \/ BulkRepeated \/ FrameRefused \/ FrameRepeated \/ EndRefused
  <2>1. UNCHANGED card
    BY <1>3 DEF BulkRefused, BulkRepeated, FrameRefused, FrameRepeated, EndRefused
  <2> QED
    BY <2>1, ClosedCounts DEF card
<1>4. ASSUME Take("bulk") PROVE Head(down).file \in Files /\ Head(down).txn \in Txns
  BY <1>4, TakeTyped DEF Messages
<1>5. CASE BulkOpens
  <2> DEFINE f == Head(down).file
  <2>1. f \in Files /\ Head(down).txn \in Txns
    BY <1>4, <1>5 DEF BulkOpens
  <2>2. board' = Opened(Head(down)) /\ buffer' = <<>> /\ stage' = [stage EXCEPT ![f] = <<>>]
    BY <1>5 DEF BulkOpens
  <2>3. \A g \in Files : Start(stage'[g], g)
    BY <1>0, <2>1, <2>2 DEF CardOK
  <2>4. /\ board'.active /\ board'.session /\ board'.file = f /\ board'.txn = Head(down).txn
        /\ board'.got = 0 /\ (board'.complete <=> Sizes[f] = 0)
        /\ board'.path = IF Sizes[f] = 0 THEN NoFile ELSE f
    BY <2>2 DEF Opened
  <2>5. Len(stage'[f]) = 0 /\ Len(buffer') = 0 /\ Sizes[f] \in Nat
    BY <2>1, <2>2, EmptySeq, Constants DEF CardOK
  <2>6. AtRest' /\ AtWork' /\ AtEnd' /\ InBetween'
    <3>1. AtRest' /\ AtWork' /\ AtEnd'
      BY <2>1, <2>2, <2>4 DEF AtRest, AtWork, AtEnd
    <3>2. ~board'.complete => board'.got < Sizes[board'.file]
      BY <2>4, <2>5
    <3>3. Len(stage'[board'.file]) + Len(buffer') = board'.got /\ board'.path \in {NoFile, board'.file}
      BY <2>4, <2>5
    <3>4. InBetween'
      BY <3>2, <3>3, Zenon DEF InBetween, Incomplete
    <3> QED
      BY <3>1, <3>4
  <2> QED
    BY <2>2, <2>3, <2>6, Flushed DEF Counted
<1>6. CASE BulkOpenFails
  <2>1. ~Incomplete
    BY <1>6 DEF BulkOpenFails, MayOpen
  <2>2. buffer' = <<>>
    BY <1>6, <2>1 DEF BulkOpenFails, Counted, AtRest
  <2>3. \A g \in Files : Start(stage'[g], g)
    <3>1. CASE stage' = stage
      BY <1>0, <3>1
    <3>2. CASE stage' = [stage EXCEPT ![Head(down).file] = <<>>]
      BY <1>0, <1>4, <1>6, <3>2 DEF BulkOpenFails, CardOK
    <3> QED
      BY <1>6, <3>1, <3>2 DEF BulkOpenFails
  <2>4. ~board'.active /\ ~board'.complete /\ board'.path = NoFile
    <3>1. CASE board.active
      BY <1>6, <3>1, Idles DEF BulkOpenFails
    <3>2. CASE ~board.active
      <4>1. board' = [board EXCEPT !.path = NoFile]
        BY <1>6, <3>2 DEF BulkOpenFails
      <4> QED
        BY <3>2, <4>1 DEF Counted, AtRest, CardOK, Sessions
    <3> QED
      BY <3>1, <3>2
  <2> QED
    BY <2>2, <2>3, <2>4, RestCounts
<1>7. CASE FrameStored
  BY <1>7, StoredCounts
<1>8. CASE FlushFails \/ TailFails
  BY <1>8, BrokenCounts
<1>9. CASE EndTakes
  BY <1>0, <1>9, Idles, RestCounts DEF EndTakes
<1>10. CASE EndFails \/ PageCloses
  BY <1>10, ClosedCounts DEF EndFails, PageCloses
<1>11. CASE Forgets
  BY <1>0, <1>11, Idles, RestCounts DEF Forgets
<1>12. CASE Host \/ LinkDrops \/ NoteLost \/ UNCHANGED vars
  <2>1. UNCHANGED card
    BY <1>12 DEF Host, Send, Answered, Skip, ControlTimesOut, Confirmed, Denied, DataTimesOut,
       Reconnect, Leave, LinkDrops, NoteLost, vars
  <2> QED
    BY <2>1, ClosedCounts DEF card
<1> QED
  BY <1>1, <1>2, <1>3, <1>5, <1>6, <1>7, <1>8, <1>9, <1>10, <1>11, <1>12
     DEF Next, Board, Environment

LEMMA InitCounts == Init => Counted
<1> SUFFICES ASSUME Init PROVE Counted
  OBVIOUS
<1>1. board = Idle /\ buffer = <<>> /\ stage = NoStage
  BY DEF Init, NoStage
<1>2. \A f \in Files : Held(f) = NoStage[f]
  BY <1>1, Idles DEF Held
<1> QED
  BY <1>1, <1>2, Idles, EmptyStarts DEF Counted, AtRest, AtWork, AtEnd, InBetween, Incomplete, Prefixed

\* The board holds the beginning of every file, frame by frame and without a
\* gap, and counts what it holds, under all faults.
THEOREM PrefixHeld == Spec => []InOrder
<1>1. Init => Counted
  BY InitCounts
<1>2. TypeOK /\ TypeOK' /\ Counted /\ [Next]_vars => Counted'
  BY CountedStep DEF TypeOK
<1>3. TypeOK /\ Counted => InOrder
  <2> SUFFICES ASSUME TypeOK, Counted, board.path # NoFile
               PROVE  Len(Held(board.path)) = board.got
    BY DEF InOrder, Counted, Prefixed
  <2>1. Incomplete /\ board.path = board.file /\ board.file \in Files
    BY DEF Counted, AtRest, AtEnd, AtWork, InBetween, Incomplete
  <2>2. Len(stage[board.file] \o buffer) = Len(stage[board.file]) + Len(buffer)
    BY <2>1, ConcatProperties DEF TypeOK, CardOK, Contents
  <2> QED
    BY <2>1, <2>2 DEF Counted, InBetween, Incomplete, Held
<1> QED
  BY <1>1, <1>2, <1>3, TypeCorrect, PTL DEF Spec

-----------------------------------------------------------------------------
(* The invariant behind PassedWhole and TakenWhole                         *)

Mail  == {down[i] : i \in 1..Len(down)}
Notes == {up[i] : i \in 1..Len(up)} \cup {status}

\* Where a message stands in its transaction, how far the host is, and up to
\* where it has heard from the board.
N == Len(Sizes)
Pos(m) == CASE m.kind = "begin" -> 0
            [] m.kind \in {"bulk", "data"} -> m.file
            [] m.kind = "end" -> N + 1
            [] OTHER -> N + 2
HostPos == CASE host.at = "begin" -> 0
             [] host.at \in {"bulk", "resume", "data"} -> host.file
             [] host.at = "end" -> N + 1
             [] OTHER -> N + 2
HeardPos == CASE host.at \in {"resume", "data"} -> host.file
              [] host.at = "bulk" -> host.file - 1
              [] host.at = "end" -> N
              [] OTHER -> 0

AtLeast(m, t, p) == m.txn > t \/ (m.txn = t /\ Pos(m) >= p)
AtMost(m, t, p)  == m.txn < t \/ (m.txn = t /\ Pos(m) <= p)
\* What the host sends later is not of an earlier place, nor an earlier frame of
\* the same file, and it does not end a transaction that has only begun.
Follows(m, later) ==
  /\ AtLeast(later, m.txn, Pos(m))
  /\ later.kind = "end" => AtLeast(m, later.txn, 1)
  /\ m.kind = "data" /\ later.kind = "data" /\ later.txn = m.txn /\ later.file = m.file
       => m.off <= later.off
OfFile(r) == r.kind \in {"bulk", "data"}

\* The mailbox holds messages in the order the host works, none the host has yet
\* to send, and none that is older than what the board has answered.
Sorted      == \A i, j \in 1..Len(down) : i < j => Follows(down[i], down[j])
Behind      == \A m \in Mail : AtMost(m, host.txn, HostPos)
NoteBehind(r) == r.txn < host.txn \/ (r.txn = host.txn /\ r.file <= HostPos)
NotesBehind == \A r \in Notes : OfFile(r) => NoteBehind(r)
AfterNotes  == \A r \in Notes, m \in Mail : OfFile(r) => AtLeast(m, r.txn, r.file)
AfterHost   == HeardPos > 0 => \A m \in Mail : AtLeast(m, host.txn, HeardPos)
NoneAhead   ==
  \A m \in Mail : m.kind = "data" /\ m.txn = host.txn /\ m.file = HostPos => m.off <= host.off
Order == Sorted /\ Behind /\ NotesBehind /\ AfterNotes /\ AfterHost /\ NoneAhead

\* The host is within the file it sends, and ends after the last one.
Place == /\ host.at = "bulk" => host.off = 0
         /\ host.at \in {"data", "resume"} => host.off < Sizes[host.file]
         /\ host.at = "end" => host.file = N

\* An incomplete file is open, and a complete one is whole.
Kept == /\ Incomplete => board.path = board.file
        /\ board.complete => stage[board.file] = Whole(board.file)

WholeOr(f)  == stage[f] = Whole(f) \/ (Incomplete /\ board.file = f)
About(r)    == r.txn = host.txn /\ r.file = host.file

\* The board is at the file of the host, or it has lost the transfer of it
\* before the last frame.
There   == board.active /\ board.txn = host.txn /\ board.file = host.file
Lost    == /\ ~board.active
           /\ Sizes[host.file] = 0 => stage[host.file] = Whole(host.file)
           /\ Sizes[host.file] # 0 => board.got < Sizes[host.file]
BoardAt == There \/ Lost

\* So it is where the host knows that the board has opened the file.
Opening(r) == r.kind = "bulk" /\ r.rc = "ok" /\ About(r)
Announced ==
  /\ host.at \in {"data", "resume"} => BoardAt
  /\ host.at = "bulk" => \A r \in Notes : Opening(r) => BoardAt

\* The board has not got further than the host has sent, and no frame it will
\* find in the mailbox is older than the last one it has stored.
BoardBehind ==
  board.active =>
    \/ board.txn < host.txn
    \/ /\ board.txn = host.txn
       /\ board.file < HostPos \/ (board.file = HostPos /\ board.got <= host.off + 1)
FramesAhead ==
  board.active =>
    \A m \in Mail : m.kind = "data" /\ m.txn = board.txn /\ m.file = board.file =>
                     m.off + 1 >= board.got

\* No frame of a file is sent before the file is announced.
FrameOf(m) == m.kind = "data" /\ About(m)
NoFrameYet == host.at = "bulk" => \A m \in Mail \cup Notes : ~FrameOf(m)

\* What confirms the last frame of a file is true, and then what is still under
\* way of the file is its last frame.
LastFrame(m) == m.kind = "data" => m.off + 1 = Sizes[m.file]
FinalAck(r)  == FrameOf(r) /\ r.off = Sizes[host.file] /\ r.rc \in {"ok", "busy"}
Closing      == /\ host.off + 1 >= Sizes[host.file]
                /\ \A m \in Mail : FrameOf(m) => LastFrame(m)
FinalAcks ==
  host.at \in {"data", "resume"} =>
    \A r \in Notes : FinalAck(r) => Closing /\ (board.session => WholeOr(host.file))

\* What the host has passed is kept: only last frames of it can still come, and a
\* file that is opened again at its beginning is not written by those.
PassedKept == InTransaction => \A f \in Files : Passed(f) => WholeOr(f)
PassedLast ==
  host.at \in {"bulk", "end"} => \A m \in Mail : m.txn = host.txn => LastFrame(m)

\* When install_end comes everything is there.
EndReady ==
  \A e \in Mail : e.kind = "end" =>
    /\ board.session => \A f \in Files : WholeOr(f)
    /\ \A m \in Mail : m.txn = e.txn => LastFrame(m)
TakenAll == taken # <<>> => \A f \in Files : taken[f] = Whole(f)

Story == /\ Announced /\ BoardBehind /\ FramesAhead /\ NoFrameYet /\ FinalAcks
         /\ PassedKept /\ PassedLast /\ EndReady /\ TakenAll

\* The host has heard of a success only when there is one.
Reported == /\ host.at = "done" => taken # <<>>
            /\ \A r \in Notes : r.kind = "end" /\ r.rc = "ok" => taken # <<>>

IInv == /\ TypeOK /\ Counted /\ Reported
        /\ TailKept => Kept /\ Place /\ Order /\ Story

-----------------------------------------------------------------------------
(* Messages and answers in their order                                     *)

LEMMA TypeStep == TypeOK /\ [Next]_vars => TypeOK'
BY HostTyped, NetTyped, CardTyped, PastTyped DEF TypeOK, CardOK

LEMMA MessagePlace ==
  ASSUME NEW m \in Messages
  PROVE  /\ m.txn \in Nat /\ Pos(m) \in Nat /\ Pos(m) <= N + 2 /\ N \in Nat \ {0}
         /\ m.kind = "begin" => Pos(m) = 0
         /\ m.kind \in {"bulk", "data"} => Pos(m) = m.file /\ m.file \in 1..N
         /\ m.kind = "end" => Pos(m) = N + 1
         /\ m.kind = "abort" => Pos(m) = N + 2
         /\ m.off \in Nat
<1>0. m.off \in Nat
  BY DEF Messages
<1>1. m.txn \in Nat /\ N \in Nat \ {0} /\ (m.kind \in {"bulk", "data"} => m.file \in 1..N)
  BY Constants DEF Messages, Files, N
<1>2. m.kind \in {"begin", "bulk", "data", "end", "abort"}
  BY DEF Messages
<1> QED
  BY <1>0, <1>1, <1>2 DEF Pos

HostPlaced ==
  /\ host.txn \in Nat /\ host.file \in 1..N /\ N \in Nat \ {0}
  /\ HostPos \in Nat /\ HostPos <= N + 2 /\ HeardPos \in Nat /\ HeardPos <= HostPos
  /\ host.at \in {"bulk", "resume", "data"} => HostPos = host.file
  /\ host.at \in {"resume", "data"} => HeardPos = host.file
  /\ host.at = "bulk" => HeardPos = host.file - 1
  /\ host.at = "end" => HeardPos = N /\ HostPos = N + 1
  /\ host.at = "begin" => HeardPos = 0 /\ HostPos = 0
  /\ host.at \in Leaving \cup Ended => HeardPos = 0 /\ HostPos = N + 2

LEMMA HostPlace == host \in Hosts => HostPlaced
<1> SUFFICES ASSUME host \in Hosts PROVE HostPlaced
  OBVIOUS
<1>1. host.txn \in Nat /\ host.file \in 1..N /\ N \in Nat \ {0}
  BY Constants DEF Hosts, Files, N
<1>2. host.at \in {"begin", "bulk", "resume", "data", "end"} \cup Leaving \cup Ended
  BY DEF Hosts, Requests, Controls
<1> QED
  BY <1>1, <1>2 DEF HostPlaced, HostPos, HeardPos, Leaving, Ended

LEMMA HostPlaceNext == (host \in Hosts => HostPlaced)'
BY HostPlace, PTL

LEMMA ReplyPlace ==
  ASSUME NEW r \in Replies
  PROVE  r.file \in Nat /\ r.txn \in Nat
<1>1. r.file \in Files \/ r.file = 0
  BY DEF Replies, NoFile
<1>2. r.txn \in Txns \/ r.txn = 0
  BY DEF Replies
<1>3. Files \subseteq Nat /\ Txns \subseteq Nat /\ 0 \in Nat
  BY Constants
<1> QED
  BY <1>1, <1>2, <1>3, Zenon

LEMMA BoardPlace ==
  ASSUME CardOK
  PROVE  board.txn \in Nat /\ board.file \in Nat /\ board.got \in Nat
<1>1. board.txn \in Txns \cup {0} /\ board.file \in Files \cup {NoFile} /\ board.got \in Nat
  BY DEF CardOK, Sessions
<1>2. Files \subseteq Nat /\ Txns \subseteq Nat /\ 0 \in Nat /\ NoFile \in Nat
  BY Constants DEF NoFile
<1> QED
  BY <1>1, <1>2, Zenon

LEMMA InMail ==
  ASSUME NetOK
  PROVE  /\ Mail \subseteq Messages /\ Notes \subseteq Replies
         /\ down # <<>> => Head(down) \in Mail
         /\ up # <<>> => Head(up) \in Notes
<1>1. /\ Len(down) \in Nat /\ \A i \in 1..Len(down) : down[i] \in Messages
      /\ Len(up) \in Nat /\ \A i \in 1..Len(up) : up[i] \in Replies
  BY LenProperties, ElementOfSeq DEF NetOK
<1>2. ASSUME down # <<>> PROVE Len(down) > 0 /\ Head(down) = down[1]
  BY <1>2, EmptySeq DEF NetOK
<1>3. ASSUME up # <<>> PROVE Len(up) > 0 /\ Head(up) = up[1]
  BY <1>3, EmptySeq DEF NetOK
<1> QED
  BY <1>1, <1>2, <1>3 DEF Mail, Notes, NetOK

\* Taking the first message leaves those that follow it.
LEMMA MailTaken ==
  ASSUME NetOK, down # <<>>, down' = Tail(down), Sorted
  PROVE  /\ Sorted' /\ Mail' \subseteq Mail
         /\ \A m \in Mail' : Follows(Head(down), m)
<1>1. /\ Len(down) \in Nat \ {0} /\ Head(down) = down[1]
      /\ Len(down') = Len(down) - 1 /\ \A i \in 1..Len(down') : down'[i] = down[i + 1]
  BY EmptySeq, HeadTailProperties, LenProperties DEF NetOK
<1>2. \A i \in 1..Len(down') : i + 1 \in 1..Len(down) /\ 1 < i + 1 /\ 1 \in 1..Len(down)
  BY <1>1
<1>3. Mail' \subseteq Mail
  BY <1>1, <1>2 DEF Mail
<1>4. Sorted'
  <2> SUFFICES ASSUME NEW i \in 1..Len(down'), NEW j \in 1..Len(down'), i < j
               PROVE  Follows(down'[i], down'[j])
    BY DEF Sorted, Follows, AtLeast, Pos
  <2>1. i + 1 < j + 1
    BY <1>1
  <2> QED
    BY <1>1, <1>2, <2>1 DEF Sorted
<1>5. \A m \in Mail' : Follows(Head(down), m)
  BY <1>1, <1>2 DEF Mail, Sorted
<1> QED
  BY <1>3, <1>4, <1>5

\* Putting a message behind those it follows.
LEMMA MailPut ==
  ASSUME NetOK, NEW m \in Messages, Put(m), Sorted, \A x \in Mail : Follows(x, m)
  PROVE  Sorted' /\ Mail' \subseteq Mail \cup {m}
<1>1. CASE down' = down
  BY <1>1 DEF Sorted, Mail, Follows, AtLeast, Pos
<1>2. CASE down' = Append(down, m)
  <2>1. /\ Len(down) \in Nat /\ Len(down') = Len(down) + 1
        /\ \A i \in 1..Len(down) : down'[i] = down[i]
        /\ down'[Len(down) + 1] = m
    BY <1>2, AppendProperties, LenProperties DEF NetOK
  <2>2. Mail' \subseteq Mail \cup {m}
    BY <2>1 DEF Mail
  <2>3. Sorted'
    <3> SUFFICES ASSUME NEW i \in 1..Len(down'), NEW j \in 1..Len(down'), i < j
                 PROVE  Follows(down'[i], down'[j])
      BY DEF Sorted, Follows, AtLeast, Pos
    <3>1. i \in 1..Len(down) /\ down'[i] = down[i]
      BY <2>1
    <3>2. CASE j \in 1..Len(down)
      BY <2>1, <3>1, <3>2 DEF Sorted
    <3>3. CASE j = Len(down) + 1
      BY <2>1, <3>1, <3>3 DEF Mail
    <3> QED
      BY <2>1, <3>2, <3>3
  <2> QED
    BY <2>2, <2>3
<1> QED
  BY <1>1, <1>2 DEF Put

\* Hearing, clearing or losing notifications leaves some of them.
LEMMA NotesHeard ==
  ASSUME NetOK, status' = status,
         up' = up \/ up' = <<>> \/ (up # <<>> /\ up' = Tail(up)) \/ Cleared
  PROVE  Notes' \subseteq Notes
<1> SUFFICES ASSUME NEW i \in 1..Len(up') PROVE up'[i] \in Notes
  BY DEF Notes
<1>0. Len(up) \in Nat
  BY LenProperties DEF NetOK
<1>1. CASE up' = up
  BY <1>1 DEF Notes
<1>2. CASE up' = <<>>
  BY <1>2, EmptySeq
<1>3. CASE up # <<>> /\ up' = Tail(up)
  <2>1. Len(up') = Len(up) - 1 /\ up'[i] = up[i + 1]
    BY <1>3, HeadTailProperties DEF NetOK
  <2>2. i + 1 \in 1..Len(up)
    BY <1>0, <2>1
  <2> QED
    BY <2>1, <2>2 DEF Notes
<1>4. CASE Cleared
  <2>1. PICK n \in 0..Len(up) : up' = SubSeq(up, n + 1, Len(up))
    BY <1>4 DEF Cleared
  <2>2. \A k \in (n + 1)..Len(up) : up[k] \in Replies
    BY <1>0, ElementOfSeq DEF NetOK
  <2>3. /\ Len(up') = IF n + 1 <= Len(up) THEN Len(up) - (n + 1) + 1 ELSE 0
        /\ \A k \in 1..(Len(up) - (n + 1) + 1) : up'[k] = up[(n + 1) + k - 1]
    BY <1>0, <2>1, <2>2, SubSeqProperties
  <2>4. i \in 1..(Len(up) - (n + 1) + 1) /\ (n + 1) + i - 1 \in 1..Len(up)
    BY <1>0, <2>3
  <2> QED
    BY <2>3, <2>4 DEF Notes
<1> QED
  BY <1>1, <1>2, <1>3, <1>4

LEMMA NotesSaid ==
  ASSUME NetOK, NEW r, Say(r)
  PROVE  Notes' \subseteq Notes \cup {r}
<1>1. CASE up' = up
  BY <1>1 DEF Notes, Say
<1>2. CASE up' = Append(up, r)
  <2>1. status' = r /\ Len(up) \in Nat
    BY LenProperties DEF Say, NetOK
  <2>2. /\ Len(up') = Len(up) + 1 /\ \A i \in 1..Len(up) : up'[i] = up[i]
        /\ up'[Len(up) + 1] = r
    <3>1. up \in Seq(Replies \cup {r}) /\ r \in Replies \cup {r}
      BY SeqMonotonic DEF NetOK
    <3> QED
      BY <1>2, <3>1, AppendProperties
  <2> QED
    BY <2>1, <2>2 DEF Notes
<1> QED
  BY <1>1, <1>2 DEF Say

-----------------------------------------------------------------------------
(* The order is kept                                                       *)

\* The host goes on in its transaction.
LEMMA OrderAhead ==
  ASSUME host \in Hosts, host' \in Hosts, NetOK, Order, down' = down, Notes' \subseteq Notes,
         host'.txn = host.txn, HostPos' >= HostPos, HostPos' = HostPos => host'.off >= host.off,
         HeardPos' > 0 => \A m \in Mail : AtLeast(m, host.txn, HeardPos')
  PROVE  Order'
<1>1. Mail' = Mail /\ Sorted'
  BY DEF Mail, Order, Sorted, Follows, AtLeast, Pos
<1>2. HostPos \in Nat /\ HostPos' \in Nat
  BY HostPlace, HostPlaceNext DEF HostPlaced
<1>3. \A m \in Mail : Pos(m) \in Nat
  BY InMail, MessagePlace
<1>4. Behind'
  BY <1>1, <1>2, <1>3 DEF Order, Behind, AtMost, Pos
<1>5. NotesBehind'
  <2> SUFFICES ASSUME NEW r \in Notes, OfFile(r)
               PROVE  r.txn < host'.txn \/ (r.txn = host'.txn /\ r.file <= HostPos')
    BY DEF NotesBehind, NoteBehind, OfFile
  <2>1. r.file \in Nat
    BY InMail, ReplyPlace
  <2> QED
    BY <1>2, <2>1 DEF Order, NotesBehind, NoteBehind
<1>6. AfterNotes'
  BY <1>1 DEF Order, AfterNotes, AtLeast, Pos, OfFile
<1>7. AfterHost'
  BY <1>1 DEF AfterHost, AtLeast, Pos
<1>8. NoneAhead'
  <2> SUFFICES ASSUME NEW m \in Mail, m.kind = "data", m.txn = host.txn, m.file = HostPos'
               PROVE  m.off <= host'.off
    BY <1>1 DEF NoneAhead
  <2>1. m.off \in Nat /\ Pos(m) = m.file /\ host.off \in Nat /\ host'.off \in Nat /\ host.txn \in Nat
    BY InMail, MessagePlace, HostPlace DEF HostPlaced, Hosts
  <2>2. AtMost(m, host.txn, HostPos)
    BY DEF Order, Behind
  <2>3. HostPos' = HostPos
    BY <1>2, <2>1, <2>2 DEF AtMost
  <2> QED
    BY <2>1, <2>3 DEF Order, NoneAhead
<1> QED
  BY <1>1, <1>4, <1>5, <1>6, <1>7, <1>8 DEF Order

\* What the host sends at its place, or when it leaves, is the last of all.
LEMMA OrderPut ==
  ASSUME host \in Hosts, NetOK, Order, NEW m \in Messages, Put(m),
         m.txn = host.txn, Pos(m) >= HostPos, m.kind = "end" => HeardPos > 0,
         m.kind = "data" => m.file = HostPos /\ m.off = host.off
  PROVE  /\ Sorted' /\ Mail' \subseteq Mail \cup {m}
         /\ \A r \in Notes : OfFile(r) => AtLeast(m, r.txn, r.file)
<1>1. /\ HostPos \in Nat /\ HeardPos \in Nat /\ host.txn \in Nat /\ Pos(m) \in Nat
      /\ \A x \in Mail : Pos(x) \in Nat /\ x.txn \in Nat
  BY HostPlace, InMail, MessagePlace DEF HostPlaced
<1>2. ASSUME NEW x \in Mail PROVE Follows(x, m)
  <2>1. AtMost(x, host.txn, HostPos)
    BY DEF Order, Behind
  <2>2. AtLeast(m, x.txn, Pos(x))
    BY <1>1, <2>1 DEF AtMost, AtLeast
  <2>3. m.kind = "end" => AtLeast(x, m.txn, 1)
    <3>1. m.kind = "end" => AtLeast(x, host.txn, HeardPos)
      BY DEF Order, AfterHost
    <3> QED
      BY <1>1, <3>1 DEF AtLeast
  <2>4. ASSUME x.kind = "data", m.kind = "data", m.txn = x.txn, m.file = x.file PROVE x.off <= m.off
    BY <2>4 DEF Order, NoneAhead
  <2> QED
    BY <2>2, <2>3, <2>4 DEF Follows
<1>3. Sorted' /\ Mail' \subseteq Mail \cup {m}
  BY <1>2, MailPut DEF Order
<1>4. ASSUME NEW r \in Notes, OfFile(r) PROVE AtLeast(m, r.txn, r.file)
  <2>1. r.txn \in Nat /\ r.file \in Nat
    BY InMail, ReplyPlace
  <2>2. NoteBehind(r)
    BY <1>4 DEF Order, NotesBehind
  <2> QED
    BY <1>1, <2>1, <2>2 DEF NoteBehind, AtLeast
<1> QED
  BY <1>3, <1>4

\* A request leaves the order as it is.
LEMMA OrderSent ==
  ASSUME host \in Hosts, host' \in Hosts, NetOK, Order, Send, Notes' \subseteq Notes
  PROVE  Order'
<1>1. /\ host.at \in Requests /\ host' = [host EXCEPT !.sent = TRUE]
      /\ Put(Request) \/ down' = down
  BY DEF Send
<1>2. /\ host'.at = host.at /\ host'.txn = host.txn /\ host'.file = host.file
      /\ HostPos' = HostPos /\ HeardPos' = HeardPos /\ host'.off = host.off
  BY <1>1 DEF Hosts, HostPos, HeardPos
<1>3. /\ HostPos \in Nat /\ HeardPos \in Nat /\ HeardPos <= HostPos
      /\ host.at = "end" => HeardPos > 0
      /\ host.off \in Nat
  BY HostPlace DEF HostPlaced, Hosts
<1>4. CASE down' = down
  BY <1>2, <1>3, <1>4, OrderAhead DEF Order, AfterHost
<1>5. CASE Put(Request)
  <2>1. Request \in Messages /\ Request.txn = host.txn /\ Pos(Request) = HostPos
    <3>1. Request.txn = host.txn /\ Pos(Request) = HostPos
      BY <1>1 DEF Request, Message, Pos, HostPos, Requests, Controls
    <3> QED
      BY <1>1, <3>1, RequestTyped
  <2>2. /\ Request.kind = "end" => host.at = "end"
        /\ Request.kind = "data" => Request.file = HostPos /\ Request.off = host.off
    BY DEF Request, Message, HostPos
  <2>3. /\ Sorted' /\ Mail' \subseteq Mail \cup {Request}
        /\ \A r \in Notes : OfFile(r) => AtLeast(Request, r.txn, r.file)
    BY <1>3, <1>5, <2>1, <2>2, OrderPut
  <2>4. Behind'
    <3> SUFFICES ASSUME NEW m \in Mail' PROVE AtMost(m, host.txn, HostPos)
      BY <1>2 DEF Behind, AtMost, Pos
    <3> QED
      BY <1>3, <2>1, <2>3 DEF Order, Behind, AtMost
  <2>5. NotesBehind'
    BY <1>2 DEF Order, NotesBehind, NoteBehind, OfFile
  <2>6. AfterNotes'
    BY <2>3 DEF Order, AfterNotes, AtLeast, Pos, OfFile
  <2>7. AfterHost'
    <3> SUFFICES ASSUME HeardPos > 0, NEW m \in Mail' PROVE AtLeast(m, host.txn, HeardPos)
      BY <1>2 DEF AfterHost, AtLeast, Pos
    <3> QED
      BY <1>3, <2>1, <2>3 DEF Order, AfterHost, AtLeast
  <2>8. NoneAhead'
    BY <1>2, <1>3, <2>2, <2>3 DEF Order, NoneAhead
  <2> QED
    BY <2>3, <2>4, <2>5, <2>6, <2>7, <2>8 DEF Order
<1> QED
  BY <1>1, <1>4, <1>5

\* A new transaction begins behind everything of the old one.
LEMMA OrderLeft ==
  ASSUME host \in Hosts, host' \in Hosts, NetOK, Order, Leave, Notes' \subseteq Notes
  PROVE  Order'
<1> DEFINE m == Message("abort", host.txn, NoFile, 0)
<1>1. /\ host.at \in Leaving
      /\ Put(m) \/ down' = down
      /\ \/ host' = [Ask("begin") EXCEPT !.txn = host.txn + 1, !.linked = TRUE]
         \/ host' = Ask("failed")
  BY Zenon DEF Leave
<1>2. \/ host'.txn = host.txn + 1 /\ host'.at = "begin"
      \/ host'.txn = host.txn /\ host'.at = "failed"
  BY <1>1 DEF Ask, Hosts
<1>3. /\ HostPos = N + 2 /\ HeardPos' = 0 /\ HostPos' \in Nat /\ host.txn \in Nat /\ N \in Nat
      /\ host'.txn = host.txn => HostPos' = N + 2
  <2>1. HostPlaced /\ HostPlaced'
    BY HostPlace, HostPlaceNext
  <2>2. HostPos = N + 2 /\ host.txn \in Nat /\ N \in Nat /\ HostPos' \in Nat
    <3>1. host.at \in Leaving \cup Ended
      BY <1>1
    <3> QED
      BY <2>1, <3>1 DEF HostPlaced
  <2>3. CASE host'.txn = host.txn + 1 /\ host'.at = "begin"
    BY <2>1, <2>2, <2>3 DEF HostPlaced
  <2>4. CASE host'.txn = host.txn /\ host'.at = "failed"
    BY <2>1, <2>2, <2>4 DEF HostPlaced, Ended
  <2> QED
    BY <1>2, <2>2, <2>3, <2>4
<1>4. m \in Messages /\ m.kind = "abort" /\ m.txn = host.txn /\ Pos(m) = N + 2
  <2>1. m \in Messages /\ m.kind = "abort" /\ m.txn = host.txn
    BY AbortTyped DEF Message
  <2> QED
    BY <2>1, MessagePlace
<1> HIDE DEF m
<1>5. /\ Sorted' /\ Mail' \subseteq Mail \cup {m}
      /\ \A r \in Notes : OfFile(r) => AtLeast(m, r.txn, r.file)
  <2>1. CASE Put(m)
    BY <1>3, <1>4, <2>1, OrderPut
  <2>2. CASE down' = down
    <3>1. Sorted' /\ Mail' = Mail
      BY <2>2 DEF Order, Sorted, Mail, Follows, AtLeast, Pos
    <3>2. ASSUME NEW r \in Notes, OfFile(r) PROVE AtLeast(m, r.txn, r.file)
      <4>1. r.txn \in Nat /\ r.file \in Nat
        BY InMail, ReplyPlace
      <4>2. NoteBehind(r)
        BY <3>2 DEF Order, NotesBehind
      <4> QED
        BY <1>3, <1>4, <4>1, <4>2 DEF NoteBehind, AtLeast
    <3> QED
      BY <3>1, <3>2
  <2> QED
    BY <1>1, <2>1, <2>2
<1>6. Behind'
  <2> SUFFICES ASSUME NEW x \in Mail' PROVE AtMost(x, host'.txn, HostPos')
    BY DEF Behind, AtMost, Pos
  <2>1. x \in Messages /\ AtMost(x, host.txn, N + 2)
    BY <1>3, <1>4, <1>5, InMail DEF Order, Behind, AtMost
  <2>2. x.txn \in Nat /\ Pos(x) \in Nat
    BY <2>1, MessagePlace
  <2> QED
    BY <1>2, <1>3, <2>1, <2>2 DEF AtMost
<1>7. NotesBehind'
  <2> SUFFICES ASSUME NEW r \in Notes, OfFile(r)
               PROVE  r.txn < host'.txn \/ (r.txn = host'.txn /\ r.file <= HostPos')
    BY DEF NotesBehind, NoteBehind, OfFile
  <2>1. r.file \in Nat /\ r.txn \in Nat
    BY InMail, ReplyPlace
  <2> QED
    BY <1>2, <1>3, <2>1 DEF Order, NotesBehind, NoteBehind
<1>8. AfterNotes'
  BY <1>5 DEF Order, AfterNotes, AtLeast, Pos, OfFile
<1>9. AfterHost'
  BY <1>3 DEF AfterHost
<1>10. NoneAhead'
  <2> SUFFICES ASSUME NEW x \in Mail', x.kind = "data", x.txn = host'.txn, x.file = HostPos'
               PROVE  FALSE
    BY DEF NoneAhead
  <2>1. x \in Mail /\ AtMost(x, host.txn, N + 2)
    BY <1>3, <1>4, <1>5 DEF Order, Behind
  <2>2. Pos(x) = x.file /\ x.file <= N
    BY <2>1, InMail, MessagePlace
  <2> QED
    BY <1>2, <1>3, <2>1, <2>2 DEF AtMost
<1> QED
  BY <1>5, <1>6, <1>7, <1>8, <1>9, <1>10 DEF Order

\* The board answers the first message with its place.
LEMMA OrderHandled ==
  ASSUME host \in Hosts, UNCHANGED host, NetOK, Order, down # <<>>, down' = Tail(down),
         NEW r, Notes' \subseteq Notes \cup {r},
         OfFile(r) => OfFile(Head(down)) /\ r.txn = Head(down).txn /\ r.file = Head(down).file
  PROVE  Order'
<1> DEFINE h == Head(down)
<1>1. /\ Sorted' /\ Mail' \subseteq Mail /\ h \in Mail /\ h \in Messages
      /\ \A m \in Mail' : Follows(h, m)
  BY MailTaken, InMail DEF Order
<1> HIDE DEF h
<1>2. HostPos' = HostPos /\ HeardPos' = HeardPos /\ host'.txn = host.txn
  BY DEF HostPos, HeardPos
<1>3. OfFile(r) => r.txn = h.txn /\ r.file = Pos(h)
  BY <1>1, MessagePlace DEF h, OfFile
<1>4. Behind'
  BY <1>1, <1>2 DEF Order, Behind, AtMost, Pos
<1>5. NotesBehind'
  <2> SUFFICES ASSUME NEW x \in Notes', OfFile(x) PROVE NoteBehind(x)
    BY <1>2 DEF NotesBehind, NoteBehind, OfFile
  <2>1. CASE x \in Notes
    BY <2>1 DEF Order, NotesBehind
  <2>2. CASE x = r
    BY <1>1, <1>3, <2>2 DEF Order, Behind, AtMost, NoteBehind
  <2> QED
    BY <2>1, <2>2
<1>6. AfterNotes'
  <2> SUFFICES ASSUME NEW x \in Notes', NEW m \in Mail', OfFile(x)
               PROVE  AtLeast(m, x.txn, x.file)
    BY DEF AfterNotes, AtLeast, Pos, OfFile
  <2>1. CASE x \in Notes
    BY <1>1, <2>1 DEF Order, AfterNotes
  <2>2. CASE x = r
    BY <1>1, <1>3, <2>2 DEF Follows
  <2> QED
    BY <2>1, <2>2
<1>7. AfterHost'
  BY <1>1, <1>2 DEF Order, AfterHost, AtLeast, Pos
<1>8. NoneAhead'
  BY <1>1, <1>2 DEF Order, NoneAhead
<1> QED
  BY <1>1, <1>4, <1>5, <1>6, <1>7, <1>8 DEF Order

\* A reset of the board may empty mailbox and notifications.
LEMMA OrderForgotten ==
  ASSUME host \in Hosts, NetOK, Order, Forgets
  PROVE  /\ Order' /\ Mail' \subseteq Mail
         /\ Notes' \subseteq Notes \cup {Reply("none", 0, 0, 0, "ok")}
<1>1. HostPos' = HostPos /\ HeardPos' = HeardPos /\ host' = host
  BY DEF Forgets, HostPos, HeardPos
<1>2. CASE UNCHANGED net
  <2>1. down' = down /\ Mail' = Mail /\ Notes' = Notes
    BY <1>2 DEF net, Mail, Notes
  <2>2. HostPos \in Nat /\ host.off \in Nat
    BY HostPlace DEF HostPlaced, Hosts
  <2>3. Order'
    BY <1>1, <2>1, <2>2, OrderAhead DEF Order, AfterHost
  <2> QED
    BY <2>1, <2>3
<1>3. CASE down' = <<>> /\ up' = <<>> /\ status' = Reply("none", 0, 0, 0, "ok")
  <2>1. Mail' = {} /\ Notes' = {Reply("none", 0, 0, 0, "ok")} /\ Len(down') = 0
    BY <1>3, EmptySeq DEF Mail, Notes
  <2>2. ~OfFile(Reply("none", 0, 0, 0, "ok"))
    BY DEF OfFile, Reply
  <2>3. NotesBehind' /\ AfterNotes'
    BY <2>1, <2>2 DEF NotesBehind, AfterNotes, OfFile
  <2>4. Sorted' /\ Behind' /\ AfterHost' /\ NoneAhead'
    BY <2>1 DEF Sorted, Behind, AfterHost, NoneAhead
  <2> QED
    BY <2>1, <2>3, <2>4 DEF Order
<1> QED
  BY <1>2, <1>3 DEF Forgets

-----------------------------------------------------------------------------
(* The moves of the host                                                   *)

Stays ==
  /\ host'.txn = host.txn /\ host'.file = host.file
  /\ \/ host'.at = host.at /\ host'.off = host.off
     \/ /\ host.at \in {"data", "resume"} /\ host'.at \in {"data", "resume"}
        /\ host.off <= host'.off /\ host'.off < Sizes[host.file]
Begins == host.at = "begin" /\ host' = ToFile(1)
Told   == host.at = "bulk" /\ Sizes[host.file] # 0 /\ (\E r \in Notes : Opening(r)) /\ host' = Ask("data")
Passes ==
  /\ host' = NextFile
  /\ \/ host.at = "bulk" /\ Sizes[host.file] = 0 /\ \E r \in Notes : Opening(r)
     \/ host.at = "data" /\ \E r \in Notes : FinalAck(r)
Stops == /\ host'.txn = host.txn /\ host'.file = host.file /\ host'.off = host.off
         /\ host'.at \in Leaving \cup Ended
Moves == Stays \/ Begins \/ Told \/ Passes \/ Stops

LEMMA AskMoves ==
  ASSUME host \in Hosts
  PROVE  /\ \A w : Ask(w).at = w /\ Ask(w).txn = host.txn /\ Ask(w).file = host.file /\ Ask(w).off = host.off
         /\ \A w, l : [Ask(w) EXCEPT !.linked = l].at = w /\ [Ask(w) EXCEPT !.linked = l].txn = host.txn
                     /\ [Ask(w) EXCEPT !.linked = l].file = host.file
                     /\ [Ask(w) EXCEPT !.linked = l].off = host.off
BY DEF Ask, Hosts

\* What a fruitless wait leads to.
LEMMA FailMoves ==
  ASSUME host \in Hosts, Place
  PROVE  /\ host' = ControlFails => Stays \/ Stops
         /\ host.at = "data" => (host' = WindowFails \/ host' = AttemptFails => Stays \/ Stops)
<1>1. ASSUME host' = ControlFails PROVE Stays \/ Stops
  <2>1. \/ host' = Ask("uncertain") \/ host' = Ask("abort")
        \/ host' = [host EXCEPT !.sent = FALSE, !.linked = FALSE, !.tries = host.tries + 1]
    BY <1>1, Zenon DEF ControlFails
  <2>2. CASE host' = Ask("uncertain") \/ host' = Ask("abort")
    BY <2>2, AskMoves DEF Stops, Leaving, Ended
  <2>3. CASE host' = [host EXCEPT !.sent = FALSE, !.linked = FALSE, !.tries = host.tries + 1]
    BY <2>3 DEF Stays, Hosts
  <2> QED
    BY <2>1, <2>2, <2>3
<1>2. ASSUME host.at = "data", host' = WindowFails PROVE Stays \/ Stops
  <2>1. \/ host' = Ask("abort")
        \/ host' = [Ask("resume") EXCEPT !.linked = FALSE, !.stalls = host.stalls + 1]
    BY <1>2, Zenon DEF WindowFails
  <2>2. CASE host' = Ask("abort")
    BY <2>2, AskMoves DEF Stops, Leaving
  <2>3. CASE host' = [Ask("resume") EXCEPT !.linked = FALSE, !.stalls = host.stalls + 1]
    <3>1. host'.at = "resume" /\ host'.txn = host.txn /\ host'.file = host.file /\ host'.off = host.off
      BY <2>3 DEF Ask, Hosts
    <3> QED
      BY <1>2, <3>1 DEF Stays, Place, Hosts
  <2> QED
    BY <2>1, <2>2, <2>3
<1>3. ASSUME host.at = "data", host' = AttemptFails PROVE Stays \/ Stops
  <2>1. \/ host' = WindowFails
        \/ host' = [host EXCEPT !.sent = FALSE, !.tries = host.tries + 1]
    BY <1>3, Zenon DEF AttemptFails
  <2>2. CASE host' = [host EXCEPT !.sent = FALSE, !.tries = host.tries + 1]
    BY <2>2 DEF Stays, Hosts
  <2> QED
    BY <1>2, <1>3, <2>1, <2>2
<1> QED
  BY <1>1, <1>2, <1>3

LEMMA StopMoves ==
  ASSUME host \in Hosts, NEW w \in Leaving \cup Ended, NEW l \in BOOLEAN,
         host' = Ask(w) \/ host' = [Ask(w) EXCEPT !.linked = l]
  PROVE  Moves
<1>1. host'.at = w /\ host'.txn = host.txn /\ host'.file = host.file /\ host'.off = host.off
  BY DEF Ask, Hosts
<1>2. Stops
  BY <1>1 DEF Stops
<1> QED
  BY <1>2 DEF Moves

\* An answer of the board leads on, or to the end of the transaction.
LEMMA AnswerMoves ==
  ASSUME host \in Hosts, Place, Answered
  PROVE  Moves
<1>1. PICK r \in {status} \cup {up[i] : i \in 1..Len(up)} :
        /\ Awaited(r)
        /\ host' = IF r.rc = "ok" THEN Proceeds
                   ELSE Ask(IF r.rc \in {"error", "busy"} THEN "abort" ELSE "quit")
  BY DEF Answered
<1>2. r \in Notes /\ host.at \in {"begin", "bulk", "resume", "end"}
  BY DEF Answered, Controls, Notes
<1>3. ASSUME r.rc # "ok" PROVE Moves
  <2>1. host' = Ask("abort") \/ host' = Ask("quit")
    BY <1>1, <1>3
  <2>2. "abort" \in Leaving \cup Ended /\ "quit" \in Leaving \cup Ended
    BY DEF Leaving
  <2> QED
    BY <2>1, <2>2, StopMoves
<1>4. ASSUME r.rc = "ok" PROVE Moves
  <2>1. host' = Proceeds
    BY <1>1, <1>4
  <2>2. CASE host.at = "begin"
    <3>1. Begins
      BY <2>1, <2>2 DEF Proceeds, Begins
    <3> QED
      BY <3>1 DEF Moves
  <2>3. CASE host.at = "bulk"
    <3>1. Opening(r)
      BY <1>1, <1>4, <2>3 DEF Awaited, Opening, About
    <3>2. host' = IF Sizes[host.file] = 0 THEN NextFile ELSE Ask("data")
      BY <2>1, <2>3 DEF Proceeds
    <3>3. CASE Sizes[host.file] = 0
      <4>1. Passes
        BY <1>2, <2>3, <3>1, <3>2, <3>3 DEF Passes
      <4> QED
        BY <4>1 DEF Moves
    <3>4. CASE Sizes[host.file] # 0
      <4>1. Told
        BY <1>2, <2>3, <3>1, <3>2, <3>4 DEF Told
      <4> QED
        BY <4>1 DEF Moves
    <3> QED
      BY <3>3, <3>4
  <2>4. CASE host.at = "resume"
    <3>1. host' = Ask("data")
      BY <2>1, <2>4 DEF Proceeds
    <3>2. host'.at = "data" /\ host'.txn = host.txn /\ host'.file = host.file /\ host'.off = host.off
      BY <3>1, AskMoves
    <3>3. Stays
      BY <2>4, <3>2 DEF Stays, Place, Hosts
    <3> QED
      BY <3>3 DEF Moves
  <2>5. CASE host.at = "end"
    <3>1. host' = Ask("done")
      BY <2>1, <2>5 DEF Proceeds
    <3>2. "done" \in Leaving \cup Ended
      BY DEF Ended
    <3> QED
      BY <3>1, <3>2, StopMoves
  <2> QED
    BY <1>2, <2>2, <2>3, <2>4, <2>5
<1> QED
  BY <1>3, <1>4

\* A confirmed frame leads to the next one, or past the file.
LEMMA ConfirmMoves ==
  ASSUME host \in Hosts, Place, Confirmed
  PROVE  Moves
<1>1. PICK r \in {status} \cup {up[i] : i \in 1..Len(up)} : Awaited(r) /\ Confirms(r)
  BY DEF Confirmed
<1>2. /\ r \in Notes /\ host.at = "data"
      /\ host' = IF host.off + 1 < Sizes[host.file]
                 THEN [Ask("data") EXCEPT !.off = host.off + 1, !.stalls = 0] ELSE NextFile
  BY DEF Confirmed, Notes
<1>3. CASE host.off + 1 < Sizes[host.file]
  <2>1. host' = [Ask("data") EXCEPT !.off = host.off + 1, !.stalls = 0]
    BY <1>2, <1>3
  <2>2. host'.at = "data" /\ host'.txn = host.txn /\ host'.file = host.file /\ host'.off = host.off + 1
    BY <2>1 DEF Ask, Hosts
  <2>3. Stays
    BY <1>2, <1>3, <2>2 DEF Stays, Hosts
  <2> QED
    BY <2>3 DEF Moves
<1>4. CASE ~(host.off + 1 < Sizes[host.file])
  <2>1. host.off \in Nat /\ Sizes[host.file] \in Nat /\ host.off < Sizes[host.file]
    BY <1>2, Constants DEF Hosts, Place
  <2>2. FinalAck(r)
    BY <1>1, <1>2, <1>4, <2>1 DEF Awaited, Confirms, FinalAck, FrameOf, About
  <2>3. Passes
    BY <1>2, <1>4, <2>2 DEF Passes
  <2> QED
    BY <2>3 DEF Moves
<1> QED
  BY <1>3, <1>4

LEMMA HostQuiet ==
  ASSUME NetOK, Host \/ LinkDrops \/ NoteLost
  PROVE  /\ UNCHANGED card /\ Notes' \subseteq Notes
         /\ down' = down \/ Send \/ Leave
<1>1. UNCHANGED card /\ (down' = down \/ Send \/ Leave)
  BY DEF Host, Send, Leave, Answered, Skip, ControlTimesOut, Confirmed, Denied, DataTimesOut, Reconnect,
     LinkDrops, NoteLost, net
<1>2. Notes' \subseteq Notes
  <2>1. status' = status /\ (up' = up \/ up' = <<>> \/ (up # <<>> /\ up' = Tail(up)) \/ Cleared)
    BY HostNet
  <2> QED
    BY <2>1, NotesHeard
<1> QED
  BY <1>1, <1>2

LEMMA HostMoves ==
  ASSUME host \in Hosts, Place, Host \/ LinkDrops \/ NoteLost, ~Send, ~Leave
  PROVE  Moves
<1>1. CASE ControlTimesOut
  <2>1. Stays \/ Stops
    BY <1>1, FailMoves DEF ControlTimesOut
  <2> QED
    BY <2>1 DEF Moves
<1>2. CASE Denied \/ DataTimesOut
  <2>1. Stays \/ Stops
    BY <1>2, FailMoves DEF Denied, DataTimesOut
  <2> QED
    BY <2>1 DEF Moves
<1>3. CASE LinkDrops
  <2>1. host' = IF host.at = "data" THEN WindowFails ELSE ControlFails
    BY <1>3 DEF LinkDrops
  <2>2. Stays \/ Stops
    BY <2>1, FailMoves
  <2> QED
    BY <2>2 DEF Moves
<1>4. CASE Reconnect
  <2>1. CASE host' = [host EXCEPT !.linked = TRUE]
    <3>1. Stays
      BY <2>1 DEF Stays, Hosts
    <3> QED
      BY <3>1 DEF Moves
  <2>2. CASE host' = [Ask("abort") EXCEPT !.linked = TRUE]
    <3>1. "abort" \in Leaving \cup Ended
      BY DEF Leaving
    <3> QED
      BY <2>2, <3>1, StopMoves
  <2> QED
    BY <1>4, <2>1, <2>2 DEF Reconnect
<1>5. CASE Skip \/ NoteLost
  <2>1. host' = host
    BY <1>5 DEF Skip, NoteLost
  <2>2. Stays
    BY <2>1 DEF Stays
  <2> QED
    BY <2>2 DEF Moves
<1>6. CASE Answered
  BY <1>6, AnswerMoves
<1>7. CASE Confirmed
  BY <1>7, ConfirmMoves
<1> QED
  BY <1>1, <1>2, <1>3, <1>4, <1>5, <1>6, <1>7 DEF Host

-----------------------------------------------------------------------------
(* What the host knows of the board stays true                             *)

\* The host does something, and the board nothing.
Alone == /\ TypeOK /\ TypeOK' /\ Kept /\ Place /\ Order /\ Story
         /\ UNCHANGED card /\ Notes' \subseteq Notes

\* What does not depend on where the host is.
LEMMA AloneKeeps ==
  ASSUME Alone
  PROVE  /\ host \in Hosts /\ host' \in Hosts /\ NetOK
         /\ board' = board /\ stage' = stage /\ taken' = taken /\ Kept' /\ TakenAll'
         /\ Mail' \subseteq Mail => EndReady' /\ FramesAhead'
<1>1. /\ board' = board /\ stage' = stage /\ taken' = taken /\ Notes' \subseteq Notes
      /\ EndReady /\ FramesAhead /\ TakenAll /\ Kept
      /\ host \in Hosts /\ host' \in Hosts /\ NetOK
  BY DEF Alone, card, Story, TypeOK
<1>2. Kept'
  BY <1>1 DEF Kept, Incomplete
<1>3. Mail' \subseteq Mail => EndReady' /\ FramesAhead'
  BY <1>1 DEF EndReady, FramesAhead, LastFrame, WholeOr, Incomplete
<1>4. TakenAll'
  BY <1>1 DEF TakenAll
<1> QED
  BY <1>1, <1>2, <1>3, <1>4

\* A host that goes on stays ahead of the board.
LEMMA StaysAhead ==
  ASSUME Alone,
         \/ host'.txn = host.txn + 1
         \/ /\ host'.txn = host.txn /\ HostPos' >= HostPos
            /\ HostPos' = HostPos => host'.off >= host.off
  PROVE  BoardBehind'
<1>1. /\ board' = board /\ BoardBehind
      /\ HostPos \in Nat /\ HostPos' \in Nat /\ host.txn \in Nat /\ host.off \in Nat /\ host'.off \in Nat
  BY AloneKeeps, HostPlace, HostPlaceNext DEF Alone, Story, HostPlaced, Hosts
<1>2. board.txn \in Nat /\ board.file \in Nat /\ board.got \in Nat
  BY BoardPlace DEF Alone, TypeOK
<1> QED
  BY <1>1, <1>2 DEF BoardBehind

LEMMA StaysKeeps ==
  ASSUME Alone, Stays, down' = down
  PROVE  Place' /\ Order' /\ Story'
<1>1. /\ host'.txn = host.txn /\ host'.file = host.file
      /\ host'.at \in {"data", "resume"} <=> host.at \in {"data", "resume"}
      /\ \A k \in {"begin", "bulk", "end"} : host'.at = k <=> host.at = k
      /\ InTransaction' <=> InTransaction
  <2>1. CASE host'.at = host.at
    BY <2>1, AloneKeeps DEF Stays, InTransaction
  <2>2. CASE host.at \in {"data", "resume"} /\ host'.at \in {"data", "resume"}
    BY <2>2, AloneKeeps DEF Stays, InTransaction, Requests, Controls
  <2> QED
    BY <2>1, <2>2 DEF Stays
<1>2. host.off <= host'.off /\ host.off \in Nat /\ host'.off \in Nat /\ Sizes[host.file] \in Nat
  <2>1. host.off \in Nat /\ host'.off \in Nat /\ host.file \in Files
    BY AloneKeeps DEF Hosts
  <2>2. Sizes[host.file] \in Nat
    BY <2>1, Constants
  <2>3. host'.off = host.off \/ host.off <= host'.off
    BY DEF Stays
  <2> QED
    BY <2>1, <2>2, <2>3
<1>3. Place'
  <2>1. host'.at \in {"data", "resume"} => host'.off < Sizes[host.file]
    BY DEF Stays, Alone, Place
  <2>2. host'.at = "bulk" => host'.off = 0
    BY DEF Stays, Alone, Place
  <2> QED
    BY <1>1, <2>1, <2>2 DEF Alone, Place
<1>4. HostPos' = HostPos /\ HeardPos' = HeardPos /\ HostPos \in Nat
  <2>1. CASE host'.at = host.at
    BY <1>1, <2>1, AloneKeeps, HostPlace DEF HostPos, HeardPos, HostPlaced
  <2>2. CASE host.at \in {"data", "resume"} /\ host'.at \in {"data", "resume"}
    BY <1>1, <2>2, AloneKeeps, HostPlace DEF HostPos, HeardPos, HostPlaced
  <2> QED
    BY <2>1, <2>2 DEF Stays
<1>5. Order' /\ BoardBehind'
  BY <1>1, <1>2, <1>4, AloneKeeps, OrderAhead, StaysAhead DEF Alone, Order, AfterHost
<1>6. Announced'
  BY <1>1, AloneKeeps DEF Alone, Story, Announced, BoardAt, There, Lost, Opening, About
<1>7. Mail' = Mail /\ Notes' \subseteq Notes
  BY DEF Mail, Alone
<1>8. NoFrameYet' /\ PassedLast'
  BY <1>1, <1>7, AloneKeeps DEF Alone, Story, NoFrameYet, FrameOf, About, PassedLast, LastFrame
<1>9. FinalAcks'
  <2> SUFFICES ASSUME host.at \in {"data", "resume"}, NEW r \in Notes, FinalAck(r)
               PROVE  Closing' /\ (board.session => WholeOr(host.file))
    BY <1>1, <1>7, AloneKeeps DEF FinalAcks, FinalAck, FrameOf, About, WholeOr, Incomplete
  <2>1. Closing /\ (board.session => WholeOr(host.file))
    BY DEF Alone, Story, FinalAcks
  <2>2. Closing'
    BY <1>1, <1>2, <1>7, <2>1 DEF Closing, FrameOf, About, LastFrame
  <2> QED
    BY <2>1, <2>2
<1>10. PassedKept'
  BY <1>1, AloneKeeps DEF Alone, Story, PassedKept, Passed, WholeOr, Incomplete
<1>11. EndReady' /\ FramesAhead' /\ TakenAll'
  BY <1>7, AloneKeeps
<1> QED
  BY <1>3, <1>5, <1>6, <1>8, <1>9, <1>10, <1>11 DEF Story

\* Nothing has been said or sent about a file the host has not come to.
LEMMA Unheard ==
  ASSUME host \in Hosts, NetOK, Order, NEW f \in Nat, f > HostPos
  PROVE  /\ \A m \in Mail : ~(OfFile(m) /\ m.txn = host.txn /\ m.file = f)
         /\ \A r \in Notes : ~(OfFile(r) /\ r.txn = host.txn /\ r.file = f)
<1>0. HostPos \in Nat /\ host.txn \in Nat
  BY HostPlace DEF HostPlaced
<1>1. ASSUME NEW m \in Mail, OfFile(m), m.txn = host.txn, m.file = f PROVE FALSE
  <2>1. m \in Messages /\ AtMost(m, host.txn, HostPos)
    BY InMail DEF Order, Behind
  <2>2. Pos(m) = f
    BY <1>1, <2>1, MessagePlace DEF OfFile
  <2> QED
    BY <1>0, <1>1, <2>1, <2>2 DEF AtMost
<1>2. ASSUME NEW r \in Notes, OfFile(r), r.txn = host.txn, r.file = f PROVE FALSE
  BY <1>0, <1>2 DEF Order, NotesBehind, NoteBehind
<1> QED
  BY <1>1, <1>2

\* The host comes to file f, having passed those before.
LEMMA ComesTo ==
  ASSUME Alone, down' = down, NEW f \in Files, f > HostPos, host' = ToFile(f),
         f > 1 => \A m \in Mail : AtLeast(m, host.txn, f - 1),
         \A m \in Mail : m.txn = host.txn => LastFrame(m),
         board.session => \A g \in Files : g < f => WholeOr(g)
  PROVE  Place' /\ Order' /\ Story'
<1>0. host \in Hosts /\ host' \in Hosts /\ NetOK /\ Order /\ f \in Nat
  BY AloneKeeps, Constants DEF Alone
<1>1. host'.at = "bulk" /\ host'.txn = host.txn /\ host'.file = f /\ host'.off = 0
  BY <1>0 DEF ToFile, Ask, Hosts
<1>2. Place'
  BY <1>1 DEF Place
<1>3. Order' /\ BoardBehind'
  <2>1. HostPos' = f /\ HeardPos' = f - 1 /\ HostPos \in Nat
    BY <1>0, <1>1, HostPlace DEF HostPos, HeardPos, HostPlaced
  <2>2. HeardPos' > 0 => \A m \in Mail : AtLeast(m, host.txn, HeardPos')
    BY <1>0, <2>1
  <2> QED
    BY <1>0, <1>1, <2>1, <2>2, OrderAhead, StaysAhead DEF Alone
<1>4. Mail' = Mail /\ Notes' \subseteq Notes
  BY DEF Mail, Alone
<1>5. Announced' /\ NoFrameYet' /\ FinalAcks'
  BY <1>0, <1>1, <1>4, Unheard DEF Announced, NoFrameYet, FinalAcks, Opening, FrameOf, About, OfFile
<1>6. PassedKept'
  BY <1>1, AloneKeeps DEF PassedKept, InTransaction, Passed, WholeOr, Incomplete
<1>7. PassedLast'
  BY <1>1, <1>4 DEF PassedLast, LastFrame
<1>8. EndReady' /\ FramesAhead' /\ TakenAll'
  BY <1>4, AloneKeeps
<1> QED
  BY <1>2, <1>3, <1>5, <1>6, <1>7, <1>8 DEF Story

LEMMA BeginsKeeps ==
  ASSUME Alone, Begins, down' = down
  PROVE  Place' /\ Order' /\ Story'
<1>1. 1 \in Files /\ host' = ToFile(1) /\ 1 > HostPos
  BY Constants DEF Begins, HostPos
<1>2. \A g \in Files : ~(g < 1)
  BY Constants
<1>3. ASSUME NEW m \in Mail, m.txn = host.txn PROVE LastFrame(m)
  <2>1. HostPos = 0 /\ AtMost(m, host.txn, HostPos) /\ host.txn \in Nat
    BY AloneKeeps, HostPlace DEF Begins, Alone, Order, Behind, HostPlaced
  <2>2. m.kind = "data" => Pos(m) = m.file /\ m.file \in 1..N /\ N \in Nat
    BY AloneKeeps, InMail, MessagePlace
  <2> QED
    BY <1>3, <2>1, <2>2 DEF AtMost, LastFrame
<1> QED
  BY <1>1, <1>2, <1>3, ComesTo

LEMMA ToldKeeps ==
  ASSUME Alone, Told, down' = down
  PROVE  Place' /\ Order' /\ Story'
<1>0. host \in Hosts /\ host' \in Hosts /\ NetOK /\ Order /\ Place /\ Story
  BY AloneKeeps DEF Alone
<1>1. PICK r \in Notes : Opening(r)
  BY DEF Told
<1>2. /\ host.at = "bulk" /\ Sizes[host.file] \in Nat \ {0} /\ host.off = 0
      /\ host'.at = "data" /\ host'.txn = host.txn /\ host'.file = host.file /\ host'.off = 0
  BY <1>0, Constants DEF Told, Ask, Hosts, Place
<1>3. Place'
  BY <1>2 DEF Place
<1>4. Mail' = Mail /\ Notes' \subseteq Notes
  BY DEF Mail, Alone
<1>5. Order' /\ BoardBehind'
  <2>1. HostPos' = HostPos /\ HeardPos' = host.file /\ HostPos \in Nat
    BY <1>0, <1>2, HostPlace DEF HostPos, HeardPos, HostPlaced
  <2>2. \A m \in Mail : AtLeast(m, host.txn, host.file)
    BY <1>0, <1>1 DEF Order, AfterNotes, Opening, About, OfFile
  <2> QED
    BY <1>0, <1>2, <1>4, <2>1, <2>2, OrderAhead, StaysAhead
<1>6. Announced'
  BY <1>0, <1>1, <1>2, AloneKeeps DEF Story, Announced, BoardAt, There, Lost
<1>7. NoFrameYet' /\ FinalAcks' /\ PassedLast'
  BY <1>0, <1>2, <1>4 DEF Story, NoFrameYet, FinalAcks, FinalAck, FrameOf, About, PassedLast
<1>8. PassedKept'
  BY <1>0, <1>2, AloneKeeps DEF Story, PassedKept, InTransaction, Passed, WholeOr, Incomplete, Requests, Controls
<1>9. EndReady' /\ FramesAhead' /\ TakenAll'
  BY <1>4, AloneKeeps
<1> QED
  BY <1>3, <1>5, <1>6, <1>7, <1>8, <1>9 DEF Story

LEMMA PassesKeeps ==
  ASSUME Alone, Passes, down' = down
  PROVE  Place' /\ Order' /\ Story'
<1>0. host \in Hosts /\ host' \in Hosts /\ NetOK /\ Order /\ Place /\ Story /\ Kept
  BY AloneKeeps DEF Alone
<1>1. /\ host.at \in {"bulk", "data"} /\ HostPos = host.file /\ host.file \in 1..N /\ N \in Nat
      /\ host' = NextFile
  BY <1>0, HostPlace DEF Passes, HostPos, HostPlaced
<1>2. board.session => WholeOr(host.file)
  <2>1. CASE host.at = "bulk"
    <3>1. BoardAt /\ Sizes[host.file] = 0
      BY <1>0, <2>1 DEF Passes, Story, Announced
    <3> QED
      BY <1>0, <3>1 DEF BoardAt, There, Lost, Kept, WholeOr, Incomplete
  <2>2. CASE host.at = "data"
    BY <1>0, <2>2 DEF Passes, Story, FinalAcks
  <2> QED
    BY <1>1, <2>1, <2>2
<1>3. \A m \in Mail : AtLeast(m, host.txn, host.file)
  <2>1. CASE host.at = "bulk"
    BY <1>0, <2>1 DEF Passes, Order, AfterNotes, Opening, About, OfFile
  <2>2. CASE host.at = "data"
    BY <1>0, <1>1, <2>2 DEF Order, AfterHost, HeardPos
  <2> QED
    BY <1>1, <2>1, <2>2
<1>4. ASSUME NEW m \in Mail, m.txn = host.txn PROVE LastFrame(m)
  <2>1. AtLeast(m, host.txn, host.file) /\ AtMost(m, host.txn, host.file) /\ host.txn \in Nat
    BY <1>0, <1>1, <1>3, HostPlace DEF Order, Behind, HostPlaced
  <2>2. m.kind = "data" => Pos(m) = m.file /\ m.file \in Nat
    BY <1>0, InMail, MessagePlace
  <2>3. m.kind = "data" => FrameOf(m)
    BY <1>1, <1>4, <2>1, <2>2 DEF AtLeast, AtMost, FrameOf, About
  <2>4. CASE host.at = "bulk"
    BY <1>0, <2>3, <2>4 DEF Story, NoFrameYet, LastFrame
  <2>5. CASE host.at = "data"
    BY <1>0, <2>3, <2>5 DEF Passes, Story, FinalAcks, Closing, LastFrame
  <2> QED
    BY <1>1, <2>4, <2>5
<1>5. board.session => \A g \in Files : g <= host.file => WholeOr(g)
  <2>1. ASSUME board.session, NEW g \in Files, g <= host.file PROVE WholeOr(g)
    <3>1. g = host.file \/ g < host.file
      BY <1>1, <2>1, Constants
    <3>2. InTransaction
      BY <1>1, <2>1 DEF InTransaction, Requests, Controls
    <3> QED
      BY <1>0, <1>2, <2>1, <3>1, <3>2 DEF Story, PassedKept, Passed
  <2> QED
    BY <2>1
<1>6. CASE host.file < N
  <2> DEFINE f == host.file + 1
  <2>1. host' = ToFile(f) /\ f \in Files /\ f > HostPos /\ f - 1 = host.file
    BY <1>1, <1>6 DEF NextFile, N, Files
  <2>2. \A g \in Files : g < f => g <= host.file
    BY <1>1, Constants
  <2> HIDE DEF f
  <2>3. board.session => \A g \in Files : g < f => WholeOr(g)
    BY <1>5, <2>2
  <2>4. \A m \in Mail : AtLeast(m, host.txn, f - 1)
    BY <1>3, <2>1
  <2> QED
    BY <1>4, <2>1, <2>3, <2>4, ComesTo
<1>7. CASE ~(host.file < N)
  <2>1. /\ host'.at = "end" /\ host'.txn = host.txn /\ host'.file = host.file /\ host.file = N
    <3>1. host' = [Ask("end") EXCEPT !.off = 0] /\ host.file = N
      BY <1>1, <1>7 DEF NextFile, N
    <3> QED
      BY <1>0, <3>1 DEF Ask, Hosts
  <2>2. Place'
    BY <2>1 DEF Place
  <2>3. Mail' = Mail /\ Notes' \subseteq Notes
    BY DEF Mail, Alone
  <2>4. Order' /\ BoardBehind'
    <3>1. HostPos' = N + 1 /\ HeardPos' = N
      BY <2>1 DEF HostPos, HeardPos
    <3> QED
      BY <1>0, <1>1, <1>3, <2>1, <2>3, <3>1, OrderAhead, StaysAhead
  <2>5. Announced' /\ NoFrameYet' /\ FinalAcks'
    BY <2>1 DEF Announced, NoFrameYet, FinalAcks
  <2>6. PassedKept'
    BY <1>1, <1>5, <2>1, AloneKeeps, Constants DEF PassedKept, InTransaction, Passed, WholeOr, Incomplete
  <2>7. PassedLast'
    BY <1>4, <2>1, <2>3 DEF PassedLast, LastFrame
  <2>8. EndReady' /\ FramesAhead' /\ TakenAll'
    BY <2>3, AloneKeeps
  <2> QED
    BY <2>2, <2>4, <2>5, <2>6, <2>7, <2>8 DEF Story
<1> QED
  BY <1>6, <1>7

\* The host has stopped: nothing more is claimed.
LEMMA StopsKeeps ==
  ASSUME Alone, Stops, down' = down
  PROVE  Place' /\ Order' /\ Story'
<1>0. host \in Hosts /\ host' \in Hosts /\ NetOK /\ Order /\ Story
  BY AloneKeeps DEF Alone
<1>1. /\ host'.at \in Leaving \cup Ended /\ host'.txn = host.txn /\ host'.file = host.file
      /\ host'.at \notin Requests
  BY DEF Stops, Leaving, Ended, Requests, Controls
<1>2. Mail' = Mail /\ Notes' \subseteq Notes
  BY DEF Mail, Alone
<1>3. Order' /\ BoardBehind'
  <2>1. HostPos \in Nat /\ HostPos <= N + 2
    BY <1>0, HostPlace DEF HostPlaced
  <2>2. HeardPos' = 0 /\ HostPos' = N + 2
    BY <1>0, <1>1, HostPlaceNext DEF HostPlaced
  <2>3. HostPos' >= HostPos /\ (HostPos' = HostPos => host'.off >= host.off)
    BY <1>0, <2>1, <2>2, HostPlace DEF Stops, HostPlaced, Hosts
  <2> QED
    BY <1>0, <1>1, <1>2, <2>2, <2>3, OrderAhead, StaysAhead
<1>4. Place' /\ Announced' /\ NoFrameYet' /\ FinalAcks' /\ PassedKept' /\ PassedLast'
  BY <1>1 DEF Place, Announced, NoFrameYet, FinalAcks, PassedKept, PassedLast, InTransaction, Requests, Controls
<1>5. EndReady' /\ FramesAhead' /\ TakenAll'
  BY <1>2, AloneKeeps
<1> QED
  BY <1>3, <1>4, <1>5 DEF Story

\* A request is sent: install_end only when all files are passed.
LEMMA SendKeeps ==
  ASSUME Alone, Send
  PROVE  Place' /\ Order' /\ Story'
<1>0. host \in Hosts /\ host' \in Hosts /\ NetOK /\ Order /\ Place /\ Story
  BY AloneKeeps DEF Alone
<1>1. /\ host.at \in Requests
      /\ host'.at = host.at /\ host'.txn = host.txn /\ host'.file = host.file /\ host'.off = host.off
      /\ Put(Request) \/ down' = down
  BY <1>0 DEF Send, Hosts
<1>2. Order'
  BY <1>0, OrderSent DEF Alone
<1>3. Mail' \subseteq Mail \cup {Request}
  <2>1. CASE down' = down
    BY <2>1 DEF Mail
  <2>2. CASE Put(Request)
    <3>1. Request \in Messages /\ Request.txn = host.txn /\ Pos(Request) >= HostPos
      <4>1. Request \in Messages /\ Request.txn = host.txn /\ Pos(Request) = HostPos
        BY <1>0, <1>1, RequestTyped DEF Request, Message, Pos, HostPos, Requests, Controls
      <4> QED
        BY <1>0, <4>1, HostPlace DEF HostPlaced
    <3>2. /\ Request.kind = "end" => HeardPos > 0
          /\ Request.kind = "data" => Request.file = HostPos /\ Request.off = host.off
      BY <1>0, HostPlace DEF Request, Message, HostPlaced
    <3> QED
      BY <1>0, <2>2, <3>1, <3>2, OrderPut
  <2> QED
    BY <1>1, <2>1, <2>2
<1>4. Place'
  BY <1>0, <1>1 DEF Place
<1>5. Announced' /\ BoardBehind'
  <2>1. HostPos' = HostPos /\ HostPos \in Nat /\ host.off \in Nat
    BY <1>0, <1>1, HostPlace DEF HostPos, HostPlaced, Hosts
  <2> QED
    BY <1>0, <1>1, <2>1, AloneKeeps, StaysAhead
    DEF Alone, Story, Announced, BoardAt, There, Lost, Opening, About
<1>6. NoFrameYet'
  <2>1. host.at = "bulk" => Request.kind # "data"
    BY DEF Request, Message
  <2> QED
    BY <1>0, <1>1, <1>3, <2>1 DEF Alone, Story, NoFrameYet, FrameOf, About
<1>7. PassedKept'
  BY <1>0, <1>1, AloneKeeps DEF Story, PassedKept, InTransaction, Passed, WholeOr, Incomplete
<1>8. /\ Request.txn = host.txn /\ host.off \in Nat /\ host.file \in 1..N /\ N \in Nat
      /\ Request.kind = "end" <=> host.at = "end"
      /\ Request.kind = "data" <=> host.at = "data"
      /\ Request.kind = "data" => Request.file = host.file /\ Request.off = host.off
  BY <1>0, HostPlace DEF Request, Message, HostPlaced, Hosts
<1>9. FinalAcks'
  <2> SUFFICES ASSUME host.at \in {"data", "resume"}, NEW r \in Notes, FinalAck(r)
               PROVE  Closing' /\ (board.session => WholeOr(host.file))
    BY <1>1, AloneKeeps DEF Alone, FinalAcks, FinalAck, FrameOf, About, WholeOr, Incomplete
  <2>1. Closing /\ (board.session => WholeOr(host.file))
    BY <1>0 DEF Story, FinalAcks
  <2>2. Request.kind = "data" => Request.off + 1 = Sizes[Request.file]
    BY <1>0, <1>8, <2>1, Constants DEF Closing, Place, Hosts
  <2>3. Closing'
    BY <1>1, <1>3, <2>1, <2>2 DEF Closing, FrameOf, About, LastFrame
  <2> QED
    BY <2>1, <2>3
<1>10. PassedLast'
  BY <1>0, <1>1, <1>3, <1>8 DEF Story, PassedLast, LastFrame
<1>11. FramesAhead'
  <2> SUFFICES ASSUME board.active, NEW m \in Mail', m.kind = "data", m.txn = board.txn,
                      m.file = board.file
               PROVE  m.off + 1 >= board.got
    BY AloneKeeps DEF FramesAhead
  <2>1. CASE m \in Mail
    BY <1>0, <2>1 DEF Story, FramesAhead
  <2>2. CASE m = Request
    <3>1. host.at = "data" /\ board.txn = host.txn /\ board.file = host.file /\ m.off = host.off
      BY <1>8, <2>2
    <3>2. HostPos = host.file
      BY <3>1 DEF HostPos
    <3>3. board.file \in Nat /\ board.got \in Nat /\ host.txn \in Nat
      BY <1>0, BoardPlace, HostPlace DEF Alone, TypeOK, HostPlaced
    <3>4. board.got <= host.off + 1
      BY <1>0, <3>1, <3>2, <3>3 DEF Story, BoardBehind
    <3> QED
      BY <1>8, <3>1, <3>3, <3>4
  <2> QED
    BY <1>3, <2>1, <2>2
<1>12. EndReady'
  <2> SUFFICES ASSUME NEW e \in Mail', e.kind = "end"
               PROVE  /\ board.session => \A f \in Files : WholeOr(f)
                      /\ \A m \in Mail' : m.txn = e.txn => LastFrame(m)
    BY AloneKeeps DEF EndReady, LastFrame, WholeOr, Incomplete
  <2>1. CASE e = Request
    <3>1. host.at = "end" /\ host.file = N /\ e.txn = host.txn
      BY <1>0, <1>8, <2>1 DEF Place
    <3>2. \A f \in Files : Passed(f)
      BY <3>1, Constants DEF Passed, Files, N
    <3>3. board.session => \A f \in Files : WholeOr(f)
      BY <1>0, <3>1, <3>2 DEF Story, PassedKept, InTransaction, Requests, Controls
    <3>4. \A m \in Mail' : m.txn = e.txn => LastFrame(m)
      BY <1>0, <1>3, <1>8, <3>1 DEF Story, PassedLast, LastFrame
    <3> QED
      BY <3>3, <3>4
  <2>2. CASE e \in Mail
    <3>1. /\ board.session => \A f \in Files : WholeOr(f)
          /\ \A m \in Mail : m.txn = e.txn => LastFrame(m)
      BY <1>0, <2>2 DEF Story, EndReady
    <3>2. ASSUME Request.kind = "data", Request.txn = e.txn PROVE FALSE
      <4>1. AtMost(e, host.txn, host.file) /\ host.txn \in Nat
        BY <1>0, <1>8, <2>2, <3>2, HostPlace DEF Order, Behind, HostPos, HostPlaced
      <4>2. Pos(e) = N + 1
        BY <1>0, <2>2, InMail, MessagePlace
      <4> QED
        BY <1>8, <3>2, <4>1, <4>2 DEF AtMost
    <3>3. Request.txn = e.txn => LastFrame(Request)
      BY <3>2 DEF LastFrame
    <3> QED
      BY <1>3, <3>1, <3>3
  <2> QED
    BY <1>3, <2>1, <2>2
<1>13. TakenAll'
  BY AloneKeeps
<1> QED
  BY <1>2, <1>4, <1>5, <1>6, <1>7, <1>9, <1>10, <1>11, <1>12, <1>13 DEF Story

\* The host leaves the transaction.
LEMMA LeaveKeeps ==
  ASSUME Alone, Leave
  PROVE  Place' /\ Order' /\ Story'
<1> DEFINE m == Message("abort", host.txn, NoFile, 0)
<1>0. host \in Hosts /\ host' \in Hosts /\ NetOK /\ Order /\ Story
  BY AloneKeeps DEF Alone
<1>1. /\ host.at \in Leaving
      /\ Put(m) \/ down' = down
      /\ \/ host' = [Ask("begin") EXCEPT !.txn = host.txn + 1, !.linked = TRUE]
         \/ host' = Ask("failed")
  BY Zenon DEF Leave
<1>2. host'.at \in {"begin", "failed"}
  BY <1>0, <1>1 DEF Ask, Hosts
<1>3. Order'
  BY <1>0, OrderLeft DEF Alone
<1>4. Place' /\ Announced' /\ NoFrameYet' /\ FinalAcks' /\ PassedKept' /\ PassedLast'
  BY <1>2 DEF Place, Announced, NoFrameYet, FinalAcks, PassedKept, PassedLast, InTransaction, Requests, Controls
<1>5. m.kind # "end" /\ m.kind # "data"
  BY DEF Message
<1>6. Mail' \subseteq Mail \cup {m}
  <2>1. CASE down' = down
    BY <2>1 DEF Mail
  <2>2. CASE Put(m)
    <3>1. m \in Messages /\ m.txn = host.txn
      BY <1>0, AbortTyped DEF Message
    <3>2. Pos(m) = N + 2
      BY <3>1, MessagePlace DEF Message
    <3>3. HostPos = N + 2
      BY <1>0, <1>1, HostPlace DEF HostPlaced
    <3>4. Pos(m) >= HostPos
      BY <3>2, <3>3, Constants DEF N
    <3> HIDE DEF m
    <3> QED
      BY <1>0, <1>5, <2>2, <3>1, <3>4, OrderPut
  <2> QED
    BY <1>1, <2>1, <2>2
<1> HIDE DEF m
<1>7. EndReady' /\ FramesAhead'
  BY <1>0, <1>5, <1>6, AloneKeeps DEF Story, EndReady, FramesAhead, LastFrame, WholeOr, Incomplete
<1>8. BoardBehind'
  <2>1. CASE host' = [Ask("begin") EXCEPT !.txn = host.txn + 1, !.linked = TRUE]
    <3>1. host'.txn = host.txn + 1
      BY <1>0, <2>1 DEF Ask, Hosts
    <3> QED
      BY <3>1, StaysAhead
  <2>2. CASE host' = Ask("failed")
    <3>1. host'.txn = host.txn /\ host'.at = "failed"
      BY <1>0, <2>2, AskMoves
    <3>2. HostPos = N + 2 /\ HostPos' = N + 2 /\ host'.off = host.off /\ host.off \in Nat /\ N \in Nat
      <4>1. HostPos = N + 2 /\ N \in Nat
        BY <1>0, <1>1, HostPlace DEF HostPlaced
      <4>2. HostPos' = N + 2
        BY <3>1 DEF HostPos
      <4> QED
        BY <1>0, <2>2, <4>1, <4>2, AskMoves DEF Hosts
    <3> QED
      BY <3>1, <3>2, StaysAhead
  <2> QED
    BY <1>1, <2>1, <2>2
<1>9. TakenAll'
  BY AloneKeeps
<1> QED
  BY <1>3, <1>4, <1>7, <1>8, <1>9 DEF Story

\* All that the host does, and what happens to it.
LEMMA HostKeeps ==
  ASSUME TypeOK, TypeOK', Kept, Place, Order, Story, Host \/ LinkDrops \/ NoteLost
  PROVE  Kept' /\ Place' /\ Order' /\ Story'
<1>1. Alone /\ (down' = down \/ Send \/ Leave)
  BY HostQuiet DEF Alone, TypeOK
<1>2. CASE Send
  BY <1>1, <1>2, AloneKeeps, SendKeeps
<1>3. CASE Leave
  BY <1>1, <1>3, AloneKeeps, LeaveKeeps
<1>4. CASE ~Send /\ ~Leave
  <2>1. down' = down /\ Moves
    BY <1>1, <1>4, AloneKeeps, HostMoves DEF Alone
  <2>2. CASE Stays
    BY <1>1, <2>1, <2>2, AloneKeeps, StaysKeeps
  <2>3. CASE Begins
    BY <1>1, <2>1, <2>3, AloneKeeps, BeginsKeeps
  <2>4. CASE Told
    BY <1>1, <2>1, <2>4, AloneKeeps, ToldKeeps
  <2>5. CASE Passes
    BY <1>1, <2>1, <2>5, AloneKeeps, PassesKeeps
  <2>6. CASE Stops
    BY <1>1, <2>1, <2>6, AloneKeeps, StopsKeeps
  <2> QED
    BY <2>1, <2>2, <2>3, <2>4, <2>5, <2>6 DEF Moves
<1> QED
  BY <1>2, <1>3, <1>4

-----------------------------------------------------------------------------
(* The board keeps what the host knows of it                               *)

\* The files the board has, or is still receiving.
WholeFiles == {f \in Files : WholeOr(f)}

\* When the host knows that the board is at its file.
Reached == host.at \in {"data", "resume"} \/ (host.at = "bulk" /\ \E r \in Notes : Opening(r))

\* An answer that lets the host pass its file.
Final(r) == host.at \in {"data", "resume"} /\ FinalAck(r)

\* The board has taken something from the mailbox, or lost it, and says r.
Handled(r) ==
  /\ TypeOK /\ Place /\ Story /\ UNCHANGED host
  /\ Mail' \subseteq Mail /\ Notes' \subseteq Notes \cup {r}
  /\ FrameOf(r) => \E m \in Mail : FrameOf(m)

\* An open session keeps its files, and what it says is true.
LEMMA SessionKeeps ==
  ASSUME NEW r, Handled(r), BoardBehind', FramesAhead',
         board'.session => board.session,
         board'.session => WholeFiles \subseteq WholeFiles',
         Reached \/ Opening(r) => BoardAt',
         Final(r) => Closing' /\ (board'.session => host.file \in WholeFiles')
  PROVE  Place' /\ (TakenAll' => Story')
<1>1. /\ host' = host /\ host \in Hosts /\ Mail' \subseteq Mail /\ Notes' \subseteq Notes \cup {r}
      /\ Announced /\ NoFrameYet /\ FinalAcks /\ PassedKept /\ PassedLast /\ EndReady /\ Place
      /\ host.file \in Files
  BY DEF Handled, Story, TypeOK, Hosts
<1>2. Place'
  BY <1>1 DEF Place
<1>3. Announced'
  <2>1. host.at \in {"data", "resume"} => BoardAt'
    BY DEF Reached
  <2>2. ASSUME host.at = "bulk", NEW x \in Notes', Opening(x) PROVE BoardAt'
    BY <1>1, <2>2 DEF Reached
  <2> QED
    BY <1>1, <2>1, <2>2 DEF Announced, Opening, About
<1>4. NoFrameYet' /\ PassedLast'
  BY <1>1 DEF Handled, NoFrameYet, FrameOf, About, PassedLast, LastFrame
<1>5. FinalAcks'
  <2> SUFFICES ASSUME host.at \in {"data", "resume"}, NEW x \in Notes', FinalAck(x)
               PROVE  Closing' /\ (board'.session => host.file \in WholeFiles')
    BY <1>1 DEF FinalAcks, FinalAck, FrameOf, About, WholeFiles, WholeOr, Incomplete
  <2>1. CASE x \in Notes
    <3>1. Closing /\ (board.session => host.file \in WholeFiles)
      BY <1>1, <2>1 DEF FinalAcks, WholeFiles
    <3>2. Closing'
      BY <1>1, <3>1 DEF Closing, FrameOf, About, LastFrame
    <3> QED
      BY <3>1, <3>2
  <2>2. CASE x = r
    BY <2>2 DEF Final
  <2> QED
    BY <1>1, <2>1, <2>2
<1>6. PassedKept'
  <2> SUFFICES ASSUME InTransaction', NEW f \in Files, Passed(f)
               PROVE  f \in WholeFiles'
    BY <1>1 DEF PassedKept, Passed, WholeFiles, WholeOr, Incomplete
  <2>1. InTransaction /\ board'.session
    BY <1>1 DEF InTransaction
  <2>2. f \in WholeFiles
    BY <1>1, <2>1 DEF PassedKept, WholeFiles
  <2> QED
    BY <2>1, <2>2
<1>7. EndReady'
  <2> SUFFICES ASSUME NEW e \in Mail', e.kind = "end"
               PROVE  /\ board'.session => \A f \in Files : f \in WholeFiles'
                      /\ \A m \in Mail' : m.txn = e.txn => LastFrame(m)
    BY DEF EndReady, WholeFiles, WholeOr, Incomplete, LastFrame
  <2>1. /\ board.session => \A f \in Files : f \in WholeFiles
        /\ \A m \in Mail : m.txn = e.txn => LastFrame(m)
    BY <1>1 DEF EndReady, WholeFiles
  <2> QED
    BY <1>1, <2>1
<1> QED
  BY <1>2, <1>3, <1>4, <1>5, <1>6, <1>7 DEF Story

\* The board takes the first message and says r about it.
Answers(r) ==
  /\ UNCHANGED host /\ down # <<>> /\ down' = Tail(down) /\ Say(r)
  /\ OfFile(r) => r.kind = Head(down).kind /\ r.txn = Head(down).txn /\ r.file = Head(down).file

LEMMA AnswerHandled ==
  ASSUME TypeOK, Place, Order, Story, NEW r, Answers(r)
  PROVE  /\ Handled(r) /\ Order'
         /\ Head(down) \in Mail /\ Head(down) \in Messages
         /\ \A m \in Mail' : Follows(Head(down), m)
<1>1. host \in Hosts /\ NetOK /\ Sorted
  BY DEF TypeOK, Order
<1>2. Notes' \subseteq Notes \cup {r}
  BY <1>1, NotesSaid DEF Answers
<1>3. /\ Mail' \subseteq Mail /\ Head(down) \in Mail /\ Head(down) \in Messages
      /\ \A m \in Mail' : Follows(Head(down), m)
  BY <1>1, MailTaken, InMail DEF Answers
<1>4. OfFile(r) => OfFile(Head(down)) /\ r.txn = Head(down).txn /\ r.file = Head(down).file
  BY DEF Answers, OfFile
<1>5. Order'
  BY <1>1, <1>2, <1>4, OrderHandled DEF Answers
<1>6. FrameOf(r) => FrameOf(Head(down))
  BY DEF Answers, FrameOf, OfFile, About
<1> QED
  BY <1>2, <1>3, <1>5, <1>6 DEF Handled, Answers

LEMMA SaidFor ==
  ASSUME NEW rc, UNCHANGED host, down # <<>>, down' = Tail(down), SayFor(Head(down), rc),
         Head(down).kind # "data"
  PROVE  \E r : /\ Answers(r) /\ r.kind = Head(down).kind /\ r.rc = rc
                /\ r.kind = "bulk" => r.txn = Head(down).txn /\ r.file = Head(down).file
<1> DEFINE m == Head(down)
           r == Reply(m.kind, IF m.kind = "bulk" THEN m.txn ELSE 0, m.file, 0, rc)
<1>1. Say(r)
  BY DEF SayFor
<1>2. /\ r.kind = m.kind /\ r.rc = rc
      /\ m.kind = "bulk" => r.txn = m.txn /\ r.file = m.file
  BY DEF Reply
<1> QED
  BY <1>1, <1>2 DEF Answers, OfFile

\* Before a step of the board.
Before == TypeOK /\ TypeOK' /\ Counted /\ Counted' /\ Kept /\ Place /\ Order /\ Story

\* Where the host knows of it the board is at the file, or has lost it.
LEMMA ReachedThere == Before /\ Reached => BoardAt
BY DEF Before, Story, Announced, Reached

LEMMA WithoutChange ==
  ASSUME Before, NEW r, Answers(r), UNCHANGED card, Opening(r) => BoardAt,
         Final(r) => Closing /\ (board.session => host.file \in WholeFiles)
  PROVE  Kept' /\ Place' /\ Order' /\ Story'
<1>1. Handled(r) /\ Order' /\ Mail' \subseteq Mail
  BY AnswerHandled DEF Before, Handled
<1>2. board' = board /\ stage' = stage /\ taken' = taken /\ host' = host
  BY DEF card, Answers
<1>3. Kept' /\ TakenAll' /\ WholeFiles' = WholeFiles /\ (BoardAt' <=> BoardAt)
  BY <1>2 DEF Before, Kept, Story, TakenAll, Incomplete, WholeFiles, WholeOr, BoardAt, There, Lost
<1>4. Reached \/ Opening(r) => BoardAt'
  BY <1>3, ReachedThere
<1>5. Closing => Closing'
  BY <1>1, <1>2 DEF Closing, FrameOf, About, LastFrame
<1>6. BoardBehind' /\ FramesAhead'
  BY <1>1, <1>2 DEF Before, Story, BoardBehind, FramesAhead, HostPos
<1> QED
  BY <1>1, <1>2, <1>3, <1>4, <1>5, <1>6, SessionKeeps

\* A step of the board that ends the session.
LEMMA SessionEnds ==
  ASSUME Before, NEW r, Handled(r), ~OfFile(r), Order', board' = Idle, stage' = NoStage, TakenAll'
  PROVE  Kept' /\ Place' /\ Order' /\ Story'
<1>1. /\ board'.session = FALSE /\ board'.active = FALSE /\ board'.complete = FALSE /\ board'.got = 0
  BY DEF Idle
<1>2. Kept' /\ BoardBehind' /\ FramesAhead'
  BY <1>1 DEF Kept, Incomplete, BoardBehind, FramesAhead
<1>3. BoardAt'
  <2>1. host' = host /\ host.file \in Files /\ Sizes[host.file] \in Nat
    BY Constants DEF Handled, Before, TypeOK, Hosts
  <2>2. stage'[host.file] = <<>>
    BY <2>1 DEF NoStage
  <2>3. Sizes[host.file] = 0 => Whole(host.file) = <<>>
    BY DEF Whole
  <2> QED
    BY <1>1, <2>1, <2>2, <2>3 DEF BoardAt, Lost
<1>4. ~Final(r)
  BY DEF Final, FinalAck, FrameOf, OfFile
<1> QED
  BY <1>1, <1>2, <1>3, <1>4, SessionKeeps

LEMMA AbortKeeps ==
  ASSUME Before, HandleAbort
  PROVE  Kept' /\ Place' /\ Order' /\ Story'
<1>1. /\ UNCHANGED host /\ down # <<>> /\ down' = Tail(down) /\ Head(down).kind = "abort"
      /\ SayFor(Head(down), "ok") /\ board' = Idle /\ stage' = NoStage /\ taken' = taken
  BY DEF HandleAbort, Take
<1>2. PICK r : Answers(r) /\ r.kind = "abort"
  BY <1>1, SaidFor
<1>3. Handled(r) /\ Order' /\ ~OfFile(r)
  BY <1>2, AnswerHandled DEF Before, OfFile
<1>4. TakenAll'
  BY <1>1 DEF Before, Story, TakenAll
<1> QED
  BY <1>1, <1>3, <1>4, SessionEnds

\* install_end comes when everything is there.
LEMMA EndKeeps ==
  ASSUME Before, EndTakes
  PROVE  Kept' /\ Place' /\ Order' /\ Story'
<1>1. /\ UNCHANGED host /\ down # <<>> /\ down' = Tail(down) /\ Head(down).kind = "end"
      /\ SayFor(Head(down), "ok") /\ board' = Idle /\ stage' = NoStage /\ taken' = stage
      /\ board.session /\ ~Incomplete
  BY DEF EndTakes, Take
<1>2. PICK r : Answers(r) /\ r.kind = "end"
  BY <1>1, SaidFor
<1>3. Handled(r) /\ Order' /\ Head(down) \in Mail /\ ~OfFile(r)
  BY <1>2, AnswerHandled DEF Before, OfFile
<1>4. \A f \in Files : taken'[f] = Whole(f)
  BY <1>1, <1>3 DEF Before, Story, EndReady, WholeOr
<1>5. TakenAll'
  BY <1>4 DEF TakenAll
<1> QED
  BY <1>1, <1>3, <1>5, SessionEnds

LEMMA ForgetsKeeps ==
  ASSUME Before, Forgets
  PROVE  Kept' /\ Place' /\ Order' /\ Story'
<1> DEFINE r == Reply("none", 0, 0, 0, "ok")
<1>1. host' = host /\ board' = Idle /\ stage' = NoStage /\ taken' = taken
  BY DEF Forgets
<1>2. Order' /\ Mail' \subseteq Mail /\ Notes' \subseteq Notes \cup {r}
  BY OrderForgotten DEF Before, TypeOK
<1>3. r.kind = "none"
  BY DEF Reply
<1>4. Handled(r) /\ ~OfFile(r)
  BY <1>1, <1>2, <1>3 DEF Before, Handled, FrameOf, OfFile
<1> HIDE DEF r
<1>5. TakenAll'
  BY <1>1 DEF Before, Story, TakenAll
<1> QED
  BY <1>1, <1>2, <1>4, <1>5, SessionEnds

\* An answer that changes nothing on the board.
LEMMA RefusalsKeep ==
  ASSUME Before, BulkRefused \/ BulkRepeated \/ EndRefused \/ (HandleBegin /\ board.session)
  PROVE  Kept' /\ Place' /\ Order' /\ Story'
<1>1. UNCHANGED host /\ down # <<>> /\ down' = Tail(down) /\ UNCHANGED card
  BY DEF BulkRefused, BulkRepeated, EndRefused, HandleBegin, Take, card
<1>2. CASE BulkRefused \/ EndRefused
  <2>1. SayFor(Head(down), "busy") /\ Head(down).kind # "data"
    BY <1>2 DEF BulkRefused, EndRefused, Take
  <2>2. PICK r : Answers(r) /\ r.kind = Head(down).kind /\ r.rc = "busy"
    BY <1>1, <2>1, SaidFor
  <2>3. ~Opening(r) /\ ~Final(r)
    BY <2>1, <2>2 DEF Opening, Final, FinalAck, FrameOf
  <2> QED
    BY <1>1, <2>2, <2>3, WithoutChange
<1>3. CASE BulkRepeated
  <2>1. SayFor(Head(down), "ok") /\ Head(down).kind = "bulk" /\ SameTransfer(Head(down))
    BY <1>3 DEF BulkRepeated, Take
  <2>2. PICK r : Answers(r) /\ r.kind = "bulk" /\ r.txn = Head(down).txn /\ r.file = Head(down).file
    BY <1>1, <2>1, SaidFor
  <2>3. (Opening(r) => BoardAt) /\ ~Final(r)
    BY <2>1, <2>2 DEF Opening, About, SameTransfer, BoardAt, There, Final, FinalAck, FrameOf
  <2> QED
    BY <1>1, <2>2, <2>3, WithoutChange
<1>4. CASE HandleBegin /\ board.session
  <2>1. SayFor(Head(down), "ok") /\ Head(down).kind = "begin"
    BY <1>4 DEF HandleBegin, Take
  <2>2. PICK r : Answers(r) /\ r.kind = "begin"
    BY <1>1, <2>1, SaidFor
  <2>3. ~Opening(r) /\ ~Final(r)
    BY <2>2 DEF Opening, Final, FinalAck, FrameOf
  <2> QED
    BY <1>1, <2>2, <2>3, WithoutChange
<1> QED
  BY <1>2, <1>3, <1>4

\* A session that begins has nothing to keep: the host has not come further.
LEMMA BeginKeeps ==
  ASSUME Before, HandleBegin, ~board.session
  PROVE  Kept' /\ Place' /\ Order' /\ Story'
<1> DEFINE h == Head(down)
<1>1. /\ UNCHANGED host /\ down # <<>> /\ down' = Tail(down) /\ h.kind = "begin"
      /\ SayFor(h, "ok") /\ board' = [Idle EXCEPT !.session = TRUE] /\ taken' = taken
  BY DEF HandleBegin, Take
<1>2. PICK r : Answers(r) /\ r.kind = "begin"
  BY <1>1, SaidFor
<1>3. /\ Handled(r) /\ Order' /\ h \in Mail /\ h \in Messages
      /\ \A m \in Mail' : Follows(h, m)
  BY <1>2, AnswerHandled DEF Before
<1>4. /\ host' = host /\ Mail' \subseteq Mail /\ Notes' \subseteq Notes \cup {r}
      /\ host \in Hosts /\ NetOK /\ HostPlaced
  BY <1>3, HostPlace DEF Handled, TypeOK
<1>5. h.txn \in Nat /\ Pos(h) = 0
  BY <1>1, <1>3, MessagePlace
<1> HIDE DEF h
<1>6. HeardPos = 0
  <2>1. HeardPos > 0 => AtLeast(h, host.txn, HeardPos)
    BY <1>3 DEF Before, Order, AfterHost
  <2>2. AtMost(h, host.txn, HostPos)
    BY <1>3 DEF Before, Order, Behind
  <2> QED
    BY <1>4, <1>5, <2>1, <2>2 DEF AtLeast, AtMost, HostPlaced
<1>7. /\ host.at \notin {"data", "resume", "end"}
      /\ host.at = "bulk" => host.file = 1 /\ HostPos = 1
  BY <1>4, <1>6 DEF HostPlaced
<1>8. ASSUME host.at = "bulk", NEW x \in Notes', Opening(x) PROVE FALSE
  <2>1. x \in Notes
    BY <1>2, <1>4, <1>8 DEF Opening
  <2>2. AtLeast(h, host.txn, 1) /\ AtMost(h, host.txn, 1)
    BY <1>3, <1>7, <1>8, <2>1 DEF Before, Order, AfterNotes, Behind, Opening, OfFile, About
  <2> QED
    BY <1>4, <1>5, <2>2 DEF AtLeast, AtMost, HostPlaced
<1>9. Announced' /\ FinalAcks'
  BY <1>4, <1>7, <1>8 DEF Announced, FinalAcks, Opening, About
<1>10. Place' /\ NoFrameYet' /\ PassedLast'
  BY <1>2, <1>3, <1>4 DEF Handled, Story, Place, NoFrameYet, FrameOf, About, PassedLast, LastFrame
<1>11. PassedKept'
  BY <1>4, <1>7, Constants DEF PassedKept, Passed, InTransaction, Requests, Controls
<1>12. EndReady'
  <2>1. ASSUME NEW m \in Mail', m.kind = "end" PROVE FALSE
    <3>1. AtLeast(m, h.txn, 0) /\ AtLeast(h, m.txn, 1)
      BY <1>3, <1>5, <2>1 DEF Follows
    <3>2. m.txn \in Nat
      BY <1>4, InMail, MessagePlace
    <3> QED
      BY <1>5, <3>1, <3>2 DEF AtLeast
  <2> QED
    BY <2>1 DEF EndReady
<1>13. TakenAll'
  BY <1>1 DEF Before, Story, TakenAll
<1>14. Kept' /\ BoardBehind' /\ FramesAhead'
  BY <1>1 DEF Kept, Incomplete, Idle, BoardBehind, FramesAhead
<1> QED
  BY <1>3, <1>9, <1>10, <1>11, <1>12, <1>13, <1>14 DEF Story

\* A file is opened only where the host is, when all before are complete.
LEMMA OpensKeep ==
  ASSUME Before, BulkOpens
  PROVE  Kept' /\ Place' /\ Order' /\ Story'
<1> DEFINE h == Head(down)
<1>1. /\ UNCHANGED host /\ down # <<>> /\ down' = Tail(down) /\ h.kind = "bulk"
      /\ SayFor(h, "ok") /\ board' = Opened(h) /\ taken' = taken
      /\ stage' = [stage EXCEPT ![h.file] = <<>>]
      /\ board.session /\ ~Incomplete
  BY DEF BulkOpens, Take, MayOpen
<1>2. PICK r : Answers(r) /\ r.kind = "bulk" /\ r.txn = h.txn /\ r.file = h.file
  BY <1>1, SaidFor
<1>3. Handled(r) /\ Order' /\ h \in Mail /\ h \in Messages
  BY <1>2, AnswerHandled DEF Before
<1>4. host \in Hosts /\ NetOK /\ HostPlaced /\ stage \in [Files -> Contents]
  BY <1>3, HostPlace DEF Handled, TypeOK, CardOK
<1>5. h.txn \in Nat /\ Pos(h) = h.file /\ h.file \in Files /\ h.file \in Nat /\ Sizes[h.file] \in Nat
  <2>1. h.file \in Files
    BY <1>1, <1>3 DEF Messages
  <2> QED
    BY <1>1, <1>3, <2>1, MessagePlace, Constants
<1> HIDE DEF h
<1>6. /\ board'.session /\ board'.active /\ board'.txn = h.txn /\ board'.file = h.file
      /\ board'.complete <=> Sizes[h.file] = 0
      /\ Sizes[h.file] # 0 => board'.path = h.file
      /\ board'.got = 0
  BY <1>1 DEF Opened
<1>7. stage'[h.file] = <<>> /\ \A f \in Files : f # h.file => stage'[f] = stage[f]
  BY <1>1, <1>4, <1>5
<1>8. Sizes[h.file] = 0 => Whole(h.file) = <<>>
  BY DEF Whole
<1>9. Kept'
  BY <1>6, <1>7, <1>8 DEF Kept, Incomplete
<1>10. WholeFiles \subseteq WholeFiles'
  <2> SUFFICES ASSUME NEW f \in Files, WholeOr(f)
               PROVE  stage'[f] = Whole(f) \/ (Incomplete' /\ board'.file = f)
    BY DEF WholeFiles, WholeOr, Incomplete
  <2>1. stage[f] = Whole(f)
    BY <1>1 DEF WholeOr
  <2>2. CASE f = h.file
    BY <1>6, <1>7, <1>8, <2>2 DEF Incomplete
  <2>3. CASE f # h.file
    BY <1>7, <2>1, <2>3
  <2> QED
    BY <2>2, <2>3
<1>11. ASSUME Reached PROVE h.txn = host.txn /\ h.file = host.file
  <2>1. AtLeast(h, host.txn, host.file)
    <3>1. CASE host.at \in {"data", "resume"}
      BY <1>3, <1>4, <3>1 DEF Before, Order, AfterHost, HostPlaced
    <3>2. CASE host.at = "bulk" /\ \E x \in Notes : Opening(x)
      BY <1>3, <3>2 DEF Before, Order, AfterNotes, Opening, OfFile, About
    <3> QED
      BY <1>11, <3>1, <3>2 DEF Reached
  <2>2. AtMost(h, host.txn, host.file)
    <3>1. HostPos = host.file
      BY <1>4, <1>11 DEF Reached, HostPlaced
    <3> QED
      BY <1>3, <3>1 DEF Before, Order, Behind
  <2> QED
    BY <1>4, <1>5, <2>1, <2>2 DEF AtLeast, AtMost, HostPlaced
<1>12. Reached \/ Opening(r) => BoardAt'
  <2>1. Opening(r) => h.txn = host.txn /\ h.file = host.file
    BY <1>2 DEF Opening, About
  <2> QED
    BY <1>1, <1>6, <1>11, <2>1 DEF BoardAt, There
<1>13. ~Final(r)
  BY <1>2 DEF Final, FinalAck, FrameOf
<1>14. BoardBehind'
  <2>1. HostPos' = HostPos /\ host' = host /\ host.off \in Nat
    BY <1>1, <1>4 DEF HostPos, Hosts
  <2>2. AtMost(h, host.txn, HostPos)
    BY <1>3 DEF Before, Order, Behind
  <2> QED
    BY <1>4, <1>5, <1>6, <2>1, <2>2 DEF BoardBehind, AtMost, HostPlaced
<1>15. FramesAhead'
  <2>1. \A m \in Mail' : m.off \in Nat
    BY <1>3, InMail, MessagePlace DEF Handled, TypeOK
  <2> QED
    BY <1>6, <2>1 DEF FramesAhead
<1>16. TakenAll'
  BY <1>1 DEF Before, Story, TakenAll
<1> QED
  BY <1>1, <1>3, <1>9, <1>10, <1>12, <1>13, <1>14, <1>15, <1>16, SessionKeeps

LEMMA Acked ==
  ASSUME NEW got, NEW rc, UNCHANGED host, Take("data"), Ack(Head(down), got, rc)
  PROVE  \E r : /\ Answers(r) /\ r.kind = "data" /\ r.off = got /\ r.rc = rc
                /\ r.txn = Head(down).txn /\ r.file = Head(down).file
<1> DEFINE r == Reply("data", Head(down).txn, Head(down).file, got, rc)
<1>1. Say(r) /\ down # <<>> /\ Head(down).kind = "data" /\ down' = Tail(down)
  BY DEF Ack, Take
<1>2. /\ r.kind = "data" /\ r.off = got /\ r.rc = rc
      /\ r.txn = Head(down).txn /\ r.file = Head(down).file
  BY DEF Reply
<1> QED
  BY <1>1, <1>2 DEF Answers

\* A file that is complete is whole.
LEMMA ClosedWhole ==
  ASSUME Before, board.active, board.file = host.file, ~Incomplete
  PROVE  host.file \in WholeFiles
BY DEF Before, TypeOK, Hosts, Kept, WholeFiles, WholeOr, Incomplete

\* Once the board has the last frame, what is under way of the file is no other.
LEMMA LastOnes ==
  ASSUME Before, host.at \in {"data", "resume"}, There, NEW h \in Mail, FrameOf(h),
         NEW mail \in SUBSET Mail,
         \A m \in mail \cup {h} : FrameOf(m) => m.off + 1 >= Sizes[host.file]
  PROVE  /\ host.off + 1 >= Sizes[host.file]
         /\ \A m \in mail : FrameOf(m) => LastFrame(m)
<1>1. /\ host \in Hosts /\ NetOK /\ HostPos = host.file /\ host.off \in Nat /\ Sizes[host.file] \in Nat
      /\ host.off < Sizes[host.file]
  BY Constants DEF Before, TypeOK, Hosts, HostPos, Place
<1>2. \A m \in Mail : FrameOf(m) => m.off \in Nat /\ m.off <= host.off /\ m.file = host.file
  BY <1>1, InMail, MessagePlace DEF Before, Order, NoneAhead, FrameOf, About
<1> QED
  BY <1>1, <1>2 DEF LastFrame

\* A frame that is refused, or that the board has already.
LEMMA FrameAnswersKeep ==
  ASSUME Before, FrameRefused \/ FrameRepeated
  PROVE  Kept' /\ Place' /\ Order' /\ Story'
<1> DEFINE h == Head(down)
<1>1. Take("data") /\ UNCHANGED host /\ UNCHANGED card
  BY DEF FrameRefused, FrameRepeated, card
<1>2. CASE Mine(h) /\ Repeated(h) /\ Ack(h, board.got, "ok")
  <2>1. PICK r : /\ Answers(r) /\ r.kind = "data" /\ r.off = board.got
                 /\ r.txn = h.txn /\ r.file = h.file
    BY <1>1, <1>2, Acked
  <2>2. ASSUME Final(r) PROVE Closing /\ (board.session => host.file \in WholeFiles)
    <3>1. There /\ board.got = Sizes[host.file]
      BY <1>2, <2>1, <2>2 DEF Mine, Final, FinalAck, FrameOf, About, There
    <3>2. ~Incomplete
      <4>1. Incomplete => board.got < Sizes[board.file]
        BY DEF Before, Counted, InBetween
      <4>2. Sizes[host.file] \in Nat
        BY Constants DEF Before, TypeOK, Hosts
      <4> QED
        BY <3>1, <4>1, <4>2 DEF There
    <3>3. host.file \in WholeFiles
      BY <3>1, <3>2, ClosedWhole DEF There
    <3>4. h \in Mail /\ FrameOf(h)
      BY <1>1, <1>2, <3>1, InMail DEF Before, TypeOK, Take, FrameOf, About, Mine, There
    <3>5. \A m \in Mail : FrameOf(m) => m.off + 1 >= Sizes[host.file]
      BY <3>1 DEF Before, Story, FramesAhead, FrameOf, About, There
    <3>6. Closing
      BY <2>2, <3>1, <3>4, <3>5, LastOnes DEF Closing, Final
    <3> QED
      BY <3>3, <3>6
  <2>3. ~Opening(r)
    BY <2>1 DEF Opening
  <2> QED
    BY <1>1, <2>1, <2>2, <2>3, WithoutChange
<1>3. CASE ~Mine(h) /\ Ack(h, board.got, "busy")
  <2>1. PICK r : /\ Answers(r) /\ r.kind = "data" /\ r.off = board.got
                 /\ r.txn = h.txn /\ r.file = h.file
    BY <1>1, <1>3, Acked
  <2>2. ASSUME Final(r) PROVE FALSE
    <3>1. h.txn = host.txn /\ h.file = host.file /\ board.got = Sizes[host.file]
      BY <2>1, <2>2 DEF Final, FinalAck, FrameOf, About
    <3>2. ~There
      BY <1>3, <3>1 DEF Mine, There
    <3>3. Lost
      BY <2>2, <3>2, ReachedThere DEF Reached, Final, BoardAt
    <3>4. Sizes[host.file] # 0
      <4>1. host.off \in Nat /\ host.off < Sizes[host.file]
        BY <2>2 DEF Before, TypeOK, Hosts, Place, Final
      <4> QED
        BY <4>1
    <3>5. board.got \in Nat
      BY BoardPlace DEF Before, TypeOK
    <3> QED
      BY <3>1, <3>3, <3>4, <3>5 DEF Lost
  <2>3. ~Opening(r)
    BY <2>1 DEF Opening
  <2> QED
    BY <1>1, <2>1, <2>2, <2>3, WithoutChange
<1>4. CASE Ack(h, board.got, "error") \/ Ack(h, board.got, "invalid")
  <2>1. PICK r : Answers(r) /\ r.kind = "data" /\ r.rc \in {"error", "invalid"}
    BY <1>1, <1>4, Acked
  <2>2. ~Final(r) /\ ~Opening(r)
    BY <2>1 DEF Final, FinalAck, Opening
  <2> QED
    BY <1>1, <2>1, <2>2, WithoutChange
<1> QED
  BY <1>2, <1>3, <1>4 DEF FrameRefused, FrameRepeated

\* A beginning as long as the file is the file.
LEMMA Completed ==
  ASSUME NEW f \in Files, NEW s \in Contents, Start(s, f), Len(s) = Sizes[f]
  PROVE  s = Whole(f)
<1>1. s = [n \in 1..Len(s) |-> s[n]]
  BY LenProperties DEF Contents
<1> QED
  BY <1>1 DEF Start, Whole

\* A frame that is stored; the last one completes the file.
LEMMA StoredKeeps ==
  ASSUME Before, FrameStored
  PROVE  Kept' /\ Place' /\ Order' /\ Story'
<1> DEFINE h == Head(down)
           f == board.file
<1>1. /\ Take("data") /\ UNCHANGED host /\ taken' = taken
      /\ Mine(h) /\ Expected(h) /\ Ack(h, board.got + 1, "ok")
      /\ board' = [board EXCEPT !.got = board.got + 1, !.complete = Last(h),
                                !.path = IF Last(h) THEN NoFile ELSE board.path]
      /\ \/ stage' = stage /\ ~Last(h)
         \/ stage' = [stage EXCEPT ![board.path] = stage[board.path] \o Filled(h)]
  BY DEF FrameStored
<1>2. PICK r : /\ Answers(r) /\ r.kind = "data" /\ r.off = board.got + 1
               /\ r.txn = h.txn /\ r.file = h.file
  BY <1>1, Acked
<1>3. /\ Handled(r) /\ Order' /\ h \in Mail /\ h \in Messages /\ h.kind = "data"
      /\ \A m \in Mail' : Follows(h, m)
  BY <1>1, <1>2, AnswerHandled DEF Before, Take
<1>4. CardOK /\ Counted /\ Kept /\ CardOK'
  BY DEF Before, TypeOK
<1>5. /\ f \in Files /\ h.file = f
      /\ Start(stage[f] \o Filled(h), f) /\ Len(stage[f] \o Filled(h)) = board.got + 1
  BY <1>1, <1>3, <1>4, Appended
<1>6. Incomplete /\ board.path = f
  BY <1>1, <1>4 DEF Mine, Expected, Incomplete, Kept
<1>7. /\ board'.session <=> board.session
      /\ board'.active /\ board'.txn = board.txn /\ board'.file = f
      /\ board'.complete <=> Last(h)
      /\ ~Last(h) => board'.path = f
      /\ board'.got = board.got + 1
  BY <1>1, <1>4, <1>6 DEF CardOK, Sessions, Mine
<1>8. \A g \in Files : g # f => stage'[g] = stage[g]
  BY <1>1, <1>4, <1>6 DEF CardOK
<1>9. ASSUME Last(h) PROVE stage'[f] = Whole(f)
  <2>1. stage'[f] = stage[f] \o Filled(h)
    BY <1>1, <1>4, <1>5, <1>6, <1>9 DEF CardOK
  <2>2. stage'[f] \in Contents
    BY <1>4, <1>5 DEF CardOK
  <2>3. Len(stage'[f]) = Sizes[f] /\ Start(stage'[f], f)
    BY <1>5, <1>9, <2>1 DEF Last
  <2> QED
    BY <1>5, <2>2, <2>3, Completed
<1>10. /\ h.txn = board.txn /\ h.file = f /\ h.off = board.got /\ board.active
       /\ board.got \in Nat /\ h.off \in Nat /\ host.off \in Nat
       /\ Mail' \subseteq Mail /\ NetOK /\ HostPos' = HostPos /\ host' = host
  BY <1>1, <1>3, <1>4, BoardPlace DEF Mine, Expected, Handled, TypeOK, Hosts, HostPos
<1> HIDE DEF h, f
<1>11. Kept'
  BY <1>7, <1>9 DEF Kept, Incomplete
<1>12. f \in WholeFiles'
  BY <1>5, <1>7, <1>9 DEF WholeFiles, WholeOr, Incomplete
<1>13. WholeFiles \subseteq WholeFiles'
  <2> SUFFICES ASSUME NEW g \in Files, WholeOr(g), g # f PROVE g \in WholeFiles'
    BY <1>12 DEF WholeFiles
  <2>1. stage'[g] = Whole(g)
    BY <1>8 DEF WholeOr, f
  <2> QED
    BY <2>1 DEF WholeFiles, WholeOr
<1>14. Reached \/ Opening(r) => BoardAt'
  <2>1. ~Opening(r)
    BY <1>2 DEF Opening
  <2>2. There => There'
    BY <1>7, <1>10 DEF There, f
  <2>3. ~Lost
    BY <1>10 DEF Lost
  <2> QED
    BY <2>1, <2>2, <2>3, ReachedThere DEF BoardAt
<1>15. \A m \in Mail' : m.off \in Nat /\ (m.kind = "data" /\ m.txn = board.txn /\ m.file = f => m.off >= h.off)
  BY <1>3, <1>10, InMail, MessagePlace DEF Follows
<1>16. ASSUME Final(r) PROVE Closing' /\ host.file \in WholeFiles'
  <2>1. host.at \in {"data", "resume"} /\ There /\ FrameOf(h) /\ board.got + 1 = Sizes[host.file] /\ f = host.file
    BY <1>2, <1>3, <1>16, <1>10 DEF Final, FinalAck, FrameOf, About, There, f
  <2>2. \A m \in Mail' \cup {h} : FrameOf(m) => m.off + 1 >= Sizes[host.file]
    BY <1>15, <1>10, <2>1 DEF FrameOf, About, There
  <2>3. /\ host.off + 1 >= Sizes[host.file]
        /\ \A m \in Mail' : FrameOf(m) => LastFrame(m)
    BY <1>3, <1>10, <2>1, <2>2, LastOnes
  <2>4. Closing'
    BY <1>10, <2>3 DEF Closing, FrameOf, About, LastFrame
  <2> QED
    BY <1>12, <2>1, <2>4
<1>17. BoardBehind'
  <2>1. HostPos = f /\ board.txn = host.txn => h.off <= host.off
    BY <1>3, <1>10 DEF Before, Order, NoneAhead
  <2>2. \/ board.txn < host.txn
        \/ board.txn = host.txn /\ (f < HostPos \/ f = HostPos)
    BY <1>10 DEF Before, Story, BoardBehind, f
  <2> QED
    BY <1>7, <1>10, <2>1, <2>2 DEF BoardBehind
<1>18. FramesAhead'
  BY <1>7, <1>15, <1>10 DEF FramesAhead
<1>19. TakenAll'
  BY <1>1 DEF Before, Story, TakenAll
<1> QED
  BY <1>3, <1>7, <1>11, <1>13, <1>14, <1>16, <1>17, <1>18, <1>19, SessionKeeps

\* Of what may go wrong with the card three things have not happened.
LEMMA OnlyCard ==
  ASSUME TailKept'
  PROVE  \A k \in {"tail", "page", "refused"} : ~Fault(k)
BY DEF TailKept, Fault

\* What the board expects it has a file open for.
LEMMA OpenThen ==
  ASSUME Before, Mine(Head(down)), Expected(Head(down))
  PROVE  Incomplete /\ board.path = board.file /\ board.path # NoFile
<1>1. Incomplete
  BY DEF Mine, Expected, Incomplete
<1> QED
  BY <1>1, Constants DEF Before, Kept, Counted, AtWork, Incomplete

\* What ends a transfer, or opens none, does not touch the session otherwise.
LEMMA NoPath ==
  ASSUME Before, ~Incomplete, board' = [board EXCEPT !.path = NoFile]
  PROVE  board' = board
<1>1. board.path = NoFile
  BY DEF Before, Counted, AtRest, AtEnd, Incomplete
<1>2. board \in Sessions
  BY DEF Before, TypeOK, CardOK
<1> QED
  BY <1>1, <1>2 DEF Sessions

\* A file that cannot be opened: the transfer before it was complete.
LEMMA OpenFailsKeeps ==
  ASSUME Before, TailKept', BulkOpenFails
  PROVE  Kept' /\ Place' /\ Order' /\ Story'
<1>1. /\ UNCHANGED host /\ down # <<>> /\ down' = Tail(down) /\ Head(down).kind = "bulk"
      /\ SayFor(Head(down), "error") /\ stage' = stage /\ taken' = taken
      /\ board.session /\ ~Incomplete
  BY OnlyCard DEF BulkOpenFails, Take, MayOpen
<1>2. PICK r : Answers(r) /\ r.kind = "bulk" /\ r.rc = "error"
  BY <1>1, SaidFor
<1>3. ~Opening(r) /\ ~Final(r)
  BY <1>2 DEF Opening, Final, FinalAck, FrameOf
<1>4. CASE ~board.active
  <2>1. board' = [board EXCEPT !.path = NoFile] /\ buffer' = buffer
    BY <1>4 DEF BulkOpenFails
  <2>2. UNCHANGED card
    BY <1>1, <2>1, NoPath DEF card
  <2> QED
    BY <1>2, <1>3, <2>2, WithoutChange
<1>5. CASE board.active
  <2>1. /\ board'.session /\ ~board'.active /\ ~board'.complete /\ board'.got = 0
    BY <1>5 DEF BulkOpenFails, Idle
  <2>2. Handled(r) /\ Order'
    BY <1>2, AnswerHandled DEF Before
  <2>3. Kept' /\ BoardBehind' /\ FramesAhead' /\ TakenAll'
    BY <1>1, <2>1 DEF Before, Story, TakenAll, Kept, Incomplete, BoardBehind, FramesAhead
  <2>4. WholeFiles \subseteq WholeFiles'
    BY <1>1 DEF WholeFiles, WholeOr
  <2>5. ASSUME Reached PROVE BoardAt'
    <3>1. There
      BY <1>5, <2>5, ReachedThere DEF BoardAt, Lost
    <3>2. stage[host.file] = Whole(host.file)
      BY <1>1, <1>5, <3>1 DEF Before, Kept, Incomplete, There
    <3>3. host' = host /\ Sizes[host.file] \in Nat
      BY <1>1, Constants DEF Before, TypeOK, Hosts
    <3> QED
      BY <1>1, <2>1, <3>2, <3>3 DEF BoardAt, Lost
  <2> QED
    BY <1>1, <1>3, <2>2, <2>3, <2>4, <2>5, SessionKeeps
<1> QED
  BY <1>4, <1>5

\* The transaction is not ended.
LEMMA EndFailsKeeps ==
  ASSUME Before, TailKept', EndFails
  PROVE  Kept' /\ Place' /\ Order' /\ Story'
<1>1. /\ UNCHANGED host /\ down # <<>> /\ down' = Tail(down) /\ Head(down).kind = "end"
      /\ SayFor(Head(down), "error") /\ UNCHANGED card
  <2>1. board' = board
    BY NoPath DEF EndFails
  <2> QED
    BY <2>1, OnlyCard DEF EndFails, Take, card
<1>2. PICK r : Answers(r) /\ r.kind = "end"
  BY <1>1, SaidFor
<1>3. ~Opening(r) /\ ~Final(r)
  BY <1>2 DEF Opening, Final, FinalAck, FrameOf
<1> QED
  BY <1>1, <1>2, <1>3, WithoutChange

\* A buffer that cannot be written belongs to a file that the host has not
\* passed: of those only last frames can come.
LEMMA FlushFailsKeeps ==
  ASSUME Before, TailKept', FlushFails
  PROVE  Kept' /\ Place' /\ Order' /\ Story'
<1> DEFINE h == Head(down)
           f == board.file
<1>1. /\ Take("data") /\ UNCHANGED host /\ taken' = taken
      /\ Mine(h) /\ Expected(h) /\ Ack(h, board.got, "error")
      /\ board' = [board EXCEPT !.got = board.got, !.active = FALSE, !.path = NoFile]
  BY Zenon DEF FlushFails, Broken
<1>2. Incomplete /\ board.path = f /\ board.path # NoFile
  BY <1>1, OpenThen
<1>3. ~Last(h) /\ \E n \in 0..Len(Filled(h)) : Written(h, n)
  <2>1. /\ Fault(IF Last(h) THEN "tail" ELSE "card")
        /\ \E n \in 0..Len(Filled(h)) : Written(h, n)
    BY <1>2 DEF FlushFails
  <2> QED
    BY <2>1, OnlyCard
<1>4. PICK r : /\ Answers(r) /\ r.kind = "data" /\ r.rc = "error"
  BY <1>1, Acked
<1>5. /\ Handled(r) /\ Order' /\ h \in Mail /\ h \in Messages /\ h.kind = "data"
      /\ Mail' \subseteq Mail /\ \A m \in Mail' : Follows(h, m)
  BY <1>1, <1>4, AnswerHandled DEF Before, Take, Handled
<1>6. ~Opening(r) /\ ~Final(r)
  BY <1>4 DEF Opening, Final, FinalAck
<1>7. /\ board'.session <=> board.session
      /\ ~board'.active /\ board'.complete = board.complete /\ board'.got = board.got
  BY <1>1 DEF Before, TypeOK, CardOK, Sessions
<1>8. \A g \in Files : g # f => stage'[g] = stage[g]
  BY <1>2, <1>3 DEF Written, Before, TypeOK, CardOK
<1>9. /\ board.active /\ ~board.complete /\ h.txn = board.txn /\ h.file = f /\ ~LastFrame(h)
      /\ board.got < Sizes[f] /\ f \in Files
  BY <1>1, <1>2, <1>3, <1>5 DEF Mine, Expected, Last, LastFrame, Incomplete, Before, Counted, InBetween, AtWork
<1> HIDE DEF h, f
<1>10. ASSUME NEW g \in Files, WholeOr(g), g # f PROVE g \in WholeFiles'
  BY <1>8, <1>10 DEF WholeOr, WholeFiles, f
<1>11. host' = host /\ host \in Hosts /\ NetOK /\ HostPlaced
  BY <1>1, HostPlace DEF Before, TypeOK
<1>12. Kept' /\ BoardBehind' /\ FramesAhead' /\ TakenAll'
  BY <1>1, <1>7, <1>9 DEF Before, Story, TakenAll, Kept, Incomplete, BoardBehind, FramesAhead
<1>13. ASSUME Reached PROVE BoardAt' /\ f = host.file
  <2>1. There
    BY <1>9, <1>13, ReachedThere DEF BoardAt, Lost
  <2>2. Sizes[host.file] # 0
    <3>1. board.got \in Nat
      BY BoardPlace DEF Before, TypeOK
    <3> QED
      BY <1>9, <2>1, <3>1 DEF There, f
  <2> QED
    BY <1>7, <1>9, <1>11, <2>1, <2>2 DEF BoardAt, Lost, There, f
<1>14. Announced'
  <2>1. host.at \in {"data", "resume"} => BoardAt'
    BY <1>13 DEF Reached
  <2>2. ASSUME host.at = "bulk", NEW x \in Notes', Opening(x) PROVE BoardAt'
    BY <1>5, <1>6, <1>13, <2>2 DEF Reached, Handled
  <2> QED
    BY <1>11, <2>1, <2>2 DEF Announced, Opening, About
<1>15. FinalAcks'
  <2> SUFFICES ASSUME host.at \in {"data", "resume"}, NEW x \in Notes', FinalAck(x) PROVE FALSE
    BY <1>11 DEF FinalAcks, FinalAck, FrameOf, About
  <2>1. x \in Notes
    BY <1>5, <1>6 DEF Handled, Final
  <2>2. FrameOf(h)
    <3>1. There
      BY <1>9, ReachedThere DEF Reached, BoardAt, Lost
    <3> QED
      BY <1>5, <1>9, <3>1 DEF FrameOf, About, There, f
  <2> QED
    BY <1>5, <1>9, <2>1, <2>2 DEF Before, Story, FinalAcks, Closing
<1>16. PassedKept'
  <2> SUFFICES ASSUME InTransaction', NEW g \in Files, Passed(g)
               PROVE  g \in WholeFiles'
    BY <1>11 DEF PassedKept, Passed, WholeFiles, WholeOr, Incomplete
  <2>1. InTransaction /\ WholeOr(g)
    BY <1>7, <1>11 DEF InTransaction, Before, Story, PassedKept
  <2>2. ASSUME g = f PROVE FALSE
    <3>1. host.at \in {"bulk", "resume", "data", "end"} /\ g \in Nat
      BY <2>1, Constants DEF InTransaction, Requests, Controls
    <3>2. CASE host.at \in {"resume", "data"}
      BY <1>11, <1>13, <2>2, <3>1, <3>2 DEF Reached, Passed, HostPlaced
    <3>3. CASE host.at \in {"bulk", "end"}
      <4>1. HeardPos > 0
        BY <1>11, <2>2, <3>1, <3>3, Constants DEF Passed, HostPlaced
      <4>2. AtLeast(h, host.txn, HeardPos) /\ AtMost(h, host.txn, HostPos)
        BY <1>5, <4>1 DEF Before, Order, AfterHost, Behind
      <4>3. h.txn = host.txn
        BY <1>5, <1>11, <4>2, MessagePlace DEF AtLeast, AtMost, HostPlaced
      <4> QED
        BY <1>5, <1>9, <3>3, <4>3 DEF Before, Story, PassedLast
    <3> QED
      BY <3>1, <3>2, <3>3
  <2> QED
    BY <1>10, <2>1, <2>2
<1>17. EndReady'
  <2> SUFFICES ASSUME NEW e \in Mail', e.kind = "end" PROVE FALSE
    BY DEF EndReady
  <2>1. AtLeast(e, h.txn, Pos(h)) /\ AtLeast(h, e.txn, 1)
    BY <1>5 DEF Follows
  <2>2. h.txn = e.txn
    BY <1>5, <1>11, <2>1, InMail, MessagePlace DEF AtLeast
  <2> QED
    BY <1>5, <1>9, <2>2 DEF Before, Story, EndReady
<1>18. Place' /\ NoFrameYet' /\ PassedLast'
  BY <1>5, <1>11 DEF Handled, Story, Place, NoFrameYet, FrameOf, About, PassedLast, LastFrame
<1> QED
  BY <1>5, <1>12, <1>14, <1>15, <1>16, <1>17, <1>18 DEF Story

LEMMA BoardKeeps ==
  ASSUME TailKept', Before, Board \/ PageCloses \/ Forgets
  PROVE  Kept' /\ Place' /\ Order' /\ Story'
<1>1. CASE HandleBegin
  BY <1>1, BeginKeeps, RefusalsKeep
<1>2. CASE BulkRefused \/ BulkRepeated \/ EndRefused
  BY <1>2, RefusalsKeep
<1>3. CASE FrameRefused \/ FrameRepeated
  BY <1>3, FrameAnswersKeep
<1>4. CASE HandleAbort
  BY <1>4, AbortKeeps
<1>5. CASE BulkOpens
  BY <1>5, OpensKeep
<1>6. CASE FrameStored
  BY <1>6, StoredKeeps
<1>7. CASE EndTakes
  BY <1>7, EndKeeps
<1>8. CASE Forgets
  BY <1>8, ForgetsKeeps
<1>9. CASE BulkOpenFails
  BY <1>9, OpenFailsKeeps
<1>10. CASE EndFails
  BY <1>10, EndFailsKeeps
<1>11. CASE FlushFails
  BY <1>11, FlushFailsKeeps
<1>12. ~TailFails
  BY OnlyCard, OpenThen DEF TailFails
<1>13. ~PageCloses
  BY OnlyCard DEF PageCloses
<1> QED
  BY <1>1, <1>2, <1>3, <1>4, <1>5, <1>6, <1>7, <1>8, <1>9, <1>10, <1>11, <1>12, <1>13 DEF Board

-----------------------------------------------------------------------------
(* The whole package                                                       *)

\* The invariant holds in the initial state and is preserved by every step.
LEMMA Begin == Init => Kept /\ Place /\ Order /\ Story
<1> SUFFICES ASSUME Init PROVE Kept /\ Place /\ Order /\ Story
  OBVIOUS
<1>1. /\ host.at = "begin" /\ down = <<>> /\ up = <<>> /\ status.kind = "none"
      /\ board = Idle /\ taken = <<>>
  BY DEF Init, Reply
<1>2. Mail = {} /\ Notes = {status} /\ Len(down) = 0
  BY <1>1, EmptySeq DEF Mail, Notes
<1>3. Kept /\ Place
  BY <1>1 DEF Kept, Place, Incomplete, Idle
<1>4. Order
  BY <1>1, <1>2 DEF Order, Sorted, Behind, NotesBehind, AfterNotes, AfterHost, NoneAhead, OfFile
<1>5. Story
  BY <1>1, <1>2 DEF Story, Announced, BoardBehind, FramesAhead, NoFrameYet, FinalAcks, PassedKept,
     InTransaction, PassedLast, EndReady, TakenAll, Idle
<1> QED
  BY <1>3, <1>4, <1>5

LEMMA Idly ==
  ASSUME Kept, Place, Order, Story, UNCHANGED vars
  PROVE  Kept' /\ Place' /\ Order' /\ Story'
<1>1. /\ host' = host /\ down' = down /\ up' = up /\ status' = status
      /\ board' = board /\ buffer' = buffer /\ stage' = stage /\ taken' = taken
  BY DEF vars, net, card
<1>2. Mail' = Mail /\ Notes' = Notes /\ HostPos' = HostPos /\ HeardPos' = HeardPos
  BY <1>1 DEF Mail, Notes, HostPos, HeardPos
<1>3. Kept' /\ Place'
  BY <1>1 DEF Kept, Place, Incomplete
<1>4. Order'
  BY <1>1, <1>2 DEF Order, Sorted, Behind, NotesBehind, AfterNotes, AfterHost, NoneAhead, NoteBehind, OfFile,
     Follows, AtLeast, AtMost, Pos
<1>5. Announced' /\ BoardBehind' /\ FramesAhead' /\ NoFrameYet'
  BY <1>1, <1>2 DEF Story, Announced, BoardBehind, FramesAhead, NoFrameYet, FrameOf, Opening, About, BoardAt,
     There, Lost
<1>6. FinalAcks' /\ PassedLast'
  BY <1>1, <1>2 DEF Story, FinalAcks, FinalAck, Closing, FrameOf, About, PassedLast, LastFrame, WholeOr,
     Incomplete
<1>7. PassedKept' /\ EndReady' /\ TakenAll'
  BY <1>1, <1>2 DEF Story, PassedKept, Passed, InTransaction, EndReady, LastFrame, TakenAll, WholeOr,
     Incomplete
<1> QED
  BY <1>3, <1>4, <1>5, <1>6, <1>7 DEF Story

\* What the host has heard when it is done.
LEMMA DoneHeard ==
  ASSUME host \in Hosts, Host \/ LinkDrops \/ NoteLost, host'.at = "done", host.at # "done"
  PROVE  \E r \in Notes : r.kind = "end" /\ r.rc = "ok"
<1>1. ASSUME Answered PROVE \E r \in Notes : r.kind = "end" /\ r.rc = "ok"
  <2>1. PICK r \in {status} \cup {up[i] : i \in 1..Len(up)} :
          /\ Awaited(r)
          /\ host' = IF r.rc = "ok" THEN Proceeds
                     ELSE Ask(IF r.rc \in {"error", "busy"} THEN "abort" ELSE "quit")
    BY <1>1 DEF Answered
  <2>2. r.rc = "ok" /\ host' = Proceeds
    BY <2>1, AskMoves
  <2>3. host.at = "end"
    <3>1. host.at \in Controls
      BY <1>1 DEF Answered
    <3>2. host.at # "begin" /\ host.at # "bulk"
      BY <2>2 DEF Proceeds, NextFile, ToFile, Ask, Hosts
    <3>3. host.at # "resume"
      BY <2>2 DEF Proceeds, Ask, Hosts
    <3> QED
      BY <3>1, <3>2, <3>3 DEF Controls
  <2> QED
    BY <2>1, <2>2, <2>3 DEF Awaited, Notes
<1>2. ~Answered => FALSE
  <2>1. ~(host' = ControlFails)
    BY AskMoves DEF ControlFails, Ask, Hosts
  <2>2. ~(host' = WindowFails)
    BY DEF WindowFails, Ask, Hosts
  <2>3. ~(host' = AttemptFails)
    BY <2>2 DEF AttemptFails, Hosts
  <2>4. ~ControlTimesOut /\ ~Denied /\ ~DataTimesOut /\ ~LinkDrops /\ ~NoteLost /\ ~Skip
    BY <2>1, <2>2, <2>3 DEF ControlTimesOut, Denied, DataTimesOut, LinkDrops, NoteLost, Skip
  <2>5. ~Send /\ ~Reconnect
    BY DEF Send, Reconnect, Ask, Hosts
  <2>6. ~Leave
    BY DEF Leave, Ask, Hosts
  <2>7. ~Confirmed
    BY DEF Confirmed, NextFile, ToFile, Ask, Hosts
  <2> QED
    BY <2>4, <2>5, <2>6, <2>7 DEF Host
<1> QED
  BY <1>1, <1>2

\* The board says of a transaction it has taken, and of no other, that it has
\* ended.
LEMMA ReportedSaid ==
  ASSUME TypeOK, Reported, UNCHANGED host, NEW r, Say(r), taken' = taken \/ taken' # <<>>,
         r.kind = "end" /\ r.rc = "ok" => taken' # <<>>
  PROVE  Reported'
<1>1. Notes' \subseteq Notes \cup {r}
  BY NotesSaid DEF TypeOK
<1> QED
  BY <1>1 DEF Reported

LEMMA ReportedStep == TypeOK /\ Reported /\ [Next]_vars => Reported'
<1> SUFFICES ASSUME TypeOK, Reported, [Next]_vars PROVE Reported'
  OBVIOUS
<1>1. host \in Hosts /\ NetOK
  BY DEF TypeOK
<1>2. ASSUME Host \/ LinkDrops \/ NoteLost PROVE Reported'
  <2>1. taken' = taken /\ Notes' \subseteq Notes
    BY <1>1, <1>2, HostQuiet DEF card
  <2> QED
    BY <1>1, <1>2, <2>1, DoneHeard DEF Reported
<1>3. ASSUME NEW m, NEW rc, UNCHANGED host, SayFor(m, rc), taken' = taken \/ taken' # <<>>,
             m.kind = "end" /\ rc = "ok" => taken' # <<>>
      PROVE  Reported'
  <2> DEFINE r == Reply(m.kind, IF m.kind = "bulk" THEN m.txn ELSE 0, m.file, 0, rc)
  <2>1. Say(r) /\ r.kind = m.kind /\ r.rc = rc
    BY <1>3 DEF SayFor, Reply
  <2> HIDE DEF r
  <2> QED
    BY <1>3, <2>1, ReportedSaid
<1>4. ASSUME NEW m, NEW got, NEW rc, UNCHANGED host, Ack(m, got, rc), taken' = taken PROVE Reported'
  <2> DEFINE r == Reply("data", m.txn, m.file, got, rc)
  <2>1. Say(r) /\ r.kind = "data"
    BY <1>4 DEF Ack, Reply
  <2> HIDE DEF r
  <2> QED
    BY <1>4, <2>1, ReportedSaid
<1>5. CASE HandleBegin \/ HandleAbort \/ BulkRefused \/ BulkRepeated \/ BulkOpens \/ EndRefused
  BY <1>3, <1>5 DEF HandleBegin, HandleAbort, BulkRefused, BulkRepeated, BulkOpens, EndRefused, Take, card
<1>6. CASE BulkOpenFails \/ EndFails
  BY <1>3, <1>6 DEF BulkOpenFails, EndFails
<1>7. CASE EndTakes
  <2>1. taken' # <<>>
    <3>1. DOMAIN stage = Files /\ 1 \in Files /\ taken' = stage
      BY <1>7, Constants DEF TypeOK, CardOK, EndTakes
    <3>2. DOMAIN << >> = {}
      OBVIOUS
    <3> QED
      BY <3>1, <3>2
  <2> QED
    BY <1>3, <1>7, <2>1 DEF EndTakes
<1>8. CASE FrameRefused \/ FrameRepeated \/ FrameStored
  BY <1>4, <1>8 DEF FrameRefused, FrameRepeated, FrameStored, card
<1>9. CASE FlushFails \/ TailFails
  BY <1>4, <1>9 DEF FlushFails, TailFails, Broken
<1>10. CASE PageCloses \/ UNCHANGED vars
  <2>1. UNCHANGED <<host, up, status, taken>>
    BY <1>10 DEF PageCloses, vars, net, card
  <2> QED
    BY <2>1 DEF Reported, Notes
<1>11. CASE Forgets
  <2>1. UNCHANGED <<host, taken>> /\ (UNCHANGED <<up, status>> \/ (up' = <<>> /\ status'.kind = "none"))
    BY <1>11 DEF Forgets, net, Reply
  <2>2. CASE UNCHANGED <<up, status>>
    BY <2>1, <2>2 DEF Reported, Notes
  <2>3. CASE up' = <<>> /\ status'.kind = "none"
    <3>1. Notes' = {status'}
      BY <2>3, EmptySeq DEF Notes
    <3> QED
      BY <2>1, <2>3, <3>1 DEF Reported
  <2> QED
    BY <2>1, <2>2, <2>3
<1> QED
  BY <1>2, <1>5, <1>6, <1>7, <1>8, <1>9, <1>10, <1>11 DEF Next, Board, Environment

LEMMA Kernel == Spec => []IInv
<1>1. Init => IInv
  <2>1. Init => Counted /\ Reported
    <3>1. Init => Reported
      <4>1. Init => Len(up) = 0 /\ host.at = "begin" /\ status.kind = "none"
        BY EmptySeq DEF Init, Reply
      <4> QED
        BY <4>1 DEF Reported, Notes
    <3> QED
      BY <3>1, InitCounts
  <2> QED
    BY <2>1, InitTyped, Begin DEF IInv
<1>2. IInv /\ [Next]_vars => IInv'
  <2> SUFFICES ASSUME IInv, [Next]_vars PROVE IInv'
    OBVIOUS
  <2>1. TypeOK' /\ Counted' /\ Reported'
    BY TypeStep, CountedStep, ReportedStep DEF IInv, TypeOK
  <2>2. ASSUME TailKept' PROVE Kept' /\ Place' /\ Order' /\ Story'
    <3>1. TailKept
      <4>1. seen \subseteq seen'
        BY SeenGrows
      <4> QED
        BY <2>2, <4>1 DEF TailKept
    <3>2. Before
      BY <2>1, <3>1 DEF Before, IInv
    <3>3. CASE Host \/ LinkDrops \/ NoteLost
      BY <2>1, <3>2, <3>3, HostKeeps DEF Before
    <3>4. CASE Board \/ PageCloses \/ Forgets
      BY <2>2, <3>2, <3>4, BoardKeeps
    <3>5. CASE UNCHANGED vars
      BY <3>2, <3>5, Idly DEF Before
    <3> QED
      BY <3>3, <3>4, <3>5 DEF Next, Environment
  <2> QED
    BY <2>1, <2>2 DEF IInv
<1> QED
  BY <1>1, <1>2, PTL DEF Spec

\* The host never moves past a file that the board has not got whole, whatever
\* is lost, repeated, answered late, refused by the card or forgotten, as long
\* as no end of a file failed and no file that was opened again was lost.
THEOREM FilesPassedWhole == Spec => []PassedWhole
<1>1. IInv => PassedWhole
  BY DEF IInv, Story, PassedKept, PassedWhole, WholeOr
<1> QED
  BY <1>1, Kernel, PTL

\* install_end takes the whole package or nothing under the same faults, and
\* under all faults the host reports success only for a package that was taken.
THEOREM PackageTakenWhole == Spec => []TakenWhole
<1>1. IInv => TakenWhole
  BY DEF IInv, Reported, Story, TakenAll, TakenWhole
<1> QED
  BY <1>1, Kernel, PTL

-----------------------------------------------------------------------------
(* Why the host gives up                                                   *)

\* The mailbox is large enough for what a host that may start over can leave
\* in it (8 > 2 * 2), and a command is sent twice at least (4).
Roomy   == Mailbox > 2 * Restarts
Patient == Reconnects > 1

\* What is under way, and the request that has not been sent yet, is one for each
\* transaction and one more for each fault.
Unsent  == IF host.sent THEN 0 ELSE 1
Load    == Len(down) + Len(up) + Unsent
Traffic == host.at \in Requests \cup Leaving => Load <= faults + host.txn

\* Nobody knows of a later transaction.
NoneLater == \A m \in Mail : m.txn <= host.txn

\* The host waits for an answer to a request, over a link.
Waits == host.sent => host.linked /\ host.at \in Requests

\* Only a refused command is called invalid.
Excused == \A r \in Notes :
  /\ r.kind = "begin" => r.rc = "ok"
  /\ r.kind \in Controls /\ r.rc = "invalid" => "refused" \in seen

\* A transaction is given up only for a fault within it.
Paid ==
  /\ host.txn <= faults + 1
  /\ host.at = "abort" => host.txn <= faults
  /\ host.at = "quit" => "refused" \in seen
  /\ Survives

\* Nothing has gone wrong in this transaction.
Clean == host.at \in Requests /\ faults < host.txn

BeginNow == Message("begin", host.txn, NoFile, 0)
Blank    == board.session /\ ~board.active
FileDone == board.session /\ ~Incomplete
Serving(n) ==
  /\ board.session /\ Incomplete /\ board.txn = host.txn /\ board.file = host.file
  /\ board.path = host.file /\ board.got = n /\ n < Sizes[host.file]
BulkDone == IF Sizes[host.file] = 0 THEN FileDone ELSE Serving(0)

\* The first k messages are of earlier transactions, which they end.
Leftover(k) ==
  /\ k \in 0..Len(down) /\ \A i \in 1..k : down[i].txn < host.txn
  /\ IF k = 0 THEN ~board.active ELSE down[k].kind = "abort"

\* The first n notifications do not answer the announcement of the first file.
NoBulkIn(n) == \A i \in 1..n : ~(up[i].kind = "bulk" /\ up[i].txn = host.txn)

\* The transaction begins.  An answer to an earlier install_begin may come first.
OpensFirst ==
  /\ host.at = "begin" /\ host.tries = 0 /\ NoBulkIn(Len(up))
  /\ \/ ~host.sent /\ Leftover(Len(down))
     \/ host.sent /\ Leftover(Len(down) - 1) /\ down[Len(down)] = BeginNow
     \/ host.sent /\ Len(down) = 0 /\ Blank

\* The first file is announced, perhaps before install_begin was handled.
Announcing ==
  /\ NoBulkIn(Len(up))
  /\ \/ ~host.sent /\ Leftover(Len(down) - 1) /\ down[Len(down)] = BeginNow
     \/ ~host.sent /\ Len(down) = 0 /\ Blank
     \/ /\ host.sent /\ Leftover(Len(down) - 2)
        /\ down[Len(down) - 1] = BeginNow /\ down[Len(down)] = Request
     \/ host.sent /\ Len(down) = 1 /\ down[1] = Request /\ Blank
FirstTold ==
  /\ host.sent /\ Len(down) = 0 /\ BulkDone /\ NoBulkIn(Len(up) - 1)
  /\ Awaited(status) /\ status.rc = "ok"
  /\ \A i \in 1..Len(up) : Awaited(up[i]) => up[i].rc = "ok"
AnnouncesFirst ==
  /\ host.at = "bulk" /\ host.file = 1 /\ host.off = 0 /\ host.tries = 0
  /\ Announcing \/ FirstTold

\* From then on the two programs take turns.
ReadyFor ==
  \/ host.at = "begin" /\ Blank
  \/ host.at = "bulk" /\ host.off = 0 /\ (FileDone \/ Serving(0))
  \/ host.at = "data" /\ Serving(host.off)
  \/ host.at = "end" /\ FileDone
DoneFor ==
  \/ host.at = "begin" /\ Blank
  \/ host.at = "bulk" /\ host.off = 0 /\ BulkDone
  \/ host.at = "data" /\ IF host.off + 1 < Sizes[host.file] THEN Serving(host.off + 1) ELSE FileDone
  \/ host.at = "end"
InTurn ==
  \/ Len(up) = 0 /\ ReadyFor
     /\ IF host.sent THEN Len(down) = 1 /\ down[1] = Request ELSE Len(down) = 0
  \/ /\ host.sent /\ Len(down) = 0 /\ Len(up) = 1 /\ DoneFor
     /\ Awaited(up[1]) /\ up[1].rc = "ok" /\ (host.at = "data" => up[1].off = host.off + 1)

Smooth == Clean => OpensFirst \/ AnnouncesFirst \/ InTurn

SurvivalInv == TypeOK /\ Traffic /\ NoneLater /\ Waits /\ Excused /\ Paid /\ Smooth

LEMMA Lengths ==
  ASSUME NetOK
  PROVE  /\ Len(down) \in Nat /\ Len(up) \in Nat
         /\ (down = <<>>) = (Len(down) = 0) /\ (up = <<>>) = (Len(up) = 0)
         /\ \A i \in 1..Len(down) : down[i] \in Messages
         /\ \A i \in 1..Len(up) : up[i] \in Replies
BY LenProperties, EmptySeq, ElementOfSeq DEF NetOK

\* The numbers of messages and notifications.
LEMMA HostLengths ==
  ASSUME NetOK
  PROVE  /\ \A m \in Messages : Put(m) => Len(down') <= Len(down) + 1
         /\ up' = <<>> => Len(up') = 0
         /\ down' = <<>> => Len(down') = 0
         /\ Cleared => Len(up') <= Len(up)
         /\ up # <<>> /\ up' = Tail(up) => Len(up') = Len(up) - 1 /\ Len(up) > 0
         /\ down # <<>> /\ down' = Tail(down) => Len(down') = Len(down) - 1 /\ Len(down) > 0
<1>0. Len(down) \in Nat /\ Len(up) \in Nat
  BY Lengths
<1>1. ASSUME NEW m \in Messages, Put(m) PROVE Len(down') <= Len(down) + 1
  <2>1. Len(Append(down, m)) = Len(down) + 1
    BY AppendProperties DEF NetOK
  <2> QED
    BY <1>0, <1>1, <2>1 DEF Put
<1>2. ASSUME Cleared PROVE Len(up') <= Len(up)
  <2>1. PICK n \in 0..Len(up) : up' = SubSeq(up, n + 1, Len(up))
    BY <1>2 DEF Cleared
  <2>2. \A i \in (n + 1)..Len(up) : up[i] \in Replies
    BY Lengths
  <2>3. Len(SubSeq(up, n + 1, Len(up))) <= Len(up)
    BY <1>0, <2>2, SubSeqProperties
  <2> QED
    BY <2>1, <2>3
<1>3. up # <<>> /\ up' = Tail(up) => Len(up') = Len(up) - 1 /\ Len(up) > 0
  BY <1>0, HeadTailProperties, EmptySeq DEF NetOK
<1>4. down # <<>> /\ down' = Tail(down) => Len(down') = Len(down) - 1 /\ Len(down) > 0
  BY <1>0, HeadTailProperties, EmptySeq DEF NetOK
<1> QED
  BY <1>1, <1>2, <1>3, <1>4, EmptySeq

\* What a step of the host without a fault hears.
LEMMA InTime ==
  ASSUME NetOK, TypeOK, faults' = faults
  PROVE  /\ \A kind : ~Fault(kind)
         /\ Late => Len(down) = 0 /\ Len(up) = 0
         /\ \A r : Heard(r) =>
              /\ host.sent
              /\ \/ Len(up) > 0 /\ r = up[1] /\ up' = Tail(up)
                 \/ Len(up) = 0 /\ Len(down) = 0 /\ r = status /\ up' = up
<1>1. \A kind : ~Fault(kind)
  BY DEF Fault, TypeOK, PastOK
<1>2. Late => Len(down) = 0 /\ Len(up) = 0
  BY <1>1, Lengths DEF Late
<1>3. Len(up) \in Nat /\ ((up = <<>>) = (Len(up) = 0)) /\ (up # <<>> => Head(up) = up[1])
  BY Lengths, HeadTailProperties DEF NetOK
<1> QED
  BY <1>1, <1>2, <1>3 DEF Heard, Notified, Polled

\* What the host asks for next has not been sent, nor is its place a later
\* transaction.
LEMMA NotYetSent ==
  ASSUME host \in Hosts
  PROVE  /\ \A w : ~Ask(w).sent /\ Ask(w).txn = host.txn
         /\ \A w, n : ~[Ask(w) EXCEPT !.off = n, !.stalls = 0].sent /\ [Ask(w) EXCEPT !.off = n, !.stalls = 0].txn = host.txn
         /\ ~NextFile.sent /\ NextFile.txn = host.txn
         /\ host.at \in Controls => ~Proceeds.sent /\ Proceeds.txn = host.txn
         /\ ~ControlFails.sent /\ ControlFails.txn = host.txn
         /\ ~WindowFails.sent /\ WindowFails.txn = host.txn
         /\ ~AttemptFails.sent /\ AttemptFails.txn = host.txn
<1>1. /\ \A w : ~Ask(w).sent /\ Ask(w).txn = host.txn
      /\ \A w, n : ~[Ask(w) EXCEPT !.off = n, !.stalls = 0].sent /\ [Ask(w) EXCEPT !.off = n, !.stalls = 0].txn = host.txn
  BY DEF Ask, Hosts
<1>2. /\ \A f : ~ToFile(f).sent /\ ToFile(f).txn = host.txn
      /\ ~[Ask("end") EXCEPT !.off = 0].sent /\ [Ask("end") EXCEPT !.off = 0].txn = host.txn
  BY DEF ToFile, Ask, Hosts
<1>3. ~NextFile.sent /\ NextFile.txn = host.txn
  BY <1>2, Zenon DEF NextFile
<1>4. host.at \in Controls => ~Proceeds.sent /\ Proceeds.txn = host.txn
  <2>1. host.at \in Controls => Proceeds \in {ToFile(1), NextFile, Ask("data"), Ask("done")}
    BY DEF Proceeds, Controls
  <2> QED
    BY <1>1, <1>2, <1>3, <2>1, Zenon
<1>5. ~WindowFails.sent /\ WindowFails.txn = host.txn
  BY <1>1 DEF WindowFails, Ask, Hosts
<1>6. ~ControlFails.sent /\ ControlFails.txn = host.txn
  BY <1>1 DEF ControlFails, Ask, Hosts
<1>7. ~AttemptFails.sent /\ AttemptFails.txn = host.txn
  BY <1>5 DEF AttemptFails, Hosts
<1> QED
  BY <1>1, <1>3, <1>4, <1>5, <1>6, <1>7

\* The ways a step moves the host.
Ends == Answered \/ Confirmed \/ ControlTimesOut \/ DataTimesOut \/ Denied \/ LinkDrops
LEMMA HostFate ==
  ASSUME TypeOK, [Next]_vars
  PROVE  \/ host' = host /\ (Skip \/ Board \/ PageCloses \/ Forgets \/ NoteLost \/ UNCHANGED vars)
         \/ Send /\ host' = [host EXCEPT !.sent = TRUE]
         \/ Ends /\ host.sent /\ ~host'.sent /\ host'.txn = host.txn
         \/ Reconnect /\ host'.txn = host.txn /\ host'.linked
         \/ Leave /\ ~host'.sent /\ host'.txn \in {host.txn, host.txn + 1}
<1>0. host \in Hosts
  BY DEF TypeOK
<1>1. ASSUME Skip \/ Board \/ PageCloses \/ Forgets \/ NoteLost \/ UNCHANGED vars
      PROVE  host' = host
  BY <1>1 DEF Skip, PageCloses, Forgets, NoteLost, vars, Board, HandleBegin, HandleAbort,
     BulkRefused, BulkRepeated, BulkOpens, BulkOpenFails, FrameRefused, FrameRepeated,
     FrameStored, FlushFails, TailFails, EndRefused, EndTakes, EndFails
<1>2. ASSUME Answered PROVE host.sent /\ ~host'.sent /\ host'.txn = host.txn
  <2>1. host.sent /\ host.at \in Controls /\ (host' = Proceeds \/ \E w : host' = Ask(w))
    BY <1>2 DEF Answered, Heard
  <2> QED
    BY <1>0, <2>1, NotYetSent
<1>3. ASSUME Confirmed PROVE host.sent /\ ~host'.sent /\ host'.txn = host.txn
  <2>1. /\ host.sent
        /\ host' = NextFile \/ host' = [Ask("data") EXCEPT !.off = host.off + 1, !.stalls = 0]
    BY <1>3 DEF Confirmed, Heard
  <2> QED
    BY <1>0, <2>1, NotYetSent
<1>4. ASSUME ControlTimesOut \/ DataTimesOut \/ Denied \/ LinkDrops
      PROVE  host.sent /\ ~host'.sent /\ host'.txn = host.txn
  <2>1. host.sent /\ (host' = ControlFails \/ host' = WindowFails \/ host' = AttemptFails)
    BY <1>4 DEF ControlTimesOut, DataTimesOut, Denied, LinkDrops
  <2> QED
    BY <1>0, <2>1, NotYetSent
<1>5. ASSUME Reconnect PROVE host'.txn = host.txn /\ host'.linked
  BY <1>0, <1>5 DEF Reconnect, Ask, Hosts
<1>6. ASSUME Leave PROVE ~host'.sent /\ host'.txn \in {host.txn, host.txn + 1}
  BY <1>0, <1>6 DEF Leave, Ask, Hosts
<1>7. Send => host' = [host EXCEPT !.sent = TRUE]
  BY DEF Send
<1> QED
  BY <1>1, <1>2, <1>3, <1>4, <1>5, <1>6, <1>7, Zenon DEF Next, Host, Environment, Ends

\* An answer is one notification less, or comes when nothing is under way, or
\* a fault is counted.
LEMMA EndCounts ==
  ASSUME TypeOK, Ends
  PROVE  /\ host.at \in Requests \/ LinkDrops
         /\ Len(down') = Len(down) /\ Len(up') <= Len(up)
         /\ \/ Len(up') = Len(up) - 1 /\ Len(up) > 0
            \/ Len(down) = 0 /\ Len(up) = 0
            \/ \E kind : Fault(kind)
<1>0. NetOK
  BY DEF TypeOK
<1>1. host.at \in Requests \/ LinkDrops
  BY DEF Ends, Answered, Confirmed, ControlTimesOut, DataTimesOut, Denied, Requests
<1>2. CASE Answered \/ Confirmed
  <2>1. \E r : Heard(r)
    BY <1>2, Zenon DEF Answered, Confirmed
  <2>2. down' = down
    BY <1>2 DEF Answered, Confirmed
  <2>3. \/ up # <<>> /\ up' = Tail(up)
        \/ up' = up /\ Late
    BY <2>1 DEF Heard, Notified, Polled
  <2> QED
    BY <1>0, <1>1, <2>2, <2>3, HostLengths, Lengths DEF Late
<1>3. CASE ControlTimesOut \/ DataTimesOut \/ Denied \/ LinkDrops
  <2>1. /\ down' = down
        /\ \/ up # <<>> /\ up' = Tail(up)
           \/ up' = up /\ (Late \/ Fault("drop"))
    BY <1>3 DEF ControlTimesOut, DataTimesOut, Denied, LinkDrops, net
  <2> QED
    BY <1>0, <1>1, <2>1, HostLengths, Lengths DEF Late
<1> QED
  BY <1>2, <1>3 DEF Ends

LEMMA StepWaits ==
  ASSUME TypeOK, Waits, [Next]_vars
  PROVE  Waits'
<1>0. host \in Hosts
  BY DEF TypeOK
<1>1. CASE host' = host
  BY <1>1 DEF Waits
<1>2. CASE Send
  BY <1>0, <1>2 DEF Waits, Send, Hosts
<1>3. CASE (Ends \/ Leave) /\ ~host'.sent
  BY <1>3 DEF Waits
<1>4. CASE Reconnect
  <2>1. ~host.sent
    BY <1>4 DEF Reconnect, Waits
  <2>2. ~host'.sent
    BY <1>0, <1>4, <2>1 DEF Reconnect, Ask, Hosts
  <2> QED
    BY <2>2 DEF Waits
<1> QED
  BY <1>1, <1>2, <1>3, <1>4, HostFate

\* The sum is kept when what is under way grows by no more than the host sends,
\* and when the host hears something, waits for nothing or a fault is counted.
LEMMA LoadKept ==
  ASSUME NEW d \in Nat, NEW u \in Nat, NEW w \in 0..1, NEW f \in Nat, NEW t \in Nat,
         NEW dd \in Nat, NEW uu \in Nat, NEW ww \in 0..1, NEW ff \in Nat, NEW tt \in Nat,
         ff = f \/ ff = f + 1, t >= 1, d + u + w <= f + t,
         \/ ww = w /\ tt = t /\ dd + uu <= d + u
         \/ w = 1 /\ ww = 0 /\ tt = t /\ dd <= d + 1 /\ uu <= u
         \/ tt = t /\ dd = d /\ uu <= u /\ (u > uu \/ d + u = 0 \/ ff = f + 1)
         \/ w = 1 /\ tt = t /\ dd <= d /\ uu = 0
         \/ w = 1 /\ tt = t + 1 /\ dd <= d + 1 /\ uu = 0
  PROVE  dd + uu + ww <= ff + tt
OBVIOUS

\* The numbers that the sum is about.
LEMMA LoadTyped ==
  ASSUME TypeOK, TypeOK', [Next]_vars
  PROVE  /\ Len(down) \in Nat /\ Len(up) \in Nat /\ Len(down') \in Nat /\ Len(up') \in Nat
         /\ host.txn \in Nat /\ host.txn >= 1 /\ host'.txn \in Nat /\ host'.txn >= 1
         /\ Unsent \in 0..1 /\ Unsent' \in 0..1 /\ (host.sent => Unsent = 0) /\ (~host.sent => Unsent = 1)
         /\ (host'.sent => Unsent' = 0)
         /\ faults \in Nat /\ faults' \in Nat /\ (faults' = faults \/ faults' = faults + 1)
<1>1. host \in Hosts /\ host' \in Hosts /\ NetOK /\ NetOK' /\ PastOK /\ PastOK'
  BY DEF TypeOK
<1>2. host.txn \in Nat /\ host.txn >= 1 /\ host'.txn \in Nat /\ host'.txn >= 1
  <2>1. \A x \in Hosts : x.txn \in Txns
    BY DEF Hosts
  <2>2. \A n \in Txns : n \in Nat /\ n >= 1
    BY Constants DEF Txns
  <2> QED
    BY <1>1, <2>1, <2>2
<1>6. /\ Unsent \in 0..1 /\ Unsent' \in 0..1 /\ (host.sent => Unsent = 0) /\ (~host.sent => Unsent = 1)
      /\ (host'.sent => Unsent' = 0)
  BY DEF Unsent
<1>3. Len(down) \in Nat /\ Len(up) \in Nat /\ Len(down') \in Nat /\ Len(up') \in Nat
  BY <1>1, LenProperties DEF NetOK
<1>4. faults \in Nat /\ faults' \in Nat
  BY <1>1 DEF PastOK
<1>5. faults' = faults \/ faults' = faults + 1
  BY OneFault DEF NoFault, past, Fault
<1> QED
  BY <1>2, <1>3, <1>4, <1>5, <1>6

\* A message that is handled is answered once.
LEMMA BoardLoad ==
  ASSUME TypeOK, Board
  PROVE  Len(down') = Len(down) - 1 /\ Len(up') <= Len(up) + 1 /\ Len(down) > 0
<1>0. NetOK /\ board \in Sessions
  BY DEF TypeOK, CardOK
<1>1. PICK rc \in {"ok", "busy", "error", "invalid"} :
        \/ Head(down).kind # "data" /\ SayFor(Head(down), rc)
        \/ Head(down).kind = "data" /\ \E n \in Nat : Ack(Head(down), n, rc)
  BY <1>0, BoardNet
<1>2. down # <<>> /\ down' = Tail(down)
  BY <1>0, BoardNet
<1>3. PICK r : Say(r)
  BY <1>1 DEF SayFor, Ack
<1>4. up \in Seq(Replies \cup {r}) /\ r \in Replies \cup {r}
  BY <1>0, SeqMonotonic DEF NetOK
<1>5. Len(up') <= Len(up) + 1
  BY <1>3, <1>4, AppendProperties, LenProperties DEF Say
<1> QED
  BY <1>0, <1>2, <1>5, HostLengths

LEMMA StepTraffic ==
  ASSUME TypeOK, TypeOK', Waits, Traffic, [Next]_vars
  PROVE  Traffic'
<1> SUFFICES ASSUME host'.at \in Requests \cup Leaving
             PROVE  Len(down') + Len(up') + Unsent' <= faults' + host'.txn
  BY DEF Traffic, Load
<1>0. NetOK /\ host \in Hosts
  BY DEF TypeOK
<1>1. CASE Skip \/ Board \/ PageCloses \/ Forgets \/ NoteLost \/ UNCHANGED vars
  <2>1. host' = host
    BY <1>1, HostFate DEF Skip, PageCloses, Forgets, NoteLost, vars, Board, HandleBegin, HandleAbort,
       BulkRefused, BulkRepeated, BulkOpens, BulkOpenFails, FrameRefused, FrameRepeated,
       FrameStored, FlushFails, TailFails, EndRefused, EndTakes, EndFails
  <2>2. Len(down') + Len(up') <= Len(down) + Len(up)
    <3>1. CASE Skip \/ NoteLost
      <4>1. down' = down /\ up # <<>> /\ up' = Tail(up)
        BY <3>1 DEF Skip, NoteLost
      <4>2. Len(down') = Len(down) /\ Len(up') = Len(up) - 1
        BY <1>0, <4>1, HostLengths
      <4> QED
        BY <4>2, LoadTyped
    <3>2. CASE Board
      BY <3>2, LoadTyped, BoardLoad
    <3>3. CASE PageCloses \/ UNCHANGED vars
      <4>1. down' = down /\ up' = up
        BY <3>3 DEF PageCloses, vars, net
      <4> QED
        BY <4>1, LoadTyped
    <3>4. CASE Forgets
      <4>1. \/ Len(down') = Len(down) /\ Len(up') = Len(up)
            \/ Len(down') = 0 /\ Len(up') = 0
        BY <1>0, <3>4, HostLengths DEF Forgets, net
      <4> QED
        BY <4>1, LoadTyped
    <3> QED
      BY <1>1, <3>1, <3>2, <3>3, <3>4
  <2>3. Len(down) + Len(up) + Unsent <= faults + host.txn
    BY <2>1 DEF Traffic, Load
  <2> QED
    BY <2>1, <2>2, <2>3, LoadTyped, LoadKept
<1>2. CASE Send
  <2>1. /\ ~host.sent /\ host' = [host EXCEPT !.sent = TRUE] /\ host.at \in Requests
        /\ Cleared /\ (Put(Request) \/ down' = down)
    BY <1>2 DEF Send
  <2>2. Len(down') <= Len(down) + 1
    <3>1. Request \in Messages
      BY <1>0, <2>1, RequestTyped
    <3>2. CASE Put(Request)
      BY <1>0, <3>1, <3>2, HostLengths
    <3>3. CASE down' = down
      BY <3>3, LoadTyped
    <3> QED
      BY <2>1, <3>2, <3>3
  <2>3. Len(up') <= Len(up)
    BY <1>0, <2>1, HostLengths
  <2>4. host'.sent /\ host'.txn = host.txn
    BY <1>0, <2>1 DEF Hosts
  <2>5. Len(down) + Len(up) + Unsent <= faults + host.txn
    BY <2>1 DEF Traffic, Load
  <2> QED
    BY <2>1, <2>2, <2>3, <2>4, <2>5, LoadTyped, LoadKept
<1>3. CASE Ends /\ host.sent /\ ~host'.sent /\ host'.txn = host.txn
  <2>1. host.at \in Requests
    BY <1>3 DEF Waits
  <2>2. /\ Len(down') = Len(down) /\ Len(up') <= Len(up)
        /\ \/ Len(up') = Len(up) - 1 /\ Len(up) > 0
           \/ Len(down) = 0 /\ Len(up) = 0
           \/ faults' = faults + 1
    BY <1>3, EndCounts DEF Fault
  <2>3. Len(up') < Len(up) \/ Len(down) + Len(up) = 0 \/ faults' = faults + 1
    BY <2>2, LoadTyped
  <2>4. Len(down) + Len(up) + Unsent <= faults + host.txn
    BY <2>1 DEF Traffic, Load
  <2> QED
    BY <1>3, <2>2, <2>3, <2>4, LoadTyped, LoadKept
<1>4. CASE Reconnect /\ host'.txn = host.txn
  <2>1. host.at \in Requests /\ ~host.sent /\ Len(up') = 0 /\ Len(down') = Len(down)
    BY <1>0, <1>4, HostLengths DEF Reconnect, Waits
  <2>2. Len(down) + Len(up) + Unsent <= faults + host.txn
    BY <2>1 DEF Traffic, Load
  <2> QED
    BY <1>4, <2>1, <2>2, LoadTyped, LoadKept
<1>5. CASE Leave
  <2>1. host.at \in Leaving /\ ~host.sent /\ Len(up') = 0
    BY <1>0, <1>5, HostLengths DEF Leave, Waits, Leaving, Requests, Controls
  <2>2. Len(down') <= Len(down) + 1
    <3>1. CASE Put(Message("abort", host.txn, NoFile, 0))
      BY <1>0, <3>1, HostLengths, AbortTyped
    <3>2. CASE down' = down
      BY <3>2, LoadTyped
    <3> QED
      BY <1>5, <3>1, <3>2 DEF Leave
  <2>3. host'.txn = host.txn + 1
    BY <1>0, <1>5 DEF Leave, Ask, Hosts, Requests, Controls, Leaving
  <2>4. Len(down) + Len(up) + Unsent <= faults + host.txn
    BY <2>1 DEF Traffic, Load
  <2> QED
    BY <2>1, <2>2, <2>3, <2>4, LoadTyped, LoadKept
<1> QED
  BY <1>1, <1>2, <1>3, <1>4, <1>5, HostFate

-----------------------------------------------------------------------------
(* What is under way, and what was answered                                *)

LEMMA MailKept ==
  ASSUME NetOK
  PROVE  /\ down # <<>> /\ down' = Tail(down) => Mail' \subseteq Mail
         /\ \A m \in Messages : Put(m) => Mail' \subseteq Mail \cup {m}
         /\ down' = down => Mail' \subseteq Mail
         /\ down' = <<>> => Mail' \subseteq Mail
<1>0. Len(down) \in Nat
  BY Lengths
<1>1. ASSUME down # <<>>, down' = Tail(down) PROVE Mail' \subseteq Mail
  <2>1. Len(down') = Len(down) - 1 /\ \A i \in 1..Len(down') : down'[i] = down[i + 1]
    BY <1>1, HeadTailProperties DEF NetOK
  <2>2. \A i \in 1..Len(down') : i + 1 \in 1..Len(down)
    BY <1>0, <2>1
  <2> QED
    BY <2>1, <2>2 DEF Mail
<1>2. ASSUME NEW m \in Messages, Put(m) PROVE Mail' \subseteq Mail \cup {m}
  <2>1. CASE down' = down
    BY <2>1 DEF Mail
  <2>2. CASE down' = Append(down, m)
    <3>1. /\ Len(down') = Len(down) + 1
          /\ \A i \in 1..Len(down) : down'[i] = down[i]
          /\ down'[Len(down) + 1] = m
      BY <2>2, AppendProperties DEF NetOK
    <3> QED
      BY <1>0, <3>1 DEF Mail
  <2> QED
    BY <1>2, <2>1, <2>2 DEF Put
<1>3. down' = down => Mail' \subseteq Mail
  BY DEF Mail
<1>4. down' = <<>> => Mail' \subseteq Mail
  <2>1. down' = <<>> => Len(down') = 0
    BY EmptySeq
  <2> QED
    BY <2>1 DEF Mail
<1> QED
  BY <1>1, <1>2, <1>3, <1>4

LEMMA StepNoneLater ==
  ASSUME TypeOK, TypeOK', NoneLater, [Next]_vars
  PROVE  NoneLater'
<1>0. NetOK /\ host \in Hosts /\ board \in Sessions
  BY DEF TypeOK, CardOK
<1>1. host'.txn = host.txn \/ host'.txn = host.txn + 1
  BY HostFate DEF Send, Hosts, TypeOK
<1>2. \A m \in Mail' : m \in Mail \/ m.txn = host.txn
  <2>1. CASE Host \/ LinkDrops \/ NoteLost
    <3>1. CASE down' = down
      BY <1>0, <3>1, MailKept
    <3>2. CASE host.at \in Requests /\ Put(Request)
      <4>1. Request \in Messages /\ Request.txn = host.txn
        BY <1>0, <3>2, RequestTyped DEF Request, Message
      <4> QED
        BY <1>0, <3>2, <4>1, MailKept
    <3>3. CASE Put(Message("abort", host.txn, NoFile, 0))
      <4>1. /\ Message("abort", host.txn, NoFile, 0) \in Messages
            /\ Message("abort", host.txn, NoFile, 0).txn = host.txn
        BY <1>0, AbortTyped DEF Message
      <4> QED
        BY <1>0, <3>3, <4>1, MailKept
    <3> QED
      BY <2>1, <3>1, <3>2, <3>3, HostNet
  <2>2. CASE Board
    BY <1>0, <2>2, BoardNet, MailKept
  <2>3. CASE PageCloses \/ Forgets \/ UNCHANGED vars
    <3>1. down' = down \/ down' = <<>>
      BY <2>3 DEF PageCloses, Forgets, vars, net
    <3> QED
      BY <1>0, <3>1, MailKept
  <2> QED
    BY <2>1, <2>2, <2>3 DEF Next, Environment
<1>3. \A m \in Mail : m.txn \in Nat /\ m.txn <= host.txn
  BY <1>0, InMail, MessagePlace DEF NoneLater
<1>4. host.txn \in Nat
  BY LoadTyped
<1> QED
  BY <1>1, <1>2, <1>3, <1>4 DEF NoneLater

LEMMA SeenKept ==
  ASSUME [Next]_vars
  PROVE  seen \subseteq seen'
BY OneFault DEF NoFault, past, Fault

\* install_begin is never refused, and another command is called invalid only
\* when it is.
LEMMA BoardExcused ==
  ASSUME Board
  PROVE  \E r : /\ Say(r) /\ (r.kind = "begin" => r.rc = "ok")
                /\ r.kind \in Controls /\ r.rc = "invalid" => "refused" \in seen'
<1>1. ASSUME NEW rc, SayFor(Head(down), rc), Head(down).kind = "begin" => rc = "ok",
             rc = "invalid" => "refused" \in seen'
      PROVE  \E r : /\ Say(r) /\ (r.kind = "begin" => r.rc = "ok")
                    /\ r.kind \in Controls /\ r.rc = "invalid" => "refused" \in seen'
  <2> DEFINE m == Head(down)
             r == Reply(m.kind, IF m.kind = "bulk" THEN m.txn ELSE 0, m.file, 0, rc)
  <2>1. Say(r) /\ r.kind = m.kind /\ r.rc = rc
    BY <1>1 DEF SayFor, Reply
  <2> QED
    BY <1>1, <2>1
<1>2. ASSUME NEW n, NEW rc, Ack(Head(down), n, rc)
      PROVE  \E r : /\ Say(r) /\ (r.kind = "begin" => r.rc = "ok")
                    /\ r.kind \in Controls /\ r.rc = "invalid" => "refused" \in seen'
  <2> DEFINE r == Reply("data", Head(down).txn, Head(down).file, n, rc)
  <2>1. Say(r) /\ r.kind = "data"
    BY <1>2 DEF Ack, Reply
  <2> QED
    BY <2>1 DEF Controls
<1>3. CASE HandleBegin \/ HandleAbort \/ BulkRefused \/ BulkRepeated \/ BulkOpens \/ EndRefused \/ EndTakes
  <2>1. SayFor(Head(down), "ok") \/ (SayFor(Head(down), "busy") /\ Head(down).kind # "begin")
    BY <1>3 DEF HandleBegin, HandleAbort, BulkRefused, BulkRepeated, BulkOpens, EndRefused, EndTakes, Take
  <2> QED
    BY <1>1, <2>1
<1>4. CASE BulkOpenFails \/ EndFails
  <2>1. /\ Head(down).kind # "begin"
        /\ \/ SayFor(Head(down), "error")
           \/ SayFor(Head(down), "invalid") /\ "refused" \in seen'
    BY <1>4 DEF BulkOpenFails, EndFails, Take, Fault
  <2> QED
    BY <1>1, <2>1
<1>5. CASE FrameRefused \/ FrameRepeated \/ FrameStored \/ FlushFails \/ TailFails
  <2>1. \E n, rc : Ack(Head(down), n, rc)
    BY <1>5 DEF FrameRefused, FrameRepeated, FrameStored, FlushFails, TailFails, Broken
  <2> QED
    BY <1>2, <2>1
<1> QED
  BY <1>3, <1>4, <1>5 DEF Board

LEMMA StepExcused ==
  ASSUME TypeOK, Excused, [Next]_vars
  PROVE  Excused'
<1>0. NetOK
  BY DEF TypeOK
<1>1. CASE Notes' \subseteq Notes
  BY <1>1, SeenKept DEF Excused
<1>2. CASE Host \/ LinkDrops \/ NoteLost
  BY <1>0, <1>1, <1>2, HostNet, NotesHeard
<1>3. CASE Board
  <2>1. PICK r : /\ Say(r) /\ (r.kind = "begin" => r.rc = "ok")
                 /\ r.kind \in Controls /\ r.rc = "invalid" => "refused" \in seen'
    BY <1>3, BoardExcused
  <2>2. Notes' \subseteq Notes \cup {r}
    BY <1>0, <2>1, NotesSaid
  <2> QED
    BY <2>1, <2>2, SeenKept DEF Excused
<1>4. CASE PageCloses \/ UNCHANGED vars
  <2>1. up' = up /\ status' = status
    BY <1>4 DEF PageCloses, vars, net
  <2> QED
    BY <1>0, <1>1, <2>1, NotesHeard
<1>5. CASE Forgets
  <2>1. CASE UNCHANGED net
    BY <1>0, <1>1, <2>1, NotesHeard DEF net
  <2>2. CASE up' = <<>> /\ status' = Reply("none", 0, 0, 0, "ok")
    <3>1. Len(up') = 0 /\ status'.rc = "ok"
      BY <2>2, EmptySeq DEF Reply
    <3> QED
      BY <3>1 DEF Excused, Notes
  <2> QED
    BY <1>5, <2>1, <2>2 DEF Forgets
<1> QED
  BY <1>2, <1>3, <1>4, <1>5 DEF Next, Environment

-----------------------------------------------------------------------------
(* Transactions that are given up                                          *)

\* Where a step takes the host that was not there before.
LEMMA Turning ==
  ASSUME TypeOK, Waits, [Next]_vars, host' # host
  PROVE  /\ host'.at = "quit" =>
              \E r \in Notes : r.kind \in Controls /\ r.rc = "invalid"
         /\ host'.at = "failed" =>
              /\ Leave
              /\ \/ host.at = "abort" /\ host.txn > Restarts
                 \/ host.at = "quit"
                 \/ "unreachable" \in seen'
         /\ host'.txn # host.txn =>
              /\ Leave /\ host.at = "abort" /\ host.txn <= Restarts
              /\ host' = [Ask("begin") EXCEPT !.txn = host.txn + 1, !.linked = TRUE]
         /\ host'.at \in Requests => host.at \in Requests \/ Leave
         /\ host'.at = "abort" => host.at \in Requests
<1>0. /\ host \in Hosts /\ NetOK /\ host.txn \in Nat /\ Restarts \in Nat
      /\ Notes \subseteq Replies
  BY Constants, InMail DEF TypeOK, Hosts
<1>1. \A w : Ask(w).at = w
  BY <1>0 DEF Ask, Hosts
<1>2. /\ \A f : ToFile(f).at = "bulk"
      /\ [Ask("end") EXCEPT !.off = 0].at = "end"
      /\ \A n : [Ask("data") EXCEPT !.off = n, !.stalls = 0].at = "data"
  BY <1>0 DEF ToFile, Ask, Hosts
<1>3. NextFile.at \in {"bulk", "end"}
  BY <1>2, Zenon DEF NextFile
<1>4. ControlFails.at \in {host.at, "abort", "uncertain"}
  BY <1>0, <1>1 DEF ControlFails, Hosts
<1>5. WindowFails.at \in {"resume", "abort"}
  BY <1>0, <1>1 DEF WindowFails, Ask, Hosts
<1>6. AttemptFails.at \in {host.at, "resume", "abort"}
  BY <1>0, <1>5 DEF AttemptFails, Hosts
<1>7. CASE Answered
  <2>1. PICK r \in {status} \cup {up[i] : i \in 1..Len(up)} :
          /\ Awaited(r)
          /\ host' = IF r.rc = "ok" THEN Proceeds
                     ELSE Ask(IF r.rc \in {"error", "busy"} THEN "abort" ELSE "quit")
    BY <1>7 DEF Answered
  <2>2. host.at \in Controls /\ host.sent
    BY <1>7 DEF Answered, Heard
  <2>3. r \in Notes /\ r \in Replies
    BY <1>0, <2>1 DEF Notes
  <2>4. r.kind \in Controls
    BY <2>1, <2>2 DEF Awaited, Controls
  <2>5. Proceeds.at \in {"bulk", "end", "data", "done"}
    <3>1. Proceeds \in {ToFile(1), NextFile, Ask("data"), Ask("done")}
      BY <2>2 DEF Proceeds, Controls
    <3> QED
      BY <1>1, <1>2, <1>3, <3>1
  <2>6. CASE r.rc = "ok"
    BY <2>1, <2>2, <2>5, <2>6, <1>0, HostFate, NotYetSent DEF Requests
  <2>7. CASE r.rc \in {"error", "busy"}
    <3>1. host' = Ask("abort")
      BY <2>1, <2>7
    <3> QED
      BY <1>0, <1>1, <2>2, <3>1, NotYetSent DEF Requests
  <2>8. CASE r.rc = "invalid"
    <3>1. host' = Ask("quit")
      BY <2>1, <2>8
    <3> QED
      BY <1>0, <1>1, <2>2, <2>3, <2>4, <2>8, <3>1, NotYetSent DEF Requests
  <2> QED
    BY <2>3, <2>6, <2>7, <2>8 DEF Replies
<1>8. CASE Confirmed
  <2>1. /\ host.at = "data"
        /\ host' = NextFile \/ host' = [Ask("data") EXCEPT !.off = host.off + 1, !.stalls = 0]
    BY <1>8 DEF Confirmed
  <2>2. host'.at \in {"bulk", "end", "data"}
    BY <1>2, <1>3, <2>1
  <2>3. host'.txn = host.txn
    BY <1>0, <2>1, NotYetSent
  <2> QED
    BY <2>1, <2>2, <2>3 DEF Requests
<1>9. CASE ControlTimesOut \/ DataTimesOut \/ Denied
  <2>1. /\ host.at \in Requests
        /\ host' = ControlFails \/ host' = WindowFails \/ host' = AttemptFails
    BY <1>9 DEF ControlTimesOut, DataTimesOut, Denied, Requests
  <2>2. host'.at \in {host.at, "resume", "abort", "uncertain"}
    BY <1>4, <1>5, <1>6, <2>1
  <2>3. host'.txn = host.txn
    BY <1>0, <2>1, NotYetSent
  <2> QED
    BY <2>1, <2>2, <2>3 DEF Requests, Controls
<1>10. CASE LinkDrops
  <2>1. /\ host.at \in Requests
        /\ host' = WindowFails \/ host' = ControlFails
    BY <1>10 DEF LinkDrops, Waits
  <2>2. host'.at \in {host.at, "resume", "abort", "uncertain"}
    BY <1>4, <1>5, <2>1
  <2>3. host'.txn = host.txn
    BY <1>0, <2>1, NotYetSent
  <2> QED
    BY <2>1, <2>2, <2>3 DEF Requests, Controls
<1>11. CASE Send \/ Reconnect
  <2>1. /\ host.at \in Requests
        /\ \/ host' = [host EXCEPT !.sent = TRUE] \/ host' = [host EXCEPT !.linked = TRUE]
           \/ host' = [Ask("abort") EXCEPT !.linked = TRUE]
    BY <1>11 DEF Send, Reconnect
  <2>2. host'.at \in {host.at, "abort"} /\ host'.txn = host.txn
    BY <1>0, <2>1 DEF Ask, Hosts
  <2> QED
    BY <2>1, <2>2 DEF Requests, Controls
<1>12. CASE Leave
  <2>1. \/ /\ host.at = "abort" /\ host.txn <= Restarts
           /\ host' = [Ask("begin") EXCEPT !.txn = host.txn + 1, !.linked = TRUE]
        \/ host' = Ask("failed") /\ host.at = "quit"
        \/ host' = Ask("failed") /\ host.at = "abort" /\ ~(host.txn <= Restarts)
        \/ host' = Ask("failed") /\ "unreachable" \in seen'
    BY <1>12 DEF Leave, Fault, Leaving
  <2>2. [Ask("begin") EXCEPT !.txn = host.txn + 1, !.linked = TRUE].at = "begin"
    BY <1>0 DEF Ask, Hosts
  <2>3. Ask("failed").at = "failed" /\ Ask("failed").txn = host.txn
    BY <1>0, <1>1, NotYetSent
  <2>4. CASE host' = Ask("failed")
    <3>1. host'.at = "failed" /\ host'.txn = host.txn
      BY <2>3, <2>4
    <3>2. \/ host.at = "abort" /\ host.txn > Restarts
          \/ host.at = "quit"
          \/ "unreachable" \in seen'
          \/ host' = [Ask("begin") EXCEPT !.txn = host.txn + 1, !.linked = TRUE]
      BY <1>0, <2>1
    <3> QED
      BY <1>12, <2>2, <3>1, <3>2 DEF Requests, Controls
  <2>5. CASE host' = [Ask("begin") EXCEPT !.txn = host.txn + 1, !.linked = TRUE]
    BY <1>0, <1>12, <2>1, <2>2, <2>3, <2>5 DEF Requests, Controls
  <2> QED
    BY <2>1, <2>4, <2>5
<1> QED
  BY <1>7, <1>8, <1>9, <1>10, <1>11, <1>12, HostFate DEF Ends

LEMMA StepPaid ==
  ASSUME TypeOK, TypeOK', Waits, Excused, Paid, [Next]_vars,
         faults' = faults /\ Clean => host'.at # "abort"
  PROVE  Paid'
<1>0. /\ seen \subseteq seen' /\ Restarts \in Nat
      /\ host.txn \in Nat /\ host'.txn \in Nat /\ faults \in Nat /\ faults' \in Nat
      /\ faults' = faults \/ faults' = faults + 1
      /\ host'.txn = host.txn \/ host'.txn = host.txn + 1
  BY Constants, SeenKept, LoadTyped, HostFate DEF Send, Hosts, TypeOK
<1>1. CASE host' = host
  BY <1>0, <1>1 DEF Paid, Survives
<1>2. CASE host' # host
  <2>1. host'.txn <= faults' + 1
    BY <1>0, <1>2, Turning DEF Paid
  <2>2. host'.at = "abort" => host'.txn <= faults'
    <3>1. ASSUME host'.at = "abort" PROVE host.at \in Requests /\ host'.txn = host.txn
      BY <1>0, <1>2, <3>1, Turning DEF Requests, Controls
    <3>2. host.at \in Requests /\ ~Clean => host.txn <= faults
      BY <1>0 DEF Clean
    <3> QED
      BY <1>0, <3>1, <3>2 DEF Paid
  <2>3. host'.at = "quit" => "refused" \in seen'
    BY <1>0, <1>2, Turning DEF Excused
  <2>4. Survives'
    BY <1>0, <1>2, Turning DEF Paid, Survives
  <2> QED
    BY <2>1, <2>2, <2>3, <2>4 DEF Paid
<1> QED
  BY <1>1, <1>2

\* A transaction in which there was a fault, or that is over, stays such; the
\* host starts the next one.
LEMMA NextTransaction ==
  ASSUME TypeOK, TypeOK', Waits, Paid, [Next]_vars, faults' # faults \/ ~Clean, Clean'
  PROVE  /\ Leave /\ host.at = "abort" /\ host.txn <= Restarts
         /\ host' = [Ask("begin") EXCEPT !.txn = host.txn + 1, !.linked = TRUE]
         /\ faults' = faults /\ faults = host.txn
<1>0. /\ host.txn \in Nat /\ host'.txn \in Nat /\ faults \in Nat /\ faults' \in Nat
      /\ faults' = faults \/ faults' = faults + 1
      /\ host \in Hosts
  BY LoadTyped DEF TypeOK
<1>1. host'.txn # host.txn
  <2>1. SUFFICES ASSUME host'.txn = host.txn PROVE FALSE
    OBVIOUS
  <2>2. faults' = faults /\ host.at \notin Requests /\ host'.at \in Requests
    BY <1>0, <2>1 DEF Clean, Paid
  <2>3. host' # host /\ Leave
    BY <2>2, Turning
  <2>4. host' = Ask("failed") \/ host'.txn = host.txn + 1
    BY <1>0, <2>3 DEF Leave, Ask, Hosts
  <2>5. Ask("failed").at = "failed"
    BY <1>0 DEF Ask, Hosts
  <2> QED
    BY <1>0, <2>1, <2>2, <2>4, <2>5 DEF Requests, Controls
<1>2. /\ Leave /\ host.at = "abort" /\ host.txn <= Restarts
      /\ host' = [Ask("begin") EXCEPT !.txn = host.txn + 1, !.linked = TRUE]
  BY <1>1, Turning
<1>3. host'.txn = host.txn + 1
  BY <1>0, <1>2 DEF Ask, Hosts
<1>4. host.txn <= faults /\ faults' < host'.txn
  BY <1>2 DEF Paid, Clean
<1> QED
  BY <1>0, <1>2, <1>3, <1>4

-----------------------------------------------------------------------------
(* A transaction without a fault: what the two programs find                *)

\* The sequences after a step, entry by entry.
LEMMA Entries ==
  ASSUME NetOK
  PROVE  /\ down # <<>> /\ down' = Tail(down) =>
              /\ Len(down) >= 1 /\ Head(down) = down[1] /\ Len(down') = Len(down) - 1
              /\ \A i \in 1..Len(down') : down'[i] = down[i + 1]
         /\ \A m \in Messages : Len(down) < Mailbox /\ Put(m) =>
              /\ Len(down') = Len(down) + 1 /\ down'[Len(down) + 1] = m
              /\ \A i \in 1..Len(down) : down'[i] = down[i]
         /\ up # <<>> /\ up' = Tail(up) =>
              /\ Len(up) >= 1 /\ Head(up) = up[1] /\ Len(up') = Len(up) - 1
              /\ \A i \in 1..Len(up') : up'[i] = up[i + 1]
         /\ Cleared => \E n \in 0..Len(up) :
              Len(up') = Len(up) - n /\ \A i \in 1..Len(up') : up'[i] = up[i + n]
         /\ \A r : Say(r) =>
              /\ status' = r /\ \A i \in 1..Len(up) : up'[i] = up[i]
              /\ \/ Len(up') = Len(up) /\ Len(up) >= Pool
                 \/ Len(up') = Len(up) + 1 /\ up'[Len(up) + 1] = r
<1>0. Len(down) \in Nat /\ Len(up) \in Nat
  BY Lengths
<1>1. down # <<>> /\ down' = Tail(down) =>
              /\ Len(down) >= 1 /\ Head(down) = down[1] /\ Len(down') = Len(down) - 1
              /\ \A i \in 1..Len(down') : down'[i] = down[i + 1]
  BY <1>0, HeadTailProperties, EmptySeq DEF NetOK
<1>2. ASSUME NEW m \in Messages, Len(down) < Mailbox, Put(m)
      PROVE  /\ Len(down') = Len(down) + 1 /\ down'[Len(down) + 1] = m
             /\ \A i \in 1..Len(down) : down'[i] = down[i]
  BY <1>2, AppendProperties DEF Put, NetOK
<1>3. up # <<>> /\ up' = Tail(up) =>
              /\ Len(up) >= 1 /\ Head(up) = up[1] /\ Len(up') = Len(up) - 1
              /\ \A i \in 1..Len(up') : up'[i] = up[i + 1]
  BY <1>0, HeadTailProperties, EmptySeq DEF NetOK
<1>4. ASSUME Cleared
      PROVE  \E n \in 0..Len(up) :
               Len(up') = Len(up) - n /\ \A i \in 1..Len(up') : up'[i] = up[i + n]
  <2>1. PICK n \in 0..Len(up) : up' = SubSeq(up, n + 1, Len(up))
    BY <1>4 DEF Cleared
  <2>2. \A i \in (n + 1)..Len(up) : up[i] \in Replies
    BY Lengths
  <2>3. /\ Len(up') = IF n + 1 <= Len(up) THEN Len(up) - (n + 1) + 1 ELSE 0
        /\ \A i \in 1..Len(up) - (n + 1) + 1 : up'[i] = up[n + 1 + i - 1]
    BY <1>0, <2>1, <2>2, SubSeqProperties
  <2>4. Len(up') = Len(up) - n
    BY <1>0, <2>3
  <2>5. \A i \in 1..Len(up') : up'[i] = up[i + n]
    <3> SUFFICES ASSUME NEW i \in 1..Len(up') PROVE up'[i] = up[i + n]
      OBVIOUS
    <3>1. i \in 1..Len(up) - (n + 1) + 1 /\ n + 1 + i - 1 = i + n
      BY <1>0, <2>4
    <3> QED
      BY <2>3, <3>1
  <2> QED
    BY <2>4, <2>5
<1>5. ASSUME NEW r, Say(r)
      PROVE  /\ status' = r /\ \A i \in 1..Len(up) : up'[i] = up[i]
             /\ \/ Len(up') = Len(up) /\ Len(up) >= Pool
                \/ Len(up') = Len(up) + 1 /\ up'[Len(up) + 1] = r
  <2>1. up \in Seq(Replies \cup {r}) /\ r \in Replies \cup {r}
    BY SeqMonotonic DEF NetOK
  <2>2. /\ Len(Append(up, r)) = Len(up) + 1 /\ Append(up, r)[Len(up) + 1] = r
        /\ \A i \in 1..Len(up) : Append(up, r)[i] = up[i]
    BY <2>1, AppendProperties
  <2> QED
    BY <1>0, <1>5, <2>2, Constants DEF Say
<1> QED
  BY <1>1, <1>2, <1>3, <1>4, <1>5

\* The abort ends the transaction that is given up, and all that came before.
LEMMA LeaveOpens ==
  ASSUME Roomy, TypeOK, TypeOK', Waits, Traffic, NoneLater, Paid, [Next]_vars,
         faults' # faults \/ ~Clean, Clean'
  PROVE  OpensFirst'
<1>1. /\ Leave /\ host.at = "abort" /\ host.txn <= Restarts
      /\ host' = [Ask("begin") EXCEPT !.txn = host.txn + 1, !.linked = TRUE]
      /\ faults' = faults /\ faults = host.txn
  BY NextTransaction
<1>2. /\ host \in Hosts /\ NetOK /\ host.txn \in Nat /\ Restarts \in Nat /\ Mailbox \in Nat
      /\ Len(down) \in Nat /\ Len(up) \in Nat
  BY LoadTyped, Constants DEF TypeOK
<1>3. ~host.sent
  BY <1>1 DEF Waits, Requests, Controls
<1>4. Len(down) < Mailbox
  <2>1. Len(down) + Len(up) + 1 <= faults + host.txn
    BY <1>1, <1>3 DEF Traffic, Load, Unsent, Leaving
  <2> QED
    BY <1>1, <1>2, <2>1 DEF Roomy
<1> DEFINE a == Message("abort", host.txn, NoFile, 0)
<1>5. host'.at = "begin" /\ host'.tries = 0 /\ ~host'.sent /\ host'.txn = host.txn + 1
  BY <1>1, <1>2 DEF Ask, Hosts
<1>6. Put(a) /\ up' = <<>>
  <2>1. \A kind : ~Fault(kind)
    BY <1>1, InTime, <1>2
  <2> QED
    BY <1>1, <2>1 DEF Leave
<1>7. a \in Messages /\ a.kind = "abort" /\ a.txn = host.txn
  BY <1>2, AbortTyped DEF Message
<1> HIDE DEF a
<1>8. /\ Len(down') = Len(down) + 1 /\ down'[Len(down) + 1] = a
      /\ \A i \in 1..Len(down) : down'[i] = down[i]
  BY <1>2, <1>4, <1>6, <1>7, Entries
<1>9. \A i \in 1..Len(down') : down'[i].txn < host'.txn
  <2> SUFFICES ASSUME NEW i \in 1..Len(down') PROVE down'[i].txn < host.txn + 1
    BY <1>5
  <2>1. i = Len(down) + 1 \/ i \in 1..Len(down)
    BY <1>2, <1>8
  <2>2. CASE i = Len(down) + 1
    BY <1>2, <1>7, <1>8, <2>2
  <2>3. CASE i \in 1..Len(down)
    <3>1. down[i] \in Mail /\ down[i] \in Messages
      BY <1>2, <2>3, Lengths DEF Mail
    <3>2. down[i].txn \in Nat
      BY <3>1, MessagePlace
    <3>3. down[i].txn <= host.txn
      BY <3>1 DEF NoneLater
    <3>4. down[i].txn < host.txn + 1
      BY <1>2, <3>2, <3>3
    <3> QED
      BY <1>8, <2>3, <3>4
  <2> QED
    BY <2>1, <2>2, <2>3
<1>10. Leftover(Len(down))'
  BY <1>2, <1>7, <1>8, <1>9 DEF Leftover
<1>11. NoBulkIn(Len(up))'
  <2>1. Len(up') = 0
    BY <1>6, EmptySeq
  <2> QED
    BY <2>1 DEF NoBulkIn
<1> QED
  BY <1>5, <1>10, <1>11 DEF OpensFirst

-----------------------------------------------------------------------------
(* A transaction without a fault: the board                                *)

\* Without a fault the kind of the message decides the handler.
LEMMA WhichHandler ==
  ASSUME TypeOK, Board, faults' = faults
  PROVE  /\ host' = host /\ down # <<>> /\ down' = Tail(down) /\ Head(down) = down[1]
         /\ down[1].kind = "abort" => HandleAbort
         /\ down[1].kind = "begin" => HandleBegin
         /\ down[1].kind = "bulk" => BulkRefused \/ BulkRepeated \/ BulkOpens
         /\ down[1].kind = "data" =>
              FrameRefused \/ FrameRepeated \/ FrameStored \/ FlushFails \/ TailFails
         /\ down[1].kind = "end" => EndRefused \/ EndTakes
<1>0. NetOK /\ board \in Sessions
  BY DEF TypeOK, CardOK
<1>1. down # <<>> /\ down' = Tail(down) /\ Head(down) = down[1]
  BY <1>0, BoardNet, Entries
<1>2. \A kind : ~Fault(kind)
  BY <1>0, InTime
<1>3. ~BulkOpenFails /\ ~EndFails
  BY <1>2 DEF BulkOpenFails, EndFails
<1>4. host' = host
  BY DEF Board, HandleBegin, HandleAbort, BulkRefused, BulkRepeated, BulkOpens, BulkOpenFails,
     FrameRefused, FrameRepeated, FrameStored, FlushFails, TailFails, EndRefused, EndTakes, EndFails
<1>5. /\ HandleAbort => down[1].kind = "abort"
      /\ HandleBegin => down[1].kind = "begin"
      /\ BulkRefused \/ BulkRepeated \/ BulkOpens => down[1].kind = "bulk"
      /\ FrameRefused \/ FrameRepeated \/ FrameStored \/ FlushFails \/ TailFails => down[1].kind = "data"
      /\ EndRefused \/ EndTakes => down[1].kind = "end"
  BY <1>1 DEF HandleBegin, HandleAbort, BulkRefused, BulkRepeated, BulkOpens, Take,
     FrameRefused, FrameRepeated, FrameStored, FlushFails, TailFails, EndRefused, EndTakes
<1> QED
  BY <1>1, <1>3, <1>4, <1>5 DEF Board

\* An answer carries the kind of the message, and the identifier of an
\* announcement.
LEMMA BoardSays ==
  ASSUME TypeOK, Board
  PROVE  \E r : /\ Say(r) /\ r.kind = Head(down).kind
                /\ r.kind = "bulk" => r.txn = Head(down).txn
<1>0. NetOK /\ board \in Sessions
  BY DEF TypeOK, CardOK
<1>1. PICK rc \in {"ok", "busy", "error", "invalid"} :
        \/ Head(down).kind # "data" /\ SayFor(Head(down), rc)
        \/ Head(down).kind = "data" /\ \E n \in Nat : Ack(Head(down), n, rc)
  BY <1>0, BoardNet
<1>2. CASE Head(down).kind # "data" /\ SayFor(Head(down), rc)
  <2> DEFINE m == Head(down)
             r == Reply(m.kind, IF m.kind = "bulk" THEN m.txn ELSE 0, m.file, 0, rc)
  <2>1. Say(r) /\ r.kind = m.kind /\ (r.kind = "bulk" => r.txn = m.txn)
    BY <1>2 DEF SayFor, Reply
  <2> QED
    BY <2>1
<1>3. CASE Head(down).kind = "data" /\ \E n \in Nat : Ack(Head(down), n, rc)
  <2>1. PICK n \in Nat : Ack(Head(down), n, rc)
    BY <1>3
  <2> DEFINE r == Reply("data", Head(down).txn, Head(down).file, n, rc)
  <2>2. Say(r) /\ r.kind = "data"
    BY <2>1 DEF Ack, Reply
  <2> QED
    BY <1>3, <2>2
<1> QED
  BY <1>1, <1>2, <1>3

LEMMA NoBulkSaid ==
  ASSUME NetOK, host' = host, NEW r, Say(r), ~(r.kind = "bulk" /\ r.txn = host.txn),
         NoBulkIn(Len(up))
  PROVE  NoBulkIn(Len(up))'
<1>1. /\ Len(up) \in Nat
      /\ Len(up') = Len(up) \/ (Len(up') = Len(up) + 1 /\ up'[Len(up) + 1] = r)
      /\ \A i \in 1..Len(up) : up'[i] = up[i]
  BY Entries, Lengths
<1> SUFFICES ASSUME NEW i \in 1..Len(up') PROVE ~(up'[i].kind = "bulk" /\ up'[i].txn = host.txn)
  BY DEF NoBulkIn
<1>2. i \in 1..Len(up) \/ (i = Len(up) + 1 /\ up'[i] = r)
  BY <1>1
<1> QED
  BY <1>1, <1>2 DEF NoBulkIn

\* The messages of earlier transactions are used up; the last of them leaves the
\* board without a session.
LEMMA LeftoverHandled ==
  ASSUME TypeOK, Board, faults' = faults, NEW k \in Nat \ {0}, Leftover(k), NoBulkIn(Len(up))
  PROVE  /\ Len(down') = Len(down) - 1 /\ Leftover(k - 1)' /\ NoBulkIn(Len(up))'
         /\ \A i \in 1..Len(down') : down'[i] = down[i + 1]
<1>0. NetOK /\ host \in Hosts /\ Len(down) \in Nat
  BY LenProperties DEF TypeOK, NetOK
<1>1. /\ host' = host /\ Head(down) = down[1] /\ Len(down') = Len(down) - 1 /\ Len(down) >= 1
      /\ \A i \in 1..Len(down') : down'[i] = down[i + 1]
  BY <1>0, WhichHandler, Entries
<1>2. k \in 1..Len(down) /\ down[1].txn < host.txn /\ down[k].kind = "abort"
  BY <1>0, <1>1 DEF Leftover
<1>3. NoBulkIn(Len(up))'
  <2>1. PICK r : Say(r) /\ r.kind = Head(down).kind /\ (r.kind = "bulk" => r.txn = Head(down).txn)
    BY BoardSays
  <2>2. down[1].txn # host.txn
    <3>1. down[1].txn \in Nat /\ host.txn \in Nat
      <4>1. down[1] \in Messages
        BY <1>0, <1>1, Lengths
      <4> QED
        BY <1>0, <4>1, MessagePlace, Constants DEF Hosts
    <3> QED
      BY <1>2, <3>1
  <2> QED
    BY <1>0, <1>1, <2>1, <2>2, NoBulkSaid
<1>4. Leftover(k - 1)'
  <2>1. k - 1 \in 0..Len(down')
    BY <1>0, <1>1, <1>2
  <2>2. \A i \in 1..(k - 1) : down'[i].txn < host'.txn
    <3> SUFFICES ASSUME NEW i \in 1..(k - 1) PROVE down'[i].txn < host.txn
      BY <1>1
    <3>1. i \in 1..Len(down') /\ i + 1 \in 1..k
      BY <1>0, <1>1, <1>2
    <3> QED
      BY <1>1, <3>1 DEF Leftover
  <2>3. k - 1 = 0 => ~board'.active
    <3>1. k - 1 = 0 => HandleAbort
      BY <1>2, WhichHandler
    <3> QED
      BY <3>1 DEF HandleAbort, Idle
  <2>4. k - 1 # 0 => down'[k - 1] = down[k]
    <3>1. k - 1 # 0 => k - 1 \in 1..Len(down') /\ (k - 1) + 1 = k
      BY <1>0, <1>1, <1>2
    <3> QED
      BY <1>1, <3>1
  <2> QED
    BY <1>2, <2>1, <2>2, <2>3, <2>4 DEF Leftover
<1> QED
  BY <1>1, <1>3, <1>4

\* The handlers of a request that fits; each says ok.
LEMMA BeginHandled ==
  ASSUME TypeOK, Board, faults' = faults, down[1].kind = "begin", ~board.active
  PROVE  Blank' /\ \E r : Say(r) /\ r.kind = "begin" /\ r.rc = "ok"
<1>1. HandleBegin /\ Head(down) = down[1]
  BY WhichHandler
<1>2. Blank'
  BY <1>1 DEF HandleBegin, Blank, Idle
<1> DEFINE m == Head(down)
           r == Reply(m.kind, IF m.kind = "bulk" THEN m.txn ELSE 0, m.file, 0, "ok")
<1>3. Say(r) /\ r.kind = "begin" /\ r.rc = "ok"
  BY <1>1 DEF HandleBegin, SayFor, Reply
<1> QED
  BY <1>2, <1>3

LEMMA BulkHandled ==
  ASSUME TypeOK, Counted, Board, faults' = faults, host.at = "bulk", down[1] = Request,
         FileDone \/ Serving(0)
  PROVE  BulkDone' /\ \E r : Say(r) /\ r.kind = "bulk" /\ r.txn = host.txn /\ r.file = host.file /\ r.rc = "ok"
<1> DEFINE m == Head(down)
<1>1. m.kind = "bulk" /\ m.txn = host.txn /\ m.file = host.file
  BY WhichHandler DEF Request, Message
<1>2. host' = host /\ (BulkRefused \/ BulkRepeated \/ BulkOpens)
  BY <1>1, WhichHandler
<1>3. host.file \in Files /\ Sizes[host.file] \in Nat
  BY Constants DEF TypeOK, Hosts
<1> HIDE DEF m
<1>4. ~BulkRefused
  BY <1>1 DEF BulkRefused, FileDone, Serving, SameTransfer, Incomplete, m
<1>5. SayFor(m, "ok")
  BY <1>2, <1>4 DEF BulkRepeated, BulkOpens, m
<1>6. \E r : Say(r) /\ r.kind = "bulk" /\ r.txn = host.txn /\ r.file = host.file /\ r.rc = "ok"
  <2> DEFINE r == Reply(m.kind, IF m.kind = "bulk" THEN m.txn ELSE 0, m.file, 0, "ok")
  <2>1. Say(r) /\ r.kind = "bulk" /\ r.txn = host.txn /\ r.file = host.file /\ r.rc = "ok"
    BY <1>1, <1>5 DEF SayFor, Reply
  <2> QED
    BY <2>1
<1>7. BulkDone'
  <2>1. CASE BulkRepeated
    <3>1. board' = board /\ SameTransfer(m) /\ board.session
      BY <2>1 DEF BulkRepeated, card, m
    <3>2. ~FileDone
      BY <1>1, <1>3, <3>1, Constants DEF FileDone, Incomplete, SameTransfer, Counted, AtEnd
    <3>3. Serving(0) /\ Sizes[host.file] # 0
      BY <1>3, <3>2 DEF Serving
    <3> QED
      BY <1>2, <3>1, <3>3 DEF BulkDone, Serving, Incomplete
  <2>2. CASE BulkOpens
    <3>1. board' = Opened(m)
      BY <2>2 DEF BulkOpens, m
    <3>2. /\ board'.session /\ board'.active /\ board'.txn = host.txn /\ board'.file = host.file
          /\ board'.got = 0 /\ (board'.complete <=> Sizes[host.file] = 0)
          /\ Sizes[host.file] # 0 => board'.path = host.file
      BY <1>1, <3>1 DEF Opened
    <3>3. CASE Sizes[host.file] = 0
      BY <1>2, <3>2, <3>3 DEF BulkDone, FileDone, Incomplete
    <3>4. CASE Sizes[host.file] # 0
      BY <1>2, <1>3, <3>2, <3>4 DEF BulkDone, Serving, Incomplete
    <3> QED
      BY <3>3, <3>4
  <2> QED
    BY <1>2, <1>4, <2>1, <2>2
<1> QED
  BY <1>6, <1>7

LEMMA DataHandled ==
  ASSUME TypeOK, Board, faults' = faults, host.at = "data", down[1] = Request,
         Serving(host.off)
  PROVE  /\ DoneFor'
         /\ \E r : /\ Say(r) /\ r.kind = "data" /\ r.txn = host.txn /\ r.file = host.file
                   /\ r.rc = "ok" /\ r.off = host.off + 1
<1> DEFINE m == Head(down)
<1>1. m.kind = "data" /\ m.txn = host.txn /\ m.file = host.file /\ m.off = host.off
  BY WhichHandler DEF Request, Message
<1>2. host' = host /\ (FrameRefused \/ FrameRepeated \/ FrameStored \/ FlushFails \/ TailFails)
  BY <1>1, WhichHandler
<1>3. /\ host.file \in Files /\ Sizes[host.file] \in Nat /\ host.off \in Nat /\ host.file # NoFile
      /\ NetOK /\ board \in Sessions
  BY Constants DEF TypeOK, Hosts, CardOK
<1>4. \A kind : ~Fault(kind)
  BY <1>3, InTime
<1> HIDE DEF m
<1>5. Mine(m) /\ ~Repeated(m) /\ Expected(m) /\ board.path # NoFile
  BY <1>1, <1>3 DEF Serving, Mine, Repeated, Expected, Incomplete
<1>6. ~FrameRefused /\ ~FrameRepeated /\ ~FlushFails /\ ~TailFails
  BY <1>4, <1>5 DEF FrameRefused, FrameRepeated, FlushFails, TailFails, m
<1>7. /\ Ack(m, board.got + 1, "ok")
      /\ board' = [board EXCEPT !.got = board.got + 1, !.complete = Last(m),
                                !.path = IF Last(m) THEN NoFile ELSE board.path]
  BY <1>2, <1>6 DEF FrameStored, m
<1>8. \E r : /\ Say(r) /\ r.kind = "data" /\ r.txn = host.txn /\ r.file = host.file
             /\ r.rc = "ok" /\ r.off = host.off + 1
  <2> DEFINE r == Reply("data", m.txn, m.file, board.got + 1, "ok")
  <2>1. /\ Say(r) /\ r.kind = "data" /\ r.txn = host.txn /\ r.file = host.file
        /\ r.rc = "ok" /\ r.off = host.off + 1
    BY <1>1, <1>7 DEF Ack, Reply, Serving
  <2> QED
    BY <2>1
<1>9. /\ board'.session /\ board'.active /\ board'.txn = host.txn /\ board'.file = host.file
      /\ board'.got = host.off + 1 /\ (board'.complete <=> host.off + 1 = Sizes[host.file])
      /\ host.off + 1 # Sizes[host.file] => board'.path = host.file
      /\ host.off < Sizes[host.file]
  BY <1>3, <1>7 DEF Serving, Incomplete, Sessions, Last
<1>10. DoneFor'
  <2>1. CASE host.off + 1 < Sizes[host.file]
    BY <1>2, <1>3, <1>9, <2>1 DEF DoneFor, Serving, Incomplete
  <2>2. CASE ~(host.off + 1 < Sizes[host.file])
    <3>1. board'.complete
      BY <1>3, <1>9, <2>2
    <3> QED
      BY <1>2, <1>9, <2>2, <3>1 DEF DoneFor, FileDone, Incomplete
  <2> QED
    BY <2>1, <2>2
<1> QED
  BY <1>8, <1>10

LEMMA EndHandled ==
  ASSUME TypeOK, Board, faults' = faults, host.at = "end", down[1] = Request, FileDone
  PROVE  \E r : Say(r) /\ r.kind = "end" /\ r.rc = "ok"
<1> DEFINE m == Head(down)
<1>1. m.kind = "end"
  BY WhichHandler DEF Request, Message
<1>2. EndRefused \/ EndTakes
  BY <1>1, WhichHandler
<1>3. EndTakes
  BY <1>2 DEF EndRefused, FileDone
<1> DEFINE r == Reply(m.kind, IF m.kind = "bulk" THEN m.txn ELSE 0, m.file, 0, "ok")
<1>4. Say(r) /\ r.kind = "end" /\ r.rc = "ok"
  BY <1>1, <1>3 DEF EndTakes, SayFor, Reply
<1> QED
  BY <1>4

\* What the board does while the transaction begins.
LEMMA BeginningHandled ==
  ASSUME TypeOK, Board, faults' = faults, NoBulkIn(Len(up)), NEW k \in Nat, Leftover(k),
         k < Len(down), down[k + 1] = BeginNow
  PROVE  /\ host' = host /\ Len(down') = Len(down) - 1 /\ NoBulkIn(Len(up))'
         /\ \A i \in 1..Len(down') : down'[i] = down[i + 1]
         /\ k > 0 => Leftover(k - 1)' /\ down'[k] = BeginNow
         /\ k = 0 => Blank'
<1>0. NetOK /\ Len(down) \in Nat /\ Len(down) >= 1
  BY LenProperties DEF TypeOK, NetOK
<1>1. /\ host' = host /\ Len(down') = Len(down) - 1
      /\ \A i \in 1..Len(down') : down'[i] = down[i + 1]
  BY <1>0, WhichHandler, Entries
<1>2. CASE k > 0
  <2>1. Leftover(k - 1)' /\ NoBulkIn(Len(up))'
    BY <1>2, LeftoverHandled
  <2>2. down'[k] = BeginNow /\ k # 0
    BY <1>0, <1>1, <1>2
  <2> QED
    BY <1>1, <2>1, <2>2, Zenon
<1>3. CASE k = 0
  <2>1. ~board.active /\ down[1].kind = "begin"
    BY <1>3 DEF Leftover, BeginNow, Message
  <2>2. Blank' /\ \E r : Say(r) /\ r.kind = "begin" /\ r.rc = "ok"
    BY <2>1, BeginHandled
  <2>3. NoBulkIn(Len(up))'
    BY <1>0, <1>1, <2>2, NoBulkSaid
  <2> QED
    BY <1>1, <1>3, <2>2, <2>3
<1> QED
  BY <1>2, <1>3

LEMMA OpensFirstHandled ==
  ASSUME TypeOK, Board, faults' = faults, OpensFirst
  PROVE  OpensFirst'
<1>0. /\ NetOK /\ host' = host /\ Len(down) \in Nat /\ Len(down) >= 1
      /\ Len(down') = Len(down) - 1
  BY LenProperties, WhichHandler, Entries DEF TypeOK, NetOK
<1>1. host.at = "begin" /\ host.tries = 0 /\ NoBulkIn(Len(up)) /\ BeginNow' = BeginNow
  BY <1>0 DEF OpensFirst, BeginNow
<1>2. CASE ~host.sent /\ Leftover(Len(down))
  <2>1. PICK k \in Nat \ {0} : k = Len(down)
    BY <1>0
  <2>2. Leftover(k - 1)' /\ NoBulkIn(Len(up))'
    BY <1>1, <1>2, <2>1, LeftoverHandled
  <2>3. Leftover(Len(down))'
    BY <1>0, <2>1, <2>2 DEF Leftover
  <2> QED
    BY <1>0, <1>1, <1>2, <2>2, <2>3 DEF OpensFirst
<1>3. CASE host.sent /\ Leftover(Len(down) - 1) /\ down[Len(down)] = BeginNow
  <2>1. PICK k \in Nat : k = Len(down) - 1
    BY <1>0
  <2>2. k < Len(down) /\ k + 1 = Len(down) /\ Len(down') = k
    BY <1>0, <2>1
  <2>3. /\ NoBulkIn(Len(up))'
        /\ k = 0 => Blank'
        /\ k > 0 => Leftover(k - 1)' /\ down'[k] = BeginNow
    BY <1>1, <1>3, <2>1, <2>2, BeginningHandled
  <2>4. CASE k = 0
    BY <1>0, <1>1, <1>3, <2>2, <2>3, <2>4 DEF OpensFirst
  <2>5. CASE k > 0
    <3>1. Leftover(Len(down) - 1)' /\ down'[Len(down')] = BeginNow'
      BY <1>1, <2>2, <2>3, <2>5 DEF Leftover
    <3> QED
      BY <1>0, <1>1, <1>3, <2>3, <3>1 DEF OpensFirst
  <2> QED
    BY <2>1, <2>4, <2>5
<1> QED
  BY <1>0, <1>2, <1>3 DEF OpensFirst

LEMMA AnnouncingHandled ==
  ASSUME TypeOK, Counted, Board, faults' = faults, host.at = "bulk", host.off = 0, Announcing
  PROVE  Announcing' \/ FirstTold'
<1>0. /\ NetOK /\ host' = host /\ Len(down) \in Nat /\ Len(down) >= 1
      /\ Len(down') = Len(down) - 1 /\ Len(up) \in Nat
  BY LenProperties, WhichHandler, Entries DEF TypeOK, NetOK
<1>1. NoBulkIn(Len(up)) /\ BeginNow' = BeginNow /\ Request' = Request
  BY <1>0 DEF Announcing, BeginNow, Request
<1>2. CASE ~host.sent /\ Leftover(Len(down) - 1) /\ down[Len(down)] = BeginNow
  <2>1. PICK k \in Nat : k = Len(down) - 1
    BY <1>0
  <2>2. k < Len(down) /\ k + 1 = Len(down) /\ Len(down') = k
    BY <1>0, <2>1
  <2>3. /\ NoBulkIn(Len(up))'
        /\ k = 0 => Blank'
        /\ k > 0 => Leftover(k - 1)' /\ down'[k] = BeginNow
    BY <1>1, <1>2, <2>1, <2>2, BeginningHandled
  <2>4. CASE k = 0
    BY <1>0, <1>2, <2>2, <2>3, <2>4 DEF Announcing
  <2>5. CASE k > 0
    <3>1. Leftover(Len(down) - 1)' /\ down'[Len(down')] = BeginNow'
      BY <1>1, <2>2, <2>3, <2>5 DEF Leftover
    <3> QED
      BY <1>0, <1>2, <2>3, <3>1 DEF Announcing
  <2> QED
    BY <2>1, <2>4, <2>5
<1>3. CASE /\ host.sent /\ Leftover(Len(down) - 2)
           /\ down[Len(down) - 1] = BeginNow /\ down[Len(down)] = Request
  <2>0. Len(down) - 2 >= 0
    BY <1>0, <1>3 DEF Leftover
  <2>1. PICK k \in Nat : k = Len(down) - 2
    BY <1>0, <2>0
  <2>2. k < Len(down) /\ k + 1 = Len(down) - 1 /\ Len(down') = k + 1 /\ k + 2 = Len(down)
    BY <1>0, <2>1
  <2>3. /\ NoBulkIn(Len(up))'
        /\ k = 0 => Blank'
        /\ k > 0 => Leftover(k - 1)' /\ down'[k] = BeginNow
        /\ \A i \in 1..Len(down') : down'[i] = down[i + 1]
    BY <1>1, <1>3, <2>1, <2>2, BeginningHandled
  <2>6. down'[Len(down')] = Request'
    BY <1>1, <1>3, <2>2, <2>3
  <2>4. CASE k = 0
    <3>1. Len(down') = 1
      BY <2>2, <2>4
    <3> QED
      BY <1>0, <1>3, <2>3, <2>4, <2>6, <3>1 DEF Announcing
  <2>5. CASE k > 0
    <3>1. Leftover(Len(down) - 2)' /\ down'[Len(down') - 1] = BeginNow'
      BY <1>1, <2>2, <2>3, <2>5 DEF Leftover
    <3> QED
      BY <1>0, <1>3, <2>3, <2>6, <3>1 DEF Announcing
  <2> QED
    BY <2>1, <2>4, <2>5
<1>4. CASE host.sent /\ Len(down) = 1 /\ down[1] = Request /\ Blank
  <2>1. FileDone
    BY <1>4 DEF Blank, FileDone, Incomplete
  <2>2. BulkDone'
    BY <1>4, <2>1, BulkHandled
  <2>3. PICK r : Say(r) /\ r.kind = "bulk" /\ r.txn = host.txn /\ r.file = host.file /\ r.rc = "ok"
    BY <1>4, <2>1, BulkHandled
  <2>4. Len(up') = Len(up) \/ (Len(up') = Len(up) + 1 /\ up'[Len(up) + 1] = r)
    BY <1>0, <2>3, Entries
  <2>5. status' = r /\ \A i \in 1..Len(up) : up'[i] = up[i]
    BY <1>0, <2>3, Entries
  <2>6. \A x : Awaited(x)' <=> (x.kind = "bulk" /\ x.txn = host.txn /\ x.file = host.file)
    BY <1>0 DEF Awaited
  <2>7. NoBulkIn(Len(up) - 1)'
    <3> SUFFICES ASSUME NEW i \in 1..(Len(up') - 1)
                 PROVE  ~(up'[i].kind = "bulk" /\ up'[i].txn = host.txn)
      BY <1>0 DEF NoBulkIn
    <3>1. i \in 1..Len(up)
      BY <1>0, <2>4
    <3> QED
      BY <1>1, <2>5, <3>1 DEF NoBulkIn
  <2>8. \A i \in 1..Len(up') : Awaited(up[i])' => up'[i].rc = "ok"
    <3> SUFFICES ASSUME NEW i \in 1..Len(up'), up'[i].kind = "bulk", up'[i].txn = host.txn
                 PROVE  up'[i].rc = "ok"
      BY <2>6
    <3>1. i \notin 1..Len(up)
      BY <1>1, <2>5 DEF NoBulkIn
    <3>2. up'[i] = r
      BY <1>0, <2>4, <3>1
    <3> QED
      BY <2>3, <3>2
  <2>9. Awaited(status)' /\ status'.rc = "ok"
    BY <2>3, <2>5, <2>6
  <2> QED
    BY <1>0, <1>4, <2>2, <2>7, <2>8, <2>9 DEF FirstTold
<1> QED
  BY <1>0, <1>2, <1>3, <1>4 DEF Announcing

LEMMA InTurnHandled ==
  ASSUME TypeOK, Counted, Board, faults' = faults, InTurn
  PROVE  InTurn'
<1>0. /\ NetOK /\ host' = host /\ Len(down) >= 1 /\ Len(down') = Len(down) - 1
      /\ Pool \in Nat \ {0} /\ Len(down) \in Nat
  BY BulkTransferAssumption, LenProperties, WhichHandler, Entries
     DEF BulkTransferAssumption, TypeOK, NetOK
<1>1. /\ Len(up) = 0 /\ ReadyFor /\ host.sent /\ Len(down) = 1 /\ down[1] = Request
  BY <1>0 DEF InTurn
<1>2. ASSUME NEW r, Say(r) PROVE Len(up') = 1 /\ up'[1] = r
  <2>1. \/ Len(up') = Len(up) /\ Len(up) >= Pool
        \/ Len(up') = Len(up) + 1 /\ up'[Len(up) + 1] = r
    BY <1>0, <1>2, Entries
  <2> QED
    BY <1>0, <1>1, <2>1
<1>3. CASE host.at = "begin"
  <2>1. ~board.active /\ down[1].kind = "begin"
    BY <1>1, <1>3 DEF ReadyFor, Blank, Request, Message
  <2>2. PICK r : Say(r) /\ r.kind = "begin" /\ r.rc = "ok"
    BY <2>1, BeginHandled
  <2>3. Blank'
    BY <2>1, BeginHandled
  <2> QED
    BY <1>0, <1>1, <1>2, <1>3, <2>2, <2>3 DEF InTurn, DoneFor, Awaited
<1>4. CASE host.at = "bulk"
  <2>1. host.off = 0 /\ (FileDone \/ Serving(0))
    BY <1>1, <1>4 DEF ReadyFor
  <2>2. PICK r : Say(r) /\ r.kind = "bulk" /\ r.txn = host.txn /\ r.file = host.file /\ r.rc = "ok"
    BY <1>1, <1>4, <2>1, BulkHandled
  <2>3. BulkDone'
    BY <1>1, <1>4, <2>1, BulkHandled
  <2>4. DoneFor'
    BY <1>0, <1>4, <2>1, <2>3 DEF DoneFor
  <2>5. Awaited(up[1])' /\ up'[1].rc = "ok" /\ Len(up') = 1
    BY <1>0, <1>2, <1>4, <2>2 DEF Awaited
  <2> QED
    BY <1>0, <1>1, <1>4, <2>4, <2>5 DEF InTurn
<1>5. CASE host.at = "data"
  <2>1. Serving(host.off)
    BY <1>1, <1>5 DEF ReadyFor
  <2>2. PICK r : /\ Say(r) /\ r.kind = "data" /\ r.txn = host.txn /\ r.file = host.file
                 /\ r.rc = "ok" /\ r.off = host.off + 1
    BY <1>1, <1>5, <2>1, DataHandled
  <2>3. DoneFor'
    BY <1>1, <1>5, <2>1, DataHandled
  <2>4. Awaited(up[1])' /\ up'[1].rc = "ok" /\ up'[1].off = host.off + 1 /\ Len(up') = 1
    BY <1>0, <1>2, <1>5, <2>2 DEF Awaited
  <2> QED
    BY <1>0, <1>1, <1>5, <2>3, <2>4 DEF InTurn
<1>6. CASE host.at = "end"
  <2>1. FileDone
    BY <1>1, <1>6 DEF ReadyFor
  <2>2. PICK r : Say(r) /\ r.kind = "end" /\ r.rc = "ok"
    BY <1>1, <1>6, <2>1, EndHandled
  <2>3. Awaited(up[1])' /\ up'[1].rc = "ok" /\ Len(up') = 1
    BY <1>0, <1>2, <1>6, <2>2 DEF Awaited
  <2> QED
    BY <1>0, <1>1, <1>6, <2>3 DEF InTurn, DoneFor
<1> QED
  BY <1>1, <1>3, <1>4, <1>5, <1>6 DEF ReadyFor

LEMMA SmoothHandled ==
  ASSUME TypeOK, Counted, Board, faults' = faults, OpensFirst \/ AnnouncesFirst \/ InTurn
  PROVE  OpensFirst' \/ AnnouncesFirst' \/ InTurn'
<1>1. CASE AnnouncesFirst
  <2>1. host' = host /\ Len(down) # 0
    BY Lengths, WhichHandler DEF TypeOK
  <2>2. /\ host.at = "bulk" /\ host.file = 1 /\ host.off = 0 /\ host.tries = 0
        /\ Announcing
    BY <1>1, <2>1 DEF AnnouncesFirst, FirstTold
  <2>3. Announcing' \/ FirstTold'
    BY <2>2, AnnouncingHandled
  <2> QED
    BY <2>1, <2>2, <2>3 DEF AnnouncesFirst
<1> QED
  BY <1>1, OpensFirstHandled, InTurnHandled

-----------------------------------------------------------------------------
(* A transaction without a fault: the host                                 *)

\* Where the host goes from an answer that says ok.
LEMMA AskFields ==
  ASSUME host \in Hosts
  PROVE  /\ \A w : /\ Ask(w).at = w /\ Ask(w).txn = host.txn /\ Ask(w).file = host.file
                   /\ Ask(w).off = host.off /\ ~Ask(w).sent /\ Ask(w).tries = 0
         /\ \A f : /\ ToFile(f).at = "bulk" /\ ToFile(f).txn = host.txn /\ ToFile(f).file = f
                   /\ ToFile(f).off = 0 /\ ~ToFile(f).sent /\ ToFile(f).tries = 0
         /\ (NextFile.at = "bulk" /\ NextFile.off = 0) \/ NextFile.at = "end"
         /\ NextFile.txn = host.txn /\ ~NextFile.sent
<1>1. \A w : /\ Ask(w).at = w /\ Ask(w).txn = host.txn /\ Ask(w).file = host.file
             /\ Ask(w).off = host.off /\ ~Ask(w).sent /\ Ask(w).tries = 0
  BY DEF Ask, Hosts
<1>2. \A f : /\ ToFile(f).at = "bulk" /\ ToFile(f).txn = host.txn /\ ToFile(f).file = f
             /\ ToFile(f).off = 0 /\ ~ToFile(f).sent /\ ToFile(f).tries = 0
  BY DEF ToFile, Ask, Hosts
<1>3. [Ask("end") EXCEPT !.off = 0].at = "end"
  BY DEF Ask, Hosts
<1>4. (NextFile.at = "bulk" /\ NextFile.off = 0) \/ NextFile.at = "end"
  BY <1>2, <1>3 DEF NextFile
<1> QED
  BY <1>1, <1>2, <1>4, NotYetSent

\* Nothing is under way, and what the host asks for next can be done.
LEMMA TakesTurn ==
  ASSUME Len(down') = 0, Len(up') = 0, ~host'.sent, ReadyFor'
  PROVE  InTurn'
BY DEF InTurn

LEMMA GoesOn ==
  ASSUME host \in Hosts, board' = board, Len(down') = 0, Len(up') = 0, FileDone, host' = NextFile
  PROVE  InTurn'
<1>1. FileDone' /\ ~host'.sent /\ ((host'.at = "bulk" /\ host'.off = 0) \/ host'.at = "end")
  BY AskFields DEF FileDone, Incomplete
<1>2. ReadyFor'
  BY <1>1 DEF ReadyFor
<1> QED
  BY <1>1, <1>2, TakesTurn

LEMMA AnnouncementDone ==
  ASSUME host \in Hosts, board' = board, Len(down') = 0, Len(up') = 0, BulkDone,
         host.at = "bulk", host.off = 0, host' = Proceeds
  PROVE  InTurn'
<1>1. CASE Sizes[host.file] = 0
  BY <1>1, GoesOn DEF Proceeds, BulkDone
<1>2. CASE Sizes[host.file] # 0
  <2>1. host' = Ask("data")
    BY <1>2 DEF Proceeds
  <2>2. /\ host'.at = "data" /\ host'.txn = host.txn /\ host'.file = host.file /\ host'.off = 0
        /\ ~host'.sent
    BY <2>1, AskFields
  <2>3. Serving(0)
    BY <1>2 DEF BulkDone
  <2>4. Serving(host.off)'
    BY <2>2, <2>3 DEF Serving, Incomplete
  <2>5. ReadyFor'
    BY <2>2, <2>4 DEF ReadyFor
  <2> QED
    BY <2>2, <2>5, TakesTurn
<1> QED
  BY <1>1, <1>2

\* What a host that waits for an answer finds without a fault.
LEMMA HearsWell ==
  ASSUME TypeOK, faults' = faults, NEW r, Heard(r)
  PROVE  /\ NetOK /\ host \in Hosts /\ host.sent /\ Len(up') \in Nat /\ r \in Notes
         /\ \/ /\ Len(up) > 0 /\ r = up[1] /\ Len(up') = Len(up) - 1
               /\ \A i \in 1..Len(up') : up'[i] = up[i + 1]
            \/ /\ Len(up) = 0 /\ Len(down) = 0 /\ r = status /\ Len(up') = 0
<1>1. NetOK /\ host \in Hosts /\ Len(up) \in Nat
  BY LenProperties DEF TypeOK, NetOK
<1>2. /\ host.sent
      /\ \/ Len(up) > 0 /\ r = up[1] /\ up' = Tail(up)
         \/ Len(up) = 0 /\ Len(down) = 0 /\ r = status /\ up' = up
  BY <1>1, InTime
<1>3. Len(up) > 0 => up # <<>>
  BY <1>1, Lengths
<1>4. r \in Notes
  BY <1>1, <1>2 DEF Notes
<1> QED
  BY <1>1, <1>2, <1>3, <1>4, Entries

LEMMA NoBulkHeard ==
  ASSUME host'.txn = host.txn, NEW k \in Nat, NoBulkIn(k), Len(up) \in Nat, k <= Len(up),
         NEW n \in Nat, \A i \in 1..(k - n) : up'[i] = up[i + n]
  PROVE  NoBulkIn(k - n)'
<1> SUFFICES ASSUME NEW i \in 1..(k - n) PROVE ~(up'[i].kind = "bulk" /\ up'[i].txn = host.txn)
  BY DEF NoBulkIn
<1>1. i + n \in 1..k
  OBVIOUS
<1> QED
  BY <1>1 DEF NoBulkIn

\* install_begin is answered.
LEMMA OpensFirstAnswered ==
  ASSUME TypeOK, faults' = faults, Excused, Answered, OpensFirst
  PROVE  AnnouncesFirst'
<1>1. PICK r : /\ Heard(r) /\ Awaited(r)
               /\ host' = IF r.rc = "ok" THEN Proceeds
                          ELSE Ask(IF r.rc \in {"error", "busy"} THEN "abort" ELSE "quit")
  BY DEF Answered
<1>2. /\ host.at = "begin" /\ NoBulkIn(Len(up)) /\ down' = down /\ board' = board
  BY DEF OpensFirst, Answered, card
<1>3. /\ host \in Hosts /\ NetOK /\ host.sent /\ Len(up') \in Nat /\ Len(up) \in Nat
      /\ \/ Len(up') = Len(up) - 1 /\ \A i \in 1..Len(up') : up'[i] = up[i + 1]
         \/ Len(up') = 0
  BY <1>1, HearsWell, LenProperties DEF NetOK
<1>4. r.rc = "ok"
  BY <1>1, <1>2, HearsWell DEF Awaited, Excused, Controls
<1>5. host' = ToFile(1)
  BY <1>1, <1>2, <1>4 DEF Proceeds
<1>6. /\ host'.at = "bulk" /\ host'.file = 1 /\ host'.off = 0 /\ host'.tries = 0 /\ ~host'.sent
      /\ host'.txn = host.txn
  BY <1>3, <1>5, AskFields
<1>7. NoBulkIn(Len(up))'
  <2>1. CASE Len(up') = 0
    BY <2>1 DEF NoBulkIn
  <2>2. CASE Len(up') = Len(up) - 1 /\ (\A i \in 1..Len(up') : up'[i] = up[i + 1])
    <3>1. PICK k \in Nat : k = Len(up)
      BY <1>3
    <3>2. NoBulkIn(k) /\ k <= Len(up) /\ 1 \in Nat /\ \A i \in 1..(k - 1) : up'[i] = up[i + 1]
      BY <1>2, <1>3, <2>2, <3>1
    <3>3. NoBulkIn(k - 1)'
      BY <1>3, <1>6, <3>2, NoBulkHeard
    <3> QED
      BY <2>2, <3>1, <3>3 DEF NoBulkIn
  <2> QED
    BY <1>3, <2>1, <2>2
<1>8. BeginNow' = BeginNow
  BY <1>6 DEF BeginNow
<1>9. \/ Leftover(Len(down) - 1)' /\ down'[Len(down')] = BeginNow'
      \/ Len(down') = 0 /\ Blank'
  <2>1. \/ Leftover(Len(down) - 1) /\ down[Len(down)] = BeginNow
        \/ Len(down) = 0 /\ Blank
    BY <1>3 DEF OpensFirst
  <2> QED
    BY <1>2, <1>6, <1>8, <2>1 DEF Leftover, Blank
<1>10. Announcing'
  BY <1>6, <1>7, <1>9 DEF Announcing
<1> QED
  BY <1>6, <1>10 DEF AnnouncesFirst

\* The first file is answered.
LEMMA AnnouncesFirstAnswered ==
  ASSUME TypeOK, faults' = faults, Answered, AnnouncesFirst
  PROVE  InTurn'
<1>1. PICK r : /\ Heard(r) /\ Awaited(r)
               /\ host' = IF r.rc = "ok" THEN Proceeds
                          ELSE Ask(IF r.rc \in {"error", "busy"} THEN "abort" ELSE "quit")
  BY DEF Answered
<1>2. host.at = "bulk" /\ host.off = 0 /\ down' = down /\ board' = board
  BY DEF AnnouncesFirst, Answered, card
<1>3. /\ host \in Hosts /\ NetOK /\ host.sent /\ Len(up') \in Nat /\ Len(up) \in Nat /\ Len(down) \in Nat
      /\ \/ Len(up) > 0 /\ r = up[1] /\ Len(up') = Len(up) - 1
         \/ Len(up) = 0 /\ Len(down) = 0 /\ r = status /\ Len(up') = 0
  BY <1>1, HearsWell, LenProperties DEF NetOK
<1>4. r.kind = "bulk" /\ r.txn = host.txn
  BY <1>1, <1>2 DEF Awaited
<1>5. ~Announcing
  <2>1. SUFFICES ASSUME Announcing PROVE FALSE
    OBVIOUS
  <2>2. NoBulkIn(Len(up)) /\ Len(down) # 0
    BY <1>3, <2>1 DEF Announcing, Leftover
  <2>3. 1 \in 1..Len(up) /\ r = up[1]
    BY <1>3, <2>2
  <2> QED
    BY <1>4, <2>2, <2>3 DEF NoBulkIn
<1>6. FirstTold
  BY <1>5 DEF AnnouncesFirst
<1>7. r.rc = "ok"
  BY <1>1, <1>3, <1>6 DEF FirstTold
<1>8. Len(up') = 0
  <2>1. SUFFICES ASSUME Len(up) > 1, r = up[1] PROVE FALSE
    BY <1>3
  <2>2. 1 \in 1..(Len(up) - 1)
    BY <1>3, <2>1
  <2> QED
    BY <1>4, <1>6, <2>1, <2>2 DEF FirstTold, NoBulkIn
<1>9. BulkDone /\ Len(down') = 0 /\ host' = Proceeds
  BY <1>1, <1>2, <1>6, <1>7 DEF FirstTold
<1> QED
  BY <1>2, <1>3, <1>8, <1>9, AnnouncementDone

\* What a host that hears something in its turn hears.
LEMMA InTurnHears ==
  ASSUME TypeOK, faults' = faults, InTurn, NEW r, Heard(r)
  PROVE  /\ host \in Hosts /\ Len(down) = 0 /\ Len(up') = 0 /\ DoneFor
         /\ r.rc = "ok" /\ (host.at = "data" => r.off = host.off + 1)
BY HearsWell DEF InTurn

LEMMA InTurnAnswered ==
  ASSUME TypeOK, faults' = faults, Answered, InTurn
  PROVE  InTurn' \/ host'.at = "done"
<1>1. PICK r : /\ Heard(r) /\ Awaited(r)
               /\ host' = IF r.rc = "ok" THEN Proceeds
                          ELSE Ask(IF r.rc \in {"error", "busy"} THEN "abort" ELSE "quit")
  BY DEF Answered
<1>2. host.at \in Controls /\ down' = down /\ board' = board
  BY DEF Answered, card
<1>3. host \in Hosts /\ Len(down') = 0 /\ Len(up') = 0 /\ DoneFor /\ host' = Proceeds
  BY <1>1, <1>2, InTurnHears
<1>4. CASE host.at = "begin"
  <2>1. host' = ToFile(1) /\ Blank
    BY <1>3, <1>4 DEF Proceeds, DoneFor
  <2>2. host'.at = "bulk" /\ host'.off = 0 /\ ~host'.sent
    BY <1>3, <2>1, AskFields
  <2>3. FileDone'
    BY <1>2, <2>1 DEF Blank, FileDone, Incomplete
  <2> QED
    BY <1>3, <2>2, <2>3, TakesTurn DEF ReadyFor
<1>5. CASE host.at = "bulk"
  BY <1>2, <1>3, <1>5, AnnouncementDone DEF DoneFor
<1>6. CASE host.at = "end"
  BY <1>3, <1>6, AskFields DEF Proceeds
<1>7. host.at \in {"begin", "bulk", "end"}
  BY <1>2, <1>3 DEF DoneFor, Controls
<1> QED
  BY <1>4, <1>5, <1>6, <1>7

LEMMA InTurnConfirmed ==
  ASSUME TypeOK, faults' = faults, Confirmed, InTurn
  PROVE  InTurn'
<1>1. PICK r : Heard(r)
  BY DEF Confirmed
<1>2. /\ host.at = "data" /\ down' = down /\ board' = board
      /\ host' = IF host.off + 1 < Sizes[host.file]
                 THEN [Ask("data") EXCEPT !.off = host.off + 1, !.stalls = 0]
                 ELSE NextFile
  BY DEF Confirmed, card
<1>3. host \in Hosts /\ Len(down') = 0 /\ Len(up') = 0 /\ DoneFor
  BY <1>1, <1>2, InTurnHears
<1>4. CASE host.off + 1 < Sizes[host.file]
  <2>1. host' = [Ask("data") EXCEPT !.off = host.off + 1, !.stalls = 0]
    BY <1>2, <1>4
  <2>2. /\ host'.at = "data" /\ host'.txn = host.txn /\ host'.file = host.file
        /\ host'.off = host.off + 1 /\ ~host'.sent
    BY <1>3, <2>1 DEF Ask, Hosts
  <2>3. Serving(host.off + 1)
    BY <1>2, <1>3, <1>4 DEF DoneFor
  <2>4. Serving(host.off)'
    BY <1>2, <2>2, <2>3 DEF Serving, Incomplete
  <2> QED
    BY <1>3, <2>2, <2>4, TakesTurn DEF ReadyFor
<1>5. CASE ~(host.off + 1 < Sizes[host.file])
  <2>1. host' = NextFile /\ FileDone
    BY <1>2, <1>3, <1>5 DEF DoneFor
  <2> QED
    BY <1>2, <1>3, <2>1, GoesOn
<1> QED
  BY <1>4, <1>5

\* The host does not hear that a frame was refused, nor wait in vain for it.
LEMMA NotDenied ==
  ASSUME TypeOK, faults' = faults, OpensFirst \/ AnnouncesFirst \/ InTurn
  PROVE  ~Denied /\ ~DataTimesOut
<1>0. NetOK /\ Len(up) \in Nat /\ host.off \in Nat
  BY LenProperties DEF TypeOK, NetOK, Hosts
<1>1. Denied \/ DataTimesOut => InTurn /\ host.at = "data" /\ host.sent
  BY DEF Denied, DataTimesOut, OpensFirst, AnnouncesFirst
<1>2. ~Denied
  <2>1. Denied => up # <<>> /\ Head(up) = up[1] /\ Len(up) # 0
    BY <1>0, Lengths, HeadTailProperties DEF Denied, NetOK
  <2>2. Denied => Confirms(up[1])
    BY <1>1, <2>1 DEF InTurn, Confirms
  <2> QED
    BY <2>1, <2>2 DEF Denied
<1>3. ~DataTimesOut
  <2>1. DataTimesOut => Len(down) = 0 /\ Len(up) = 0
    BY <1>0, InTime DEF DataTimesOut
  <2> QED
    BY <1>1, <2>1 DEF InTurn
<1> QED
  BY <1>2, <1>3

\* No answer to a command: it was lost for a full pool, or left aside as an
\* answer to another.  The host asks again.
LEMMA AskedAgain ==
  ASSUME Patient, TypeOK, faults' = faults, ControlTimesOut, OpensFirst \/ AnnouncesFirst \/ InTurn
  PROVE  InTurn'
<1>1. /\ host.at \in Controls /\ host.sent /\ host' = ControlFails
      /\ down' = down /\ up' = up /\ board' = board
  BY DEF ControlTimesOut, net, card
<1>2. Len(down) = 0 /\ Len(up) = 0 /\ host \in Hosts
  BY InTime DEF TypeOK, ControlTimesOut
<1>3. ~InTurn
  BY <1>1, <1>2 DEF InTurn
<1>4. host.tries = 0 /\ host.at \in {"begin", "bulk"}
  BY <1>3 DEF OpensFirst, AnnouncesFirst
<1>5. host' = [host EXCEPT !.sent = FALSE, !.linked = FALSE, !.tries = host.tries + 1]
  BY <1>1, <1>4, Constants DEF ControlFails, Patient
<1>6. /\ host'.at = host.at /\ host'.txn = host.txn /\ host'.file = host.file
      /\ host'.off = host.off /\ ~host'.sent
  BY <1>2, <1>5 DEF Hosts
<1>7. CASE OpensFirst
  <2>1. host.at = "begin" /\ Blank
    BY <1>1, <1>2, <1>7 DEF OpensFirst, Leftover
  <2>2. Blank'
    BY <1>1, <2>1 DEF Blank
  <2> QED
    BY <1>1, <1>2, <1>6, <2>1, <2>2, TakesTurn DEF ReadyFor
<1>8. CASE AnnouncesFirst
  <2>1. host.at = "bulk" /\ host.off = 0 /\ BulkDone
    BY <1>1, <1>2, <1>8 DEF AnnouncesFirst, Announcing, FirstTold, Leftover
  <2>2. FileDone' \/ Serving(0)'
    BY <1>1, <1>6, <2>1 DEF BulkDone, FileDone, Serving, Incomplete
  <2> QED
    BY <1>1, <1>2, <1>6, <2>1, <2>2, TakesTurn DEF ReadyFor
<1> QED
  BY <1>3, <1>7, <1>8

\* What the host skips is not an answer, or one that was given before.
LEMMA SkippedSmoothly ==
  ASSUME TypeOK, faults' = faults, Skip, OpensFirst \/ AnnouncesFirst \/ InTurn
  PROVE  OpensFirst' \/ AnnouncesFirst'
<1>0. /\ NetOK /\ Len(up) \in Nat /\ Len(down) \in Nat /\ host.off \in Nat
      /\ host' = host /\ down' = down /\ status' = status /\ board' = board
      /\ up # <<>> /\ up' = Tail(up) /\ host.sent
      /\ ~Awaited(Head(up)) \/ (host.at = "data" /\ Stale(Head(up)))
  BY LenProperties DEF TypeOK, NetOK, Hosts, Skip, card
<1>1. /\ Len(up) >= 1 /\ Head(up) = up[1] /\ Len(up') = Len(up) - 1
      /\ \A i \in 1..Len(up') : up'[i] = up[i + 1]
  BY <1>0, Entries
<1>2. ~InTurn
  <2>1. SUFFICES ASSUME InTurn PROVE FALSE
    OBVIOUS
  <2>2. Awaited(up[1]) /\ (host.at = "data" => up[1].off = host.off + 1)
    BY <1>0, <1>1, <2>1 DEF InTurn
  <2>3. host.at = "data" => ~Stale(up[1])
    BY <1>0, <2>2 DEF Stale
  <2> QED
    BY <1>0, <1>1, <2>2, <2>3
<1>3. PICK k \in Nat : k = Len(up)
  BY <1>0
<1>4. NoBulkIn(Len(up)) => NoBulkIn(Len(up))'
  <2>1. SUFFICES ASSUME NoBulkIn(Len(up)) PROVE NoBulkIn(Len(up))'
    OBVIOUS
  <2>2. NoBulkIn(k) /\ k <= Len(up) /\ 1 \in Nat /\ \A i \in 1..(k - 1) : up'[i] = up[i + 1]
    BY <1>1, <1>3, <2>1
  <2>3. NoBulkIn(k - 1)'
    BY <1>0, <2>2, NoBulkHeard
  <2> QED
    BY <1>1, <1>3, <2>3 DEF NoBulkIn
<1>5. NoBulkIn(Len(up) - 1) => NoBulkIn(Len(up) - 1)'
  <2>1. SUFFICES ASSUME NoBulkIn(Len(up) - 1) PROVE NoBulkIn(Len(up) - 1)'
    OBVIOUS
  <2>2. SUFFICES ASSUME NEW i \in 1..(Len(up') - 1) PROVE ~(up'[i].kind = "bulk" /\ up'[i].txn = host.txn)
    BY <1>0 DEF NoBulkIn
  <2>3. i \in 1..Len(up') /\ i + 1 \in 1..(Len(up) - 1)
    BY <1>0, <1>1
  <2> QED
    BY <1>1, <2>1, <2>3 DEF NoBulkIn
<1>7. CASE OpensFirst
  BY <1>0, <1>4, <1>7 DEF OpensFirst, BeginNow, Leftover, Blank
<1>8. CASE AnnouncesFirst /\ Announcing
  <2>1. Announcing'
    BY <1>0, <1>4, <1>8 DEF Announcing, BeginNow, Request, Leftover, Blank
  <2> QED
    BY <1>0, <1>8, <2>1 DEF AnnouncesFirst
<1>9. CASE AnnouncesFirst /\ FirstTold
  <2>2. \A i \in 1..Len(up') : Awaited(up[i])' => up'[i].rc = "ok"
    <3> SUFFICES ASSUME NEW i \in 1..Len(up'), Awaited(up[i])' PROVE up'[i].rc = "ok"
      OBVIOUS
    <3>1. up'[i] = up[i + 1] /\ i + 1 \in 1..Len(up)
      BY <1>0, <1>1
    <3>2. Awaited(up[i + 1])
      BY <1>0, <3>1 DEF Awaited
    <3> QED
      BY <1>9, <3>1, <3>2 DEF FirstTold
  <2>3. Awaited(status)' /\ status'.rc = "ok"
    BY <1>0, <1>9 DEF FirstTold, Awaited
  <2>4. BulkDone'
    BY <1>0, <1>9 DEF FirstTold, BulkDone, FileDone, Serving, Incomplete
  <2>5. FirstTold'
    BY <1>0, <1>5, <1>9, <2>2, <2>3, <2>4 DEF FirstTold
  <2> QED
    BY <1>0, <1>9, <2>5 DEF AnnouncesFirst
<1> QED
  BY <1>2, <1>7, <1>8, <1>9 DEF AnnouncesFirst

\* The mailbox takes what the host sends.
LEMMA SentWell ==
  ASSUME Roomy, TypeOK, Traffic, Clean, faults' = faults, Send
  PROVE  /\ host'.at = host.at /\ host'.txn = host.txn /\ host'.file = host.file
         /\ host'.off = host.off /\ host'.tries = host.tries /\ ~host.sent /\ host'.sent
         /\ board' = board /\ Len(down) \in Nat /\ Len(up') \in Nat
         /\ Len(down') = Len(down) + 1 /\ down'[Len(down')] = Request' /\ Request' = Request
         /\ \A i \in 1..Len(down) : down'[i] = down[i]
         /\ Len(up') <= Len(up) /\ (NoBulkIn(Len(up)) => NoBulkIn(Len(up))')
<1>1. /\ host.at \in Requests /\ ~host.sent /\ host' = [host EXCEPT !.sent = TRUE] /\ Cleared
      /\ board' = board
  BY DEF Send, card
<1>2. /\ host \in Hosts /\ NetOK /\ Len(down) \in Nat /\ Len(up) \in Nat /\ host.txn \in Txns
      /\ faults \in Nat /\ Restarts \in Nat /\ Mailbox \in Nat
  BY LenProperties, Constants DEF TypeOK, NetOK, Hosts, PastOK
<1>3. Put(Request)
  BY <1>2, InTime DEF Send
<1>4. Len(down) < Mailbox
  <2>1. Len(down) + Len(up) + 1 <= faults + host.txn /\ faults < host.txn
    BY <1>1 DEF Traffic, Load, Unsent, Clean
  <2>2. host.txn \in Nat /\ host.txn <= Restarts + 1
    BY <1>2 DEF Txns
  <2> QED
    BY <1>2, <2>1, <2>2 DEF Roomy
<1>5. /\ host'.at = host.at /\ host'.txn = host.txn /\ host'.file = host.file
      /\ host'.off = host.off /\ host'.tries = host.tries /\ host'.sent
  BY <1>1, <1>2 DEF Hosts
<1>6. Request \in Messages /\ Request' = Request
  BY <1>1, <1>2, <1>5, RequestTyped DEF Request
<1>7. /\ Len(down') = Len(down) + 1 /\ down'[Len(down) + 1] = Request
      /\ \A i \in 1..Len(down) : down'[i] = down[i]
  BY <1>2, <1>3, <1>4, <1>6, Entries
<1>8. PICK n \in 0..Len(up) : Len(up') = Len(up) - n /\ \A i \in 1..Len(up') : up'[i] = up[i + n]
  BY <1>1, <1>2, Entries
<1>9. NoBulkIn(Len(up)) => NoBulkIn(Len(up))'
  <2>1. SUFFICES ASSUME NoBulkIn(Len(up)) PROVE NoBulkIn(Len(up))'
    OBVIOUS
  <2>2. PICK k \in Nat : k = Len(up)
    BY <1>2
  <2>3. NoBulkIn(k) /\ k <= Len(up) /\ n \in Nat /\ \A i \in 1..(k - n) : up'[i] = up[i + n]
    BY <1>2, <1>8, <2>1, <2>2
  <2>4. NoBulkIn(k - n)'
    BY <1>2, <1>5, <2>3, NoBulkHeard
  <2> QED
    BY <1>8, <2>2, <2>4 DEF NoBulkIn
<1>10. Len(up') \in Nat /\ Len(up') <= Len(up)
  BY <1>2, <1>8
<1> QED
  BY <1>1, <1>2, <1>5, <1>6, <1>7, <1>9, <1>10

LEMMA SentSmoothly ==
  ASSUME Roomy, TypeOK, Traffic, Clean, faults' = faults, Send,
         OpensFirst \/ AnnouncesFirst \/ InTurn
  PROVE  OpensFirst' \/ AnnouncesFirst' \/ InTurn'
<1>1. /\ host'.at = host.at /\ host'.txn = host.txn /\ host'.file = host.file
      /\ host'.off = host.off /\ host'.tries = host.tries /\ ~host.sent /\ host'.sent
      /\ board' = board /\ Len(down) \in Nat /\ Len(up') \in Nat
      /\ Len(down') = Len(down) + 1 /\ down'[Len(down')] = Request' /\ Request' = Request
      /\ \A i \in 1..Len(down) : down'[i] = down[i]
      /\ Len(up') <= Len(up) /\ (NoBulkIn(Len(up)) => NoBulkIn(Len(up))')
  BY SentWell
<1>2. ASSUME NEW k \in 0..Len(down), Leftover(k) PROVE Leftover(k)'
  <2>1. k \in 0..Len(down') /\ \A i \in 1..k : down'[i] = down[i]
    BY <1>1
  <2>2. k = 0 \/ k \in 1..k
    BY <1>1
  <2> QED
    BY <1>1, <1>2, <2>1, <2>2 DEF Leftover
<1>3. CASE OpensFirst
  <2>1. host.at = "begin" /\ host.tries = 0 /\ NoBulkIn(Len(up)) /\ Leftover(Len(down))
    BY <1>1, <1>3 DEF OpensFirst
  <2>2. PICK k \in 0..Len(down) : k = Len(down)
    BY <1>1
  <2>3. Leftover(k)'
    BY <1>2, <2>1, <2>2
  <2>4. Leftover(Len(down) - 1)'
    BY <1>1, <2>2, <2>3 DEF Leftover
  <2>5. Request' = BeginNow'
    BY <1>1, <2>1 DEF Request, BeginNow
  <2> QED
    BY <1>1, <2>1, <2>4, <2>5 DEF OpensFirst
<1>4. CASE AnnouncesFirst
  <2>1. /\ host.at = "bulk" /\ host.file = 1 /\ host.off = 0 /\ host.tries = 0
        /\ Announcing
    BY <1>1, <1>4 DEF AnnouncesFirst, FirstTold
  <2>2. BeginNow' = BeginNow
    BY <1>1 DEF BeginNow
  <2>3. CASE Leftover(Len(down) - 1) /\ down[Len(down)] = BeginNow
    <3>1. PICK k \in 0..Len(down) : k = Len(down) - 1
      BY <1>1, <2>3 DEF Leftover
    <3>2. Leftover(k)' /\ down'[k + 1] = BeginNow' /\ k = Len(down') - 2
      BY <1>1, <1>2, <2>2, <2>3, <3>1
    <3>3. Leftover(Len(down) - 2)' /\ down'[Len(down') - 1] = BeginNow'
      BY <1>1, <3>1, <3>2 DEF Leftover
    <3>4. Announcing'
      BY <1>1, <2>1, <3>3 DEF Announcing
    <3> QED
      BY <1>1, <2>1, <3>4 DEF AnnouncesFirst
  <2>4. CASE Len(down) = 0 /\ Blank
    <3>1. Blank' /\ Len(down') = 1 /\ down'[1] = Request'
      BY <1>1, <2>4 DEF Blank
    <3>2. Announcing'
      BY <1>1, <2>1, <3>1 DEF Announcing
    <3> QED
      BY <1>1, <2>1, <3>2 DEF AnnouncesFirst
  <2> QED
    BY <1>1, <2>1, <2>3, <2>4 DEF Announcing
<1>5. CASE InTurn
  <2>1. Len(up) = 0 /\ Len(down) = 0 /\ ReadyFor
    BY <1>1, <1>5 DEF InTurn
  <2>2. Len(up') = 0 /\ Len(down') = 1 /\ down'[1] = Request'
    BY <1>1, <2>1
  <2>3. ReadyFor'
    BY <1>1, <2>1 DEF ReadyFor, Blank, FileDone, Serving, Incomplete
  <2> QED
    BY <1>1, <2>2, <2>3 DEF InTurn
<1> QED
  BY <1>3, <1>4, <1>5

LEMMA ReconnectedSmoothly ==
  ASSUME TypeOK, Waits, faults' = faults, Reconnect, OpensFirst \/ AnnouncesFirst \/ InTurn
  PROVE  OpensFirst' \/ AnnouncesFirst' \/ InTurn'
<1>0. host \in Hosts /\ NetOK
  BY DEF TypeOK
<1>1. host' = [host EXCEPT !.linked = TRUE] /\ up' = <<>> /\ down' = down /\ board' = board
  BY <1>0, InTime DEF Reconnect, card
<1>2. ~host.sent /\ Len(up') = 0
  BY <1>1, EmptySeq DEF Reconnect, Waits
<1>3. /\ host'.at = host.at /\ host'.txn = host.txn /\ host'.file = host.file
      /\ host'.off = host.off /\ host'.tries = host.tries /\ ~host'.sent
  BY <1>0, <1>1, <1>2 DEF Hosts
<1>4. NoBulkIn(Len(up))'
  BY <1>2 DEF NoBulkIn
<1>5. CASE OpensFirst
  BY <1>1, <1>2, <1>3, <1>4, <1>5 DEF OpensFirst, Leftover
<1>6. CASE AnnouncesFirst
  <2>1. Announcing
    BY <1>2, <1>6 DEF AnnouncesFirst, FirstTold
  <2>2. Announcing'
    BY <1>1, <1>2, <1>3, <1>4, <2>1 DEF Announcing, BeginNow, Leftover, Blank
  <2> QED
    BY <1>3, <1>6, <2>2 DEF AnnouncesFirst
<1>7. CASE InTurn
  <2>1. ReadyFor'
    BY <1>1, <1>2, <1>3, <1>7 DEF InTurn, ReadyFor, Blank, FileDone, Serving, Incomplete
  <2>2. Len(down') = 0
    BY <1>1, <1>2, <1>7 DEF InTurn
  <2> QED
    BY <1>2, <1>3, <2>1, <2>2, TakesTurn
<1> QED
  BY <1>5, <1>6, <1>7

-----------------------------------------------------------------------------
(* A transaction without a fault: it goes on                               *)

LEMMA StaysSmooth ==
  ASSUME UNCHANGED vars, OpensFirst \/ AnnouncesFirst \/ InTurn
  PROVE  OpensFirst' \/ AnnouncesFirst' \/ InTurn'
<1>1. host' = host /\ down' = down /\ up' = up /\ status' = status /\ board' = board
  BY DEF vars, net, card
<1>2. CASE OpensFirst
  BY <1>1, <1>2 DEF OpensFirst, NoBulkIn, Leftover, BeginNow, Blank
<1>3. CASE AnnouncesFirst
  <2>1. Announcing => Announcing'
    BY <1>1 DEF Announcing, NoBulkIn, Leftover, BeginNow, Request, Blank
  <2>2. FirstTold => FirstTold'
    BY <1>1 DEF FirstTold, NoBulkIn, Awaited, BulkDone, FileDone, Serving, Incomplete
  <2> QED
    BY <1>1, <1>3, <2>1, <2>2 DEF AnnouncesFirst
<1>4. CASE InTurn
  <2>1. ReadyFor => ReadyFor'
    BY <1>1 DEF ReadyFor, Blank, FileDone, Serving, Incomplete
  <2>2. DoneFor => DoneFor'
    BY <1>1 DEF DoneFor, BulkDone, Blank, FileDone, Serving, Incomplete
  <2> QED
    BY <1>1, <1>4, <2>1, <2>2 DEF InTurn, Request, Awaited
<1> QED
  BY <1>2, <1>3, <1>4

LEMMA GoesSmoothly ==
  ASSUME Roomy, Patient, TypeOK, Counted, Traffic, Waits, Excused, Clean, faults' = faults,
         [Next]_vars, OpensFirst \/ AnnouncesFirst \/ InTurn
  PROVE  OpensFirst' \/ AnnouncesFirst' \/ InTurn' \/ host'.at = "done"
<1>1. \A kind : ~Fault(kind)
  BY InTime DEF TypeOK
<1>2. ~Environment
  BY <1>1 DEF Environment, LinkDrops, PageCloses, Forgets, NoteLost
<1>3. ~Leave
  BY DEF Leave, Clean, Leaving, Requests, Controls
<1>4. Answered => OpensFirst' \/ AnnouncesFirst' \/ InTurn' \/ host'.at = "done"
  BY OpensFirstAnswered, AnnouncesFirstAnswered, InTurnAnswered
<1>5. Confirmed => InTurn'
  <2>1. Confirmed => InTurn
    BY DEF Confirmed, OpensFirst, AnnouncesFirst
  <2> QED
    BY <2>1, InTurnConfirmed
<1>6. Send \/ Reconnect \/ Skip \/ ControlTimesOut => OpensFirst' \/ AnnouncesFirst' \/ InTurn'
  BY SentSmoothly, ReconnectedSmoothly, SkippedSmoothly, AskedAgain
<1> QED
  BY <1>2, <1>3, <1>4, <1>5, <1>6, NotDenied, SmoothHandled, StaysSmooth DEF Next, Host

LEMMA SurvivalStep ==
  ASSUME Roomy, Patient, SurvivalInv, Counted, TypeOK', [Next]_vars
  PROVE  SurvivalInv'
<1>1. TypeOK /\ Traffic /\ NoneLater /\ Waits /\ Excused /\ Paid /\ Smooth
  BY DEF SurvivalInv
<1>2. Traffic' /\ NoneLater' /\ Waits' /\ Excused'
  BY <1>1, StepTraffic, StepNoneLater, StepWaits, StepExcused
<1>3. ASSUME faults' = faults, Clean
      PROVE  OpensFirst' \/ AnnouncesFirst' \/ InTurn' \/ host'.at = "done"
  BY <1>1, <1>3, GoesSmoothly DEF Smooth
<1>4. faults' = faults /\ Clean => host'.at # "abort"
  BY <1>3 DEF OpensFirst, AnnouncesFirst, InTurn, ReadyFor, DoneFor
<1>5. Paid'
  BY <1>1, <1>4, StepPaid
<1>6. Smooth'
  <2> SUFFICES ASSUME Clean' PROVE OpensFirst' \/ AnnouncesFirst' \/ InTurn'
    BY DEF Smooth
  <2>1. CASE faults' = faults /\ Clean
    BY <1>3, <2>1 DEF Clean, Requests, Controls
  <2>2. CASE ~(faults' = faults /\ Clean)
    BY <1>1, <2>2, LeaveOpens
  <2> QED
    BY <2>1, <2>2
<1> QED
  BY <1>2, <1>5, <1>6 DEF SurvivalInv

LEMMA SurvivalBegins == Init => SurvivalInv
<1> SUFFICES ASSUME Init PROVE SurvivalInv
  OBVIOUS
<1>1. /\ host.at = "begin" /\ host.txn = 1 /\ ~host.sent /\ host.tries = 0 /\ faults = 0
      /\ down = <<>> /\ up = <<>> /\ status.kind = "none" /\ board = Idle
  BY DEF Init, Reply
<1>2. Len(down) = 0 /\ Len(up) = 0
  BY <1>1, EmptySeq
<1>3. Traffic /\ NoneLater /\ Waits
  BY <1>1, <1>2 DEF Traffic, Load, Unsent, NoneLater, Mail, Waits
<1>4. Excused /\ Paid
  BY <1>1, <1>2 DEF Excused, Notes, Controls, Paid, Survives
<1>5. OpensFirst
  BY <1>1, <1>2 DEF OpensFirst, NoBulkIn, Leftover, Idle
<1> QED
  BY <1>3, <1>4, <1>5, InitTyped DEF SurvivalInv, Smooth

\* Where the mailbox has room for what a host that starts over leaves in it,
\* and a command is sent twice at least, the host gives up only after more
\* faults than it may start over, when it cannot connect, or when the board has
\* no memory or refuses the package: no interleaving of the two programs, no
\* late answer and no full pool alone costs it a transaction.
THEOREM GivesUpForFaults ==
  ASSUME Roomy, Patient
  PROVE  Spec => []Survives
<1>1. Init => SurvivalInv /\ Counted
  BY SurvivalBegins, InitCounts
<1>2. SurvivalInv /\ Counted /\ [Next]_vars => (SurvivalInv /\ Counted)'
  <2> SUFFICES ASSUME SurvivalInv, Counted, [Next]_vars PROVE (SurvivalInv /\ Counted)'
    OBVIOUS
  <2>1. TypeOK /\ TypeOK'
    BY TypeStep DEF SurvivalInv
  <2>2. Counted'
    BY <2>1, CountedStep DEF TypeOK
  <2> QED
    BY <2>1, <2>2, SurvivalStep
<1>3. SurvivalInv => Survives
  BY DEF SurvivalInv, Paid
<1> QED
  BY <1>1, <1>2, <1>3, PTL DEF Spec
=============================================================================
