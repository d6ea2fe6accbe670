---------------------------- MODULE TextDelivery ----------------------------
(***************************************************************************)
(* What the user of a pair of boards is promised about texts, without      *)
(* packets, timers or connections: the status of each text at its sender   *)
(* and the texts shown at its receiver (vb_peer_link.h, the message states *)
(* VB_PEER_MESSAGE_PENDING, DELIVERED and FAILED).                         *)
(***************************************************************************)
EXTENDS Naturals, Sequences

CONSTANTS Boards, MaxTexts

VARIABLES
  status, \* of the texts of a board: unsent, pending, delivered, failed
  inbox   \* the texts a board has shown

Peers == {p \in Boards \X Boards : p[1] # p[2]}
Shown(b) == {inbox[b][i] : i \in DOMAIN inbox[b]}

Init ==
  /\ status = [b \in Boards |-> [n \in 1..MaxTexts |-> "unsent"]]
  /\ inbox = [b \in Boards |-> <<>>]

\* A user submits the next text.
Submit(b, n) ==
  /\ status[b][n] = "unsent" /\ \A m \in 1..(n - 1) : status[b][m] # "unsent"
  /\ status' = [status EXCEPT ![b][n] = "pending"]
  /\ UNCHANGED inbox

\* The other board shows a text newer than all it has shown.
Show(from, to, n) ==
  /\ status[from][n] # "unsent" /\ \A m \in Shown(to) : m < n
  /\ inbox' = [inbox EXCEPT ![to] = Append(@, n)]
  /\ UNCHANGED status

\* The sender learns that a text was shown, late or not.
Confirm(from, to, n) ==
  /\ status[from][n] \in {"pending", "failed"} /\ n \in Shown(to)
  /\ status' = [status EXCEPT ![from][n] = "delivered"]
  /\ UNCHANGED inbox

GiveUp(b, n) ==
  /\ status[b][n] = "pending"
  /\ status' = [status EXCEPT ![b][n] = "failed"]
  /\ UNCHANGED inbox

Next == \E n \in 1..MaxTexts :
  \/ \E b \in Boards : Submit(b, n) \/ GiveUp(b, n)
  \/ \E p \in Peers : Show(p[1], p[2], n) \/ Confirm(p[1], p[2], n)

Spec == Init /\ [][Next]_<<status, inbox>>
=============================================================================
