------------------------ MODULE PeerDiscovery_proofs ------------------------
(***************************************************************************)
(* Proofs about PeerDiscovery, for a mailbox of any capacity and any       *)
(* choice of faults.                                                       *)
(***************************************************************************)
EXTENDS PeerDiscovery, TLAPS

USE DiscoveryAssumption

-----------------------------------------------------------------------------
(* The mailbox                                                             *)

\* Taking an event from the mailbox leaves a shorter mailbox and every other
\* kind of event that was in it.
LEMMA Taken ==
  ASSUME NEW e, mail \in Seq(Events), Len(mail) <= Capacity, Handles(e)
  PROVE  /\ mail' \in Seq(Events) /\ Len(mail') <= Capacity
         /\ \A f : f # e /\ Queued(f) => Queued(f)'
<1>1. Len(mail) \in Nat \ {0} /\ mail' = Tail(mail) /\ mail[1] = e
  BY DEF Handles
<1>2. mail' \in Seq(Events) /\ Len(mail') = Len(mail) - 1
  BY <1>1
<1>3. ASSUME NEW f, f # e, Queued(f) PROVE Queued(f)'
  <2>1. PICK i \in 1..Len(mail) : mail[i] = f
    BY <1>3 DEF Queued
  <2>2. i # 1 /\ i - 1 \in 1..Len(mail') /\ mail'[i - 1] = f
    BY <1>1, <1>2, <1>3, <2>1
  <2> QED
    BY <1>2, <2>2 DEF Queued
<1> QED
  BY <1>2, <1>3

\* Posting an event puts it into the mailbox beside what is there, or is a
\* fault that is remembered.
LEMMA Posted ==
  ASSUME NEW e \in Events, mail \in Seq(Events), Len(mail) <= Capacity, hurt \in Hurts, Post(e)
  PROVE  /\ mail' \in Seq(Events) /\ Len(mail') <= Capacity /\ hurt' \in Hurts
         /\ \A f : Queued(f) => Queued(f)'
         /\ Queued(e)' \/ hurt' = "mail"
         /\ hurt' \in {hurt, "mail"}
<1>1. CASE Len(mail) < Capacity /\ mail' = Append(mail, e) /\ UNCHANGED hurt
  <2>1. /\ Len(mail) \in Nat /\ mail' \in Seq(Events) /\ Len(mail') = Len(mail) + 1
        /\ \A i \in 1..Len(mail) : mail'[i] = mail[i]
        /\ mail'[Len(mail) + 1] = e
    BY <1>1
  <2>2. Queued(e)'
    BY <2>1 DEF Queued
  <2>3. \A f : Queued(f) => Queued(f)'
    BY <2>1 DEF Queued
  <2> QED
    BY <1>1, <2>1, <2>2, <2>3
<1>2. CASE hurt' = "mail" /\ UNCHANGED mail
  BY <1>2 DEF Queued, Hurts
<1> QED
  BY <1>1, <1>2 DEF Post

-----------------------------------------------------------------------------
(* The inductive invariant                                                 *)

\* Once the radio has announced itself the worker knows it, unless the event
\* waits or was lost.
PowerHeard == lit => power \/ Queued("power") \/ hurt = "mail"

\* NeverIdle needs both others: a round that finds a scan under way, or the
\* power off, starts none of its own.
IInv == TypeOK /\ PowerHeard /\ ScanFlagTrue /\ NeverIdle

\* The initial states satisfy it.
LEMMA InitInv == Init => IInv
<1> SUFFICES ASSUME Init PROVE IInv
  OBVIOUS
<1>1. mail \in Seq(Events) /\ Len(mail) <= Capacity
  BY DEF Init
<1>2. TypeOK
  BY <1>1 DEF Init, TypeOK, RadioStates, Hurts
<1> QED
  BY <1>2 DEF Init, IInv, PowerHeard, ScanFlagTrue, NeverIdle

\* Every step of the application, the worker and the stack keeps it.
LEMMA StepInv == IInv /\ [Next]_vars => IInv'
<1> SUFFICES ASSUME IInv, [Next]_vars PROVE IInv'
  OBVIOUS
<1> USE DEF IInv, Hurts
<1>0. mail \in Seq(Events) /\ Len(mail) <= Capacity /\ hurt \in Hurts
  BY DEF TypeOK
<1>1. CASE Enable
  <2>0. UNCHANGED mail
    BY <1>1 DEF Enable, flags, stack
  <2>1. \A f : Queued(f)' <=> Queued(f)
    BY <2>0 DEF Queued
  <2>2. TypeOK'
    BY <1>0, <1>1, <2>0, <2>1 DEF Enable, TypeOK, flags, stack, RadioStates
  <2>3. PowerHeard'
    BY <1>0, <1>1, <2>0, <2>1 DEF Enable, TypeOK, PowerHeard, ScanFlagTrue, NeverIdle, flags, stack
  <2>4. ScanFlagTrue'
    BY <1>0, <1>1, <2>0, <2>1 DEF Enable, TypeOK, PowerHeard, ScanFlagTrue, NeverIdle, flags, stack
  <2>5. NeverIdle'
    BY <1>0, <1>1, <2>0, <2>1 DEF Enable, TypeOK, PowerHeard, ScanFlagTrue, NeverIdle, flags, stack
  <2> QED
    BY <2>2, <2>3, <2>4, <2>5
<1>2. CASE Disable
  <2>1. /\ mail' \in Seq(Events) /\ Len(mail') <= Capacity /\ hurt' \in Hurts
        /\ \A f : Queued(f) => Queued(f)'
        /\ hurt' \in {hurt, "mail"}
    <3>1. CASE connected /\ link
      <4>1. Post("disconnected")
        BY <1>2, <3>1 DEF Disable, Disconnect
      <4> QED
        BY <1>0, <4>1, Posted DEF Events
    <3>2. CASE ~(connected /\ link)
      BY <1>0, <1>2, <3>2 DEF Disable, Disconnect, Queued
    <3> QED
      BY <3>1, <3>2
  <2>2. TypeOK'
    BY <1>0, <1>2, <2>1 DEF Disable, StopScan, Disconnect, TypeOK, flags, stack, RadioStates
  <2>3. PowerHeard'
    BY <1>0, <1>2, <2>1 DEF Disable, StopScan, Disconnect, TypeOK, PowerHeard, ScanFlagTrue, NeverIdle, flags, stack
  <2>4. ScanFlagTrue'
    BY <1>0, <1>2, <2>1 DEF Disable, StopScan, Disconnect, TypeOK, PowerHeard, ScanFlagTrue, NeverIdle, flags, stack
  <2>5. NeverIdle'
    BY <1>0, <1>2, <2>1 DEF Disable, StopScan, Disconnect, TypeOK, PowerHeard, ScanFlagTrue, NeverIdle, flags, stack
  <2> QED
    BY <2>2, <2>3, <2>4, <2>5
<1>3. CASE Cancel
  <2>1. /\ mail' \in Seq(Events) /\ Len(mail') <= Capacity /\ hurt' \in Hurts
        /\ \A f : Queued(f) => Queued(f)'
        /\ hurt' \in {hurt, "mail"}
    <3>1. CASE connected /\ link
      <4>1. Post("disconnected")
        BY <1>3, <3>1 DEF Cancel, Disconnect
      <4> QED
        BY <1>0, <4>1, Posted DEF Events
    <3>2. CASE ~(connected /\ link)
      BY <1>0, <1>3, <3>2 DEF Cancel, Disconnect, Queued
    <3> QED
      BY <3>1, <3>2
  <2>2. TypeOK'
    <3>1. mail' \in Seq(Events) /\ Len(mail') <= Capacity /\ hurt' \in Hurts
      BY <1>0, <1>3, <2>1 DEF Cancel, Disconnect, flags, stack
    <3>2. radio' \in RadioStates
      BY <1>3 DEF Cancel, Disconnect, flags, stack, TypeOK, RadioStates
    <3>3. lower' \in BOOLEAN /\ enabled' \in BOOLEAN /\ power' \in BOOLEAN /\ connected' \in BOOLEAN
      BY <1>3 DEF Cancel, Disconnect, flags, stack, TypeOK
    <3>4. /\ scanning' \in BOOLEAN /\ candidate' \in BOOLEAN /\ pending' \in BOOLEAN
          /\ connecting' \in BOOLEAN /\ reconnect' \in BOOLEAN
      BY <1>3 DEF Cancel, Disconnect, flags, stack, TypeOK
    <3>5. lit' \in BOOLEAN /\ attempt' \in BOOLEAN /\ link' \in BOOLEAN
      BY <1>3 DEF Cancel, Disconnect, flags, stack, TypeOK
    <3> QED
      BY <3>1, <3>2, <3>3, <3>4, <3>5 DEF TypeOK
  <2>3. PowerHeard'
    BY <1>0, <1>3, <2>1 DEF Cancel, Disconnect, TypeOK, PowerHeard, ScanFlagTrue, NeverIdle, flags, stack
  <2>4. ScanFlagTrue'
    BY <1>0, <1>3, <2>1 DEF Cancel, Disconnect, TypeOK, PowerHeard, ScanFlagTrue, NeverIdle, flags, stack
  <2>5. NeverIdle'
    BY <1>0, <1>3, <2>1 DEF Cancel, Disconnect, TypeOK, PowerHeard, ScanFlagTrue, NeverIdle, flags, stack
  <2> QED
    BY <2>2, <2>3, <2>4, <2>5
<1>4. CASE PowerEvent
  <2>0. Handles("power")
    BY <1>4 DEF PowerEvent
  <2>1. /\ mail' \in Seq(Events) /\ Len(mail') <= Capacity
        /\ \A f : f # "power" /\ Queued(f) => Queued(f)'
    BY <1>0, <2>0, Taken
  <2>2. TypeOK'
    BY <1>0, <1>4, <2>1 DEF PowerEvent, StartScan, Refused, TypeOK, flags, stack, RadioStates
  <2>3. PowerHeard'
    BY <1>0, <1>4, <2>1 DEF PowerEvent, StartScan, Refused, TypeOK, PowerHeard, ScanFlagTrue, NeverIdle, flags, stack
  <2>4. ScanFlagTrue'
    BY <1>0, <1>4, <2>1 DEF PowerEvent, StartScan, Refused, TypeOK, PowerHeard, ScanFlagTrue, NeverIdle, flags, stack
  <2>5. NeverIdle'
    BY <1>0, <1>4, <2>1 DEF PowerEvent, StartScan, Refused, TypeOK, PowerHeard, ScanFlagTrue, NeverIdle, flags, stack
  <2> QED
    BY <2>2, <2>3, <2>4, <2>5
<1>5. CASE AdvEvent
  <2>0. Handles("adv")
    BY <1>5 DEF AdvEvent
  <2>1. /\ mail' \in Seq(Events) /\ Len(mail') <= Capacity
        /\ \A f : f # "adv" /\ Queued(f) => Queued(f)'
    BY <1>0, <2>0, Taken
  <2>2. TypeOK'
    BY <1>0, <1>5, <2>1 DEF AdvEvent, TypeOK, flags, stack, RadioStates
  <2>3. PowerHeard'
    BY <1>0, <1>5, <2>1 DEF AdvEvent, TypeOK, PowerHeard, ScanFlagTrue, NeverIdle, flags, stack
  <2>4. ScanFlagTrue'
    BY <1>0, <1>5, <2>1 DEF AdvEvent, TypeOK, PowerHeard, ScanFlagTrue, NeverIdle, flags, stack
  <2>5. NeverIdle'
    BY <1>0, <1>5, <2>1 DEF AdvEvent, TypeOK, PowerHeard, ScanFlagTrue, NeverIdle, flags, stack
  <2> QED
    BY <2>2, <2>3, <2>4, <2>5
<1>6. CASE ConnectedEvent
  <2>0. Handles("connected")
    BY <1>6 DEF ConnectedEvent
  <2>1. /\ mail' \in Seq(Events) /\ Len(mail') <= Capacity
        /\ \A f : f # "connected" /\ Queued(f) => Queued(f)'
    BY <1>0, <2>0, Taken
  <2>2. TypeOK'
    <3>1. mail' \in Seq(Events) /\ Len(mail') <= Capacity /\ hurt' \in Hurts
      BY <1>0, <1>6, <2>1 DEF ConnectedEvent, flags, stack
    <3>2. radio' \in RadioStates
      BY <1>6 DEF ConnectedEvent, flags, stack, TypeOK, RadioStates
    <3>3. lower' \in BOOLEAN /\ enabled' \in BOOLEAN /\ power' \in BOOLEAN /\ connected' \in BOOLEAN
      BY <1>6 DEF ConnectedEvent, flags, stack, TypeOK
    <3>4. /\ scanning' \in BOOLEAN /\ candidate' \in BOOLEAN /\ pending' \in BOOLEAN
          /\ connecting' \in BOOLEAN /\ reconnect' \in BOOLEAN
      BY <1>6 DEF ConnectedEvent, flags, stack, TypeOK
    <3>5. lit' \in BOOLEAN /\ attempt' \in BOOLEAN /\ link' \in BOOLEAN
      BY <1>6 DEF ConnectedEvent, flags, stack, TypeOK
    <3> QED
      BY <3>1, <3>2, <3>3, <3>4, <3>5 DEF TypeOK
  <2>3. PowerHeard'
    BY <1>0, <1>6, <2>1 DEF ConnectedEvent, TypeOK, PowerHeard, ScanFlagTrue, NeverIdle, flags, stack
  <2>4. ScanFlagTrue'
    BY <1>0, <1>6, <2>1 DEF ConnectedEvent, TypeOK, PowerHeard, ScanFlagTrue, NeverIdle, flags, stack
  <2>5. NeverIdle'
    BY <1>0, <1>6, <2>1 DEF ConnectedEvent, TypeOK, PowerHeard, ScanFlagTrue, NeverIdle, flags, stack
  <2> QED
    BY <2>2, <2>3, <2>4, <2>5
<1>7. CASE DisconnectedEvent
  <2>0. Handles("disconnected")
    BY <1>7 DEF DisconnectedEvent
  <2>1. /\ mail' \in Seq(Events) /\ Len(mail') <= Capacity
        /\ \A f : f # "disconnected" /\ Queued(f) => Queued(f)'
    BY <1>0, <2>0, Taken
  <2>2. TypeOK'
    <3>1. mail' \in Seq(Events) /\ Len(mail') <= Capacity /\ hurt' \in Hurts
      BY <1>0, <1>7, <2>1 DEF DisconnectedEvent, flags, stack
    <3>2. radio' \in RadioStates
      BY <1>7 DEF DisconnectedEvent, flags, stack, TypeOK, RadioStates
    <3>3. lower' \in BOOLEAN /\ enabled' \in BOOLEAN /\ power' \in BOOLEAN /\ connected' \in BOOLEAN
      BY <1>7 DEF DisconnectedEvent, flags, stack, TypeOK
    <3>4. /\ scanning' \in BOOLEAN /\ candidate' \in BOOLEAN /\ pending' \in BOOLEAN
          /\ connecting' \in BOOLEAN /\ reconnect' \in BOOLEAN
      BY <1>7 DEF DisconnectedEvent, flags, stack, TypeOK
    <3>5. lit' \in BOOLEAN /\ attempt' \in BOOLEAN /\ link' \in BOOLEAN
      BY <1>7 DEF DisconnectedEvent, flags, stack, TypeOK
    <3> QED
      BY <3>1, <3>2, <3>3, <3>4, <3>5 DEF TypeOK
  <2>3. PowerHeard'
    BY <1>0, <1>7, <2>1 DEF DisconnectedEvent, TypeOK, PowerHeard, ScanFlagTrue, NeverIdle, flags, stack
  <2>4. ScanFlagTrue'
    BY <1>0, <1>7, <2>1 DEF DisconnectedEvent, TypeOK, PowerHeard, ScanFlagTrue, NeverIdle, flags, stack
  <2>5. NeverIdle'
    BY <1>0, <1>7, <2>1 DEF DisconnectedEvent, TypeOK, PowerHeard, ScanFlagTrue, NeverIdle, flags, stack
  <2> QED
    BY <2>2, <2>3, <2>4, <2>5
<1>8. CASE ScanStoppedEvent
  <2>0. Handles("scanStopped")
    BY <1>8 DEF ScanStoppedEvent
  <2>1. /\ mail' \in Seq(Events) /\ Len(mail') <= Capacity
        /\ \A f : f # "scanStopped" /\ Queued(f) => Queued(f)'
    BY <1>0, <2>0, Taken
  <2>2. TypeOK'
    <3>1. mail' \in Seq(Events) /\ Len(mail') <= Capacity /\ hurt' \in Hurts
      BY <1>0, <1>8, <2>1 DEF ScanStoppedEvent, flags, stack
    <3>2. radio' \in RadioStates
      BY <1>8 DEF ScanStoppedEvent, flags, stack, TypeOK, RadioStates
    <3>3. lower' \in BOOLEAN /\ enabled' \in BOOLEAN /\ power' \in BOOLEAN /\ connected' \in BOOLEAN
      BY <1>8 DEF ScanStoppedEvent, flags, stack, TypeOK
    <3>4. /\ scanning' \in BOOLEAN /\ candidate' \in BOOLEAN /\ pending' \in BOOLEAN
          /\ connecting' \in BOOLEAN /\ reconnect' \in BOOLEAN
      BY <1>8 DEF ScanStoppedEvent, flags, stack, TypeOK
    <3>5. lit' \in BOOLEAN /\ attempt' \in BOOLEAN /\ link' \in BOOLEAN
      BY <1>8 DEF ScanStoppedEvent, flags, stack, TypeOK
    <3> QED
      BY <3>1, <3>2, <3>3, <3>4, <3>5 DEF TypeOK
  <2>3. PowerHeard'
    BY <1>0, <1>8, <2>1 DEF ScanStoppedEvent, TypeOK, PowerHeard, ScanFlagTrue, NeverIdle, flags, stack
  <2>4. ScanFlagTrue'
    BY <1>0, <1>8, <2>1 DEF ScanStoppedEvent, TypeOK, PowerHeard, ScanFlagTrue, NeverIdle, flags, stack
  <2>5. NeverIdle'
    BY <1>0, <1>8, <2>1 DEF ScanStoppedEvent, TypeOK, PowerHeard, ScanFlagTrue, NeverIdle, flags, stack
  <2> QED
    BY <2>2, <2>3, <2>4, <2>5
<1>9. CASE Settle
  <2>0. UNCHANGED mail
    BY <1>9 DEF Settle, StopScan, flags, stack
  <2>1. \A f : Queued(f)' <=> Queued(f)
    BY <2>0 DEF Queued
  <2>2. TypeOK'
    <3>1. mail' \in Seq(Events) /\ Len(mail') <= Capacity /\ hurt' \in Hurts
      BY <1>0, <1>9, <2>0, <2>1 DEF Settle, StopScan, flags, stack
    <3>2. radio' \in RadioStates
      BY <1>9 DEF Settle, StopScan, flags, stack, TypeOK, RadioStates
    <3>3. lower' \in BOOLEAN /\ enabled' \in BOOLEAN /\ power' \in BOOLEAN /\ connected' \in BOOLEAN
      BY <1>9 DEF Settle, StopScan, flags, stack, TypeOK
    <3>4. /\ scanning' \in BOOLEAN /\ candidate' \in BOOLEAN /\ pending' \in BOOLEAN
          /\ connecting' \in BOOLEAN /\ reconnect' \in BOOLEAN
      BY <1>9 DEF Settle, StopScan, flags, stack, TypeOK
    <3>5. lit' \in BOOLEAN /\ attempt' \in BOOLEAN /\ link' \in BOOLEAN
      BY <1>9 DEF Settle, StopScan, flags, stack, TypeOK
    <3> QED
      BY <3>1, <3>2, <3>3, <3>4, <3>5 DEF TypeOK
  <2>3. PowerHeard'
    BY <1>0, <1>9, <2>0, <2>1 DEF Settle, StopScan, TypeOK, PowerHeard, ScanFlagTrue, NeverIdle, flags, stack
  <2>4. ScanFlagTrue'
    BY <1>0, <1>9, <2>0, <2>1 DEF Settle, StopScan, TypeOK, PowerHeard, ScanFlagTrue, NeverIdle, flags, stack
  <2>5. NeverIdle'
    BY <1>0, <1>9, <2>0, <2>1 DEF Settle, StopScan, TypeOK, PowerHeard, ScanFlagTrue, NeverIdle, flags, stack
  <2> QED
    BY <2>2, <2>3, <2>4, <2>5
<1>10. CASE CreateConnection
  <2>0. UNCHANGED mail
    BY <1>10 DEF CreateConnection, Refused, flags, stack
  <2>1. \A f : Queued(f)' <=> Queued(f)
    BY <2>0 DEF Queued
  <2>2. TypeOK'
    BY <1>0, <1>10, <2>0, <2>1 DEF CreateConnection, Refused, TypeOK, flags, stack, RadioStates
  <2>3. PowerHeard'
    BY <1>0, <1>10, <2>0, <2>1 DEF CreateConnection, Refused, TypeOK, PowerHeard, ScanFlagTrue, NeverIdle, flags, stack
  <2>4. ScanFlagTrue'
    BY <1>0, <1>10, <2>0, <2>1 DEF CreateConnection, Refused, TypeOK, PowerHeard, ScanFlagTrue, NeverIdle, flags, stack
  <2>5. NeverIdle'
    BY <1>0, <1>10, <2>0, <2>1 DEF CreateConnection, Refused, TypeOK, PowerHeard, ScanFlagTrue, NeverIdle, flags, stack
  <2> QED
    BY <2>2, <2>3, <2>4, <2>5
<1>11. CASE NextRound
  <2>0. UNCHANGED mail
    BY <1>11 DEF NextRound, StartScan, Refused, flags, stack
  <2>1. \A f : Queued(f)' <=> Queued(f)
    BY <2>0 DEF Queued
  <2>2. TypeOK'
    BY <1>0, <1>11, <2>0, <2>1 DEF NextRound, StartScan, Refused, TypeOK, flags, stack, RadioStates
  <2>3. PowerHeard'
    BY <1>0, <1>11, <2>0, <2>1 DEF NextRound, StartScan, Refused, TypeOK, PowerHeard, ScanFlagTrue, NeverIdle, flags, stack
  <2>4. ScanFlagTrue'
    BY <1>0, <1>11, <2>0, <2>1 DEF NextRound, StartScan, Refused, TypeOK, PowerHeard, ScanFlagTrue, NeverIdle, flags, stack
  <2>5. NeverIdle'
    BY <1>0, <1>11, <2>0, <2>1 DEF NextRound, StartScan, Refused, TypeOK, PowerHeard, ScanFlagTrue, NeverIdle, flags, stack
  <2> QED
    BY <2>2, <2>3, <2>4, <2>5
<1>12. CASE ConnectingTimeout
  <2>0. UNCHANGED mail
    BY <1>12 DEF ConnectingTimeout, flags, stack
  <2>1. \A f : Queued(f)' <=> Queued(f)
    BY <2>0 DEF Queued
  <2>2. TypeOK'
    BY <1>0, <1>12, <2>0, <2>1 DEF ConnectingTimeout, TypeOK, flags, stack, RadioStates
  <2>3. PowerHeard'
    BY <1>0, <1>12, <2>0, <2>1 DEF ConnectingTimeout, TypeOK, PowerHeard, ScanFlagTrue, NeverIdle, flags, stack
  <2>4. ScanFlagTrue'
    BY <1>0, <1>12, <2>0, <2>1 DEF ConnectingTimeout, TypeOK, PowerHeard, ScanFlagTrue, NeverIdle, flags, stack
  <2>5. NeverIdle'
    BY <1>0, <1>12, <2>0, <2>1 DEF ConnectingTimeout, TypeOK, PowerHeard, ScanFlagTrue, NeverIdle, flags, stack
  <2> QED
    BY <2>2, <2>3, <2>4, <2>5
<1>13. CASE PowerOn
  <2>0. Post("power")
    BY <1>13 DEF PowerOn
  <2>1. /\ mail' \in Seq(Events) /\ Len(mail') <= Capacity /\ hurt' \in Hurts
        /\ \A f : Queued(f) => Queued(f)'
        /\ Queued("power")' \/ hurt' = "mail"
        /\ hurt' \in {hurt, "mail"}
    BY <1>0, <2>0, Posted DEF Events
  <2>2. TypeOK'
    BY <1>0, <1>13, <2>1 DEF PowerOn, TypeOK, flags, stack, RadioStates
  <2>3. PowerHeard'
    BY <1>0, <1>13, <2>1 DEF PowerOn, TypeOK, PowerHeard, ScanFlagTrue, NeverIdle, flags, stack
  <2>4. ScanFlagTrue'
    BY <1>0, <1>13, <2>1 DEF PowerOn, TypeOK, PowerHeard, ScanFlagTrue, NeverIdle, flags, stack
  <2>5. NeverIdle'
    BY <1>0, <1>13, <2>1 DEF PowerOn, TypeOK, PowerHeard, ScanFlagTrue, NeverIdle, flags, stack
  <2> QED
    BY <2>2, <2>3, <2>4, <2>5
<1>14. CASE ScanConfirm
  <2>0. UNCHANGED mail
    BY <1>14 DEF ScanConfirm, Refused, flags, stack
  <2>1. \A f : Queued(f)' <=> Queued(f)
    BY <2>0 DEF Queued
  <2>2. TypeOK'
    <3>1. mail' \in Seq(Events) /\ Len(mail') <= Capacity /\ hurt' \in Hurts
      BY <1>0, <1>14, <2>0, <2>1 DEF ScanConfirm, Refused, flags, stack
    <3>2. radio' \in RadioStates
      BY <1>14 DEF ScanConfirm, Refused, flags, stack, TypeOK, RadioStates
    <3>3. lower' \in BOOLEAN /\ enabled' \in BOOLEAN /\ power' \in BOOLEAN /\ connected' \in BOOLEAN
      BY <1>14 DEF ScanConfirm, Refused, flags, stack, TypeOK
    <3>4. /\ scanning' \in BOOLEAN /\ candidate' \in BOOLEAN /\ pending' \in BOOLEAN
          /\ connecting' \in BOOLEAN /\ reconnect' \in BOOLEAN
      BY <1>14 DEF ScanConfirm, Refused, flags, stack, TypeOK
    <3>5. lit' \in BOOLEAN /\ attempt' \in BOOLEAN /\ link' \in BOOLEAN
      BY <1>14 DEF ScanConfirm, Refused, flags, stack, TypeOK
    <3> QED
      BY <3>1, <3>2, <3>3, <3>4, <3>5 DEF TypeOK
  <2>3. PowerHeard'
    BY <1>0, <1>14, <2>0, <2>1 DEF ScanConfirm, Refused, TypeOK, PowerHeard, ScanFlagTrue, NeverIdle, flags, stack
  <2>4. ScanFlagTrue'
    BY <1>0, <1>14, <2>0, <2>1 DEF ScanConfirm, Refused, TypeOK, PowerHeard, ScanFlagTrue, NeverIdle, flags, stack
  <2>5. NeverIdle'
    BY <1>0, <1>14, <2>0, <2>1 DEF ScanConfirm, Refused, TypeOK, PowerHeard, ScanFlagTrue, NeverIdle, flags, stack
  <2> QED
    BY <2>2, <2>3, <2>4, <2>5
<1>15. CASE ScanEnds
  <2>0. Post("scanStopped")
    BY <1>15 DEF ScanEnds
  <2>1. /\ mail' \in Seq(Events) /\ Len(mail') <= Capacity /\ hurt' \in Hurts
        /\ \A f : Queued(f) => Queued(f)'
        /\ Queued("scanStopped")' \/ hurt' = "mail"
        /\ hurt' \in {hurt, "mail"}
    BY <1>0, <2>0, Posted DEF Events
  <2>2. TypeOK'
    BY <1>0, <1>15, <2>1 DEF ScanEnds, TypeOK, flags, stack, RadioStates
  <2>3. PowerHeard'
    BY <1>0, <1>15, <2>1 DEF ScanEnds, TypeOK, PowerHeard, ScanFlagTrue, NeverIdle, flags, stack
  <2>4. ScanFlagTrue'
    BY <1>0, <1>15, <2>1 DEF ScanEnds, TypeOK, PowerHeard, ScanFlagTrue, NeverIdle, flags, stack
  <2>5. NeverIdle'
    BY <1>0, <1>15, <2>1 DEF ScanEnds, TypeOK, PowerHeard, ScanFlagTrue, NeverIdle, flags, stack
  <2> QED
    BY <2>2, <2>3, <2>4, <2>5
<1>16. CASE Adv
  <2>0. Post("adv")
    BY <1>16 DEF Adv
  <2>1. /\ mail' \in Seq(Events) /\ Len(mail') <= Capacity /\ hurt' \in Hurts
        /\ \A f : Queued(f) => Queued(f)'
        /\ Queued("adv")' \/ hurt' = "mail"
        /\ hurt' \in {hurt, "mail"}
    BY <1>0, <2>0, Posted DEF Events
  <2>2. TypeOK'
    BY <1>0, <1>16, <2>1 DEF Adv, TypeOK, flags, stack, RadioStates
  <2>3. PowerHeard'
    BY <1>0, <1>16, <2>1 DEF Adv, TypeOK, PowerHeard, ScanFlagTrue, NeverIdle, flags, stack
  <2>4. ScanFlagTrue'
    BY <1>0, <1>16, <2>1 DEF Adv, TypeOK, PowerHeard, ScanFlagTrue, NeverIdle, flags, stack
  <2>5. NeverIdle'
    BY <1>0, <1>16, <2>1 DEF Adv, TypeOK, PowerHeard, ScanFlagTrue, NeverIdle, flags, stack
  <2> QED
    BY <2>2, <2>3, <2>4, <2>5
<1>17. CASE AttemptSucceeds
  <2>0. Post("connected")
    BY <1>17 DEF AttemptSucceeds
  <2>1. /\ mail' \in Seq(Events) /\ Len(mail') <= Capacity /\ hurt' \in Hurts
        /\ \A f : Queued(f) => Queued(f)'
        /\ Queued("connected")' \/ hurt' = "mail"
        /\ hurt' \in {hurt, "mail"}
    BY <1>0, <2>0, Posted DEF Events
  <2>2. TypeOK'
    BY <1>0, <1>17, <2>1 DEF AttemptSucceeds, TypeOK, flags, stack, RadioStates
  <2>3. PowerHeard'
    BY <1>0, <1>17, <2>1 DEF AttemptSucceeds, TypeOK, PowerHeard, ScanFlagTrue, NeverIdle, flags, stack
  <2>4. ScanFlagTrue'
    BY <1>0, <1>17, <2>1 DEF AttemptSucceeds, TypeOK, PowerHeard, ScanFlagTrue, NeverIdle, flags, stack
  <2>5. NeverIdle'
    BY <1>0, <1>17, <2>1 DEF AttemptSucceeds, TypeOK, PowerHeard, ScanFlagTrue, NeverIdle, flags, stack
  <2> QED
    BY <2>2, <2>3, <2>4, <2>5
<1>18. CASE AttemptEnds
  <2>0. UNCHANGED mail
    BY <1>18 DEF AttemptEnds, flags, stack
  <2>1. \A f : Queued(f)' <=> Queued(f)
    BY <2>0 DEF Queued
  <2>2. TypeOK'
    <3>1. mail' \in Seq(Events) /\ Len(mail') <= Capacity /\ hurt' \in Hurts
      BY <1>0, <1>18, <2>0, <2>1 DEF AttemptEnds, flags, stack
    <3>2. radio' \in RadioStates
      BY <1>18 DEF AttemptEnds, flags, stack, TypeOK, RadioStates
    <3>3. lower' \in BOOLEAN /\ enabled' \in BOOLEAN /\ power' \in BOOLEAN /\ connected' \in BOOLEAN
      BY <1>18 DEF AttemptEnds, flags, stack, TypeOK
    <3>4. /\ scanning' \in BOOLEAN /\ candidate' \in BOOLEAN /\ pending' \in BOOLEAN
          /\ connecting' \in BOOLEAN /\ reconnect' \in BOOLEAN
      BY <1>18 DEF AttemptEnds, flags, stack, TypeOK
    <3>5. lit' \in BOOLEAN /\ attempt' \in BOOLEAN /\ link' \in BOOLEAN
      BY <1>18 DEF AttemptEnds, flags, stack, TypeOK
    <3> QED
      BY <3>1, <3>2, <3>3, <3>4, <3>5 DEF TypeOK
  <2>3. PowerHeard'
    BY <1>0, <1>18, <2>0, <2>1 DEF AttemptEnds, TypeOK, PowerHeard, ScanFlagTrue, NeverIdle, flags, stack
  <2>4. ScanFlagTrue'
    BY <1>0, <1>18, <2>0, <2>1 DEF AttemptEnds, TypeOK, PowerHeard, ScanFlagTrue, NeverIdle, flags, stack
  <2>5. NeverIdle'
    BY <1>0, <1>18, <2>0, <2>1 DEF AttemptEnds, TypeOK, PowerHeard, ScanFlagTrue, NeverIdle, flags, stack
  <2> QED
    BY <2>2, <2>3, <2>4, <2>5
<1>19. CASE PeerConnects
  <2>0. Post("connected")
    BY <1>19 DEF PeerConnects
  <2>1. /\ mail' \in Seq(Events) /\ Len(mail') <= Capacity /\ hurt' \in Hurts
        /\ \A f : Queued(f) => Queued(f)'
        /\ Queued("connected")' \/ hurt' = "mail"
        /\ hurt' \in {hurt, "mail"}
    BY <1>0, <2>0, Posted DEF Events
  <2>2. TypeOK'
    BY <1>0, <1>19, <2>1 DEF PeerConnects, TypeOK, flags, stack, RadioStates
  <2>3. PowerHeard'
    BY <1>0, <1>19, <2>1 DEF PeerConnects, TypeOK, PowerHeard, ScanFlagTrue, NeverIdle, flags, stack
  <2>4. ScanFlagTrue'
    BY <1>0, <1>19, <2>1 DEF PeerConnects, TypeOK, PowerHeard, ScanFlagTrue, NeverIdle, flags, stack
  <2>5. NeverIdle'
    BY <1>0, <1>19, <2>1 DEF PeerConnects, TypeOK, PowerHeard, ScanFlagTrue, NeverIdle, flags, stack
  <2> QED
    BY <2>2, <2>3, <2>4, <2>5
<1>20. CASE LinkLost
  <2>0. Post("disconnected")
    BY <1>20 DEF LinkLost
  <2>1. /\ mail' \in Seq(Events) /\ Len(mail') <= Capacity /\ hurt' \in Hurts
        /\ \A f : Queued(f) => Queued(f)'
        /\ Queued("disconnected")' \/ hurt' = "mail"
        /\ hurt' \in {hurt, "mail"}
    BY <1>0, <2>0, Posted DEF Events
  <2>2. TypeOK'
    <3>1. mail' \in Seq(Events) /\ Len(mail') <= Capacity /\ hurt' \in Hurts
      BY <1>0, <1>20, <2>1 DEF LinkLost, flags, stack
    <3>2. radio' \in RadioStates
      BY <1>20 DEF LinkLost, flags, stack, TypeOK, RadioStates
    <3>3. lower' \in BOOLEAN /\ enabled' \in BOOLEAN /\ power' \in BOOLEAN /\ connected' \in BOOLEAN
      BY <1>20 DEF LinkLost, flags, stack, TypeOK
    <3>4. /\ scanning' \in BOOLEAN /\ candidate' \in BOOLEAN /\ pending' \in BOOLEAN
          /\ connecting' \in BOOLEAN /\ reconnect' \in BOOLEAN
      BY <1>20 DEF LinkLost, flags, stack, TypeOK
    <3>5. lit' \in BOOLEAN /\ attempt' \in BOOLEAN /\ link' \in BOOLEAN
      BY <1>20 DEF LinkLost, flags, stack, TypeOK
    <3> QED
      BY <3>1, <3>2, <3>3, <3>4, <3>5 DEF TypeOK
  <2>3. PowerHeard'
    BY <1>0, <1>20, <2>1 DEF LinkLost, TypeOK, PowerHeard, ScanFlagTrue, NeverIdle, flags, stack
  <2>4. ScanFlagTrue'
    BY <1>0, <1>20, <2>1 DEF LinkLost, TypeOK, PowerHeard, ScanFlagTrue, NeverIdle, flags, stack
  <2>5. NeverIdle'
    BY <1>0, <1>20, <2>1 DEF LinkLost, TypeOK, PowerHeard, ScanFlagTrue, NeverIdle, flags, stack
  <2> QED
    BY <2>2, <2>3, <2>4, <2>5
<1>21. CASE ReleaseStale
  <2>0. UNCHANGED mail
    BY <1>21 DEF ReleaseStale, flags, stack
  <2>1. \A f : Queued(f)' <=> Queued(f)
    BY <2>0 DEF Queued
  <2>2. TypeOK'
    BY <1>0, <1>21, <2>0, <2>1 DEF ReleaseStale, TypeOK, flags, stack, RadioStates
  <2>3. PowerHeard'
    BY <1>0, <1>21, <2>0, <2>1 DEF ReleaseStale, TypeOK, PowerHeard, ScanFlagTrue, NeverIdle, flags, stack
  <2>4. ScanFlagTrue'
    BY <1>0, <1>21, <2>0, <2>1 DEF ReleaseStale, TypeOK, PowerHeard, ScanFlagTrue, NeverIdle, flags, stack
  <2>5. NeverIdle'
    BY <1>0, <1>21, <2>0, <2>1 DEF ReleaseStale, TypeOK, PowerHeard, ScanFlagTrue, NeverIdle, flags, stack
  <2> QED
    BY <2>2, <2>3, <2>4, <2>5
<1>22. CASE UNCHANGED vars
  <2>1. \A f : Queued(f)' <=> Queued(f)
    BY <1>22 DEF vars, Queued
  <2> QED
    BY <1>22, <2>1 DEF vars, TypeOK, PowerHeard, ScanFlagTrue, NeverIdle, flags, stack
<1> QED
  BY <1>1, <1>2, <1>3, <1>4, <1>5, <1>6, <1>7, <1>8, <1>9, <1>10, <1>11, <1>12, <1>13, <1>14, <1>15, <1>16, <1>17, <1>18, <1>19, <1>20, <1>21, <1>22
  DEF Next, Worker

\* The invariant holds in every reachable state.
LEMMA Invariant == Spec => []IInv
BY InitInv, StepInv, PTL DEF Spec

-----------------------------------------------------------------------------
(* Theorems                                                                *)

\* The mailbox never holds more than its capacity, and every flag keeps its
\* range, whatever the threads do.
THEOREM TypeCorrect == Spec => []TypeOK
<1>1. IInv => TypeOK
  BY DEF IInv
<1> QED
  BY <1>1, Invariant, PTL

\* The scanning flag is not left behind by a scan that has ended (vb_peer_start_scan
\* returns at once while it is set), unless the event that ends it was lost.
THEOREM FlagNeverStale == Spec => []ScanFlagTrue
<1>1. IInv => ScanFlagTrue
  BY DEF IInv
<1> QED
  BY <1>1, Invariant, PTL

\* A board that looks for the other one has a next round under way, unless a
\* request was refused or an event was lost.
THEOREM NeverStuck == Spec => []NeverIdle
<1>1. IInv => NeverIdle
  BY DEF IInv
<1> QED
  BY <1>1, Invariant, PTL
=============================================================================
