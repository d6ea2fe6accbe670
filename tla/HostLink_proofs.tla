--------------------------- MODULE HostLink_proofs --------------------------
(***************************************************************************)
(* Proofs about HostLink, for any number of connection indexes, any        *)
(* capacity of the mailbox and any choice of faults.                       *)
(***************************************************************************)
EXTENDS HostLink, FiniteSetTheorems, TLAPS

USE HostLinkAssumption

-----------------------------------------------------------------------------
(* The mailbox                                                             *)

\* An entry is written by one connection, if it is a line at all.
Pure(entry) == entry.kind = "line" => Cardinality(entry.from) = 1

\* The entries the callbacks post are entries; those of one connection are pure.
LEMMA EntryTypes ==
  /\ \A kind \in {"power", "restart"} : Entry(kind) \in Entries /\ Pure(Entry(kind))
  /\ \A from \in SUBSET Links : Line(from) \in Entries
  /\ \A n \in Links : Pure(Line({n}))
<1>1. \A kind \in {"power", "restart"} : Entry(kind) \in Entries /\ Pure(Entry(kind))
  BY DEF Entry, Entries, Pure
<1>2. \A from \in SUBSET Links : Line(from) \in Entries
  BY DEF Line, Entries
<1>3. ASSUME NEW n \in Links PROVE Pure(Line({n}))
  BY FS_Singleton DEF Line, Pure
<1> QED
  BY <1>1, <1>2, <1>3

\* Posting an entry keeps the mailbox within its capacity, and pure if it was
\* and the entry is.
LEMMA Posted ==
  ASSUME NEW e \in Entries, InputTypes, Post(e)
  PROVE  /\ mail' \in Seq(Entries) /\ Len(mail') <= Capacity
         /\ Pure(e) /\ (\A k \in DOMAIN mail : Pure(mail[k])) => \A k \in DOMAIN mail' : Pure(mail'[k])
<1>1. CASE mail' = mail
  BY <1>1 DEF InputTypes
<1>2. CASE Len(mail) < Capacity /\ mail' = Append(mail, e)
  <2>1. /\ Len(mail) \in Nat /\ mail' \in Seq(Entries) /\ Len(mail') = Len(mail) + 1
        /\ \A k \in 1..Len(mail) : mail'[k] = mail[k]
        /\ mail'[Len(mail) + 1] = e
    BY <1>2 DEF InputTypes
  <2> QED
    BY <1>2, <2>1 DEF InputTypes
<1> QED
  BY <1>1, <1>2 DEF Post, Sent

\* Taking an entry leaves the others.
LEMMA Taken ==
  ASSUME NEW kind, InputTypes, Takes(kind)
  PROVE  /\ mail' \in Seq(Entries) /\ Len(mail') <= Capacity
         /\ (\A k \in DOMAIN mail : Pure(mail[k])) => \A k \in DOMAIN mail' : Pure(mail'[k])
<1>1. Len(mail) \in Nat \ {0} /\ mail' = Tail(mail)
  BY DEF Takes, InputTypes
<1>2. /\ mail' \in Seq(Entries) /\ Len(mail') = Len(mail) - 1
      /\ \A k \in 1..Len(mail') : k + 1 \in 1..Len(mail) /\ mail'[k] = mail[k + 1]
  BY <1>1 DEF InputTypes
<1> QED
  BY <1>1, <1>2 DEF InputTypes

-----------------------------------------------------------------------------
(* The restart of advertising                                              *)

\* A restart gives up after its last attempt.  It needs a bound on the attempts
\* made while it runs, which is why tries is not only bounded.
RestartBounded == pc = "restart" => tries < Attempts

LEMMA RestartEnds ==
  ASSUME tries \in 0..Attempts, RestartBounded, Restart
  PROVE  tries' \in 0..Attempts /\ RestartBounded'
BY DEF Restart, RestartBounded

-----------------------------------------------------------------------------
(* The inductive invariant                                                 *)

\* While every end of a connection is reported, bytes that wait for the rest of
\* their line are the owner's, and of its present connection or one whose end
\* will drop them.
RxOwned ==
  ~lost /\ rx # {} /\ owner # NoConn /\ owner \notin ending => Up(owner) /\ rx = {link[owner]}

AllPure == \A k \in DOMAIN mail : Pure(mail[k])

IInv == TypeOK /\ FlagTrue /\ RestartBounded /\ RxOwned /\ (~lost => AllPure)

\* The initial states satisfy it.
LEMMA InitInv == Init => IInv
<1> SUFFICES ASSUME Init PROVE IInv
  OBVIOUS
<1>1. BoardTypes
  BY DEF Init, BoardTypes
<1>2. InputTypes
  BY DEF Init, InputTypes
<1>3. StackTypes
  BY DEF Init, StackTypes, Radios, Up
<1>4. pc \in Steps /\ tries \in 0..Attempts /\ faults \in 0..MaxFaults /\ lost \in BOOLEAN
  <2>1. tries = 0 /\ faults = 0 /\ pc = "wait" /\ lost = FALSE
    BY DEF Init
  <2>2. 0 \in 0..Attempts /\ 0 \in 0..MaxFaults
    OBVIOUS
  <2> QED
    BY <2>1, <2>2 DEF Steps
<1>5. TypeOK
  BY <1>1, <1>2, <1>3, <1>4 DEF TypeOK
<1> QED
  BY <1>5 DEF Init, IInv, FlagTrue, RestartBounded, RxOwned, AllPure

\* Every step of the stack, the hosts and the worker keeps it.
LEMMA StepInv == IInv /\ [Next]_vars => IInv'
<1> SUFFICES ASSUME IInv, [Next]_vars PROVE IInv'
  OBVIOUS
<1>0. TypeOK /\ BoardTypes /\ InputTypes /\ StackTypes /\ FlagTrue /\ RestartBounded /\ RxOwned
     /\ (~lost => AllPure)
  BY DEF IInv, TypeOK
<1>1. CASE PowerOn
  <2>1. InputTypes' /\ (~lost' => AllPure')
    <3>1. Post(Entry("power")) /\ UNCHANGED <<rx, lost>>
      BY <1>1 DEF PowerOn, board, input, worker, stack
    <3> QED
      BY <1>0, <3>1, EntryTypes, Posted DEF InputTypes, AllPure
  <2>2. BoardTypes'
    BY <1>0, <1>1 DEF PowerOn, BoardTypes, board, input, worker, stack
  <2>3. StackTypes'
    BY <1>0, <1>1 DEF PowerOn, StackTypes, Radios, Up, board, input, worker, stack
  <2>4. pc' \in Steps /\ tries' \in 0..Attempts /\ faults' \in 0..MaxFaults /\ lost' \in BOOLEAN
    BY <1>0, <1>1 DEF PowerOn, TypeOK, Steps, board, input, worker, stack
  <2>5. FlagTrue'
    BY <1>0, <1>1 DEF PowerOn, FlagTrue, board, input, worker, stack
  <2>6. RxOwned'
    BY <1>0, <1>1 DEF PowerOn, RxOwned, StackTypes, BoardTypes, Up, board, input, worker, stack
  <2>7. RestartBounded'
    BY <1>0, <1>1 DEF PowerOn, RestartBounded, board, input, worker, stack
  <2> QED
    BY <2>1, <2>2, <2>3, <2>4, <2>5, <2>6, <2>7 DEF IInv, TypeOK
<1>2. ASSUME NEW i \in Conns, Connect(i) PROVE IInv'
  <2>1. InputTypes' /\ (~lost' => AllPure')
    BY <1>0, <1>2 DEF Connect, InputTypes, AllPure, board, input, worker, stack
  <2>2. BoardTypes'
    BY <1>0, <1>2 DEF Connect, BoardTypes, board, input, worker, stack
  <2>3. StackTypes'
    BY <1>0, <1>2 DEF Connect, StackTypes, Radios, Up, board, input, worker, stack
  <2>4. pc' \in Steps /\ tries' \in 0..Attempts /\ faults' \in 0..MaxFaults /\ lost' \in BOOLEAN
    BY <1>0, <1>2 DEF Connect, TypeOK, Steps, board, input, worker, stack
  <2>5. FlagTrue'
    BY <1>0, <1>2 DEF Connect, FlagTrue, board, input, worker, stack
  <2>6. RxOwned'
    BY <1>0, <1>2 DEF Connect, RxOwned, StackTypes, BoardTypes, Up, board, input, worker, stack
  <2>7. RestartBounded'
    BY <1>0, <1>2 DEF Connect, RestartBounded, board, input, worker, stack
  <2> QED
    BY <2>1, <2>2, <2>3, <2>4, <2>5, <2>6, <2>7 DEF IInv, TypeOK
<1>3. CASE AdvStarted
  <2>1. InputTypes' /\ (~lost' => AllPure')
    <3>1. (Post(Entry("restart")) \/ UNCHANGED mail) /\ UNCHANGED <<rx, lost>>
      BY <1>3 DEF AdvStarted, Fault, board, input, worker, stack
    <3> QED
      BY <1>0, <3>1, EntryTypes, Posted DEF InputTypes, AllPure
  <2>2. BoardTypes'
    BY <1>0, <1>3 DEF AdvStarted, Fault, BoardTypes, board, input, worker, stack
  <2>3. StackTypes'
    BY <1>0, <1>3 DEF AdvStarted, Fault, StackTypes, Radios, Up, board, input, worker, stack
  <2>4. pc' \in Steps /\ tries' \in 0..Attempts /\ faults' \in 0..MaxFaults /\ lost' \in BOOLEAN
    BY <1>0, <1>3 DEF AdvStarted, Fault, TypeOK, Steps, board, input, worker, stack
  <2>5. FlagTrue'
    BY <1>0, <1>3 DEF AdvStarted, Fault, FlagTrue, board, input, worker, stack
  <2>6. RxOwned'
    BY <1>0, <1>3 DEF AdvStarted, Fault, RxOwned, StackTypes, BoardTypes, Up, board, input, worker, stack
  <2>7. RestartBounded'
    BY <1>0, <1>3 DEF AdvStarted, RestartBounded, board, input, worker, stack
  <2> QED
    BY <2>1, <2>2, <2>3, <2>4, <2>5, <2>6, <2>7 DEF IInv, TypeOK
<1>4. CASE AdvStopped
  <2>1. InputTypes' /\ (~lost' => AllPure')
    <3>1. Post(Entry("restart")) /\ UNCHANGED <<rx, lost>>
      BY <1>4 DEF AdvStopped, board, input, worker, stack
    <3> QED
      BY <1>0, <3>1, EntryTypes, Posted DEF InputTypes, AllPure
  <2>2. BoardTypes'
    BY <1>0, <1>4 DEF AdvStopped, BoardTypes, board, input, worker, stack
  <2>3. StackTypes'
    BY <1>0, <1>4 DEF AdvStopped, StackTypes, Radios, Up, board, input, worker, stack
  <2>4. pc' \in Steps /\ tries' \in 0..Attempts /\ faults' \in 0..MaxFaults /\ lost' \in BOOLEAN
    BY <1>0, <1>4 DEF AdvStopped, TypeOK, Steps, board, input, worker, stack
  <2>5. FlagTrue'
    BY <1>0, <1>4 DEF AdvStopped, FlagTrue, board, input, worker, stack
  <2>6. RxOwned'
    BY <1>0, <1>4 DEF AdvStopped, RxOwned, StackTypes, BoardTypes, Up, board, input, worker, stack
  <2>7. RestartBounded'
    BY <1>0, <1>4 DEF AdvStopped, RestartBounded, board, input, worker, stack
  <2> QED
    BY <2>1, <2>2, <2>3, <2>4, <2>5, <2>6, <2>7 DEF IInv, TypeOK
<1>5. ASSUME NEW i \in Conns, LinkDown(i) PROVE IInv'
  <2>1. InputTypes' /\ (~lost' => AllPure')
    BY <1>0, <1>5 DEF LinkDown, InputTypes, AllPure, board, input, worker, stack
  <2>2. BoardTypes'
    BY <1>0, <1>5 DEF LinkDown, BoardTypes, board, input, worker, stack
  <2>3. StackTypes'
    BY <1>0, <1>5 DEF LinkDown, StackTypes, Radios, Up, board, input, worker, stack
  <2>4. pc' \in Steps /\ tries' \in 0..Attempts /\ faults' \in 0..MaxFaults /\ lost' \in BOOLEAN
    BY <1>0, <1>5 DEF LinkDown, TypeOK, Steps, board, input, worker, stack
  <2>5. FlagTrue'
    BY <1>0, <1>5 DEF LinkDown, FlagTrue, board, input, worker, stack
  <2>6. RxOwned'
    BY <1>0, <1>5 DEF LinkDown, RxOwned, StackTypes, BoardTypes, Up, board, input, worker, stack
  <2>7. RestartBounded'
    BY <1>0, <1>5 DEF LinkDown, RestartBounded, board, input, worker, stack
  <2> QED
    BY <2>1, <2>2, <2>3, <2>4, <2>5, <2>6, <2>7 DEF IInv, TypeOK
<1>6. ASSUME NEW i \in Conns, Disconnected(i) PROVE IInv'
  <2>1. InputTypes' /\ (~lost' => AllPure')
    <3>1. (Post(Entry("restart")) \/ UNCHANGED mail) /\ rx' \in {rx, {}} /\ UNCHANGED lost
      BY <1>6 DEF Disconnected, board, input, worker, stack
    <3> QED
      BY <1>0, <3>1, EntryTypes, Posted DEF InputTypes, AllPure
  <2>2. BoardTypes'
    BY <1>0, <1>6 DEF Disconnected, BoardTypes, board, input, worker, stack
  <2>3. StackTypes'
    BY <1>0, <1>6 DEF Disconnected, StackTypes, Radios, Up, board, input, worker, stack
  <2>4. pc' \in Steps /\ tries' \in 0..Attempts /\ faults' \in 0..MaxFaults /\ lost' \in BOOLEAN
    BY <1>0, <1>6 DEF Disconnected, TypeOK, Steps, board, input, worker, stack
  <2>5. FlagTrue'
    BY <1>0, <1>6 DEF Disconnected, FlagTrue, board, input, worker, stack
  <2>6. RxOwned'
    BY <1>0, <1>6 DEF Disconnected, RxOwned, StackTypes, BoardTypes, Up, board, input, worker, stack
  <2>7. RestartBounded'
    BY <1>0, <1>6 DEF Disconnected, RestartBounded, board, input, worker, stack
  <2> QED
    BY <2>1, <2>2, <2>3, <2>4, <2>5, <2>6, <2>7 DEF IInv, TypeOK
<1>7. ASSUME NEW i \in Conns, EventLost(i) PROVE IInv'
  <2>1. InputTypes' /\ (~lost' => AllPure')
    BY <1>0, <1>7 DEF EventLost, Fault, InputTypes, AllPure, board, input, worker, stack
  <2>2. BoardTypes'
    BY <1>0, <1>7 DEF EventLost, Fault, BoardTypes, board, input, worker, stack
  <2>3. StackTypes'
    BY <1>0, <1>7 DEF EventLost, Fault, StackTypes, Radios, Up, board, input, worker, stack
  <2>4. pc' \in Steps /\ tries' \in 0..Attempts /\ faults' \in 0..MaxFaults /\ lost' \in BOOLEAN
    BY <1>0, <1>7 DEF EventLost, Fault, TypeOK, Steps, board, input, worker, stack
  <2>5. FlagTrue'
    BY <1>0, <1>7 DEF EventLost, Fault, FlagTrue, board, input, worker, stack
  <2>6. RxOwned'
    BY <1>0, <1>7 DEF EventLost, Fault, RxOwned, StackTypes, BoardTypes, Up, board, input, worker, stack
  <2>7. RestartBounded'
    BY <1>0, <1>7 DEF EventLost, RestartBounded, board, input, worker, stack
  <2> QED
    BY <2>1, <2>2, <2>3, <2>4, <2>5, <2>6, <2>7 DEF IInv, TypeOK
<1>8. CASE AdvEnds
  <2>1. InputTypes' /\ (~lost' => AllPure')
    BY <1>0, <1>8 DEF AdvEnds, Fault, InputTypes, AllPure, board, input, worker, stack
  <2>2. BoardTypes'
    BY <1>0, <1>8 DEF AdvEnds, Fault, BoardTypes, board, input, worker, stack
  <2>3. StackTypes'
    BY <1>0, <1>8 DEF AdvEnds, Fault, StackTypes, Radios, Up, board, input, worker, stack
  <2>4. pc' \in Steps /\ tries' \in 0..Attempts /\ faults' \in 0..MaxFaults /\ lost' \in BOOLEAN
    BY <1>0, <1>8 DEF AdvEnds, Fault, TypeOK, Steps, board, input, worker, stack
  <2>5. FlagTrue'
    BY <1>0, <1>8 DEF AdvEnds, Fault, FlagTrue, board, input, worker, stack
  <2>6. RxOwned'
    BY <1>0, <1>8 DEF AdvEnds, Fault, RxOwned, StackTypes, BoardTypes, Up, board, input, worker, stack
  <2>7. RestartBounded'
    BY <1>0, <1>8 DEF AdvEnds, RestartBounded, board, input, worker, stack
  <2> QED
    BY <2>1, <2>2, <2>3, <2>4, <2>5, <2>6, <2>7 DEF IInv, TypeOK
<1>9. CASE Ages
  <2>1. InputTypes' /\ (~lost' => AllPure')
    BY <1>0, <1>9 DEF Ages, InputTypes, AllPure, board, input, worker, stack
  <2>2. BoardTypes'
    BY <1>0, <1>9 DEF Ages, BoardTypes, board, input, worker, stack
  <2>3. StackTypes'
    BY <1>0, <1>9 DEF Ages, StackTypes, Radios, Up, board, input, worker, stack
  <2>4. pc' \in Steps /\ tries' \in 0..Attempts /\ faults' \in 0..MaxFaults /\ lost' \in BOOLEAN
    BY <1>0, <1>9 DEF Ages, TypeOK, Steps, board, input, worker, stack
  <2>5. FlagTrue'
    BY <1>0, <1>9 DEF Ages, FlagTrue, board, input, worker, stack
  <2>6. RxOwned'
    BY <1>0, <1>9 DEF Ages, RxOwned, StackTypes, BoardTypes, Up, board, input, worker, stack
  <2>7. RestartBounded'
    BY <1>0, <1>9 DEF Ages, RestartBounded, board, input, worker, stack
  <2> QED
    BY <2>1, <2>2, <2>3, <2>4, <2>5, <2>6, <2>7 DEF IInv, TypeOK
<1>10. ASSUME NEW i \in Conns, WritePart(i) PROVE IInv'
  <2>1. InputTypes' /\ (~lost' => AllPure')
    <3>1. link[i] \in Links /\ rx \subseteq Links
      BY <1>0, <1>10 DEF WritePart, MayClaim, InputTypes, StackTypes, Links, Up
    <3>2. rx' \subseteq Links /\ UNCHANGED <<mail, lost>>
      BY <1>10, <3>1 DEF WritePart, Kept
    <3> QED
      BY <1>0, <3>2 DEF InputTypes, AllPure
  <2>2. BoardTypes'
    BY <1>0, <1>10 DEF WritePart, MayClaim, Kept, BoardTypes, board, input, worker, stack
  <2>3. StackTypes'
    BY <1>0, <1>10 DEF WritePart, MayClaim, Kept, StackTypes, Radios, Up, board, input, worker, stack
  <2>4. pc' \in Steps /\ tries' \in 0..Attempts /\ faults' \in 0..MaxFaults /\ lost' \in BOOLEAN
    BY <1>0, <1>10 DEF WritePart, MayClaim, Kept, TypeOK, Steps, board, input, worker, stack
  <2>5. FlagTrue'
    BY <1>0, <1>10 DEF WritePart, MayClaim, Kept, FlagTrue, board, input, worker, stack
  <2>6. RxOwned'
    BY <1>0, <1>10 DEF WritePart, MayClaim, Kept, RxOwned, StackTypes, BoardTypes, Up, board, input, worker, stack
  <2>7. RestartBounded'
    BY <1>0, <1>10 DEF WritePart, RestartBounded, board, input, worker, stack
  <2> QED
    BY <2>1, <2>2, <2>3, <2>4, <2>5, <2>6, <2>7 DEF IInv, TypeOK
<1>11. ASSUME NEW i \in Conns, WriteLine(i) PROVE IInv'
  <2>1. InputTypes' /\ (~lost' => AllPure')
    <3>1. Post(Line(Kept(i) \cup {link[i]})) /\ rx' = {} /\ UNCHANGED lost
      BY <1>11 DEF WriteLine
    <3>2. link[i] \in Links /\ i \notin ending /\ i # NoConn /\ Up(i) /\ owner \in {NoConn, i}
      BY <1>0, <1>11 DEF WriteLine, MayClaim, StackTypes, Links, Up
    <3>3. Line(Kept(i) \cup {link[i]}) \in Entries
      BY <1>0, <3>2, EntryTypes DEF Kept, InputTypes
    <3>4. ~lost => Kept(i) \cup {link[i]} = {link[i]}
      BY <1>0, <3>2 DEF Kept, RxOwned
    <3>5. ~lost => Pure(Line(Kept(i) \cup {link[i]}))
      BY <3>2, <3>4, EntryTypes
    <3> QED
      BY <1>0, <3>1, <3>3, <3>5, Posted DEF InputTypes, AllPure
  <2>2. BoardTypes'
    BY <1>0, <1>11 DEF WriteLine, MayClaim, Kept, BoardTypes, board, input, worker, stack
  <2>3. StackTypes'
    BY <1>0, <1>11 DEF WriteLine, MayClaim, Kept, StackTypes, Radios, Up, board, input, worker, stack
  <2>4. pc' \in Steps /\ tries' \in 0..Attempts /\ faults' \in 0..MaxFaults /\ lost' \in BOOLEAN
    BY <1>0, <1>11 DEF WriteLine, MayClaim, Kept, TypeOK, Steps, board, input, worker, stack
  <2>5. FlagTrue'
    BY <1>0, <1>11 DEF WriteLine, MayClaim, Kept, FlagTrue, board, input, worker, stack
  <2>6. RxOwned'
    BY <1>0, <1>11 DEF WriteLine, MayClaim, Kept, RxOwned, StackTypes, BoardTypes, Up, board, input, worker, stack
  <2>7. RestartBounded'
    BY <1>0, <1>11 DEF WriteLine, RestartBounded, board, input, worker, stack
  <2> QED
    BY <2>1, <2>2, <2>3, <2>4, <2>5, <2>6, <2>7 DEF IInv, TypeOK
<1>12. ASSUME NEW i \in Conns, WritePacket(i) PROVE IInv'
  <2>1. InputTypes' /\ (~lost' => AllPure')
    <3>1. (Post(Line({link[i]})) \/ UNCHANGED mail) /\ rx' = {} /\ UNCHANGED lost
      BY <1>12 DEF WritePacket, MayClaim, Kept, board, input, worker, stack
    <3>2. link[i] \in Links
      BY <1>0, <1>12 DEF WritePacket, MayClaim, Kept, StackTypes, Links, Up
    <3>3. Line({link[i]}) \in Entries /\ Pure(Line({link[i]}))
      BY <3>2, EntryTypes
    <3> QED
      BY <1>0, <3>1, <3>3, Posted DEF InputTypes, AllPure
  <2>2. BoardTypes'
    BY <1>0, <1>12 DEF WritePacket, MayClaim, Kept, BoardTypes, board, input, worker, stack
  <2>3. StackTypes'
    BY <1>0, <1>12 DEF WritePacket, MayClaim, Kept, StackTypes, Radios, Up, board, input, worker, stack
  <2>4. pc' \in Steps /\ tries' \in 0..Attempts /\ faults' \in 0..MaxFaults /\ lost' \in BOOLEAN
    BY <1>0, <1>12 DEF WritePacket, MayClaim, Kept, TypeOK, Steps, board, input, worker, stack
  <2>5. FlagTrue'
    BY <1>0, <1>12 DEF WritePacket, MayClaim, Kept, FlagTrue, board, input, worker, stack
  <2>6. RxOwned'
    BY <1>0, <1>12 DEF WritePacket, MayClaim, Kept, RxOwned, StackTypes, BoardTypes, Up, board, input, worker, stack
  <2>7. RestartBounded'
    BY <1>0, <1>12 DEF WritePacket, RestartBounded, board, input, worker, stack
  <2> QED
    BY <2>1, <2>2, <2>3, <2>4, <2>5, <2>6, <2>7 DEF IInv, TypeOK
<1>13. ASSUME NEW i \in Conns, Subscribe(i) PROVE IInv'
  <2>1. InputTypes' /\ (~lost' => AllPure')
    BY <1>0, <1>13 DEF Subscribe, MayClaim, Kept, InputTypes, AllPure, board, input, worker, stack
  <2>2. BoardTypes'
    BY <1>0, <1>13 DEF Subscribe, MayClaim, Kept, BoardTypes, board, input, worker, stack
  <2>3. StackTypes'
    BY <1>0, <1>13 DEF Subscribe, MayClaim, Kept, StackTypes, Radios, Up, board, input, worker, stack
  <2>4. pc' \in Steps /\ tries' \in 0..Attempts /\ faults' \in 0..MaxFaults /\ lost' \in BOOLEAN
    BY <1>0, <1>13 DEF Subscribe, MayClaim, Kept, TypeOK, Steps, board, input, worker, stack
  <2>5. FlagTrue'
    BY <1>0, <1>13 DEF Subscribe, MayClaim, Kept, FlagTrue, board, input, worker, stack
  <2>6. RxOwned'
    BY <1>0, <1>13 DEF Subscribe, MayClaim, Kept, RxOwned, StackTypes, BoardTypes, Up, board, input, worker, stack
  <2>7. RestartBounded'
    BY <1>0, <1>13 DEF Subscribe, RestartBounded, board, input, worker, stack
  <2> QED
    BY <2>1, <2>2, <2>3, <2>4, <2>5, <2>6, <2>7 DEF IInv, TypeOK
<1>14. CASE TakePower
  <2>1. InputTypes' /\ (~lost' => AllPure')
    <3>1. Takes("power") /\ UNCHANGED <<rx, lost>>
      BY <1>14 DEF TakePower, Started, Refused, Fault, board, input, worker, stack
    <3> QED
      BY <1>0, <3>1, Taken DEF InputTypes, AllPure
  <2>2. BoardTypes'
    BY <1>0, <1>14 DEF TakePower, Started, Refused, Fault, BoardTypes, board, input, worker, stack
  <2>3. StackTypes'
    BY <1>0, <1>14 DEF TakePower, Started, Refused, Fault, StackTypes, Radios, Up, board, input, worker, stack
  <2>4. pc' \in Steps /\ tries' \in 0..Attempts /\ faults' \in 0..MaxFaults /\ lost' \in BOOLEAN
    BY <1>0, <1>14 DEF TakePower, Started, Refused, Fault, Takes, TypeOK, Steps, board, input, worker, stack
  <2>5. FlagTrue'
    BY <1>0, <1>14 DEF TakePower, Started, Refused, Fault, FlagTrue, board, input, worker, stack
  <2>6. RxOwned'
    BY <1>0, <1>14 DEF TakePower, Started, Refused, Fault, RxOwned, StackTypes, BoardTypes, Up, board, input, worker, stack
  <2>7. RestartBounded'
    BY <1>0, <1>14 DEF TakePower, Takes, Started, Refused, Fault, RestartBounded, board, input, worker, stack
  <2> QED
    BY <2>1, <2>2, <2>3, <2>4, <2>5, <2>6, <2>7 DEF IInv, TypeOK
<1>15. CASE TakeRestart
  <2>1. InputTypes' /\ (~lost' => AllPure')
    <3>1. Takes("restart") /\ UNCHANGED <<rx, lost>>
      BY <1>15 DEF TakeRestart, board, input, worker, stack
    <3> QED
      BY <1>0, <3>1, Taken DEF InputTypes, AllPure
  <2>2. BoardTypes'
    BY <1>0, <1>15 DEF TakeRestart, BoardTypes, board, input, worker, stack
  <2>3. StackTypes'
    BY <1>0, <1>15 DEF TakeRestart, StackTypes, Radios, Up, board, input, worker, stack
  <2>4. pc' \in Steps /\ tries' \in 0..Attempts /\ faults' \in 0..MaxFaults /\ lost' \in BOOLEAN
    BY <1>0, <1>15 DEF TakeRestart, Takes, TypeOK, Steps, board, input, worker, stack
  <2>5. FlagTrue'
    BY <1>0, <1>15 DEF TakeRestart, FlagTrue, board, input, worker, stack
  <2>6. RxOwned'
    BY <1>0, <1>15 DEF TakeRestart, RxOwned, StackTypes, BoardTypes, Up, board, input, worker, stack
  <2>7. RestartBounded'
    BY <1>0, <1>15 DEF TakeRestart, RestartBounded, board, input, worker, stack
  <2> QED
    BY <2>1, <2>2, <2>3, <2>4, <2>5, <2>6, <2>7 DEF IInv, TypeOK
<1>16. CASE Restart
  <2>1. InputTypes' /\ (~lost' => AllPure')
    BY <1>0, <1>16 DEF Restart, Wanted, Started, Refused, Fault, InputTypes, AllPure, board, input, worker, stack
  <2>2. BoardTypes'
    BY <1>0, <1>16 DEF Restart, Wanted, Started, Refused, Fault, BoardTypes, board, input, worker, stack
  <2>3. StackTypes'
    BY <1>0, <1>16 DEF Restart, Wanted, Started, Refused, Fault, StackTypes, Radios, Up, board, input, worker, stack
  <2>4. pc' \in Steps /\ tries' \in 0..Attempts /\ faults' \in 0..MaxFaults /\ lost' \in BOOLEAN
    <3>1. pc' \in {"check", "restart"} /\ UNCHANGED lost
      BY <1>16 DEF Restart
    <3>2. faults' \in 0..MaxFaults
      BY <1>0, <1>16 DEF Restart, Started, Refused, Fault, TypeOK
    <3>3. tries' \in 0..Attempts
      BY <1>0, <1>16, RestartEnds DEF TypeOK
    <3> QED
      BY <1>0, <3>1, <3>2, <3>3 DEF TypeOK, Steps
  <2>5. FlagTrue'
    BY <1>0, <1>16 DEF Restart, Wanted, Started, Refused, Fault, FlagTrue, board, input, worker, stack
  <2>6. RxOwned'
    BY <1>0, <1>16 DEF Restart, Wanted, Started, Refused, Fault, RxOwned, StackTypes, BoardTypes, Up, board, input, worker, stack
  <2>7. RestartBounded'
    BY <1>0, <1>16, RestartEnds DEF TypeOK
  <2> QED
    BY <2>1, <2>2, <2>3, <2>4, <2>5, <2>6, <2>7 DEF IInv, TypeOK
<1>17. CASE TakeLine
  <2>1. InputTypes' /\ (~lost' => AllPure')
    <3>1. Takes("line") /\ UNCHANGED <<rx, lost>>
      BY <1>17 DEF TakeLine, board, input, worker, stack
    <3> QED
      BY <1>0, <3>1, Taken DEF InputTypes, AllPure
  <2>2. BoardTypes'
    BY <1>0, <1>17 DEF TakeLine, BoardTypes, board, input, worker, stack
  <2>3. StackTypes'
    BY <1>0, <1>17 DEF TakeLine, StackTypes, Radios, Up, board, input, worker, stack
  <2>4. pc' \in Steps /\ tries' \in 0..Attempts /\ faults' \in 0..MaxFaults /\ lost' \in BOOLEAN
    BY <1>0, <1>17 DEF TakeLine, Takes, TypeOK, Steps, board, input, worker, stack
  <2>5. FlagTrue'
    BY <1>0, <1>17 DEF TakeLine, FlagTrue, board, input, worker, stack
  <2>6. RxOwned'
    BY <1>0, <1>17 DEF TakeLine, RxOwned, StackTypes, BoardTypes, Up, board, input, worker, stack
  <2>7. RestartBounded'
    BY <1>0, <1>17 DEF TakeLine, Takes, RestartBounded, board, input, worker, stack
  <2> QED
    BY <2>1, <2>2, <2>3, <2>4, <2>5, <2>6, <2>7 DEF IInv, TypeOK
<1>18. CASE TakeForce
  <2>1. InputTypes' /\ (~lost' => AllPure')
    <3>1. Takes("line") /\ UNCHANGED <<rx, lost>>
      BY <1>18 DEF TakeForce, board, input, worker, stack
    <3> QED
      BY <1>0, <3>1, Taken DEF InputTypes, AllPure
  <2>2. BoardTypes'
    BY <1>0, <1>18 DEF TakeForce, BoardTypes, board, input, worker, stack
  <2>3. StackTypes'
    BY <1>0, <1>18 DEF TakeForce, StackTypes, Radios, Up, board, input, worker, stack
  <2>4. pc' \in Steps /\ tries' \in 0..Attempts /\ faults' \in 0..MaxFaults /\ lost' \in BOOLEAN
    BY <1>0, <1>18 DEF TakeForce, Takes, TypeOK, Steps, board, input, worker, stack
  <2>5. FlagTrue'
    BY <1>0, <1>18 DEF TakeForce, FlagTrue, board, input, worker, stack
  <2>6. RxOwned'
    BY <1>0, <1>18 DEF TakeForce, RxOwned, StackTypes, BoardTypes, Up, board, input, worker, stack
  <2>7. RestartBounded'
    BY <1>0, <1>18 DEF TakeForce, RestartBounded, board, input, worker, stack
  <2> QED
    BY <2>1, <2>2, <2>3, <2>4, <2>5, <2>6, <2>7 DEF IInv, TypeOK
<1>19. CASE ForceRestart
  <2>0. /\ pc' = "wait" /\ flag' = FALSE /\ faults' \in 0..MaxFaults
        /\ radio' = "starting" \/ UNCHANGED radio
        /\ UNCHANGED <<power, active, young, owner, notify, input, tries, link, ending, made, lost>>
    <3>1. /\ pc' = "wait" /\ flag' = FALSE
          /\ UNCHANGED <<power, active, young, owner, notify, input, tries, link, ending, made, lost>>
      BY <1>19 DEF ForceRestart
    <3>2. PICK f \in BOOLEAN : Started(f) \/ Refused(f)
      BY <1>19 DEF ForceRestart
    <3>3. faults' \in 0..MaxFaults /\ (radio' = "starting" \/ UNCHANGED radio)
      BY <1>0, <3>2 DEF Started, Refused, Fault, TypeOK
    <3> QED
      BY <3>1, <3>3
  <2>1. InputTypes' /\ (~lost' => AllPure')
    BY <1>0, <2>0 DEF InputTypes, AllPure, board, input, worker, stack
  <2>2. BoardTypes'
    BY <1>0, <2>0 DEF BoardTypes, board, input, worker, stack
  <2>3. StackTypes'
    BY <1>0, <2>0 DEF StackTypes, Radios, Up, board, input, worker, stack
  <2>4. pc' \in Steps /\ tries' \in 0..Attempts /\ faults' \in 0..MaxFaults /\ lost' \in BOOLEAN
    BY <1>0, <2>0 DEF TypeOK, Steps, board, input, worker, stack
  <2>5. FlagTrue'
    BY <1>0, <2>0 DEF FlagTrue, board, input, worker, stack
  <2>6. RxOwned'
    BY <1>0, <2>0 DEF RxOwned, StackTypes, BoardTypes, Up, board, input, worker, stack
  <2>7. RestartBounded'
    BY <2>0 DEF RestartBounded
  <2> QED
    BY <2>1, <2>2, <2>3, <2>4, <2>5, <2>6, <2>7 DEF IInv, TypeOK
<1>20. CASE HealthCheck
  <2>1. InputTypes' /\ (~lost' => AllPure')
    BY <1>0, <1>20 DEF HealthCheck, Checked, InputTypes, AllPure, board, input, worker, stack
  <2>2. BoardTypes'
    BY <1>0, <1>20 DEF HealthCheck, Checked, BoardTypes, board, input, worker, stack
  <2>3. StackTypes'
    BY <1>0, <1>20 DEF HealthCheck, Checked, StackTypes, Radios, Up, board, input, worker, stack
  <2>4. pc' \in Steps /\ tries' \in 0..Attempts /\ faults' \in 0..MaxFaults /\ lost' \in BOOLEAN
    BY <1>0, <1>20 DEF HealthCheck, Checked, TypeOK, Steps, board, input, worker, stack
  <2>5. FlagTrue'
    BY <1>0, <1>20 DEF HealthCheck, Checked, FlagTrue, board, input, worker, stack
  <2>6. RxOwned'
    BY <1>0, <1>20 DEF HealthCheck, Checked, RxOwned, StackTypes, BoardTypes, Up, board, input, worker, stack
  <2>7. RestartBounded'
    BY <1>20 DEF HealthCheck, RestartBounded
  <2> QED
    BY <2>1, <2>2, <2>3, <2>4, <2>5, <2>6, <2>7 DEF IInv, TypeOK
<1>21. CASE HealthClear
  <2>1. InputTypes' /\ (~lost' => AllPure')
    BY <1>0, <1>21 DEF HealthClear, InputTypes, AllPure, board, input, worker, stack
  <2>2. BoardTypes'
    BY <1>0, <1>21 DEF HealthClear, BoardTypes, board, input, worker, stack
  <2>3. StackTypes'
    BY <1>0, <1>21 DEF HealthClear, StackTypes, Radios, Up, board, input, worker, stack
  <2>4. pc' \in Steps /\ tries' \in 0..Attempts /\ faults' \in 0..MaxFaults /\ lost' \in BOOLEAN
    BY <1>0, <1>21 DEF HealthClear, TypeOK, Steps, board, input, worker, stack
  <2>5. FlagTrue'
    BY <1>0, <1>21 DEF HealthClear, FlagTrue, board, input, worker, stack
  <2>6. RxOwned'
    BY <1>0, <1>21 DEF HealthClear, RxOwned, StackTypes, BoardTypes, Up, board, input, worker, stack
  <2>7. RestartBounded'
    BY <1>0, <1>21 DEF HealthClear, RestartBounded, board, input, worker, stack
  <2> QED
    BY <2>1, <2>2, <2>3, <2>4, <2>5, <2>6, <2>7 DEF IInv, TypeOK
<1>22. CASE HealthStart
  <2>1. InputTypes' /\ (~lost' => AllPure')
    BY <1>0, <1>22 DEF HealthStart, Started, Refused, Fault, InputTypes, AllPure, board, input, worker, stack
  <2>2. BoardTypes'
    BY <1>0, <1>22 DEF HealthStart, Started, Refused, Fault, BoardTypes, board, input, worker, stack
  <2>3. StackTypes'
    BY <1>0, <1>22 DEF HealthStart, Started, Refused, Fault, StackTypes, Radios, Up, board, input, worker, stack
  <2>4. pc' \in Steps /\ tries' \in 0..Attempts /\ faults' \in 0..MaxFaults /\ lost' \in BOOLEAN
    BY <1>0, <1>22 DEF HealthStart, Started, Refused, Fault, TypeOK, Steps, board, input, worker, stack
  <2>5. FlagTrue'
    BY <1>0, <1>22 DEF HealthStart, Started, Refused, Fault, FlagTrue, board, input, worker, stack
  <2>6. RxOwned'
    BY <1>0, <1>22 DEF HealthStart, Started, Refused, Fault, RxOwned, StackTypes, BoardTypes, Up, board, input, worker, stack
  <2>7. RestartBounded'
    BY <1>0, <1>22 DEF HealthStart, RestartBounded, board, input, worker, stack
  <2> QED
    BY <2>1, <2>2, <2>3, <2>4, <2>5, <2>6, <2>7 DEF IInv, TypeOK
<1>23. CASE UNCHANGED vars
  BY <1>0, <1>23 DEF vars, IInv, TypeOK, BoardTypes, InputTypes, StackTypes, FlagTrue, RestartBounded, RxOwned, AllPure,
     Up, board, input, worker, stack
<1> QED
  BY <1>1, <1>2, <1>3, <1>4, <1>5, <1>6, <1>7, <1>8, <1>9, <1>10, <1>11, <1>12, <1>13, <1>14, <1>15, <1>16, <1>17, <1>18, <1>19, <1>20, <1>21, <1>22, <1>23
  DEF Next, Worker

\* The invariant holds in every reachable state.
LEMMA Invariant == Spec => []IInv
BY InitInv, StepInv, PTL DEF Spec

-----------------------------------------------------------------------------
(* Theorems                                                                *)

\* The mailbox keeps to its capacity and the connections to their ranges; in
\* particular no index is in use while the end of its last connection has not
\* been reported.
THEOREM TypeCorrect == Spec => []TypeOK
<1>1. IInv => TypeOK
  BY DEF IInv
<1> QED
  BY <1>1, Invariant, PTL

\* The advertising flag, which makes vb_ble_advertising_start return at once, is
\* never set while the stack does not advertise.
THEOREM FlagNeverStale == Spec => []FlagTrue
<1>1. IInv => FlagTrue
  BY DEF IInv
<1> QED
  BY <1>1, Invariant, PTL

\* No line mixes the bytes of two connections, whoever connects, writes, is
\* disconnected or is cleared by the health check, as long as no report of an
\* end is lost.
THEOREM LinesUnmixed == Spec => []OneWriterPerLine
<1>1. IInv => OneWriterPerLine
  BY DEF IInv, AllPure, Pure, OneWriterPerLine
<1> QED
  BY <1>1, Invariant, PTL
=============================================================================
