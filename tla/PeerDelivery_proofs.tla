------------------------ MODULE PeerDelivery_proofs -------------------------
(***************************************************************************)
(* Proofs about PeerDelivery.  The values of the variables are right for   *)
(* every choice of the constants.  What the users are promised is proved   *)
(* for a ring with room for every text: the promise of TextDelivery for    *)
(* boards that are not reset, whatever the card does; the order of the     *)
(* texts and that they are saved before they are acknowledged also for     *)
(* boards that are reset, while their cards can be written.                *)
(***************************************************************************)
EXTENDS PeerDelivery, SequenceTheorems, WellFoundedInduction, TLAPS

USE ConstantsAssumption

-----------------------------------------------------------------------------
(* The boards, and operators of the model                                  *)

\* A board has one other board.
LEMMA OtherBoard ==
  ASSUME NEW b \in Boards
  PROVE  /\ Other(b) \in Boards /\ Other(b) # b /\ Other(Other(b)) = b
         /\ \A c \in Boards : c = b \/ c = Other(b)
<1>1. PICK x, y \in Boards : x # y /\ Boards = {x, y}
  OBVIOUS
<1>2. \A c \in Boards : Other(c) \in Boards /\ Other(c) # c
  BY <1>1 DEF Other
<1> QED
  BY <1>1, <1>2

\* The oldest of some entries is one of them, and none is before it.
LEMMA OldestIsFirst ==
  ASSUME NEW S \in SUBSET Nat, S # {}
  PROVE  Oldest(S) \in S /\ \A j \in S : Oldest(S) <= j
<1>1. PICK x \in S : \A y \in S : ~ (<<y, x>> \in OpToRel(<, Nat))
  BY NatLessThanWellFounded, WFMin
<1>2. ASSUME NEW y \in S PROVE x <= y
  <2>1. x \in Nat /\ y \in Nat
    OBVIOUS
  <2>2. ~ (y < x)
    BY <1>1, <2>1 DEF OpToRel
  <2> QED
    BY <2>1, <2>2
<1> QED
  BY <1>2 DEF Oldest

\* An entry added to a ring leaves a ring.
LEMMA AddedTypes ==
  ASSUME NEW r \in Seq(Messages), Len(r) <= Capacity, NEW m \in Messages
  PROVE  Added(r, m) \in Seq(Messages) /\ Len(Added(r, m)) <= Capacity
<1>1. CASE Len(r) < Capacity
  BY <1>1 DEF Added
<1>2. CASE Len(r) = Capacity
  <2>1. r # <<>> /\ Len(r) \in Nat /\ ~(Len(r) < Capacity)
    BY <1>2
  <2>2. Tail(r) \in Seq(Messages) /\ Len(Tail(r)) = Len(r) - 1
    BY <2>1
  <2> QED
    BY <1>2, <2>1, <2>2 DEF Added
<1> QED
  BY <1>1, <1>2

\* Marking entries leaves a ring.
LEMMA MarkedRing ==
  ASSUME NEW r \in Seq(Messages), NEW id, NEW s \in Statuses
  PROVE  Marked(r, id, s) \in Seq(Messages) /\ Len(Marked(r, id, s)) = Len(r)
<1> DEFINE M == Marked(r, id, s)
<1>1. Len(r) \in Nat /\ DOMAIN r = 1..Len(r) /\ \A i \in DOMAIN r : r[i] \in Messages
  OBVIOUS
<1>2. M = [i \in 1..Len(r) |-> IF i \in Slots(r, id, TRUE) THEN [r[i] EXCEPT !.status = s] ELSE r[i]]
  BY <1>1 DEF Marked
<1>3. \A m \in Messages : [m EXCEPT !.status = s] \in Messages
  BY DEF Messages
<1>4. M \in [1..Len(r) -> Messages]
  BY <1>1, <1>2, <1>3
<1> QED
  BY <1>1, <1>4, SeqDef

\* Marking changes nothing of an entry but its status.
LEMMA MarkedEntry ==
  ASSUME NEW r \in Seq(Messages), NEW id, NEW s \in Statuses, NEW i \in DOMAIN r
  PROVE  LET e == Marked(r, id, s)[i]
         IN /\ e.id = r[i].id /\ e.out = r[i].out /\ e.text = r[i].text
            /\ r[i].out /\ r[i].id = id => e.status = s
            /\ ~(r[i].out /\ r[i].id = id) => e.status = r[i].status
<1> DEFINE e == Marked(r, id, s)[i]
<1>1. r[i] \in Messages /\ e = IF i \in Slots(r, id, TRUE) THEN [r[i] EXCEPT !.status = s] ELSE r[i]
  BY DEF Marked
<1>2. r[i].out \in BOOLEAN
  BY <1>1 DEF Messages
<1>3. i \in Slots(r, id, TRUE) <=> r[i].out /\ r[i].id = id
  BY <1>2 DEF Slots
<1>4. CASE r[i].out /\ r[i].id = id
  <2>1. e = [r[i] EXCEPT !.status = s]
    BY <1>1, <1>3, <1>4
  <2>2. e.id = r[i].id /\ e.out = r[i].out /\ e.text = r[i].text /\ e.status = s
    <3> HIDE DEF e
    <3> QED
      BY <1>1, <2>1 DEF Messages
  <2> QED
    BY <1>4, <2>2
<1>5. CASE ~(r[i].out /\ r[i].id = id)
  <2>1. e = r[i]
    BY <1>1, <1>3, <1>5
  <2> HIDE DEF e
  <2> QED
    BY <1>5, <2>1 DEF e
<1> QED
  BY <1>4, <1>5

\* vb_peer_send_pending sends an entry of the ring, and none that is pending is
\* before it.
LEMMA NextToSend ==
  ASSUME NEW r \in Seq(Messages), Unsent(r) # {}
  PROVE  /\ Oldest(Unsent(r)) \in Unsent(r) /\ r[Oldest(Unsent(r))] \in Messages
         /\ \A i \in Unsent(r) : Oldest(Unsent(r)) <= i
<1>1. Unsent(r) \in SUBSET Nat /\ Unsent(r) \subseteq 1..Len(r)
  BY DEF Unsent
<1> QED
  BY <1>1, OldestIsFirst

-----------------------------------------------------------------------------
(* Types                                                                   *)

\* No board numbers a text beyond the texts its user has sent, and no file does:
\* this keeps the ids in their range.
Numbering == \A b \in Boards : tx[b] <= said[b] /\ disk[b].tx <= said[b]

TypeInv == TypeOK /\ Numbering

\* Packets and entries are made of what a board knows.
LEMMA PacketTypes ==
  /\ Hello \in Packets
  /\ \A id \in Ids : Ack(id) \in Packets
  /\ \A m \in Messages : Text(m) \in Packets
BY DEF Hello, Ack, Text, Packets, Messages, Ids

\* Saving writes a ring of the right type.
LEMMA SaveTypes ==
  ASSUME NEW b \in Boards, StoreTypes, Numbering, faults \in 0..MaxFaults, Save(b),
         ring'[b] \in Seq(Messages), Len(ring'[b]) <= Capacity, tx'[b] \in Ids, tx'[b] <= said'[b],
         \A c \in Boards : said[c] <= said'[c],
         said \in [Boards -> Ids], said' \in [Boards -> Ids]
  PROVE  /\ disk' \in [Boards -> [ring : Seq(Messages), tx : Ids]]
         /\ \A c \in Boards : disk'[c].tx <= said'[c] /\ Len(disk'[c].ring) <= Capacity
         /\ faults' \in 0..MaxFaults
<1>1. \A c \in Boards : disk[c].tx \in Nat /\ said[c] \in Nat /\ said'[c] \in Nat /\ disk[c].tx <= said'[c]
  BY DEF StoreTypes, Numbering, Ids
<1>2. CASE disk' = [disk EXCEPT ![b] = [ring |-> ring'[b], tx |-> tx'[b]]] /\ UNCHANGED faults
  <2> DEFINE file == [ring |-> ring'[b], tx |-> tx'[b]]
  <2>1. /\ file \in [ring : Seq(Messages), tx : Ids]
        /\ file.tx <= said'[b] /\ Len(file.ring) <= Capacity
    OBVIOUS
  <2>2. disk' = [disk EXCEPT ![b] = file] /\ UNCHANGED faults
    BY <1>2
  <2> HIDE DEF file
  <2> QED
    BY <1>1, <2>1, <2>2 DEF StoreTypes
<1>3. CASE Fault("saveFails") /\ UNCHANGED disk
  BY <1>1, <1>3 DEF StoreTypes, Fault
<1> QED
  BY <1>2, <1>3 DEF Save

\* Sending and taking packets leaves packets.
LEMMA SendTypes ==
  ASSUME NEW b \in Boards, AirTypes, NEW p \in Packets, Send(b, p)
  PROVE  wire' \in [Boards -> Seq(Packets)]
BY OtherBoard DEF Send, AirTypes

LEMMA TakenTypes ==
  ASSUME NEW b \in Boards, AirTypes, wire[b] # <<>>, Taken(b)
  PROVE  wire' \in [Boards -> Seq(Packets)] /\ wire[b][1] \in Packets
BY DEF Taken, AirTypes

\* What arrives is a packet.
LEMMA ArrivesTypes ==
  ASSUME NEW b \in Boards, NEW type, AirTypes, Arrives(b, type)
  PROVE  /\ wire[b] # <<>> /\ wire[b] \in Seq(Packets) /\ wire[b][1] \in Packets
         /\ wire[b][1].id \in Ids /\ wire[b][1].text \in Ids /\ wire[b][1].type = type
<1>1. wire[b] # <<>> /\ wire[b] \in Seq(Packets) /\ wire[b][1].type = type
  BY DEF Arrives, AirTypes
<1>2. wire[b][1] \in Packets
  BY <1>1
<1> QED
  BY <1>1, <1>2 DEF Packets

\* The initial states have the right types.
LEMMA InitTypes == Init => TypeInv
<1> SUFFICES ASSUME Init PROVE TypeInv
  OBVIOUS
<1>0. <<>> \in Seq(Messages) /\ <<>> \in Seq(Packets) /\ <<>> \in Seq(Ids) /\ 0 \in Ids
      /\ 0 \in 0..MaxRetries /\ 0 \in 0..MaxFaults /\ Len(<<>>) = 0 /\ 0 <= Capacity
  BY DEF Ids
<1>1. StoreTypes
  <2>1. EmptyStore \in [ring : Seq(Messages), tx : Ids] /\ EmptyStore.ring = <<>>
    BY <1>0 DEF EmptyStore
  <2> QED
    BY <1>0, <2>1 DEF Init, StoreTypes
<1>2. WorkerTypes /\ AirTypes
  BY <1>0 DEF Init, WorkerTypes, AirTypes
<1>3. Numbering
  BY <1>0 DEF Init, Numbering, EmptyStore
<1> QED
  BY <1>0, <1>1, <1>2, <1>3 DEF Init, TypeInv, TypeOK

\* Every step of a board, the radio and the power supply keeps them.
LEMMA StepTypes == TypeInv /\ [Next]_vars => TypeInv'
<1> SUFFICES ASSUME TypeInv, [Next]_vars PROVE TypeInv'
  OBVIOUS
<1>0. /\ StoreTypes /\ WorkerTypes /\ AirTypes /\ Numbering
      /\ said \in [Boards -> Ids] /\ shown \in [Boards -> Seq(Ids)] /\ faults \in 0..MaxFaults
  BY DEF TypeInv, TypeOK
<1>1. ASSUME NEW b \in Boards, SendText(b) PROVE TypeInv'
  <2>1. StoreTypes' /\ Numbering' /\ said' \in [Boards -> Ids] /\ shown' \in [Boards -> Seq(Ids)] /\ faults' \in 0..MaxFaults
    <3> DEFINE m == [id |-> tx[b] + 1, out |-> TRUE, status |-> "pending", text |-> said[b] + 1]
    <3>1. tx[b] \in Nat /\ said[b] \in Nat /\ tx[b] <= said[b] /\ said[b] < MaxTexts
      BY <1>0, <1>1 DEF SendText, Numbering, StoreTypes, Ids
    <3>2. m \in Messages
      BY <3>1 DEF Messages, Ids, Statuses
    <3>3. ring[b] \in Seq(Messages) /\ Len(ring[b]) <= Capacity
      BY <1>0 DEF StoreTypes
    <3>4. Added(ring[b], m) \in Seq(Messages) /\ Len(Added(ring[b], m)) <= Capacity
      BY <3>2, <3>3, AddedTypes
    <3>5. /\ ring' = [ring EXCEPT ![b] = Added(ring[b], m)] /\ tx' = [tx EXCEPT ![b] = tx[b] + 1]
          /\ said' = [said EXCEPT ![b] = said[b] + 1] /\ UNCHANGED <<disk, shown, faults>>
      BY <1>1 DEF SendText
    <3> HIDE DEF m
    <3>6. StoreTypes'
      <4>1. tx[b] + 1 \in Ids
        BY <3>1 DEF Ids
      <4> QED
        BY <1>0, <3>4, <3>5, <4>1 DEF StoreTypes
    <3>7. \A c \in Boards : tx[c] \in Nat /\ said[c] \in Nat /\ disk[c].tx \in Nat
      BY <1>0 DEF StoreTypes, Ids
    <3>8. Numbering'
      BY <1>0, <3>5, <3>7 DEF Numbering, StoreTypes
    <3>9. said' \in [Boards -> Ids]
      BY <1>0, <3>1, <3>5 DEF Ids
    <3> QED
      BY <1>0, <3>5, <3>6, <3>8, <3>9
  <2>2. AirTypes'
    BY <1>0, <1>1 DEF SendText, AirTypes, air
  <2>3. WorkerTypes'
    BY <1>0, <1>1 DEF SendText, WorkerTypes, worker
  <2> QED
    BY <2>1, <2>2, <2>3 DEF TypeInv, TypeOK
<1>2. ASSUME NEW b \in Boards, SendSaved(b) PROVE TypeInv'
  <2>1. StoreTypes' /\ Numbering' /\ said' \in [Boards -> Ids] /\ shown' \in [Boards -> Seq(Ids)] /\ faults' \in 0..MaxFaults
    <3>1. Save(b) /\ UNCHANGED <<ring, tx, said, shown>>
      BY <1>2 DEF SendSaved
    <3>2. ring'[b] \in Seq(Messages) /\ Len(ring'[b]) <= Capacity /\ tx'[b] \in Ids /\ tx'[b] <= said'[b]
      BY <1>0, <3>1 DEF StoreTypes, Numbering
    <3>3. \A c \in Boards : said[c] <= said'[c]
      BY <1>0, <3>1 DEF Ids
    <3>4. /\ disk' \in [Boards -> [ring : Seq(Messages), tx : Ids]] /\ faults' \in 0..MaxFaults
          /\ \A c \in Boards : disk'[c].tx <= said'[c] /\ Len(disk'[c].ring) <= Capacity
      BY <1>0, <3>1, <3>2, <3>3, SaveTypes
    <3> QED
      BY <1>0, <3>1, <3>4 DEF StoreTypes, Numbering
  <2>2. AirTypes'
    BY <1>0, <1>2 DEF SendSaved, AirTypes, air
  <2>3. WorkerTypes'
    BY <1>0, <1>2 DEF SendSaved, WorkerTypes, worker
  <2> QED
    BY <2>1, <2>2, <2>3 DEF TypeInv, TypeOK
<1>3. ASSUME NEW b \in Boards, SendNothing(b) PROVE TypeInv'
  <2>1. StoreTypes' /\ Numbering' /\ said' \in [Boards -> Ids] /\ shown' \in [Boards -> Seq(Ids)] /\ faults' \in 0..MaxFaults
    BY <1>0, <1>3 DEF SendNothing, StoreTypes, Numbering, store, worker, air
  <2>2. AirTypes'
    BY <1>0, <1>3 DEF SendNothing, AirTypes, air
  <2>3. WorkerTypes'
    BY <1>0, <1>3 DEF SendNothing, WorkerTypes, worker
  <2> QED
    BY <2>1, <2>2, <2>3 DEF TypeInv, TypeOK
<1>4. ASSUME NEW b \in Boards, SendPending(b) PROVE TypeInv'
  <2>1. StoreTypes' /\ Numbering' /\ said' \in [Boards -> Ids] /\ shown' \in [Boards -> Seq(Ids)] /\ faults' \in 0..MaxFaults
    BY <1>0, <1>4 DEF SendPending, Fault, StoreTypes, Numbering, store, worker, air
  <2>2. AirTypes'
    <3> DEFINE m == ring[b][Oldest(Unsent(ring[b]))]
    <3>1. (Send(b, Text(m)) \/ UNCHANGED wire) /\ UNCHANGED link
      BY <1>4 DEF SendPending
    <3>2. m \in Messages
      BY <1>0, <1>4, NextToSend DEF SendPending, StoreTypes
    <3> HIDE DEF m
    <3> QED
      BY <1>0, <3>1, <3>2, SendTypes, PacketTypes DEF AirTypes
  <2>3. WorkerTypes'
    <3>1. ring[b][Oldest(Unsent(ring[b]))].id \in Ids
      BY <1>0, <1>4, NextToSend DEF SendPending, StoreTypes, Messages
    <3> QED
      BY <1>0, <1>4, <3>1 DEF SendPending, WorkerTypes
  <2> QED
    BY <2>1, <2>2, <2>3 DEF TypeInv, TypeOK
<1>5. ASSUME NEW b \in Boards, SendHello(b) PROVE TypeInv'
  <2>1. StoreTypes' /\ Numbering' /\ said' \in [Boards -> Ids] /\ shown' \in [Boards -> Seq(Ids)] /\ faults' \in 0..MaxFaults
    BY <1>0, <1>5 DEF SendHello, StoreTypes, Numbering, store, worker, air
  <2>2. AirTypes'
    BY <1>0, <1>5, SendTypes, PacketTypes DEF SendHello, AirTypes
  <2>3. WorkerTypes'
    BY <1>0, <1>5 DEF SendHello, WorkerTypes, worker
  <2> QED
    BY <2>1, <2>2, <2>3 DEF TypeInv, TypeOK
<1>6. ASSUME NEW b \in Boards, RecvHello(b) PROVE TypeInv'
  <2>1. StoreTypes' /\ Numbering' /\ said' \in [Boards -> Ids] /\ shown' \in [Boards -> Seq(Ids)] /\ faults' \in 0..MaxFaults
    BY <1>0, <1>6 DEF RecvHello, StoreTypes, Numbering, store, worker, air
  <2>2. AirTypes'
    BY <1>0, <1>6, TakenTypes DEF RecvHello, Arrives, AirTypes
  <2>3. WorkerTypes'
    BY <1>0, <1>6 DEF RecvHello, WorkerTypes, worker
  <2> QED
    BY <2>1, <2>2, <2>3 DEF TypeInv, TypeOK
<1>7. ASSUME NEW b \in Boards, RecvText(b) PROVE TypeInv'
  <2>1. StoreTypes' /\ Numbering' /\ said' \in [Boards -> Ids] /\ shown' \in [Boards -> Seq(Ids)] /\ faults' \in 0..MaxFaults
    <3> DEFINE m == [id |-> wire[b][1].id, out |-> FALSE, status |-> "received", text |-> wire[b][1].text]
    <3>0. wire[b][1] \in Packets /\ wire[b][1].id \in Ids /\ wire[b][1].text \in Ids
      BY <1>0, <1>7, ArrivesTypes DEF RecvText
    <3>1. /\ ring' \in {ring, [ring EXCEPT ![b] = Added(ring[b], m)]}
          /\ shown' \in {shown, [shown EXCEPT ![b] = Append(@, wire[b][1].text)]}
          /\ UNCHANGED <<tx, said>> /\ (Save(b) \/ UNCHANGED <<disk, faults>>)
      BY <1>7 DEF RecvText, store
    <3>2. ring[b] \in Seq(Messages) /\ Len(ring[b]) <= Capacity /\ m \in Messages
      BY <1>0, <3>0 DEF StoreTypes, Messages, Statuses
    <3>3. Added(ring[b], m) \in Seq(Messages) /\ Len(Added(ring[b], m)) <= Capacity
      BY <3>2, AddedTypes
    <3>4. ring' \in [Boards -> Seq(Messages)] /\ \A c \in Boards : Len(ring'[c]) <= Capacity
      BY <1>0, <3>1, <3>3 DEF StoreTypes
    <3>5. ring'[b] \in Seq(Messages) /\ Len(ring'[b]) <= Capacity /\ tx'[b] \in Ids /\ tx'[b] <= said'[b]
      BY <1>0, <3>1, <3>4 DEF StoreTypes, Numbering
    <3>6. \A c \in Boards : said[c] <= said'[c]
      BY <1>0, <3>1 DEF Ids
    <3>7. /\ disk' \in [Boards -> [ring : Seq(Messages), tx : Ids]] /\ faults' \in 0..MaxFaults
          /\ \A c \in Boards : disk'[c].tx <= said'[c] /\ Len(disk'[c].ring) <= Capacity
      <4>1. CASE Save(b)
        BY <1>0, <3>1, <3>5, <3>6, <4>1, SaveTypes
      <4>2. CASE UNCHANGED <<disk, faults>>
        BY <1>0, <3>1, <4>2 DEF StoreTypes, Numbering
      <4> QED
        BY <3>1, <4>1, <4>2
    <3>8. shown' \in [Boards -> Seq(Ids)]
      <4>1. Append(shown[b], wire[b][1].text) \in Seq(Ids)
        BY <1>0, <3>0
      <4> QED
        BY <1>0, <3>1, <4>1
    <3> QED
      BY <1>0, <3>1, <3>4, <3>7, <3>8 DEF StoreTypes, Numbering
  <2>2. AirTypes'
    <3>0. wire[b] # <<>> /\ wire[b] \in Seq(Packets) /\ wire[b][1] \in Packets /\ wire[b][1].id \in Ids
      BY <1>0, <1>7, ArrivesTypes DEF RecvText
    <3>1. Ack(wire[b][1].id) \in Packets
      BY <3>0, PacketTypes
    <3>2. CASE Taken(b)
      BY <1>0, <1>7, <3>0, <3>2, TakenTypes DEF RecvText, AirTypes, air
    <3>3. CASE wire' = [wire EXCEPT ![b] = Tail(@),
                                    ![Other(b)] = IF link THEN Append(@, Ack(wire[b][1].id)) ELSE @]
      <4>1. Other(b) \in Boards /\ Other(b) # b /\ wire[Other(b)] \in Seq(Packets) /\ Tail(wire[b]) \in Seq(Packets)
        BY <1>0, <3>0, OtherBoard DEF AirTypes
      <4>2. Append(wire[Other(b)], Ack(wire[b][1].id)) \in Seq(Packets)
        BY <3>1, <4>1
      <4> QED
        BY <1>0, <1>7, <3>3, <4>1, <4>2 DEF RecvText, AirTypes
    <3> QED
      BY <1>7, <3>2, <3>3 DEF RecvText
  <2>3. WorkerTypes'
    BY <1>0, <1>7 DEF RecvText, WorkerTypes, worker
  <2> QED
    BY <2>1, <2>2, <2>3 DEF TypeInv, TypeOK
<1>8. ASSUME NEW b \in Boards, RecvAck(b) PROVE TypeInv'
  <2>1. StoreTypes' /\ Numbering' /\ said' \in [Boards -> Ids] /\ shown' \in [Boards -> Seq(Ids)] /\ faults' \in 0..MaxFaults
    <3>1. /\ ring' \in {ring, [ring EXCEPT ![b] = Marked(ring[b], AckedId(b), "delivered")]}
          /\ UNCHANGED <<tx, said, shown>> /\ (Save(b) \/ UNCHANGED <<disk, faults>>)
      BY <1>8 DEF RecvAck, store
    <3>2. ring[b] \in Seq(Messages) /\ Len(ring[b]) <= Capacity
      BY <1>0 DEF StoreTypes
    <3>3. Marked(ring[b], AckedId(b), "delivered") \in Seq(Messages) /\ Len(Marked(ring[b], AckedId(b), "delivered")) <= Capacity
      <4>1. "delivered" \in Statuses /\ "failed" \in Statuses
        BY DEF Statuses
      <4> QED
        BY <3>2, <4>1, MarkedRing
    <3>4. ring' \in [Boards -> Seq(Messages)] /\ \A c \in Boards : Len(ring'[c]) <= Capacity
      BY <1>0, <3>1, <3>3 DEF StoreTypes
    <3>5. ring'[b] \in Seq(Messages) /\ Len(ring'[b]) <= Capacity /\ tx'[b] \in Ids /\ tx'[b] <= said'[b]
      BY <1>0, <3>1, <3>4 DEF StoreTypes, Numbering
    <3>6. \A c \in Boards : said[c] <= said'[c]
      BY <1>0, <3>1 DEF Ids
    <3>7. /\ disk' \in [Boards -> [ring : Seq(Messages), tx : Ids]] /\ faults' \in 0..MaxFaults
          /\ \A c \in Boards : disk'[c].tx <= said'[c] /\ Len(disk'[c].ring) <= Capacity
      <4>1. CASE Save(b)
        BY <1>0, <3>1, <3>5, <3>6, <4>1, SaveTypes
      <4>2. CASE UNCHANGED <<disk, faults>>
        BY <1>0, <3>1, <4>2 DEF StoreTypes, Numbering
      <4> QED
        BY <3>1, <4>1, <4>2
    <3>8. shown' \in [Boards -> Seq(Ids)]
      BY <1>0, <3>1
    <3> QED
      BY <1>0, <3>1, <3>4, <3>7, <3>8 DEF StoreTypes, Numbering
  <2>2. AirTypes'
    BY <1>0, <1>8, TakenTypes DEF RecvAck, Arrives, AirTypes
  <2>3. WorkerTypes'
    <3>1. /\ NotAwaiting(b) \/ UNCHANGED <<awaiting, timer, retries>>
          /\ wake' \in {wake, [wake EXCEPT ![b] = TRUE]} /\ UNCHANGED <<app, up, ready, hello>>
      BY <1>8 DEF RecvAck
    <3>2. 0 \in Ids /\ 0 \in 0..MaxRetries
      BY DEF Ids
    <3>3. wake' \in [Boards -> BOOLEAN]
      BY <1>0, <3>1 DEF WorkerTypes
    <3>4. awaiting' \in [Boards -> Ids] /\ retries' \in [Boards -> 0..MaxRetries]
      BY <1>0, <3>1, <3>2 DEF NotAwaiting, WorkerTypes
    <3>5. timer' \in [Boards -> BOOLEAN]
      BY <1>0, <3>1 DEF NotAwaiting, WorkerTypes
    <3> QED
      BY <1>0, <3>1, <3>3, <3>4, <3>5 DEF WorkerTypes
  <2> QED
    BY <2>1, <2>2, <2>3 DEF TypeInv, TypeOK
<1>9. ASSUME NEW b \in Boards, Retry(b) PROVE TypeInv'
  <2>1. StoreTypes' /\ Numbering' /\ said' \in [Boards -> Ids] /\ shown' \in [Boards -> Seq(Ids)] /\ faults' \in 0..MaxFaults
    BY <1>0, <1>9 DEF Retry, StoreTypes, Numbering, store, worker, air
  <2>2. AirTypes'
    BY <1>0, <1>9 DEF Retry, AirTypes, air
  <2>3. WorkerTypes'
    BY <1>0, <1>9 DEF Retry, RetriesLeft, WorkerTypes, worker
  <2> QED
    BY <2>1, <2>2, <2>3 DEF TypeInv, TypeOK
<1>10. ASSUME NEW b \in Boards, GiveUp(b) PROVE TypeInv'
  <2>1. StoreTypes' /\ Numbering' /\ said' \in [Boards -> Ids] /\ shown' \in [Boards -> Seq(Ids)] /\ faults' \in 0..MaxFaults
    <3>1. /\ ring' \in {ring, [ring EXCEPT ![b] = Marked(ring[b], awaiting[b], "failed")]}
          /\ UNCHANGED <<tx, said, shown>> /\ (Save(b) \/ UNCHANGED <<disk, faults>>)
      BY <1>10 DEF GiveUp, store
    <3>2. ring[b] \in Seq(Messages) /\ Len(ring[b]) <= Capacity
      BY <1>0 DEF StoreTypes
    <3>3. Marked(ring[b], awaiting[b], "failed") \in Seq(Messages) /\ Len(Marked(ring[b], awaiting[b], "failed")) <= Capacity
      <4>1. "delivered" \in Statuses /\ "failed" \in Statuses
        BY DEF Statuses
      <4> QED
        BY <3>2, <4>1, MarkedRing
    <3>4. ring' \in [Boards -> Seq(Messages)] /\ \A c \in Boards : Len(ring'[c]) <= Capacity
      BY <1>0, <3>1, <3>3 DEF StoreTypes
    <3>5. ring'[b] \in Seq(Messages) /\ Len(ring'[b]) <= Capacity /\ tx'[b] \in Ids /\ tx'[b] <= said'[b]
      BY <1>0, <3>1, <3>4 DEF StoreTypes, Numbering
    <3>6. \A c \in Boards : said[c] <= said'[c]
      BY <1>0, <3>1 DEF Ids
    <3>7. /\ disk' \in [Boards -> [ring : Seq(Messages), tx : Ids]] /\ faults' \in 0..MaxFaults
          /\ \A c \in Boards : disk'[c].tx <= said'[c] /\ Len(disk'[c].ring) <= Capacity
      <4>1. CASE Save(b)
        BY <1>0, <3>1, <3>5, <3>6, <4>1, SaveTypes
      <4>2. CASE UNCHANGED <<disk, faults>>
        BY <1>0, <3>1, <4>2 DEF StoreTypes, Numbering
      <4> QED
        BY <3>1, <4>1, <4>2
    <3>8. shown' \in [Boards -> Seq(Ids)]
      BY <1>0, <3>1
    <3> QED
      BY <1>0, <3>1, <3>4, <3>7, <3>8 DEF StoreTypes, Numbering
  <2>2. AirTypes'
    BY <1>0, <1>10 DEF GiveUp, AirTypes, air
  <2>3. WorkerTypes'
    BY <1>0, <1>10 DEF GiveUp, NotAwaiting, Ids, WorkerTypes, worker
  <2> QED
    BY <2>1, <2>2, <2>3 DEF TypeInv, TypeOK
<1>11. ASSUME NEW b \in Boards, HandleDisconnect(b) PROVE TypeInv'
  <2>1. StoreTypes' /\ Numbering' /\ said' \in [Boards -> Ids] /\ shown' \in [Boards -> Seq(Ids)] /\ faults' \in 0..MaxFaults
    BY <1>0, <1>11 DEF HandleDisconnect, StoreTypes, Numbering, store, worker, air
  <2>2. AirTypes'
    BY <1>0, <1>11 DEF HandleDisconnect, AirTypes, air
  <2>3. WorkerTypes'
    BY <1>0, <1>11 DEF HandleDisconnect, NotAwaiting, Ids, WorkerTypes, worker
  <2> QED
    BY <2>1, <2>2, <2>3 DEF TypeInv, TypeOK
<1>12. ASSUME NEW b \in Boards, Lose(b) PROVE TypeInv'
  <2>1. StoreTypes' /\ Numbering' /\ said' \in [Boards -> Ids] /\ shown' \in [Boards -> Seq(Ids)] /\ faults' \in 0..MaxFaults
    BY <1>0, <1>12 DEF Lose, Fault, StoreTypes, Numbering, store, worker, air
  <2>2. AirTypes'
    BY <1>0, <1>12, TakenTypes DEF Lose, AirTypes
  <2>3. WorkerTypes'
    BY <1>0, <1>12 DEF Lose, WorkerTypes, worker
  <2> QED
    BY <2>1, <2>2, <2>3 DEF TypeInv, TypeOK
<1>13. ASSUME NEW b \in Boards, Crash(b) PROVE TypeInv'
  <2>1. StoreTypes' /\ Numbering' /\ said' \in [Boards -> Ids] /\ shown' \in [Boards -> Seq(Ids)] /\ faults' \in 0..MaxFaults
    <3>1. /\ ring' = [ring EXCEPT ![b] = disk[b].ring] /\ tx' = [tx EXCEPT ![b] = disk[b].tx]
          /\ UNCHANGED <<disk, said, shown>> /\ faults' \in 0..MaxFaults
      BY <1>0, <1>13 DEF Crash, Fault
    <3>2. disk[b].ring \in Seq(Messages) /\ Len(disk[b].ring) <= Capacity /\ disk[b].tx \in Ids
      BY <1>0 DEF StoreTypes, Numbering
    <3> QED
      BY <1>0, <3>1, <3>2 DEF StoreTypes, Numbering
  <2>2. AirTypes'
    <3>1. link' = FALSE /\ wire' = [c \in Boards |-> <<>>] /\ <<>> \in Seq(Packets)
      BY <1>13 DEF Crash
    <3> QED
      BY <3>1 DEF AirTypes
  <2>3. WorkerTypes'
    BY <1>0, <1>13 DEF Crash, Ids, WorkerTypes, worker
  <2> QED
    BY <2>1, <2>2, <2>3 DEF TypeInv, TypeOK
<1>14. CASE Connect
  <2>1. StoreTypes' /\ Numbering' /\ said' \in [Boards -> Ids] /\ shown' \in [Boards -> Seq(Ids)] /\ faults' \in 0..MaxFaults
    BY <1>0, <1>14 DEF Connect, StoreTypes, Numbering, store, worker, air
  <2>2. AirTypes'
    BY <1>0, <1>14 DEF Connect, AirTypes, air
  <2>3. WorkerTypes'
    BY <1>0, <1>14 DEF Connect, WorkerTypes, worker
  <2> QED
    BY <2>1, <2>2, <2>3 DEF TypeInv, TypeOK
<1>15. CASE Drop
  <2>1. StoreTypes' /\ Numbering' /\ said' \in [Boards -> Ids] /\ shown' \in [Boards -> Seq(Ids)] /\ faults' \in 0..MaxFaults
    BY <1>0, <1>15 DEF Drop, Fault, StoreTypes, Numbering, store, worker, air
  <2>2. AirTypes'
    <3>1. link' = FALSE /\ wire' = [c \in Boards |-> <<>>] /\ <<>> \in Seq(Packets)
      BY <1>15 DEF Drop
    <3> QED
      BY <3>1 DEF AirTypes
  <2>3. WorkerTypes'
    BY <1>0, <1>15 DEF Drop, WorkerTypes, worker
  <2> QED
    BY <2>1, <2>2, <2>3 DEF TypeInv, TypeOK
<1>16. CASE UNCHANGED vars
  BY <1>0, <1>16 DEF vars, TypeInv, TypeOK, StoreTypes, WorkerTypes, AirTypes, Numbering
<1> QED
  BY <1>1, <1>2, <1>3, <1>4, <1>5, <1>6, <1>7, <1>8, <1>9, <1>10, <1>11, <1>12, <1>13, <1>14, <1>15, <1>16 DEF Next, Worker

\* The types and the numbering hold in every reachable state.
LEMMA TypeInvariant == Spec => []TypeInv
BY InitTypes, StepTypes, PTL DEF Spec

\* Every variable stays in its range and the ring within its capacity, under
\* every combination of faults.
THEOREM TypeCorrect == Spec => []TypeOK
<1>1. TypeInv => TypeOK
  BY DEF TypeInv
<1> QED
  BY <1>1, TypeInvariant, PTL
-----------------------------------------------------------------------------
(* What makes the delivery of texts right                                  *)

\* The proofs below are about a ring that holds every text of both users: first
\* on boards that are not reset, then on boards that can write their card.
Roomy      == 2 * MaxTexts <= Capacity
NeverReset == "crash" \notin Faults
Durable    == "saveFails" \notin Faults

In(n, sh) == \E j \in DOMAIN sh : sh[j] = n

Own(r, n) == \E i \in DOMAIN r : r[i].out /\ r[i].text = n

\* A ring r of a board that has sent s texts and shown sh: each is in it once.
RingOK(r, s, sh) ==
  /\ Len(r) = s + Len(sh)
  /\ \A i \in DOMAIN r :
       /\ r[i].id = r[i].text
       /\ r[i].out => r[i].text \in 1..s /\ r[i].status # "received"
       /\ ~r[i].out => In(r[i].text, sh)
  /\ \A n \in 1..s : Own(r, n)
  /\ \A i, j \in DOMAIN r : i < j /\ r[i].out /\ r[j].out => r[i].text < r[j].text
  /\ \A n : In(n, sh) => Known(r, n)

\* The texts sh a board has shown of a board with ring r that has sent s: in
\* order, and none after one that is still pending.
ShownOK(sh, r, s) ==
  /\ \A k \in DOMAIN sh : k <= sh[k] /\ sh[k] <= s /\ \A i \in Unsent(r) : sh[k] <= r[i].text
  /\ \A k, l \in DOMAIN sh : k < l => sh[k] < sh[l]

\* A text on its way from a board with ring r is not older than one shown, and
\* not newer than one still pending: nothing can overtake it.
TextOK(p, sh, r, s) ==
  /\ p.id = p.text /\ p.text \in 1..s
  /\ \A j \in DOMAIN sh : sh[j] <= p.text
  /\ \A i \in Unsent(r) : p.text <= r[i].text

\* The packets w on their way to a board that has shown sh, from a board with
\* ring r that has sent s and shown shO.
WireOK(w, sh, r, s, shO) ==
  /\ \A k \in DOMAIN w :
       /\ w[k].type = "text" => TextOK(w[k], sh, r, s)
       /\ w[k].type = "ack" => In(w[k].id, shO)
  /\ \A k, l \in DOMAIN w :
       k < l /\ w[k].type = "text" /\ w[l].type = "text" => w[k].text <= w[l].text

SentOK(r, shO) ==
  \A i \in DOMAIN r : r[i].out /\ r[i].status = "delivered" => In(r[i].text, shO)

Awaited(r, id) == \E i \in Unsent(r) : r[i].id = id

BoardOK(b) ==
  /\ tx[b] = said[b]
  /\ RingOK(ring[b], said[b], shown[b])
  /\ ShownOK(shown[b], ring[Other(b)], said[Other(b)])
  /\ WireOK(wire[b], shown[b], ring[Other(b)], said[Other(b)], shown[Other(b)])
  /\ SentOK(ring[b], shown[Other(b)])
  /\ timer[b] => Awaited(ring[b], awaiting[b])

DeliveryInv == TypeInv /\ \A b \in Boards : BoardOK(b)

-----------------------------------------------------------------------------
(* How the parts of the invariant fare when a ring, a list or a wire grows *)

\* A board that shows texts in order has not shown more than were sent.
LEMMA ShownBounded ==
  ASSUME NEW sh \in Seq(Ids), NEW r, NEW s \in Nat, ShownOK(sh, r, s)
  PROVE  Len(sh) <= s
<1>1. Len(sh) \in Nat
  OBVIOUS
<1>2. CASE Len(sh) = 0
  BY <1>2
<1>3. CASE Len(sh) > 0
  <2>1. Len(sh) \in DOMAIN sh /\ sh[Len(sh)] \in Nat
    BY <1>1, <1>3 DEF Ids
  <2>2. Len(sh) <= sh[Len(sh)] /\ sh[Len(sh)] <= s
    BY <2>1 DEF ShownOK
  <2> QED
    BY <1>1, <2>1, <2>2
<1> QED
  BY <1>1, <1>2, <1>3

\* An entry appended to a ring.
LEMMA AppendedRing ==
  ASSUME NEW r \in Seq(Messages), NEW m \in Messages
  PROVE  LET R == Append(r, m)
         IN /\ R \in Seq(Messages) /\ Len(r) \in Nat /\ Len(R) = Len(r) + 1
            /\ DOMAIN r = 1..Len(r) /\ DOMAIN R = 1..(Len(r) + 1)
            /\ \A i \in 1..Len(r) : R[i] = r[i]
            /\ R[Len(r) + 1] = m
            /\ \A i \in DOMAIN R : i \in Unsent(R) <=>
                 i \in Unsent(r) \/ (i = Len(r) + 1 /\ m.out /\ m.status = "pending")
<1> DEFINE R == Append(r, m)
<1>1. /\ R \in Seq(Messages) /\ Len(r) \in Nat /\ Len(R) = Len(r) + 1
      /\ DOMAIN r = 1..Len(r) /\ DOMAIN R = 1..(Len(r) + 1)
      /\ \A i \in 1..Len(r) : R[i] = r[i]
      /\ R[Len(r) + 1] = m
  OBVIOUS
<1> HIDE DEF R
<1>2. \A i \in DOMAIN R : i \in Unsent(R) <=>
        i \in Unsent(r) \/ (i = Len(r) + 1 /\ m.out /\ m.status = "pending")
  BY <1>1 DEF Unsent
<1> QED
  BY <1>1, <1>2 DEF R

\* What a ring knows it still knows when an entry is appended.
LEMMA AppendedKnown ==
  ASSUME NEW r \in Seq(Messages), NEW m \in Messages, NEW n
  PROVE  /\ Known(r, n) => Known(Append(r, m), n)
         /\ m.id = n /\ m.out = FALSE => Known(Append(r, m), n)
<1>1. /\ \A i \in DOMAIN r : i \in DOMAIN Append(r, m) /\ Append(r, m)[i] = r[i]
      /\ Len(r) + 1 \in DOMAIN Append(r, m) /\ Append(r, m)[Len(r) + 1] = m
  BY AppendedRing
<1> QED
  BY <1>1 DEF Known, Slots

\* The user's next text in the ring.
LEMMA NewText ==
  ASSUME NEW r \in Seq(Messages), NEW sh \in Seq(Ids), NEW s \in Nat, NEW m \in Messages,
         s < MaxTexts, Len(sh) <= MaxTexts, Roomy, RingOK(r, s, sh),
         m.id = s + 1, m.text = s + 1, m.out = TRUE, m.status = "pending"
  PROVE  /\ Added(r, m) = Append(r, m)
         /\ RingOK(Append(r, m), s + 1, sh)
<1> DEFINE R == Append(r, m)
<1>1. /\ R \in Seq(Messages) /\ Len(r) \in Nat /\ Len(R) = Len(r) + 1
      /\ DOMAIN r = 1..Len(r) /\ DOMAIN R = 1..(Len(r) + 1)
      /\ \A i \in 1..Len(r) : R[i] = r[i]
      /\ R[Len(r) + 1] = m
  BY AppendedRing
<1>2. Len(sh) \in Nat /\ Len(r) = s + Len(sh)
  BY DEF RingOK
<1>3. Len(r) < Capacity
  BY <1>2 DEF Roomy
<1>4. \A n : In(n, sh) => Known(R, n)
  BY AppendedKnown DEF RingOK
<1> HIDE DEF R
<1>5. ASSUME NEW i \in DOMAIN R
      PROVE  /\ R[i].id = R[i].text
             /\ R[i].out => R[i].text \in 1..(s + 1) /\ R[i].status # "received"
             /\ ~R[i].out => In(R[i].text, sh)
  <2>1. CASE i \in 1..Len(r)
    BY <1>1, <2>1 DEF RingOK
  <2>2. CASE i = Len(r) + 1
    BY <1>1, <2>2
  <2> QED
    BY <1>1, <1>5, <2>1, <2>2
<1>6. ASSUME NEW i \in DOMAIN R, NEW j \in DOMAIN R, i < j, R[i].out, R[j].out
      PROVE  R[i].text < R[j].text
  <2>1. i \in 1..Len(r) /\ R[i] = r[i] /\ r[i].text \in 1..s
    BY <1>1, <1>6 DEF RingOK
  <2>2. CASE j \in 1..Len(r)
    BY <1>1, <1>6, <2>1, <2>2 DEF RingOK
  <2>3. CASE j = Len(r) + 1
    BY <1>1, <2>1, <2>3
  <2> QED
    BY <1>1, <1>6, <2>2, <2>3
<1>7. ASSUME NEW n \in 1..(s + 1) PROVE Own(R, n)
  <2>1. CASE n \in 1..s
    <3>1. Own(r, n)
      BY <2>1 DEF RingOK
    <3> QED
      BY <1>1, <3>1 DEF Own
  <2>2. CASE n = s + 1
    BY <1>1, <2>2 DEF Own
  <2> QED
    BY <2>1, <2>2
<1>8. RingOK(R, s + 1, sh)
  BY <1>1, <1>2, <1>4, <1>5, <1>6, <1>7 DEF RingOK
<1> QED
  BY <1>3, <1>8 DEF Added, R

\* What the other board and the air see of an appended entry.
LEMMA AppendedSeen ==
  ASSUME NEW r \in Seq(Messages), NEW m \in Messages, NEW s \in Nat, NEW t \in Nat, s <= t,
         m.out => m.status = "pending" /\ m.text = t /\ s < t
  PROVE  /\ \A sh \in Seq(Ids) : ShownOK(sh, r, s) => ShownOK(sh, Append(r, m), t)
         /\ \A sh, shO : \A w \in Seq(Packets) :
              WireOK(w, sh, r, s, shO) => WireOK(w, sh, Append(r, m), t, shO)
         /\ \A shO : SentOK(r, shO) => SentOK(Append(r, m), shO)
         /\ \A id : Awaited(r, id) => Awaited(Append(r, m), id)
<1> DEFINE R == Append(r, m)
<1>1. /\ Len(r) \in Nat /\ DOMAIN r = 1..Len(r) /\ DOMAIN R = 1..(Len(r) + 1)
      /\ \A i \in 1..Len(r) : R[i] = r[i]
      /\ R[Len(r) + 1] = m
      /\ \A i \in DOMAIN R : i \in Unsent(R) <=>
           i \in Unsent(r) \/ (i = Len(r) + 1 /\ m.out /\ m.status = "pending")
      /\ Unsent(r) \subseteq DOMAIN r /\ Unsent(R) \subseteq DOMAIN R
  BY AppendedRing DEF Unsent
<1> HIDE DEF R
<1>2. \A i \in Unsent(R) : (i \in Unsent(r) /\ R[i] = r[i]) \/ R[i].text = t
  BY <1>1
<1>3. ASSUME NEW sh \in Seq(Ids), ShownOK(sh, r, s) PROVE ShownOK(sh, R, t)
  <2>1. ASSUME NEW k \in DOMAIN sh
        PROVE  k <= sh[k] /\ sh[k] <= t /\ \A i \in Unsent(R) : sh[k] <= R[i].text
    <3>1. sh[k] \in Nat /\ k <= sh[k] /\ sh[k] <= s /\ \A i \in Unsent(r) : sh[k] <= r[i].text
      BY <1>3 DEF ShownOK, Ids
    <3>2. sh[k] <= t
      BY <3>1
    <3> QED
      BY <1>2, <3>1, <3>2
  <2> QED
    BY <1>3, <2>1 DEF ShownOK
<1>4. ASSUME NEW sh, NEW shO, NEW w \in Seq(Packets), WireOK(w, sh, r, s, shO)
      PROVE  WireOK(w, sh, R, t, shO)
  <2>1. ASSUME NEW k \in DOMAIN w, w[k].type = "text" PROVE TextOK(w[k], sh, R, t)
    <3>1. TextOK(w[k], sh, r, s)
      BY <1>4, <2>1 DEF WireOK
    <3> QED
      BY <1>2, <3>1 DEF TextOK
  <2> QED
    BY <1>4, <2>1 DEF WireOK
<1>5. ASSUME NEW shO, SentOK(r, shO) PROVE SentOK(R, shO)
  BY <1>1, <1>5 DEF SentOK
<1>6. ASSUME NEW id, Awaited(r, id) PROVE Awaited(R, id)
  BY <1>1, <1>6 DEF Awaited
<1> QED
  BY <1>3, <1>4, <1>5, <1>6 DEF R

\* A text that is delivered or given up.
LEMMA MarkedOK ==
  ASSUME NEW r \in Seq(Messages), NEW id, NEW st \in {"delivered", "failed"}
  PROVE  LET R == Marked(r, id, st)
         IN /\ R \in Seq(Messages)
            /\ \A s, sh : RingOK(r, s, sh) => RingOK(R, s, sh)
            /\ \A s, sh : ShownOK(sh, r, s) => ShownOK(sh, R, s)
            /\ \A s, sh, shO, w : WireOK(w, sh, r, s, shO) => WireOK(w, sh, R, s, shO)
            /\ \A s, sh, shO : RingOK(r, s, sh) /\ SentOK(r, shO) /\ (st = "delivered" => In(id, shO))
                 => SentOK(R, shO)
            /\ \A a : a # id /\ Awaited(r, a) => Awaited(R, a)
<1> DEFINE R == Marked(r, id, st)
<1>1. /\ R \in Seq(Messages) /\ Len(R) = Len(r) /\ DOMAIN R = DOMAIN r
      /\ \A i \in DOMAIN r :
           /\ R[i].id = r[i].id /\ R[i].out = r[i].out /\ R[i].text = r[i].text
           /\ r[i].out /\ r[i].id = id => R[i].status = st
           /\ ~(r[i].out /\ r[i].id = id) => R[i].status = r[i].status
  <2>1. st \in Statuses
    BY DEF Statuses
  <2>2. R \in Seq(Messages) /\ Len(R) = Len(r)
    BY <2>1, MarkedRing
  <2>3. DOMAIN R = 1..Len(R) /\ DOMAIN r = 1..Len(r)
    <3> HIDE DEF R
    <3> QED
      BY <2>2
  <2>4. ASSUME NEW i \in DOMAIN r
        PROVE  /\ R[i].id = r[i].id /\ R[i].out = r[i].out /\ R[i].text = r[i].text
               /\ r[i].out /\ r[i].id = id => R[i].status = st
               /\ ~(r[i].out /\ r[i].id = id) => R[i].status = r[i].status
    BY <2>1, MarkedEntry
  <2> HIDE DEF R
  <2> QED
    BY <2>2, <2>3, <2>4
<1> HIDE DEF R
<1>2. \A i \in Unsent(R) : i \in Unsent(r) /\ R[i].text = r[i].text
  BY <1>1 DEF Unsent
<1>3. ASSUME NEW n PROVE Known(r, n) => Known(R, n)
  BY <1>1 DEF Known, Slots
<1>4. ASSUME NEW s, NEW sh, RingOK(r, s, sh) PROVE RingOK(R, s, sh)
  <2>1. \A n : Own(r, n) => Own(R, n)
    BY <1>1 DEF Own
  <2> QED
    BY <1>1, <1>3, <1>4, <2>1 DEF RingOK
<1>5. ASSUME NEW s, NEW sh, ShownOK(sh, r, s) PROVE ShownOK(sh, R, s)
  BY <1>2, <1>5 DEF ShownOK
<1>6. ASSUME NEW s, NEW sh, NEW shO, NEW w, WireOK(w, sh, r, s, shO) PROVE WireOK(w, sh, R, s, shO)
  <2>1. ASSUME NEW k \in DOMAIN w, w[k].type = "text" PROVE TextOK(w[k], sh, R, s)
    <3>1. TextOK(w[k], sh, r, s)
      BY <1>6, <2>1 DEF WireOK
    <3> QED
      BY <1>2, <3>1 DEF TextOK
  <2> QED
    BY <1>6, <2>1 DEF WireOK
<1>7. ASSUME NEW s, NEW sh, NEW shO, RingOK(r, s, sh), SentOK(r, shO), st = "delivered" => In(id, shO)
      PROVE  SentOK(R, shO)
  <2>1. ASSUME NEW i \in DOMAIN r, R[i].out, R[i].status = "delivered" PROVE In(R[i].text, shO)
    <3>1. CASE r[i].out /\ r[i].id = id
      <4>1. st = "delivered" /\ R[i].text = id
        BY <1>1, <1>7, <2>1, <3>1 DEF RingOK
      <4> QED
        BY <1>7, <4>1
    <3>2. CASE ~(r[i].out /\ r[i].id = id)
      BY <1>1, <1>7, <2>1, <3>2 DEF SentOK
    <3> QED
      BY <3>1, <3>2
  <2> QED
    BY <1>1, <2>1 DEF SentOK
<1>8. ASSUME NEW a, a # id, Awaited(r, a) PROVE Awaited(R, a)
  BY <1>1, <1>8 DEF Awaited, Unsent
<1> QED
  BY <1>1, <1>4, <1>5, <1>6, <1>7, <1>8 DEF R

\* A text of the other board that was not known is shown.
LEMMA NewShown ==
  ASSUME NEW r \in Seq(Messages), NEW sh \in Seq(Ids), NEW s \in Nat, NEW m \in Messages,
         NEW rO \in Seq(Messages), NEW sO \in Nat, NEW p,
         s <= MaxTexts, sO <= MaxTexts, Roomy, RingOK(r, s, sh), ShownOK(sh, rO, sO),
         TextOK(p, sh, rO, sO), ~Known(r, p.id),
         m.id = p.id, m.text = p.text, m.out = FALSE
  PROVE  /\ Added(r, m) = Append(r, m)
         /\ RingOK(Append(r, m), s, Append(sh, p.text))
         /\ ShownOK(Append(sh, p.text), rO, sO)
<1> DEFINE R == Append(r, m)
           n == p.text
           S == Append(sh, n)
<1>1. /\ R \in Seq(Messages) /\ Len(r) \in Nat /\ Len(R) = Len(r) + 1
      /\ DOMAIN r = 1..Len(r) /\ DOMAIN R = 1..(Len(r) + 1)
      /\ \A i \in 1..Len(r) : R[i] = r[i]
      /\ R[Len(r) + 1] = m
  BY AppendedRing
<1>2. n \in 1..sO /\ n \in Ids /\ p.id = n
  BY DEF TextOK, Ids
<1>3. /\ Len(sh) \in Nat /\ S \in Seq(Ids) /\ Len(S) = Len(sh) + 1
      /\ DOMAIN sh = 1..Len(sh) /\ DOMAIN S = 1..(Len(sh) + 1)
      /\ \A k \in 1..Len(sh) : S[k] = sh[k] /\ sh[k] \in Nat
      /\ S[Len(sh) + 1] = n
  BY <1>2 DEF Ids
<1> HIDE DEF R, S
<1>4. \A k \in DOMAIN sh : sh[k] < n
  <2>1. ASSUME NEW k \in DOMAIN sh PROVE sh[k] # n
    <3>1. In(sh[k], sh)
      BY DEF In
    <3> QED
      BY <1>2, <3>1 DEF RingOK
  <2> QED
    BY <1>2, <1>3, <2>1 DEF TextOK
<1>5. Len(sh) < n
  <2>1. CASE Len(sh) = 0
    BY <1>2, <2>1
  <2>2. CASE Len(sh) > 0
    <3>1. Len(sh) \in DOMAIN sh
      BY <1>3, <2>2
    <3>2. Len(sh) <= sh[Len(sh)] /\ sh[Len(sh)] < n
      BY <1>4, <3>1 DEF ShownOK
    <3> QED
      BY <1>2, <1>3, <3>1, <3>2
  <2> QED
    BY <1>3, <2>1, <2>2
<1>6. Len(r) = s + Len(sh) /\ Len(r) < Capacity
  BY <1>1, <1>2, <1>3, <1>5 DEF RingOK, Roomy
<1>7. ASSUME NEW x PROVE In(x, S) <=> In(x, sh) \/ x = n
  <2>1. In(n, S)
    <3>1. Len(sh) + 1 \in DOMAIN S
      BY <1>3
    <3> QED
      BY <1>3, <3>1 DEF In
  <2>2. In(x, sh) => In(x, S)
    <3>1. \A k \in DOMAIN sh : k \in DOMAIN S /\ S[k] = sh[k]
      BY <1>3
    <3> QED
      BY <3>1 DEF In
  <2>3. In(x, S) => In(x, sh) \/ x = n
    <3>1. \A k \in DOMAIN S : (k \in DOMAIN sh /\ S[k] = sh[k]) \/ S[k] = n
      BY <1>3
    <3> QED
      BY <3>1 DEF In
  <2> QED
    BY <2>1, <2>2, <2>3
<1>8. \A x : In(x, S) => Known(R, x)
  BY <1>2, <1>7, AppendedKnown DEF RingOK, R
<1>9. ASSUME NEW i \in DOMAIN R
      PROVE  /\ R[i].id = R[i].text
             /\ R[i].out => R[i].text \in 1..s /\ R[i].status # "received"
             /\ ~R[i].out => In(R[i].text, S)
  <2>1. CASE i \in 1..Len(r)
    BY <1>1, <1>7, <2>1 DEF RingOK
  <2>2. CASE i = Len(r) + 1
    BY <1>1, <1>2, <1>7, <2>2
  <2> QED
    BY <1>1, <1>9, <2>1, <2>2
<1>10. ASSUME NEW i \in DOMAIN R, NEW j \in DOMAIN R, i < j, R[i].out, R[j].out
       PROVE  R[i].text < R[j].text
  <2>1. i \in 1..Len(r) /\ j \in 1..Len(r)
    BY <1>1, <1>10
  <2> QED
    BY <1>1, <1>10, <2>1 DEF RingOK
<1>11. RingOK(R, s, S)
  <2>1. ASSUME NEW x \in 1..s PROVE Own(R, x)
    <3>1. PICK i \in DOMAIN r : r[i].out /\ r[i].text = x
      BY DEF RingOK, Own
    <3>2. i \in DOMAIN R /\ R[i] = r[i]
      BY <1>1
    <3> QED
      BY <3>1, <3>2 DEF Own
  <2> QED
    BY <1>1, <1>3, <1>6, <1>8, <1>9, <1>10, <2>1 DEF RingOK
<1>12. ASSUME NEW k \in DOMAIN S
       PROVE  k <= S[k] /\ S[k] <= sO /\ \A i \in Unsent(rO) : S[k] <= rO[i].text
  <2>1. CASE k \in 1..Len(sh)
    BY <1>3, <2>1 DEF ShownOK
  <2>2. CASE k = Len(sh) + 1
    BY <1>2, <1>3, <1>5, <2>2 DEF TextOK
  <2> QED
    BY <1>3, <1>12, <2>1, <2>2
<1>13. ASSUME NEW k \in DOMAIN S, NEW l \in DOMAIN S, k < l PROVE S[k] < S[l]
  <2>1. k \in 1..Len(sh) /\ S[k] = sh[k]
    BY <1>3, <1>13
  <2>2. CASE l \in 1..Len(sh)
    BY <1>3, <1>13, <2>1, <2>2 DEF ShownOK
  <2>3. CASE l = Len(sh) + 1
    BY <1>3, <1>4, <2>1, <2>3
  <2> QED
    BY <1>3, <1>13, <2>2, <2>3
<1>14. ShownOK(S, rO, sO)
  BY <1>12, <1>13 DEF ShownOK
<1> QED
  BY <1>6, <1>11, <1>14 DEF Added, R, S

\* More shown texts confirm what fewer did.
LEMMA MoreShown ==
  ASSUME NEW sh \in Seq(Ids), NEW n \in Ids
  PROVE  /\ \A r : SentOK(r, sh) => SentOK(r, Append(sh, n))
         /\ \A w, x, r, s : WireOK(w, x, r, s, sh) => WireOK(w, x, r, s, Append(sh, n))
         /\ \A x : In(x, sh) => In(x, Append(sh, n))
         /\ In(n, Append(sh, n))
<1>1. /\ \A k \in DOMAIN sh : k \in DOMAIN Append(sh, n) /\ Append(sh, n)[k] = sh[k]
      /\ Len(sh) + 1 \in DOMAIN Append(sh, n) /\ Append(sh, n)[Len(sh) + 1] = n
  OBVIOUS
<1>2. (\A x : In(x, sh) => In(x, Append(sh, n))) /\ In(n, Append(sh, n))
  BY <1>1 DEF In
<1>3. \A r : SentOK(r, sh) => SentOK(r, Append(sh, n))
  BY <1>2 DEF SentOK
<1>4. \A w, x, r, s : WireOK(w, x, r, s, sh) => WireOK(w, x, r, s, Append(sh, n))
  BY <1>2 DEF WireOK
<1> QED
  BY <1>2, <1>3, <1>4

-----------------------------------------------------------------------------
(* The wire                                                                *)

\* The first packet is taken off.
LEMMA TailOK ==
  ASSUME NEW w \in Seq(Packets), w # <<>>, NEW sh, NEW r, NEW s, NEW shO, WireOK(w, sh, r, s, shO)
  PROVE  /\ WireOK(Tail(w), sh, r, s, shO)
         /\ w[1].type = "text" => TextOK(w[1], sh, r, s)
         /\ w[1].type = "ack" => In(w[1].id, shO)
         /\ \A k \in DOMAIN Tail(w) : w[1].type = "text" /\ Tail(w)[k].type = "text"
              => w[1].text <= Tail(w)[k].text
<1>1. /\ Len(w) \in Nat \ {0} /\ DOMAIN w = 1..Len(w) /\ DOMAIN Tail(w) = 1..(Len(w) - 1)
      /\ \A k \in DOMAIN Tail(w) : k + 1 \in DOMAIN w /\ Tail(w)[k] = w[k + 1]
  OBVIOUS
<1>2. 1 \in DOMAIN w /\ \A k \in DOMAIN Tail(w) : 1 < k + 1
  BY <1>1
<1>3. \A k, l \in DOMAIN Tail(w) : k < l => k + 1 < l + 1
  BY <1>1
<1>4. WireOK(Tail(w), sh, r, s, shO)
  BY <1>1, <1>3 DEF WireOK
<1> QED
  BY <1>1, <1>2, <1>4 DEF WireOK

\* The text that is taken off is shown: those behind it are not older.
LEMMA TailShown ==
  ASSUME NEW w \in Seq(Packets), w # <<>>, NEW sh \in Seq(Ids), NEW r, NEW s, NEW shO,
         WireOK(w, sh, r, s, shO), w[1].type = "text", w[1].text \in Ids
  PROVE  WireOK(Tail(w), Append(sh, w[1].text), r, s, shO)
<1> DEFINE S == Append(sh, w[1].text)
<1>1. \A j \in DOMAIN S : (j \in DOMAIN sh /\ S[j] = sh[j]) \/ S[j] = w[1].text
  OBVIOUS
<1> HIDE DEF S
<1>2. /\ WireOK(Tail(w), sh, r, s, shO)
      /\ \A k \in DOMAIN Tail(w) : Tail(w)[k].type = "text" => w[1].text <= Tail(w)[k].text
  BY TailOK
<1>3. ASSUME NEW k \in DOMAIN Tail(w), Tail(w)[k].type = "text" PROVE TextOK(Tail(w)[k], S, r, s)
  <2>1. TextOK(Tail(w)[k], sh, r, s)
    BY <1>2, <1>3 DEF WireOK
  <2> QED
    BY <1>1, <1>2, <1>3, <2>1 DEF TextOK
<1> QED
  BY <1>2, <1>3 DEF WireOK, S

\* A packet is put behind the others.
LEMMA AppendOK ==
  ASSUME NEW w \in Seq(Packets), NEW p \in Packets, NEW sh, NEW r, NEW s, NEW shO,
         WireOK(w, sh, r, s, shO),
         p.type = "text" => TextOK(p, sh, r, s) /\ \E i \in Unsent(r) : p.text = r[i].text,
         p.type = "ack" => In(p.id, shO)
  PROVE  WireOK(Append(w, p), sh, r, s, shO)
<1> DEFINE W == Append(w, p)
<1>1. /\ Len(w) \in Nat /\ DOMAIN w = 1..Len(w) /\ DOMAIN W = 1..(Len(w) + 1)
      /\ \A k \in DOMAIN w : W[k] = w[k]
      /\ W[Len(w) + 1] = p
  OBVIOUS
<1> HIDE DEF W
<1>2. ASSUME NEW k \in DOMAIN W
      PROVE  /\ W[k].type = "text" => TextOK(W[k], sh, r, s)
             /\ W[k].type = "ack" => In(W[k].id, shO)
  <2>1. CASE k \in DOMAIN w
    BY <1>1, <2>1 DEF WireOK
  <2>2. CASE k = Len(w) + 1
    BY <1>1, <2>2
  <2> QED
    BY <1>1, <2>1, <2>2
<1>3. ASSUME NEW k \in DOMAIN W, NEW l \in DOMAIN W, k < l, W[k].type = "text", W[l].type = "text"
      PROVE  W[k].text <= W[l].text
  <2>1. k \in DOMAIN w /\ W[k] = w[k]
    BY <1>1, <1>3
  <2>2. CASE l \in DOMAIN w
    BY <1>1, <1>3, <2>1, <2>2 DEF WireOK
  <2>3. CASE l = Len(w) + 1
    <3>1. W[l] = p /\ TextOK(w[k], sh, r, s)
      BY <1>1, <1>3, <2>1, <2>3 DEF WireOK
    <3> QED
      BY <1>3, <2>1, <3>1 DEF TextOK
  <2> QED
    BY <1>1, <2>2, <2>3
<1> QED
  BY <1>2, <1>3 DEF WireOK, W

-----------------------------------------------------------------------------
(* The steps of the boards and of the radio                                *)

\* What the invariant says of a board, by name.
LEMMA BoardTypes ==
  ASSUME TypeInv, NEW b \in Boards
  PROVE  /\ ring[b] \in Seq(Messages) /\ shown[b] \in Seq(Ids) /\ wire[b] \in Seq(Packets)
         /\ said[b] \in Nat /\ said[b] <= MaxTexts
BY DEF TypeInv, TypeOK, StoreTypes, AirTypes, Ids

\* Both boards are in order when the rings, lists and wires of each are.
LEMMA BothOK ==
  ASSUME NEW b \in Boards, NEW o, o = Other(b),
         tx'[b] = said'[b], tx'[o] = said'[o],
         RingOK(ring'[b], said'[b], shown'[b]), RingOK(ring'[o], said'[o], shown'[o]),
         ShownOK(shown'[b], ring'[o], said'[o]), ShownOK(shown'[o], ring'[b], said'[b]),
         WireOK(wire'[b], shown'[b], ring'[o], said'[o], shown'[o]),
         WireOK(wire'[o], shown'[o], ring'[b], said'[b], shown'[b]),
         SentOK(ring'[b], shown'[o]), SentOK(ring'[o], shown'[b]),
         timer'[b] => Awaited(ring'[b], awaiting'[b]),
         timer'[o] => Awaited(ring'[o], awaiting'[o])
  PROVE  \A c \in Boards : BoardOK(c)'
<1>1. o \in Boards /\ Other(o) = b /\ \A c \in Boards : c = b \/ c = o
  BY OtherBoard
<1>2. BoardOK(b)'
  BY DEF BoardOK
<1>3. BoardOK(o)'
  BY <1>1 DEF BoardOK
<1> QED
  BY <1>1, <1>2, <1>3

\* The same, read in the other direction.
LEMMA BothAre ==
  ASSUME NEW b \in Boards, NEW o, o = Other(b), \A c \in Boards : BoardOK(c)
  PROVE  /\ o \in Boards /\ o # b /\ Other(o) = b
         /\ tx[b] = said[b] /\ tx[o] = said[o]
         /\ RingOK(ring[b], said[b], shown[b]) /\ RingOK(ring[o], said[o], shown[o])
         /\ ShownOK(shown[b], ring[o], said[o]) /\ ShownOK(shown[o], ring[b], said[b])
         /\ WireOK(wire[b], shown[b], ring[o], said[o], shown[o])
         /\ WireOK(wire[o], shown[o], ring[b], said[b], shown[b])
         /\ SentOK(ring[b], shown[o]) /\ SentOK(ring[o], shown[b])
         /\ timer[b] => Awaited(ring[b], awaiting[b])
         /\ timer[o] => Awaited(ring[o], awaiting[o])
<1>1. o \in Boards /\ o # b /\ Other(o) = b
  BY OtherBoard
<1>2. BoardOK(b) /\ BoardOK(o)
  BY <1>1
<1> QED
  BY <1>1, <1>2 DEF BoardOK

\* A step that stores nothing, at most takes packets away and at most stops
\* timers.
LEMMA QuietStep ==
  ASSUME TypeInv, \A c \in Boards : BoardOK(c), UNCHANGED <<ring, tx, said, shown>>,
         \A c \in Boards : \/ wire'[c] = wire[c] \/ wire'[c] = <<>>
                           \/ wire[c] # <<>> /\ wire'[c] = Tail(wire[c]),
         \A c \in Boards : timer'[c] => timer[c] /\ awaiting'[c] = awaiting[c]
  PROVE  \A c \in Boards : BoardOK(c)'
<1> SUFFICES ASSUME NEW c \in Boards PROVE BoardOK(c)'
  OBVIOUS
<1> DEFINE o == Other(c)
<1>1. /\ WireOK(wire[c], shown[c], ring[o], said[o], shown[o])
      /\ wire[c] \in Seq(Packets)
  BY BoardTypes DEF BoardOK
<1>2. WireOK(wire'[c], shown[c], ring[o], said[o], shown[o])
  <2>1. CASE wire'[c] = wire[c]
    BY <1>1, <2>1
  <2>2. CASE wire'[c] = <<>>
    BY <2>2 DEF WireOK
  <2>3. CASE wire[c] # <<>> /\ wire'[c] = Tail(wire[c])
    BY <1>1, <2>3, TailOK
  <2> QED
    BY <2>1, <2>2, <2>3
<1> QED
  BY <1>2 DEF BoardOK

\* A packet is sent; its sender may begin to wait for it.
LEMMA SendStep ==
  ASSUME TypeInv, \A c \in Boards : BoardOK(c), UNCHANGED <<ring, tx, said, shown>>,
         NEW b \in Boards, NEW p \in Packets, Send(b, p),
         p.type = "text" => /\ TextOK(p, shown[Other(b)], ring[b], said[b])
                            /\ \E i \in Unsent(ring[b]) : p.text = ring[b][i].text,
         p.type # "ack",
         timer'[b] => Awaited(ring[b], awaiting'[b]),
         \A c \in Boards : c # b => timer'[c] = timer[c] /\ awaiting'[c] = awaiting[c]
  PROVE  \A c \in Boards : BoardOK(c)'
<1> DEFINE o == Other(b)
<1>1. /\ o \in Boards /\ o # b /\ Other(o) = b
      /\ tx[b] = said[b] /\ tx[o] = said[o]
      /\ RingOK(ring[b], said[b], shown[b]) /\ RingOK(ring[o], said[o], shown[o])
      /\ ShownOK(shown[b], ring[o], said[o]) /\ ShownOK(shown[o], ring[b], said[b])
      /\ WireOK(wire[b], shown[b], ring[o], said[o], shown[o])
      /\ WireOK(wire[o], shown[o], ring[b], said[b], shown[b])
      /\ SentOK(ring[b], shown[o]) /\ SentOK(ring[o], shown[b])
      /\ timer[o] => Awaited(ring[o], awaiting[o])
  BY BothAre
<1>2. wire \in [Boards -> Seq(Packets)] /\ wire[o] \in Seq(Packets)
  BY <1>1 DEF TypeInv, TypeOK, AirTypes
<1>3. wire'[b] = wire[b] /\ wire'[o] \in {wire[o], Append(wire[o], p)}
  BY <1>1, <1>2 DEF Send
<1>4. WireOK(wire'[o], shown[o], ring[b], said[b], shown[b])
  <2>1. WireOK(Append(wire[o], p), shown[o], ring[b], said[b], shown[b])
    BY <1>1, <1>2, AppendOK
  <2> QED
    BY <1>1, <1>3, <2>1
<1>5. timer'[o] => Awaited(ring[o], awaiting'[o])
  BY <1>1
<1> HIDE DEF o
<1>6. o = Other(b)
  BY DEF o
<1> QED
  BY <1>1, <1>3, <1>4, <1>5, <1>6, BothOK

\* A text of this board is delivered or given up, or a packet that confirms one
\* is taken.
LEMMA MarkStep ==
  ASSUME TypeInv, \A c \in Boards : BoardOK(c), UNCHANGED <<tx, said, shown>>,
         NEW b \in Boards, NEW id, NEW st \in {"delivered", "failed"},
         ring' \in {ring, [ring EXCEPT ![b] = Marked(ring[b], id, st)]},
         st = "delivered" => In(id, shown[Other(b)]),
         wire' = wire \/ (wire[b] # <<>> /\ wire' = [wire EXCEPT ![b] = Tail(@)]),
         \/ ~timer'[b]
         \/ timer'[b] = timer[b] /\ awaiting'[b] = awaiting[b] /\ (ring' = ring \/ awaiting[b] # id),
         \A c \in Boards : c # b => timer'[c] = timer[c] /\ awaiting'[c] = awaiting[c]
  PROVE  \A c \in Boards : BoardOK(c)'
<1> DEFINE o == Other(b)
           R == Marked(ring[b], id, st)
<1>1. /\ o \in Boards /\ o # b /\ Other(o) = b
      /\ tx[b] = said[b] /\ tx[o] = said[o]
      /\ RingOK(ring[b], said[b], shown[b]) /\ RingOK(ring[o], said[o], shown[o])
      /\ ShownOK(shown[b], ring[o], said[o]) /\ ShownOK(shown[o], ring[b], said[b])
      /\ WireOK(wire[b], shown[b], ring[o], said[o], shown[o])
      /\ WireOK(wire[o], shown[o], ring[b], said[b], shown[b])
      /\ SentOK(ring[b], shown[o]) /\ SentOK(ring[o], shown[b])
      /\ timer[b] => Awaited(ring[b], awaiting[b])
      /\ timer[o] => Awaited(ring[o], awaiting[o])
  BY BothAre
<1>2. /\ ring \in [Boards -> Seq(Messages)] /\ ring[b] \in Seq(Messages)
      /\ wire \in [Boards -> Seq(Packets)] /\ wire[b] \in Seq(Packets)
  BY DEF TypeInv, TypeOK, StoreTypes, AirTypes
<1>3. ring'[o] = ring[o] /\ (ring'[b] = ring[b] \/ ring'[b] = R)
  BY <1>1, <1>2
<1>4. /\ RingOK(R, said[b], shown[b]) /\ ShownOK(shown[o], R, said[b])
      /\ WireOK(wire[o], shown[o], R, said[b], shown[b]) /\ SentOK(R, shown[o])
      /\ \A a : a # id /\ Awaited(ring[b], a) => Awaited(R, a)
  BY <1>1, <1>2, MarkedOK
<1>5. /\ RingOK(ring'[b], said[b], shown[b]) /\ ShownOK(shown[o], ring'[b], said[b])
      /\ WireOK(wire[o], shown[o], ring'[b], said[b], shown[b]) /\ SentOK(ring'[b], shown[o])
  BY <1>1, <1>3, <1>4
<1>6. timer'[b] => Awaited(ring'[b], awaiting'[b])
  BY <1>1, <1>3, <1>4
<1>7. wire'[o] = wire[o] /\ WireOK(wire'[b], shown[b], ring[o], said[o], shown[o])
  <2>1. CASE wire' = wire
    BY <1>1, <2>1
  <2>2. CASE wire[b] # <<>> /\ wire' = [wire EXCEPT ![b] = Tail(@)]
    <3>1. wire'[o] = wire[o] /\ wire'[b] = Tail(wire[b])
      BY <1>1, <1>2, <2>2
    <3> QED
      BY <1>1, <1>2, <2>2, <3>1, TailOK
  <2> QED
    BY <2>1, <2>2
<1>8. timer'[o] => Awaited(ring'[o], awaiting'[o])
  BY <1>1, <1>3
<1> HIDE DEF o, R
<1>9. o = Other(b)
  BY DEF o
<1> QED
  BY <1>1, <1>3, <1>5, <1>6, <1>7, <1>8, <1>9, BothOK

\* The user sends a text.
LEMMA SendTextStep ==
  ASSUME Roomy, TypeInv, \A c \in Boards : BoardOK(c), NEW b \in Boards, SendText(b)
  PROVE  \A c \in Boards : BoardOK(c)'
<1> DEFINE o == Other(b)
           m == [id |-> tx[b] + 1, out |-> TRUE, status |-> "pending", text |-> said[b] + 1]
           R == Append(ring[b], m)
<1>1. /\ o \in Boards /\ o # b /\ Other(o) = b
      /\ tx[b] = said[b] /\ tx[o] = said[o]
      /\ RingOK(ring[b], said[b], shown[b]) /\ RingOK(ring[o], said[o], shown[o])
      /\ ShownOK(shown[b], ring[o], said[o]) /\ ShownOK(shown[o], ring[b], said[b])
      /\ WireOK(wire[b], shown[b], ring[o], said[o], shown[o])
      /\ WireOK(wire[o], shown[o], ring[b], said[b], shown[b])
      /\ SentOK(ring[b], shown[o]) /\ SentOK(ring[o], shown[b])
      /\ timer[b] => Awaited(ring[b], awaiting[b])
      /\ timer[o] => Awaited(ring[o], awaiting[o])
  BY BothAre
<1>2. /\ ring[b] \in Seq(Messages) /\ shown[b] \in Seq(Ids) /\ shown[o] \in Seq(Ids)
      /\ wire[o] \in Seq(Packets) /\ said[b] \in Nat /\ said[o] \in Nat /\ said[o] <= MaxTexts
  BY <1>1, BoardTypes
<1>3. said[b] < MaxTexts /\ Len(shown[b]) <= MaxTexts
  <2>1. Len(shown[b]) <= said[o] /\ Len(shown[b]) \in Nat
    BY <1>1, <1>2, ShownBounded
  <2> QED
    BY <1>2, <2>1 DEF SendText
<1>4. /\ m \in Messages /\ m.id = said[b] + 1 /\ m.text = said[b] + 1
      /\ m.out = TRUE /\ m.status = "pending"
  BY <1>1, <1>2, <1>3 DEF Messages, Ids, Statuses
<1>5. /\ ring' = [ring EXCEPT ![b] = Added(ring[b], m)]
      /\ tx' = [tx EXCEPT ![b] = tx[b] + 1] /\ said' = [said EXCEPT ![b] = said[b] + 1]
      /\ UNCHANGED <<shown, wire, timer, awaiting>>
  BY DEF SendText, worker, air
<1> HIDE DEF m
<1>6. Added(ring[b], m) = R /\ RingOK(R, said[b] + 1, shown[b])
  BY <1>1, <1>2, <1>3, <1>4, NewText
<1>7. /\ ShownOK(shown[o], R, said[b] + 1) /\ WireOK(wire[o], shown[o], R, said[b] + 1, shown[b])
      /\ SentOK(R, shown[o]) /\ (timer[b] => Awaited(R, awaiting[b]))
  BY <1>1, <1>2, <1>4, AppendedSeen
<1> HIDE DEF R
<1>8. ring'[b] = R /\ ring'[o] = ring[o] /\ tx'[b] = said'[b] /\ tx'[o] = said'[o]
      /\ said'[b] = said[b] + 1 /\ said'[o] = said[o]
  <2>1. ring \in [Boards -> Seq(Messages)] /\ tx \in [Boards -> Ids] /\ said \in [Boards -> Ids]
    BY DEF TypeInv, TypeOK, StoreTypes
  <2> QED
    BY <1>1, <1>5, <1>6, <2>1
<1> HIDE DEF o
<1>9. o = Other(b)
  BY DEF o
<1> QED
  BY <1>1, <1>5, <1>6, <1>7, <1>8, <1>9, BothOK

\* A text arrives: unless it is known it is shown, and it is acknowledged.
LEMMA RecvTextStep ==
  ASSUME Roomy, TypeInv, \A c \in Boards : BoardOK(c), NEW b \in Boards, RecvText(b)
  PROVE  \A c \in Boards : BoardOK(c)'
<1> DEFINE o == Other(b)
           p == wire[b][1]
           m == [id |-> p.id, out |-> FALSE, status |-> "received", text |-> p.text]
           R == Append(ring[b], m)
           S == Append(shown[b], p.text)
<1>1. /\ o \in Boards /\ o # b /\ Other(o) = b
      /\ tx[b] = said[b] /\ tx[o] = said[o]
      /\ RingOK(ring[b], said[b], shown[b]) /\ RingOK(ring[o], said[o], shown[o])
      /\ ShownOK(shown[b], ring[o], said[o]) /\ ShownOK(shown[o], ring[b], said[b])
      /\ WireOK(wire[b], shown[b], ring[o], said[o], shown[o])
      /\ WireOK(wire[o], shown[o], ring[b], said[b], shown[b])
      /\ SentOK(ring[b], shown[o]) /\ SentOK(ring[o], shown[b])
      /\ timer[b] => Awaited(ring[b], awaiting[b])
      /\ timer[o] => Awaited(ring[o], awaiting[o])
  BY BothAre
<1>2. /\ ring[b] \in Seq(Messages) /\ ring[o] \in Seq(Messages)
      /\ shown[b] \in Seq(Ids) /\ shown[o] \in Seq(Ids)
      /\ wire[b] \in Seq(Packets) /\ wire[o] \in Seq(Packets)
      /\ said[b] \in Nat /\ said[b] <= MaxTexts /\ said[o] \in Nat /\ said[o] <= MaxTexts
  BY <1>1, BoardTypes
<1>3. /\ ring \in [Boards -> Seq(Messages)] /\ shown \in [Boards -> Seq(Ids)]
      /\ wire \in [Boards -> Seq(Packets)] /\ AirTypes
  BY DEF TypeInv, TypeOK, StoreTypes, AirTypes
<1>4. wire[b] # <<>> /\ p.type = "text" /\ p.id \in Ids /\ p.text \in Ids
  BY <1>3, ArrivesTypes DEF RecvText
<1>5. UNCHANGED <<tx, said, timer, awaiting>>
  BY DEF RecvText, worker, store
<1>6. TextOK(p, shown[b], ring[o], said[o]) /\ p.id = p.text
  BY <1>1, <1>2, <1>4, TailOK DEF TextOK
<1>7. CASE ~ready[b]
  <2>1. UNCHANGED <<ring, shown>> /\ wire' = [wire EXCEPT ![b] = Tail(@)]
    BY <1>7 DEF RecvText, store, Taken
  <2>2. \A c \in Boards : \/ wire'[c] = wire[c] \/ wire'[c] = <<>>
                          \/ wire[c] # <<>> /\ wire'[c] = Tail(wire[c])
    BY <1>3, <1>4, <2>1
  <2> QED
    BY <1>5, <2>1, <2>2, QuietStep
<1>8. CASE ready[b]
  <2>1. /\ wire'[b] = Tail(wire[b])
        /\ wire'[o] = wire[o] \/ wire'[o] = Append(wire[o], Ack(p.id))
    BY <1>1, <1>3, <1>8 DEF RecvText
  <2>2. Ack(p.id) \in Packets /\ Ack(p.id).type = "ack" /\ Ack(p.id).id = p.id
    BY <1>4, PacketTypes DEF Ack
  <2>3. ASSUME NEW r, NEW sh, In(p.id, sh), WireOK(wire[o], shown[o], r, said[b], sh)
        PROVE  WireOK(wire'[o], shown[o], r, said[b], sh)
    <3>1. WireOK(Append(wire[o], Ack(p.id)), shown[o], r, said[b], sh)
      BY <1>2, <2>2, <2>3, AppendOK
    <3> QED
      BY <2>1, <2>3, <3>1
  <2>4. CASE Known(ring[b], p.id)
    <3>1. UNCHANGED <<ring, shown>>
      BY <1>8, <2>4 DEF RecvText
    <3>2. In(p.id, shown[b])
      <4>1. PICK i \in DOMAIN ring[b] : ring[b][i].id = p.id /\ ring[b][i].out = FALSE
        BY <2>4 DEF Known, Slots
      <4> QED
        BY <1>1, <4>1 DEF RingOK
    <3>3. WireOK(wire'[o], shown[o], ring[b], said[b], shown[b])
      BY <1>1, <2>3, <3>2
    <3>4. WireOK(wire'[b], shown[b], ring[o], said[o], shown[o])
      BY <1>1, <1>2, <1>4, <2>1, TailOK
    <3> HIDE DEF o
    <3>5. o = Other(b)
      BY DEF o
    <3> QED
      BY <1>1, <1>5, <3>1, <3>3, <3>4, <3>5, BothOK
  <2>5. CASE ~Known(ring[b], p.id)
    <3>1. /\ ring' = [ring EXCEPT ![b] = Added(ring[b], m)]
          /\ shown' = [shown EXCEPT ![b] = S]
      BY <1>8, <2>5 DEF RecvText
    <3>2. m \in Messages /\ m.id = p.id /\ m.text = p.text /\ m.out = FALSE
      BY <1>4 DEF Messages, Statuses
    <3> HIDE DEF m
    <3>3. Added(ring[b], m) = R /\ RingOK(R, said[b], S) /\ ShownOK(S, ring[o], said[o])
      <4> HIDE DEF o, p
      <4>1. /\ m \in Messages /\ ring[b] \in Seq(Messages) /\ ring[o] \in Seq(Messages)
            /\ shown[b] \in Seq(Ids) /\ said[b] \in Nat /\ said[o] \in Nat
            /\ said[b] <= MaxTexts /\ said[o] <= MaxTexts
            /\ RingOK(ring[b], said[b], shown[b]) /\ ShownOK(shown[b], ring[o], said[o])
            /\ TextOK(p, shown[b], ring[o], said[o]) /\ ~Known(ring[b], p.id)
            /\ m.id = p.id /\ m.text = p.text /\ m.out = FALSE
        BY <1>1, <1>2, <1>6, <2>5, <3>2
      <4> QED
        BY <4>1, NewShown
    <3>4. /\ ShownOK(shown[o], R, said[b]) /\ WireOK(wire[o], shown[o], R, said[b], shown[b])
          /\ SentOK(R, shown[o]) /\ (timer[b] => Awaited(R, awaiting[b]))
      BY <1>1, <1>2, <3>2, AppendedSeen
    <3>5. WireOK(wire[o], shown[o], R, said[b], S) /\ SentOK(ring[o], S) /\ In(p.id, S)
      BY <1>1, <1>2, <1>4, <1>6, <3>4, MoreShown
    <3>6. WireOK(wire'[o], shown[o], R, said[b], S)
      BY <2>3, <3>5
    <3>7. WireOK(wire'[b], S, ring[o], said[o], shown[o])
      BY <1>1, <1>2, <1>4, <2>1, TailShown
    <3>8. ring'[b] = R /\ ring'[o] = ring[o] /\ shown'[b] = S /\ shown'[o] = shown[o]
      BY <1>1, <1>3, <3>1, <3>3
    <3> HIDE DEF o, R, S
    <3>9. o = Other(b)
      BY DEF o
    <3> QED
      BY <1>1, <1>5, <3>3, <3>4, <3>5, <3>6, <3>7, <3>8, <3>9, BothOK
  <2> QED
    BY <2>4, <2>5
<1> QED
  BY <1>7, <1>8

-----------------------------------------------------------------------------
(* The invariant                                                           *)

\* The initial states satisfy it.
LEMMA InitDelivery == Init => DeliveryInv
<1> SUFFICES ASSUME Init, NEW b \in Boards PROVE BoardOK(b)
  BY InitTypes DEF DeliveryInv
<1> DEFINE o == Other(b)
<1>1. /\ o \in Boards /\ tx[b] = 0 /\ said[b] = 0 /\ said[o] = 0 /\ ring[b] = <<>> /\ ring[o] = <<>>
      /\ shown[b] = <<>> /\ shown[o] = <<>> /\ wire[b] = <<>> /\ timer[b] = FALSE
  BY OtherBoard DEF Init
<1> QED
  BY <1>1 DEF BoardOK, RingOK, ShownOK, WireOK, SentOK, In, Own

\* Every step keeps it.
LEMMA StepDelivery ==
  ASSUME Roomy, NeverReset
  PROVE  DeliveryInv /\ [Next]_vars => DeliveryInv'
<1> SUFFICES ASSUME DeliveryInv, [Next]_vars PROVE \A c \in Boards : BoardOK(c)'
  BY StepTypes DEF DeliveryInv
<1>0. TypeInv /\ \A c \in Boards : BoardOK(c)
  BY DEF DeliveryInv
<1>t. /\ wire \in [Boards -> Seq(Packets)] /\ timer \in [Boards -> BOOLEAN]
      /\ awaiting \in [Boards -> Ids] /\ ring \in [Boards -> Seq(Messages)] /\ AirTypes
  BY <1>0 DEF TypeInv, TypeOK, AirTypes, WorkerTypes, StoreTypes
<1>1. ASSUME NEW b \in Boards, SendText(b) PROVE \A c \in Boards : BoardOK(c)'
  BY <1>0, <1>1, SendTextStep
<1>2. ASSUME NEW b \in Boards, SendSaved(b) PROVE \A c \in Boards : BoardOK(c)'
  <2>1. UNCHANGED <<ring, tx, said, shown, wire, timer, awaiting>>
    BY <1>2 DEF SendSaved, air
  <2> QED
    BY <1>0, <2>1, QuietStep
<1>3. ASSUME NEW b \in Boards, SendNothing(b) PROVE \A c \in Boards : BoardOK(c)'
  <2>1. UNCHANGED <<ring, tx, said, shown, wire, timer, awaiting>>
    BY <1>3 DEF SendNothing, air, store
  <2> QED
    BY <1>0, <2>1, QuietStep
<1>4. ASSUME NEW b \in Boards, SendPending(b) PROVE \A c \in Boards : BoardOK(c)'
  <2> DEFINE i == Oldest(Unsent(ring[b]))
             e == ring[b][i]
             o == Other(b)
  <2>1. UNCHANGED <<ring, tx, said, shown>>
    BY <1>4 DEF SendPending, store
  <2>2. CASE UNCHANGED <<wire, timer, awaiting>>
    BY <1>0, <2>1, <2>2, QuietStep
  <2>3. CASE /\ Send(b, Text(e)) /\ timer' = [timer EXCEPT ![b] = TRUE]
             /\ awaiting' = [awaiting EXCEPT ![b] = e.id]
    <3>1. ring[b] \in Seq(Messages) /\ Unsent(ring[b]) # {}
      BY <1>t, <1>4 DEF SendPending
    <3>2. i \in Unsent(ring[b]) /\ e \in Messages /\ \A j \in Unsent(ring[b]) : i <= j
      BY <3>1, NextToSend
    <3> HIDE DEF i
    <3>3. i \in DOMAIN ring[b] /\ e.out = TRUE
      BY <3>2 DEF Unsent, Messages
    <3>4. RingOK(ring[b], said[b], shown[b]) /\ ShownOK(shown[o], ring[b], said[b])
      BY <1>0, BothAre
    <3>5. e.id = e.text /\ e.text \in 1..said[b]
      BY <3>3, <3>4 DEF RingOK
    <3>6. \A j \in Unsent(ring[b]) : e.text <= ring[b][j].text
      <4> SUFFICES ASSUME NEW j \in Unsent(ring[b]) PROVE e.text <= ring[b][j].text
        OBVIOUS
      <4>1. j \in DOMAIN ring[b] /\ ring[b][j].out /\ i <= j /\ i \in Nat /\ j \in Nat
        BY <3>1, <3>2, <3>3 DEF Unsent
      <4>2. CASE i = j
        BY <3>5, <4>2
      <4>3. CASE i < j
        <5>1. e.text < ring[b][j].text /\ ring[b][j].text \in 1..said[b]
          BY <3>3, <3>4, <4>1, <4>3 DEF RingOK
        <5> QED
          BY <3>5, <5>1
      <4> QED
        BY <4>1, <4>2, <4>3
    <3>7. \A k \in DOMAIN shown[o] : shown[o][k] <= e.text
      BY <3>2, <3>4 DEF ShownOK
    <3>8. Text(e).type = "text" /\ Text(e).id = e.id /\ Text(e).text = e.text /\ Text(e) \in Packets
      BY <3>2, PacketTypes DEF Text
    <3>9. TextOK(Text(e), shown[o], ring[b], said[b])
      BY <3>5, <3>6, <3>7, <3>8 DEF TextOK
    <3>10. \E j \in Unsent(ring[b]) : Text(e).text = ring[b][j].text
      BY <3>2, <3>8
    <3>11. awaiting'[b] = e.id /\ Awaited(ring[b], awaiting'[b])
      BY <1>t, <2>3, <3>2 DEF Awaited
    <3>12. \A c \in Boards : c # b => timer'[c] = timer[c] /\ awaiting'[c] = awaiting[c]
      BY <1>t, <2>3
    <3> HIDE DEF e
    <3> QED
      BY <1>0, <2>1, <2>3, <3>8, <3>9, <3>10, <3>11, <3>12, SendStep
  <2> QED
    BY <1>4, <2>2, <2>3 DEF SendPending
<1>5. ASSUME NEW b \in Boards, SendHello(b) PROVE \A c \in Boards : BoardOK(c)'
  <2>1. UNCHANGED <<ring, tx, said, shown, timer, awaiting>> /\ Send(b, Hello)
    BY <1>5 DEF SendHello, store
  <2>2. Hello \in Packets /\ Hello.type = "hello"
    BY PacketTypes DEF Hello
  <2>3. timer'[b] => Awaited(ring[b], awaiting'[b])
    BY <1>0, <2>1 DEF BoardOK
  <2> QED
    BY <1>0, <2>1, <2>2, <2>3, SendStep
<1>6. ASSUME NEW b \in Boards, RecvHello(b) PROVE \A c \in Boards : BoardOK(c)'
  <2>1. UNCHANGED <<ring, tx, said, shown, awaiting>> /\ timer' = [timer EXCEPT ![b] = FALSE]
        /\ wire[b] # <<>> /\ wire' = [wire EXCEPT ![b] = Tail(@)]
    BY <1>6 DEF RecvHello, store, Arrives, Taken
  <2>2. \A c \in Boards : timer'[c] => timer[c] /\ awaiting'[c] = awaiting[c]
    BY <1>t, <2>1
  <2>3. \A c \in Boards : \/ wire'[c] = wire[c] \/ wire'[c] = <<>>
                          \/ wire[c] # <<>> /\ wire'[c] = Tail(wire[c])
    BY <1>t, <2>1
  <2> QED
    BY <1>0, <2>1, <2>2, <2>3, QuietStep
<1>7. ASSUME NEW b \in Boards, RecvText(b) PROVE \A c \in Boards : BoardOK(c)'
  BY <1>0, <1>7, RecvTextStep
<1>8. ASSUME NEW b \in Boards, RecvAck(b) PROVE \A c \in Boards : BoardOK(c)'
  <2> DEFINE id == AckedId(b)
  <2>1. UNCHANGED <<tx, said, shown>> /\ wire[b] # <<>> /\ wire' = [wire EXCEPT ![b] = Tail(@)]
        /\ ring' \in {ring, [ring EXCEPT ![b] = Marked(ring[b], id, "delivered")]}
    BY <1>8 DEF RecvAck, store, Arrives, Taken
  <2>2. In(id, shown[Other(b)])
    <3>1. wire[b][1].type = "ack" /\ wire[b] \in Seq(Packets)
      BY <1>8, <1>t DEF RecvAck, Arrives
    <3>2. WireOK(wire[b], shown[b], ring[Other(b)], said[Other(b)], shown[Other(b)])
      BY <1>0 DEF BoardOK
    <3> QED
      BY <2>1, <3>1, <3>2, TailOK DEF AckedId
  <2>3. \/ UNCHANGED <<ring, awaiting, timer>>
        \/ awaiting[b] = id /\ NotAwaiting(b)
        \/ awaiting[b] # id /\ UNCHANGED <<awaiting, timer>>
    BY <1>8 DEF RecvAck, store
  <2>4. /\ ~timer'[b] \/ (/\ timer'[b] = timer[b] /\ awaiting'[b] = awaiting[b]
                          /\ ring' = ring \/ awaiting[b] # id)
        /\ \A c \in Boards : c # b => timer'[c] = timer[c] /\ awaiting'[c] = awaiting[c]
    BY <1>t, <2>3 DEF NotAwaiting
  <2> HIDE DEF id
  <2> QED
    BY <1>0, <2>1, <2>2, <2>4, MarkStep
<1>9. ASSUME NEW b \in Boards, Retry(b) PROVE \A c \in Boards : BoardOK(c)'
  <2>1. UNCHANGED <<ring, tx, said, shown, wire, awaiting>> /\ timer' = [timer EXCEPT ![b] = FALSE]
    BY <1>9 DEF Retry, store, air
  <2>2. \A c \in Boards : timer'[c] => timer[c] /\ awaiting'[c] = awaiting[c]
    BY <1>t, <2>1
  <2> QED
    BY <1>0, <2>1, <2>2, QuietStep
<1>10. ASSUME NEW b \in Boards, GiveUp(b) PROVE \A c \in Boards : BoardOK(c)'
  <2>1. UNCHANGED <<tx, said, shown, wire>> /\ NotAwaiting(b)
        /\ ring' \in {ring, [ring EXCEPT ![b] = Marked(ring[b], awaiting[b], "failed")]}
    BY <1>10 DEF GiveUp, air
  <2>2. /\ ~timer'[b]
        /\ \A c \in Boards : c # b => timer'[c] = timer[c] /\ awaiting'[c] = awaiting[c]
    BY <1>t, <2>1 DEF NotAwaiting
  <2> QED
    BY <1>0, <2>1, <2>2, MarkStep
<1>11. ASSUME NEW b \in Boards, HandleDisconnect(b) PROVE \A c \in Boards : BoardOK(c)'
  <2>1. UNCHANGED <<ring, tx, said, shown, wire>> /\ NotAwaiting(b)
    BY <1>11 DEF HandleDisconnect, store, air
  <2>2. \A c \in Boards : timer'[c] => timer[c] /\ awaiting'[c] = awaiting[c]
    BY <1>t, <2>1 DEF NotAwaiting
  <2> QED
    BY <1>0, <2>1, <2>2, QuietStep
<1>12. ASSUME NEW b \in Boards, Lose(b) PROVE \A c \in Boards : BoardOK(c)'
  <2>1. UNCHANGED <<ring, tx, said, shown, timer, awaiting>>
        /\ wire[b] # <<>> /\ wire' = [wire EXCEPT ![b] = Tail(@)]
    BY <1>12 DEF Lose, store, worker, Taken
  <2>2. \A c \in Boards : \/ wire'[c] = wire[c] \/ wire'[c] = <<>>
                          \/ wire[c] # <<>> /\ wire'[c] = Tail(wire[c])
    BY <1>t, <2>1
  <2> QED
    BY <1>0, <2>1, <2>2, QuietStep
<1>13. ASSUME NEW b \in Boards, Crash(b) PROVE FALSE
  BY <1>13 DEF Crash, Fault, NeverReset
<1>14. CASE Connect
  <2>1. UNCHANGED <<ring, tx, said, shown, wire, timer, awaiting>>
    BY <1>14 DEF Connect, store
  <2> QED
    BY <1>0, <2>1, QuietStep
<1>15. CASE Drop
  <2>1. UNCHANGED <<ring, tx, said, shown, timer, awaiting>> /\ \A c \in Boards : wire'[c] = <<>>
    BY <1>15 DEF Drop, store, worker
  <2> QED
    BY <1>0, <2>1, QuietStep
<1>16. CASE UNCHANGED vars
  <2>1. UNCHANGED <<ring, tx, said, shown, wire, timer, awaiting>>
    BY <1>16 DEF vars
  <2> QED
    BY <1>0, <2>1, QuietStep
<1> QED
  BY <1>1, <1>2, <1>3, <1>4, <1>5, <1>6, <1>7, <1>8, <1>9, <1>10, <1>11, <1>12, <1>13, <1>14, <1>15, <1>16
  DEF Next, Worker

\* It holds in every reachable state.
LEMMA Delivery ==
  ASSUME Roomy, NeverReset
  PROVE  Spec => []DeliveryInv
BY InitDelivery, StepDelivery, PTL DEF Spec

-----------------------------------------------------------------------------
(* What survives a reset                                                   *)

\* Here a board may be reset, as long as its card can be written.  A reset
\* takes back a text that was not yet saved, and with it its id, which the next
\* text gets again: so a text and its id part, and what counts at the receiver
\* is the id.

\* The texts of a board with ring r and sequence x that has sent s are in the
\* order in which they were sent, by number and by id.
OutOK(r, x, s) ==
  /\ \A i \in DOMAIN r : r[i].out => r[i].id <= x /\ r[i].text \in 1..s
  /\ \A i, j \in DOMAIN r :
       i < j /\ r[i].out /\ r[j].out => r[i].id < r[j].id /\ r[i].text < r[j].text

\* The texts a board has shown of one that has sent s.
ListOK(sh, s) ==
  /\ \A k \in DOMAIN sh : k <= sh[k] /\ sh[k] <= s
  /\ \A k, l \in DOMAIN sh : k < l => sh[k] < sh[l]

\* A text that arrives at a board with ring r that has shown sh is not shown, or
\* it is newer than what was.
Fresh(id, n, sh, r) == Known(r, id) \/ \A k \in DOMAIN sh : sh[k] < n

\* So is every text that is still pending at its sender, with ring q, ...
WaitOK(q, sh, r) == \A i \in Unsent(q) : Fresh(q[i].id, q[i].text, sh, r)

\* ... and every text under way, which no other text overtakes.
Ahead(p, m) == p.id = m.id \/ p.text < m.text

PacketOK(p, sh, r, q, s) ==
  /\ p.text \in 1..s /\ Fresh(p.id, p.text, sh, r)
  /\ \A i \in Unsent(q) : Ahead(p, q[i])

FlightOK(w, sh, r, q, s) ==
  /\ \A k \in DOMAIN w :
       /\ w[k].type = "text" => PacketOK(w[k], sh, r, q, s)
       /\ w[k].type = "ack" => Known(q, w[k].id)
  /\ \A k, l \in DOMAIN w :
       k < l /\ w[k].type = "text" /\ w[l].type = "text" => Ahead(w[k], w[l])

ConfirmOK(q, r) ==
  \A i \in DOMAIN q : q[i].out /\ q[i].status = "delivered" => Known(r, q[i].id)

\* The file of a board is its ring, or lacks the text that is about to be saved.
Synced(b) ==
  \/ disk[b].ring = ring[b] /\ disk[b].tx = tx[b]
  \/ /\ app[b] = "save" /\ tx[b] = disk[b].tx + 1
     /\ \E m \in Messages : m.out = TRUE /\ m.id = tx[b] /\ ring[b] = Append(disk[b].ring, m)

ResetOK(b) ==
  /\ OutOK(ring[b], tx[b], said[b])
  /\ Len(ring[b]) <= said[b] + Len(shown[b])
  /\ Synced(b)
  /\ ListOK(shown[b], said[Other(b)])
  /\ WaitOK(ring[Other(b)], shown[b], ring[b])
  /\ FlightOK(wire[b], shown[b], ring[b], ring[Other(b)], said[Other(b)])
  /\ ConfirmOK(ring[Other(b)], ring[b])
  /\ timer[b] => Awaited(ring[b], awaiting[b])

ResetInv == TypeInv /\ \A b \in Boards : ResetOK(b)

\* A ring R knows what r knows, and has no other texts pending.
KnowsMore(r, R) == \A n : Known(r, n) => Known(R, n)
Fewer(r, R) == \A i \in Unsent(R) : \E j \in Unsent(r) : R[i].id = r[j].id /\ R[i].text = r[j].text

\* A board whose ring knows more is as well off.
LEMMA KeptRing ==
  ASSUME NEW r, NEW R, KnowsMore(r, R)
  PROVE  /\ \A q, sh : WaitOK(q, sh, r) => WaitOK(q, sh, R)
         /\ \A w, sh, q, s : FlightOK(w, sh, r, q, s) => FlightOK(w, sh, R, q, s)
         /\ \A q : ConfirmOK(q, r) => ConfirmOK(q, R)
<1>1. \A id, n, sh : Fresh(id, n, sh, r) => Fresh(id, n, sh, R)
  BY DEF Fresh, KnowsMore
<1>2. \A q, sh : WaitOK(q, sh, r) => WaitOK(q, sh, R)
  BY <1>1 DEF WaitOK
<1>3. \A p, sh, q, s : PacketOK(p, sh, r, q, s) => PacketOK(p, sh, R, q, s)
  BY <1>1 DEF PacketOK
<1>4. \A w, sh, q, s : FlightOK(w, sh, r, q, s) => FlightOK(w, sh, R, q, s)
  BY <1>3 DEF FlightOK
<1>5. \A q : ConfirmOK(q, r) => ConfirmOK(q, R)
  BY DEF ConfirmOK, KnowsMore
<1> QED
  BY <1>2, <1>4, <1>5

\* So is the other board, when fewer texts are pending.
LEMMA FewerPending ==
  ASSUME NEW q, NEW Q, KnowsMore(q, Q), Fewer(q, Q)
  PROVE  /\ \A sh, r : WaitOK(q, sh, r) => WaitOK(Q, sh, r)
         /\ \A w, sh, r, s : FlightOK(w, sh, r, q, s) => FlightOK(w, sh, r, Q, s)
<1>1. \A sh, r : WaitOK(q, sh, r) => WaitOK(Q, sh, r)
  BY DEF WaitOK, Fewer
<1>2. ASSUME NEW p, NEW sh, NEW r, NEW s, PacketOK(p, sh, r, q, s) PROVE PacketOK(p, sh, r, Q, s)
  BY <1>2 DEF PacketOK, Fewer, Ahead
<1>3. \A w, sh, r, s : FlightOK(w, sh, r, q, s) => FlightOK(w, sh, r, Q, s)
  BY <1>2 DEF FlightOK, KnowsMore
<1> QED
  BY <1>1, <1>3

\* A text that is delivered or given up.
LEMMA MarkedRest ==
  ASSUME NEW r \in Seq(Messages), NEW id, NEW st \in {"delivered", "failed"}
  PROVE  LET R == Marked(r, id, st)
         IN /\ R \in Seq(Messages) /\ Len(R) = Len(r) /\ KnowsMore(r, R) /\ Fewer(r, R)
            /\ \A x, s : OutOK(r, x, s) => OutOK(R, x, s)
            /\ \A t : ConfirmOK(r, t) /\ (st = "delivered" => Known(t, id)) => ConfirmOK(R, t)
            /\ \A a : a # id /\ Awaited(r, a) => Awaited(R, a)
<1> DEFINE R == Marked(r, id, st)
<1>1. /\ R \in Seq(Messages) /\ Len(R) = Len(r) /\ DOMAIN R = DOMAIN r
      /\ \A i \in DOMAIN r :
           /\ R[i].id = r[i].id /\ R[i].out = r[i].out /\ R[i].text = r[i].text
           /\ r[i].out /\ r[i].id = id => R[i].status = st
           /\ ~(r[i].out /\ r[i].id = id) => R[i].status = r[i].status
  BY MarkedRing, MarkedEntry DEF Statuses
<1> HIDE DEF R
<1>2. KnowsMore(r, R)
  BY <1>1 DEF KnowsMore, Known, Slots
<1>3. ASSUME NEW i \in Unsent(R) PROVE i \in Unsent(r) /\ R[i].id = r[i].id /\ R[i].text = r[i].text
  BY <1>1 DEF Unsent
<1>4. Fewer(r, R)
  BY <1>3 DEF Fewer
<1>5. ASSUME NEW x, NEW s, OutOK(r, x, s) PROVE OutOK(R, x, s)
  BY <1>1, <1>5 DEF OutOK
<1>6. ASSUME NEW t, ConfirmOK(r, t), st = "delivered" => Known(t, id) PROVE ConfirmOK(R, t)
  BY <1>1, <1>6 DEF ConfirmOK
<1>7. ASSUME NEW a, a # id, Awaited(r, a) PROVE Awaited(R, a)
  <2>1. PICK i \in Unsent(r) : r[i].id = a
    BY <1>7 DEF Awaited
  <2>2. i \in Unsent(R)
    BY <1>1, <1>7, <2>1 DEF Unsent
  <2> QED
    BY <1>1, <2>1, <2>2 DEF Awaited, Unsent
<1> QED
  BY <1>1, <1>2, <1>4, <1>5, <1>6, <1>7 DEF R

\* An entry that is appended.
LEMMA AppendedRest ==
  ASSUME NEW r \in Seq(Messages), NEW m \in Messages
  PROVE  LET R == Append(r, m)
         IN /\ KnowsMore(r, R)
            /\ m.out = TRUE => KnowsMore(R, r)
            /\ m.out = FALSE => /\ Known(R, m.id) /\ Fewer(r, R)
                                /\ \A x, s : OutOK(r, x, s) => OutOK(R, x, s)
            /\ m.status # "delivered" => \A t : ConfirmOK(r, t) => ConfirmOK(R, t)
            /\ \A a : Awaited(r, a) => Awaited(R, a)
<1> DEFINE R == Append(r, m)
<1>1. /\ R \in Seq(Messages) /\ Len(r) \in Nat /\ Len(R) = Len(r) + 1
      /\ DOMAIN r = 1..Len(r) /\ DOMAIN R = 1..(Len(r) + 1)
      /\ \A i \in 1..Len(r) : R[i] = r[i]
      /\ R[Len(r) + 1] = m
      /\ \A i \in DOMAIN R : i \in Unsent(R) <=>
           i \in Unsent(r) \/ (i = Len(r) + 1 /\ m.out /\ m.status = "pending")
  BY AppendedRing
<1>2. KnowsMore(r, R) /\ (m.out = FALSE => Known(R, m.id))
  BY AppendedKnown DEF KnowsMore
<1> HIDE DEF R
<1>u. Unsent(r) \subseteq DOMAIN r /\ Unsent(R) \subseteq DOMAIN R
  BY DEF Unsent
<1>3. ASSUME m.out = TRUE, NEW n, Known(R, n) PROVE Known(r, n)
  <2>1. PICK i \in DOMAIN R : R[i].id = n /\ R[i].out = FALSE
    BY <1>3 DEF Known, Slots
  <2>2. i \in DOMAIN r /\ r[i] = R[i]
    BY <1>1, <1>3, <2>1
  <2> QED
    BY <2>1, <2>2 DEF Known, Slots
<1>4. ASSUME m.out = FALSE PROVE Fewer(r, R)
  <2>1. \A i \in Unsent(R) : i \in Unsent(r) /\ R[i] = r[i]
    BY <1>1, <1>u, <1>4
  <2> QED
    BY <2>1 DEF Fewer
<1>5. ASSUME m.out = FALSE, NEW x, NEW s, OutOK(r, x, s) PROVE OutOK(R, x, s)
  <2>1. \A i \in DOMAIN R : R[i].out => i \in DOMAIN r /\ R[i] = r[i]
    BY <1>1, <1>5
  <2> QED
    BY <1>5, <2>1 DEF OutOK
<1>6. ASSUME m.status # "delivered", NEW t, ConfirmOK(r, t) PROVE ConfirmOK(R, t)
  BY <1>1, <1>6 DEF ConfirmOK
<1>7. ASSUME NEW a, Awaited(r, a) PROVE Awaited(R, a)
  BY <1>1, <1>u, <1>7 DEF Awaited
<1>8. m.out = TRUE => KnowsMore(R, r)
  BY <1>3 DEF KnowsMore
<1> QED
  BY <1>2, <1>4, <1>5, <1>6, <1>7, <1>8 DEF R

\* The user's next text in the ring, with the next id.
LEMMA NextText ==
  ASSUME NEW r \in Seq(Messages), NEW m \in Messages, NEW x \in Nat, NEW s \in Nat, OutOK(r, x, s),
         m.id = x + 1, m.text = s + 1, m.out = TRUE, m.status = "pending"
  PROVE  LET R == Append(r, m)
         IN /\ OutOK(R, x + 1, s + 1)
            /\ \A t : \A sh \in Seq(Ids) : WaitOK(r, sh, t) /\ ListOK(sh, s) => WaitOK(R, sh, t)
            /\ \A sh, t : \A w \in Seq(Packets) : FlightOK(w, sh, t, r, s) => FlightOK(w, sh, t, R, s + 1)
<1> DEFINE R == Append(r, m)
<1>1. /\ R \in Seq(Messages) /\ Len(r) \in Nat /\ Len(R) = Len(r) + 1
      /\ DOMAIN r = 1..Len(r) /\ DOMAIN R = 1..(Len(r) + 1)
      /\ \A i \in 1..Len(r) : R[i] = r[i] /\ r[i] \in Messages
      /\ R[Len(r) + 1] = m
      /\ \A i \in DOMAIN R : i \in Unsent(R) <=>
           i \in Unsent(r) \/ (i = Len(r) + 1 /\ m.out /\ m.status = "pending")
  BY AppendedRing
<1>2. KnowsMore(r, R)
  BY AppendedRest
<1> HIDE DEF R
<1>u. Unsent(r) \subseteq DOMAIN r /\ Unsent(R) \subseteq DOMAIN R
  BY DEF Unsent
<1>3. \A i \in Unsent(R) : (i \in Unsent(r) /\ R[i] = r[i]) \/ R[i] = m
  BY <1>1, <1>u
<1>4. OutOK(R, x + 1, s + 1)
  <2>1. ASSUME NEW i \in DOMAIN R, R[i].out
        PROVE  R[i].id <= x + 1 /\ R[i].text \in 1..(s + 1)
    <3>1. CASE i \in 1..Len(r)
      <4>1. R[i] = r[i] /\ r[i].id \in Nat /\ r[i].id <= x /\ r[i].text \in 1..s
        BY <1>1, <2>1, <3>1 DEF OutOK, Messages, Ids
      <4> QED
        BY <4>1
    <3>2. CASE i = Len(r) + 1
      BY <1>1, <3>2
    <3> QED
      BY <1>1, <2>1, <3>1, <3>2
  <2>2. ASSUME NEW i \in DOMAIN R, NEW j \in DOMAIN R, i < j, R[i].out, R[j].out
        PROVE  R[i].id < R[j].id /\ R[i].text < R[j].text
    <3>1. i \in 1..Len(r) /\ R[i] = r[i]
      BY <1>1, <2>2
    <3>2. r[i].id \in Nat /\ r[i].id <= x /\ r[i].text \in 1..s
      <4>1. r[i] \in Messages /\ i \in DOMAIN r /\ r[i].out
        BY <1>1, <2>2, <3>1
      <4>2. r[i].id \in Nat
        BY <4>1 DEF Messages, Ids
      <4> QED
        BY <4>1, <4>2 DEF OutOK
    <3>3. CASE j \in 1..Len(r)
      BY <1>1, <2>2, <3>1, <3>3 DEF OutOK
    <3>4. CASE j = Len(r) + 1
      BY <1>1, <3>1, <3>2, <3>4
    <3> QED
      BY <1>1, <2>2, <3>3, <3>4
  <2> QED
    BY <2>1, <2>2 DEF OutOK
<1>5. ASSUME NEW t, NEW sh \in Seq(Ids), WaitOK(r, sh, t), ListOK(sh, s) PROVE WaitOK(R, sh, t)
  <2>0. \A n \in Ids : n \in Nat
    BY DEF Ids
  <2>1. \A k \in DOMAIN sh : sh[k] \in Nat
    BY <2>0
  <2>3. \A k \in DOMAIN sh : sh[k] <= s /\ sh[k] < s + 1
    BY <1>5, <2>1 DEF ListOK
  <2>2. Fresh(m.id, m.text, sh, t)
    BY <2>3 DEF Fresh
  <2> QED
    BY <1>3, <1>5, <2>2 DEF WaitOK
<1>6. ASSUME NEW sh, NEW t, NEW w \in Seq(Packets), FlightOK(w, sh, t, r, s)
      PROVE  FlightOK(w, sh, t, R, s + 1)
  <2>1. ASSUME NEW k \in DOMAIN w, w[k].type = "text" PROVE PacketOK(w[k], sh, t, R, s + 1)
    <3>1. PacketOK(w[k], sh, t, r, s)
      BY <1>6, <2>1 DEF FlightOK
    <3>2. w[k].text \in 1..s /\ w[k].text < m.text
      BY <3>1 DEF PacketOK
    <3>3. \A i \in Unsent(R) : Ahead(w[k], R[i])
      BY <1>3, <3>1, <3>2 DEF PacketOK, Ahead
    <3> QED
      BY <3>1, <3>2, <3>3 DEF PacketOK
  <2> QED
    BY <1>2, <1>6, <2>1 DEF FlightOK, KnowsMore
<1> QED
  BY <1>4, <1>5, <1>6 DEF R

\* The first packet is taken off.
LEMMA TailFlight ==
  ASSUME NEW w \in Seq(Packets), w # <<>>, NEW sh, NEW r, NEW q, NEW s, FlightOK(w, sh, r, q, s)
  PROVE  /\ FlightOK(Tail(w), sh, r, q, s)
         /\ w[1].type = "text" => PacketOK(w[1], sh, r, q, s)
         /\ w[1].type = "ack" => Known(q, w[1].id)
         /\ \A k \in DOMAIN Tail(w) : w[1].type = "text" /\ Tail(w)[k].type = "text"
              => Ahead(w[1], Tail(w)[k])
<1>1. /\ Len(w) \in Nat \ {0} /\ DOMAIN w = 1..Len(w) /\ DOMAIN Tail(w) = 1..(Len(w) - 1)
      /\ \A k \in DOMAIN Tail(w) : k + 1 \in DOMAIN w /\ Tail(w)[k] = w[k + 1]
  OBVIOUS
<1>2. 1 \in DOMAIN w /\ \A k \in DOMAIN Tail(w) : 1 < k + 1
  BY <1>1
<1>3. \A k, l \in DOMAIN Tail(w) : k < l => k + 1 < l + 1
  BY <1>1
<1>4. FlightOK(Tail(w), sh, r, q, s)
  BY <1>1, <1>3 DEF FlightOK
<1> QED
  BY <1>1, <1>2, <1>4 DEF FlightOK

\* A packet is put behind the others.
LEMMA AppendFlight ==
  ASSUME NEW w \in Seq(Packets), NEW p \in Packets, NEW sh, NEW r, NEW q, NEW s,
         FlightOK(w, sh, r, q, s),
         p.type = "text" => PacketOK(p, sh, r, q, s) /\ \E i \in Unsent(q) : p.id = q[i].id /\ p.text = q[i].text,
         p.type = "ack" => Known(q, p.id)
  PROVE  FlightOK(Append(w, p), sh, r, q, s)
<1> DEFINE W == Append(w, p)
<1>1. /\ Len(w) \in Nat /\ DOMAIN w = 1..Len(w) /\ DOMAIN W = 1..(Len(w) + 1)
      /\ \A k \in DOMAIN w : W[k] = w[k]
      /\ W[Len(w) + 1] = p
  OBVIOUS
<1> HIDE DEF W
<1>2. ASSUME NEW k \in DOMAIN W
      PROVE  /\ W[k].type = "text" => PacketOK(W[k], sh, r, q, s)
             /\ W[k].type = "ack" => Known(q, W[k].id)
  <2>1. CASE k \in DOMAIN w
    BY <1>1, <2>1 DEF FlightOK
  <2>2. CASE k = Len(w) + 1
    BY <1>1, <2>2
  <2> QED
    BY <1>1, <2>1, <2>2
<1>3. ASSUME NEW k \in DOMAIN W, NEW l \in DOMAIN W, k < l, W[k].type = "text", W[l].type = "text"
      PROVE  Ahead(W[k], W[l])
  <2>1. k \in DOMAIN w /\ W[k] = w[k]
    BY <1>1, <1>3
  <2>2. CASE l \in DOMAIN w
    BY <1>1, <1>3, <2>1, <2>2 DEF FlightOK
  <2>3. CASE l = Len(w) + 1
    <3>1. W[l] = p /\ PacketOK(w[k], sh, r, q, s)
      BY <1>1, <1>3, <2>1, <2>3 DEF FlightOK
    <3> QED
      BY <1>3, <2>1, <3>1 DEF PacketOK, Ahead
  <2> QED
    BY <1>1, <2>2, <2>3
<1> QED
  BY <1>2, <1>3 DEF FlightOK, W

\* A text with an id that was not known is shown: those pending and those behind
\* it have its id or are newer.
LEMMA ShowFresh ==
  ASSUME NEW w \in Seq(Packets), w # <<>>, NEW sh \in Seq(Ids), NEW r, NEW R, NEW q \in Seq(Messages), NEW s \in Nat,
         FlightOK(w, sh, r, q, s), ListOK(sh, s), WaitOK(q, sh, r),
         w[1].type = "text", w[1].text \in Ids, ~Known(r, w[1].id),
         KnowsMore(r, R), Known(R, w[1].id)
  PROVE  LET S == Append(sh, w[1].text)
         IN /\ ListOK(S, s) /\ WaitOK(q, S, R) /\ FlightOK(Tail(w), S, R, q, s)
            /\ S \in Seq(Ids) /\ Len(S) = Len(sh) + 1 /\ Len(S) <= s
<1> DEFINE p == w[1]
           S == Append(sh, p.text)
<1>n. \A n \in Ids : n \in Nat
  BY DEF Ids
<1>0. p.text \in Ids
  OBVIOUS
<1> HIDE DEF p
<1>1. /\ Len(sh) \in Nat /\ S \in Seq(Ids) /\ Len(S) = Len(sh) + 1
      /\ DOMAIN sh = 1..Len(sh) /\ DOMAIN S = 1..(Len(sh) + 1)
      /\ \A k \in 1..Len(sh) : S[k] = sh[k] /\ sh[k] \in Nat
      /\ S[Len(sh) + 1] = p.text
  BY <1>0, <1>n
<1>2. /\ FlightOK(Tail(w), sh, r, q, s) /\ PacketOK(p, sh, r, q, s)
      /\ \A k \in DOMAIN Tail(w) : Tail(w)[k].type = "text" => Ahead(p, Tail(w)[k])
      /\ Tail(w) \in Seq(Packets)
  BY TailFlight DEF p
<1> HIDE DEF S
<1>3. p.text \in 1..s /\ \A k \in DOMAIN sh : sh[k] < p.text
  BY <1>2 DEF PacketOK, Fresh, p
<1>4. Len(sh) < p.text
  <2>1. CASE Len(sh) = 0
    BY <1>3, <2>1
  <2>2. CASE Len(sh) > 0
    <3>1. Len(sh) \in DOMAIN sh
      BY <1>1, <2>2
    <3>2. Len(sh) <= sh[Len(sh)] /\ sh[Len(sh)] < p.text
      BY <1>3, <3>1 DEF ListOK
    <3> QED
      BY <1>1, <1>3, <3>1, <3>2
  <2> QED
    BY <1>1, <2>1, <2>2
<1>5. ListOK(S, s)
  <2>1. ASSUME NEW k \in DOMAIN S PROVE k <= S[k] /\ S[k] <= s
    <3>1. CASE k \in 1..Len(sh)
      BY <1>1, <3>1 DEF ListOK
    <3>2. CASE k = Len(sh) + 1
      BY <1>1, <1>3, <1>4, <3>2
    <3> QED
      BY <1>1, <2>1, <3>1, <3>2
  <2>2. ASSUME NEW k \in DOMAIN S, NEW l \in DOMAIN S, k < l PROVE S[k] < S[l]
    <3>1. k \in 1..Len(sh) /\ S[k] = sh[k]
      BY <1>1, <2>2
    <3>2. CASE l \in 1..Len(sh)
      BY <1>1, <2>2, <3>1, <3>2 DEF ListOK
    <3>3. CASE l = Len(sh) + 1
      BY <1>1, <1>3, <3>1, <3>3
    <3> QED
      BY <1>1, <2>2, <3>2, <3>3
  <2> QED
    BY <2>1, <2>2 DEF ListOK
<1>6. ASSUME NEW id, NEW n, Fresh(id, n, sh, r), p.id = id \/ p.text < n PROVE Fresh(id, n, S, R)
  <2>1. CASE p.id = id
    BY <2>1 DEF Fresh, p
  <2>2. CASE Known(r, id)
    BY <2>2 DEF Fresh, KnowsMore
  <2>3. CASE p.text < n /\ \A k \in DOMAIN sh : sh[k] < n
    <3>1. \A k \in DOMAIN S : (k \in DOMAIN sh /\ S[k] = sh[k]) \/ S[k] = p.text
      BY <1>1
    <3> QED
      BY <2>3, <3>1 DEF Fresh
  <2> QED
    BY <1>6, <2>1, <2>2, <2>3 DEF Fresh
<1>7. WaitOK(q, S, R)
  BY <1>2, <1>6 DEF WaitOK, PacketOK, Ahead
<1>8. FlightOK(Tail(w), S, R, q, s)
  <2>1. ASSUME NEW k \in DOMAIN Tail(w), Tail(w)[k].type = "text" PROVE PacketOK(Tail(w)[k], S, R, q, s)
    <3>1. PacketOK(Tail(w)[k], sh, r, q, s) /\ Ahead(p, Tail(w)[k])
      BY <1>2, <2>1 DEF FlightOK
    <3> QED
      BY <1>6, <3>1 DEF PacketOK, Ahead
  <2> QED
    BY <1>2, <2>1 DEF FlightOK
<1>9. Len(S) <= s
  BY <1>1, <1>3, <1>4
<1> QED
  BY <1>1, <1>5, <1>7, <1>8, <1>9 DEF S, p

\* Both boards are in order when the parts of each are.
LEMMA BothReset ==
  ASSUME NEW b \in Boards, NEW o, o = Other(b),
         OutOK(ring'[b], tx'[b], said'[b]), OutOK(ring'[o], tx'[o], said'[o]),
         Len(ring'[b]) <= said'[b] + Len(shown'[b]), Len(ring'[o]) <= said'[o] + Len(shown'[o]),
         Synced(b)', Synced(o)',
         ListOK(shown'[b], said'[o]), ListOK(shown'[o], said'[b]),
         WaitOK(ring'[o], shown'[b], ring'[b]), WaitOK(ring'[b], shown'[o], ring'[o]),
         FlightOK(wire'[b], shown'[b], ring'[b], ring'[o], said'[o]),
         FlightOK(wire'[o], shown'[o], ring'[o], ring'[b], said'[b]),
         ConfirmOK(ring'[o], ring'[b]), ConfirmOK(ring'[b], ring'[o]),
         timer'[b] => Awaited(ring'[b], awaiting'[b]),
         timer'[o] => Awaited(ring'[o], awaiting'[o])
  PROVE  \A c \in Boards : ResetOK(c)'
<1>1. o \in Boards /\ Other(o) = b /\ \A c \in Boards : c = b \/ c = o
  BY OtherBoard
<1>2. ResetOK(b)'
  BY DEF ResetOK
<1>3. ResetOK(o)'
  BY <1>1 DEF ResetOK
<1> QED
  BY <1>1, <1>2, <1>3

\* The same, read in the other direction.
LEMMA BothStand ==
  ASSUME NEW b \in Boards, NEW o, o = Other(b), \A c \in Boards : ResetOK(c)
  PROVE  /\ o \in Boards /\ o # b /\ Other(o) = b /\ (\A c \in Boards : c = b \/ c = o)
         /\ OutOK(ring[b], tx[b], said[b]) /\ OutOK(ring[o], tx[o], said[o])
         /\ Len(ring[b]) <= said[b] + Len(shown[b]) /\ Len(ring[o]) <= said[o] + Len(shown[o])
         /\ Synced(b) /\ Synced(o)
         /\ ListOK(shown[b], said[o]) /\ ListOK(shown[o], said[b])
         /\ WaitOK(ring[o], shown[b], ring[b]) /\ WaitOK(ring[b], shown[o], ring[o])
         /\ FlightOK(wire[b], shown[b], ring[b], ring[o], said[o])
         /\ FlightOK(wire[o], shown[o], ring[o], ring[b], said[b])
         /\ ConfirmOK(ring[o], ring[b]) /\ ConfirmOK(ring[b], ring[o])
         /\ (timer[b] => Awaited(ring[b], awaiting[b]))
         /\ (timer[o] => Awaited(ring[o], awaiting[o]))
<1>1. o \in Boards /\ o # b /\ Other(o) = b /\ \A c \in Boards : c = b \/ c = o
  BY OtherBoard
<1>2. ResetOK(b) /\ ResetOK(o)
  BY <1>1
<1> QED
  BY <1>1, <1>2 DEF ResetOK

\* What the invariant says of the types.
LEMMA RestTypes ==
  ASSUME TypeInv
  PROVE  /\ ring \in [Boards -> Seq(Messages)] /\ tx \in [Boards -> Ids]
         /\ disk \in [Boards -> [ring : Seq(Messages), tx : Ids]]
         /\ wire \in [Boards -> Seq(Packets)] /\ said \in [Boards -> Ids] /\ shown \in [Boards -> Seq(Ids)]
         /\ timer \in [Boards -> BOOLEAN] /\ awaiting \in [Boards -> Ids]
         /\ app \in [Boards -> {"idle", "save"}] /\ AirTypes
         /\ \A b \in Boards : said[b] \in Nat /\ said[b] <= MaxTexts /\ tx[b] \in Nat
BY DEF TypeInv, TypeOK, StoreTypes, AirTypes, WorkerTypes, Ids

\* The ring of a board has room for one more entry while its user has a text
\* left to send, or the other's has one it has not seen.
LEMMA RingLength ==
  ASSUME NEW sh \in Seq(Ids), NEW s \in Nat, ListOK(sh, s)
  PROVE  Len(sh) \in Nat /\ Len(sh) <= s
<1>1. Len(sh) \in Nat
  OBVIOUS
<1>2. CASE Len(sh) = 0
  BY <1>2
<1>3. CASE Len(sh) > 0
  <2>0. \A n \in Ids : n \in Nat
    BY DEF Ids
  <2>1. Len(sh) \in DOMAIN sh /\ sh[Len(sh)] \in Nat
    BY <1>1, <1>3, <2>0
  <2>2. Len(sh) <= sh[Len(sh)] /\ sh[Len(sh)] <= s
    BY <2>1 DEF ListOK
  <2> QED
    BY <1>1, <2>1, <2>2
<1> QED
  BY <1>1, <1>2, <1>3

\* After saving, the file is the ring.
LEMMA SaveSyncs ==
  ASSUME Durable, TypeInv, NEW b \in Boards, Save(b), \A c \in Boards : Synced(c),
         \A c \in Boards : c # b => ring'[c] = ring[c] /\ tx'[c] = tx[c] /\ app'[c] = app[c]
  PROVE  \A c \in Boards : Synced(c)'
<1>1. disk' = [disk EXCEPT ![b] = [ring |-> ring'[b], tx |-> tx'[b]]]
  BY DEF Save, Fault, Durable
<1>2. disk'[b].ring = ring'[b] /\ disk'[b].tx = tx'[b] /\ \A c \in Boards : c # b => disk'[c] = disk[c]
  BY <1>1, RestTypes
<1>3. Synced(b)'
  BY <1>2 DEF Synced
<1>4. ASSUME NEW c \in Boards, c # b PROVE Synced(c)'
  <2>1. ring'[c] = ring[c] /\ tx'[c] = tx[c] /\ app'[c] = app[c] /\ disk'[c] = disk[c]
    BY <1>2, <1>4
  <2> QED
    BY <2>1 DEF Synced
<1> QED
  BY <1>3, <1>4

\* A step that stores nothing, at most takes packets away and at most stops
\* timers.
LEMMA QuietReset ==
  ASSUME TypeInv, \A c \in Boards : ResetOK(c), UNCHANGED <<ring, tx, said, shown>>,
         \A c \in Boards : Synced(c)',
         \A c \in Boards : \/ wire'[c] = wire[c] \/ wire'[c] = <<>>
                           \/ wire[c] # <<>> /\ wire'[c] = Tail(wire[c]),
         \A c \in Boards : timer'[c] => timer[c] /\ awaiting'[c] = awaiting[c]
  PROVE  \A c \in Boards : ResetOK(c)'
<1> SUFFICES ASSUME NEW c \in Boards PROVE ResetOK(c)'
  OBVIOUS
<1> DEFINE o == Other(c)
<1>1. FlightOK(wire[c], shown[c], ring[c], ring[o], said[o]) /\ wire[c] \in Seq(Packets)
  BY BoardTypes DEF ResetOK
<1>2. FlightOK(wire'[c], shown[c], ring[c], ring[o], said[o])
  <2>1. CASE wire'[c] = wire[c]
    BY <1>1, <2>1
  <2>2. CASE wire'[c] = <<>>
    BY <2>2 DEF FlightOK
  <2>3. CASE wire[c] # <<>> /\ wire'[c] = Tail(wire[c])
    BY <1>1, <2>3, TailFlight
  <2> QED
    BY <2>1, <2>2, <2>3
<1> QED
  BY <1>2 DEF ResetOK

\* A packet is sent; its sender may begin to wait for it.
LEMMA SendReset ==
  ASSUME TypeInv, \A c \in Boards : ResetOK(c), UNCHANGED <<ring, tx, disk, app, said, shown>>,
         NEW b \in Boards, NEW p \in Packets, Send(b, p),
         p.type = "text" =>
           /\ PacketOK(p, shown[Other(b)], ring[Other(b)], ring[b], said[b])
           /\ \E i \in Unsent(ring[b]) : p.id = ring[b][i].id /\ p.text = ring[b][i].text,
         p.type # "ack",
         timer'[b] => Awaited(ring[b], awaiting'[b]),
         \A c \in Boards : c # b => timer'[c] = timer[c] /\ awaiting'[c] = awaiting[c]
  PROVE  \A c \in Boards : ResetOK(c)'
<1> SUFFICES ASSUME NEW c \in Boards PROVE ResetOK(c)'
  OBVIOUS
<1> DEFINE o == Other(c)
<1>1. o \in Boards /\ o # c /\ Other(o) = c /\ (b = c \/ b = o)
  BY OtherBoard
<1>2. /\ FlightOK(wire[c], shown[c], ring[c], ring[o], said[o])
      /\ wire \in [Boards -> Seq(Packets)]
  BY RestTypes DEF ResetOK
<1>3. FlightOK(wire'[c], shown[c], ring[c], ring[o], said[o])
  <2>1. CASE b = c
    BY <1>1, <1>2, <2>1 DEF Send
  <2>2. CASE b = o
    <3>1. wire'[c] \in {wire[c], Append(wire[c], p)}
      BY <1>1, <1>2, <2>2 DEF Send
    <3>2. FlightOK(Append(wire[c], p), shown[c], ring[c], ring[o], said[o])
      <4>1. wire[c] \in Seq(Packets)
        BY <1>2
      <4>2. p.type = "text" => /\ PacketOK(p, shown[c], ring[c], ring[o], said[o])
                               /\ \E i \in Unsent(ring[o]) : p.id = ring[o][i].id /\ p.text = ring[o][i].text
        BY <1>1, <2>2
      <4> HIDE DEF o
      <4> QED
        BY <1>2, <4>1, <4>2, AppendFlight
    <3> QED
      BY <1>2, <3>1, <3>2
  <2> QED
    BY <1>1, <2>1, <2>2
<1>4. timer'[c] => Awaited(ring[c], awaiting'[c])
  BY DEF ResetOK
<1> QED
  BY <1>3, <1>4 DEF ResetOK, Synced

\* A text of this board is delivered or given up, or a packet that confirms one
\* is taken.
LEMMA MarkReset ==
  ASSUME TypeInv, \A c \in Boards : ResetOK(c), UNCHANGED <<tx, said, shown>>,
         \A c \in Boards : Synced(c)',
         NEW b \in Boards, NEW id, NEW st \in {"delivered", "failed"},
         ring' \in {ring, [ring EXCEPT ![b] = Marked(ring[b], id, st)]},
         st = "delivered" => Known(ring[Other(b)], id),
         wire' = wire \/ (wire[b] # <<>> /\ wire' = [wire EXCEPT ![b] = Tail(@)]),
         \/ ~timer'[b]
         \/ timer'[b] = timer[b] /\ awaiting'[b] = awaiting[b] /\ (ring' = ring \/ awaiting[b] # id),
         \A c \in Boards : c # b => timer'[c] = timer[c] /\ awaiting'[c] = awaiting[c]
  PROVE  \A c \in Boards : ResetOK(c)'
<1> DEFINE o == Other(b)
           R == Marked(ring[b], id, st)
<1>1. /\ o \in Boards /\ o # b /\ Other(o) = b /\ (\A c \in Boards : c = b \/ c = o)
      /\ OutOK(ring[b], tx[b], said[b]) /\ OutOK(ring[o], tx[o], said[o])
      /\ Len(ring[b]) <= said[b] + Len(shown[b]) /\ Len(ring[o]) <= said[o] + Len(shown[o])
      /\ ListOK(shown[b], said[o]) /\ ListOK(shown[o], said[b])
      /\ WaitOK(ring[o], shown[b], ring[b]) /\ WaitOK(ring[b], shown[o], ring[o])
      /\ FlightOK(wire[b], shown[b], ring[b], ring[o], said[o])
      /\ FlightOK(wire[o], shown[o], ring[o], ring[b], said[b])
      /\ ConfirmOK(ring[o], ring[b]) /\ ConfirmOK(ring[b], ring[o])
      /\ (timer[b] => Awaited(ring[b], awaiting[b]))
      /\ (timer[o] => Awaited(ring[o], awaiting[o]))
  BY BothStand
<1>2. /\ ring \in [Boards -> Seq(Messages)] /\ ring[b] \in Seq(Messages)
      /\ wire \in [Boards -> Seq(Packets)] /\ wire[b] \in Seq(Packets)
  BY RestTypes
<1>3. ring'[o] = ring[o] /\ (ring'[b] = ring[b] \/ ring'[b] = R)
  BY <1>1, <1>2
<1>4. /\ Len(R) = Len(ring[b]) /\ KnowsMore(ring[b], R) /\ Fewer(ring[b], R)
      /\ OutOK(R, tx[b], said[b]) /\ ConfirmOK(R, ring[o])
      /\ \A a : a # id /\ Awaited(ring[b], a) => Awaited(R, a)
  BY <1>1, <1>2, MarkedRest
<1>5. /\ WaitOK(ring[o], shown[b], R) /\ FlightOK(wire[b], shown[b], R, ring[o], said[o])
      /\ ConfirmOK(ring[o], R)
  BY <1>1, <1>4, KeptRing
<1>6. WaitOK(R, shown[o], ring[o]) /\ FlightOK(wire[o], shown[o], ring[o], R, said[b])
  BY <1>1, <1>4, FewerPending
<1> HIDE DEF R
<1>7. /\ Len(ring'[b]) = Len(ring[b]) /\ OutOK(ring'[b], tx[b], said[b]) /\ ConfirmOK(ring'[b], ring[o])
      /\ WaitOK(ring[o], shown[b], ring'[b]) /\ FlightOK(wire[b], shown[b], ring'[b], ring[o], said[o])
      /\ ConfirmOK(ring[o], ring'[b])
      /\ WaitOK(ring'[b], shown[o], ring[o]) /\ FlightOK(wire[o], shown[o], ring[o], ring'[b], said[b])
  BY <1>1, <1>3, <1>4, <1>5, <1>6
<1>8. timer'[b] => Awaited(ring'[b], awaiting'[b])
  BY <1>1, <1>3, <1>4
<1>9. wire'[o] = wire[o] /\ FlightOK(wire'[b], shown[b], ring'[b], ring[o], said[o])
  <2>1. CASE wire' = wire
    BY <1>7, <2>1
  <2>2. CASE wire[b] # <<>> /\ wire' = [wire EXCEPT ![b] = Tail(@)]
    <3>1. wire'[o] = wire[o] /\ wire'[b] = Tail(wire[b])
      BY <1>1, <1>2, <2>2
    <3> QED
      BY <1>2, <1>7, <2>2, <3>1, TailFlight
  <2> QED
    BY <2>1, <2>2
<1>10. timer'[o] => Awaited(ring'[o], awaiting'[o])
  BY <1>1, <1>3
<1>11. Synced(b)' /\ Synced(o)'
  BY <1>1
<1> HIDE DEF o
<1>12. o = Other(b)
  BY DEF o
<1> QED
  BY <1>1, <1>3, <1>7, <1>8, <1>9, <1>10, <1>11, <1>12, BothReset

\* The user sends a text.
LEMMA SendTextReset ==
  ASSUME Roomy, TypeInv, \A c \in Boards : ResetOK(c), NEW b \in Boards, SendText(b)
  PROVE  \A c \in Boards : ResetOK(c)'
<1> DEFINE o == Other(b)
           m == [id |-> tx[b] + 1, out |-> TRUE, status |-> "pending", text |-> said[b] + 1]
           R == Append(ring[b], m)
<1>1. /\ o \in Boards /\ o # b /\ Other(o) = b /\ (\A c \in Boards : c = b \/ c = o)
      /\ OutOK(ring[b], tx[b], said[b]) /\ OutOK(ring[o], tx[o], said[o])
      /\ Len(ring[b]) <= said[b] + Len(shown[b]) /\ Len(ring[o]) <= said[o] + Len(shown[o])
      /\ Synced(b) /\ Synced(o)
      /\ ListOK(shown[b], said[o]) /\ ListOK(shown[o], said[b])
      /\ WaitOK(ring[o], shown[b], ring[b]) /\ WaitOK(ring[b], shown[o], ring[o])
      /\ FlightOK(wire[b], shown[b], ring[b], ring[o], said[o])
      /\ FlightOK(wire[o], shown[o], ring[o], ring[b], said[b])
      /\ ConfirmOK(ring[o], ring[b]) /\ ConfirmOK(ring[b], ring[o])
      /\ (timer[b] => Awaited(ring[b], awaiting[b]))
      /\ (timer[o] => Awaited(ring[o], awaiting[o]))
  BY BothStand
<1>2. /\ ring[b] \in Seq(Messages) /\ shown[b] \in Seq(Ids) /\ shown[o] \in Seq(Ids)
      /\ wire[o] \in Seq(Packets) /\ said[b] \in Nat /\ said[o] \in Nat /\ said[o] <= MaxTexts
      /\ said[b] <= MaxTexts /\ tx[b] \in Nat /\ tx[b] <= said[b]
  BY <1>1, RestTypes DEF TypeInv, Numbering
<1>3. said[b] < MaxTexts /\ app[b] = "idle"
  BY <1>2, RestTypes DEF SendText, Ids
<1>4. Len(shown[b]) \in Nat /\ Len(shown[b]) <= said[o] /\ Len(ring[b]) \in Nat
  BY <1>1, <1>2, RingLength
<1>n. /\ said[b] \in Nat /\ said[o] \in Nat /\ tx[b] \in Nat /\ MaxTexts \in Nat
      /\ said[o] <= MaxTexts /\ tx[b] <= said[b]
  BY <1>2
<1>m. said[b] < MaxTexts
  BY <1>3
<1>5. Len(ring[b]) < Capacity
  <2>1. Len(ring[b]) <= said[b] + Len(shown[b])
    BY <1>1
  <2> QED
    BY <1>n, <1>m, <1>4, <2>1 DEF Roomy
<1>6. /\ m \in Messages /\ m.id = tx[b] + 1 /\ m.text = said[b] + 1
      /\ m.out = TRUE /\ m.status = "pending"
  <2>1. tx[b] + 1 \in Ids /\ said[b] + 1 \in Ids
    BY <1>n, <1>m DEF Ids
  <2> QED
    BY <2>1 DEF Messages, Statuses
<1>7. /\ ring' = [ring EXCEPT ![b] = Added(ring[b], m)]
      /\ tx' = [tx EXCEPT ![b] = tx[b] + 1] /\ said' = [said EXCEPT ![b] = said[b] + 1]
      /\ app' = [app EXCEPT ![b] = "save"]
      /\ UNCHANGED <<disk, shown, wire, timer, awaiting>>
  BY DEF SendText, worker, air
<1> HIDE DEF m
<1>8. /\ ring'[b] = R /\ ring'[o] = ring[o] /\ tx'[b] = tx[b] + 1 /\ tx'[o] = tx[o]
      /\ said'[b] = said[b] + 1 /\ said'[o] = said[o] /\ app'[b] = "save" /\ app'[o] = app[o]
  BY <1>1, <1>5, <1>7, RestTypes DEF Added
<1>9. /\ KnowsMore(ring[b], R) /\ ConfirmOK(R, ring[o]) /\ \A a : Awaited(ring[b], a) => Awaited(R, a)
  BY <1>1, <1>2, <1>6, AppendedRest
<1>10. /\ WaitOK(ring[o], shown[b], R) /\ FlightOK(wire[b], shown[b], R, ring[o], said[o])
       /\ ConfirmOK(ring[o], R)
  BY <1>1, <1>9, KeptRing
<1>11. /\ OutOK(R, tx[b] + 1, said[b] + 1) /\ WaitOK(R, shown[o], ring[o])
       /\ FlightOK(wire[o], shown[o], ring[o], R, said[b] + 1)
  <2> HIDE DEF o
  <2> QED
    BY <1>1, <1>2, <1>6, NextText
<1>12. Len(R) <= said[b] + 1 + Len(shown[b])
  BY <1>1, <1>2, <1>4
<1>13. ListOK(shown[o], said[b] + 1)
  <2>1. (\A n \in Ids : n \in Nat) /\ ListOK(shown[o], said[b])
    BY <1>1 DEF Ids
  <2>2. \A k \in DOMAIN shown[o] : shown[o][k] \in Nat
    BY <1>2, <2>1
  <2>3. \A k \in DOMAIN shown[o] : shown[o][k] <= said[b] + 1
    BY <1>2, <2>1, <2>2 DEF ListOK
  <2> QED
    BY <2>1, <2>3 DEF ListOK
<1>14. Synced(b)' /\ Synced(o)'
  <2>1. disk[b].ring = ring[b] /\ disk[b].tx = tx[b]
    BY <1>1, <1>3 DEF Synced
  <2>2. Synced(b)'
    BY <1>6, <1>7, <1>8, <2>1 DEF Synced
  <2>3. Synced(o)'
    BY <1>1, <1>7, <1>8 DEF Synced
  <2> QED
    BY <2>2, <2>3
<1> HIDE DEF o, R
<1>15. o = Other(b)
  BY DEF o
<1> QED
  BY <1>1, <1>7, <1>8, <1>9, <1>10, <1>11, <1>12, <1>13, <1>14, <1>15, BothReset

\* A text arrives: unless its id is known it is shown, and it is acknowledged.
LEMMA RecvTextReset ==
  ASSUME Roomy, Durable, TypeInv, \A c \in Boards : ResetOK(c), NEW b \in Boards, RecvText(b)
  PROVE  \A c \in Boards : ResetOK(c)'
<1> DEFINE o == Other(b)
           p == wire[b][1]
           m == [id |-> p.id, out |-> FALSE, status |-> "received", text |-> p.text]
           R == Append(ring[b], m)
           S == Append(shown[b], p.text)
<1>1. /\ o \in Boards /\ o # b /\ Other(o) = b /\ (\A c \in Boards : c = b \/ c = o)
      /\ OutOK(ring[b], tx[b], said[b]) /\ OutOK(ring[o], tx[o], said[o])
      /\ Len(ring[b]) <= said[b] + Len(shown[b]) /\ Len(ring[o]) <= said[o] + Len(shown[o])
      /\ Synced(b) /\ Synced(o)
      /\ ListOK(shown[b], said[o]) /\ ListOK(shown[o], said[b])
      /\ WaitOK(ring[o], shown[b], ring[b]) /\ WaitOK(ring[b], shown[o], ring[o])
      /\ FlightOK(wire[b], shown[b], ring[b], ring[o], said[o])
      /\ FlightOK(wire[o], shown[o], ring[o], ring[b], said[b])
      /\ ConfirmOK(ring[o], ring[b]) /\ ConfirmOK(ring[b], ring[o])
      /\ (timer[b] => Awaited(ring[b], awaiting[b]))
      /\ (timer[o] => Awaited(ring[o], awaiting[o]))
  BY BothStand
<1>2. /\ ring[b] \in Seq(Messages) /\ ring[o] \in Seq(Messages)
      /\ shown[b] \in Seq(Ids) /\ shown[o] \in Seq(Ids)
      /\ wire[b] \in Seq(Packets) /\ wire[o] \in Seq(Packets)
      /\ said[b] \in Nat /\ said[b] <= MaxTexts /\ said[o] \in Nat /\ said[o] <= MaxTexts
  BY <1>1, RestTypes
<1>3. /\ ring \in [Boards -> Seq(Messages)] /\ shown \in [Boards -> Seq(Ids)]
      /\ wire \in [Boards -> Seq(Packets)] /\ AirTypes
  BY RestTypes
<1>4. wire[b] # <<>> /\ p.type = "text" /\ p.id \in Ids /\ p.text \in Ids
  BY <1>3, ArrivesTypes DEF RecvText
<1>5. UNCHANGED <<tx, app, said, timer, awaiting>>
  BY DEF RecvText, worker, store
<1>6. Ack(p.id) \in Packets /\ Ack(p.id).type = "ack" /\ Ack(p.id).id = p.id
  BY <1>4, PacketTypes DEF Ack
<1>7. CASE ~ready[b]
  <2>1. UNCHANGED <<ring, tx, disk, app, shown, said, timer, awaiting>> /\ wire' = [wire EXCEPT ![b] = Tail(@)]
    BY <1>5, <1>7 DEF RecvText, store, Taken
  <2>2. \A c \in Boards : \/ wire'[c] = wire[c] \/ wire'[c] = <<>>
                          \/ wire[c] # <<>> /\ wire'[c] = Tail(wire[c])
    BY <1>3, <1>4, <2>1
  <2>3. \A c \in Boards : Synced(c)'
    BY <2>1 DEF ResetOK, Synced
  <2> QED
    BY <2>1, <2>2, <2>3, QuietReset
<1>8. CASE ready[b]
  <2>1. /\ wire'[b] = Tail(wire[b])
        /\ wire'[o] = wire[o] \/ wire'[o] = Append(wire[o], Ack(p.id))
    BY <1>1, <1>3, <1>8 DEF RecvText
  <2>2. ASSUME NEW r, Known(r, p.id), FlightOK(wire[o], shown[o], ring[o], r, said[b])
        PROVE  FlightOK(wire'[o], shown[o], ring[o], r, said[b])
    <3>1. FlightOK(Append(wire[o], Ack(p.id)), shown[o], ring[o], r, said[b])
      BY <1>2, <1>6, <2>2, AppendFlight
    <3> QED
      BY <2>1, <2>2, <3>1
  <2>3. CASE Known(ring[b], p.id)
    <3>1. UNCHANGED <<ring, disk, shown>>
      BY <1>8, <2>3 DEF RecvText
    <3>2. FlightOK(wire'[o], shown[o], ring[o], ring[b], said[b])
      BY <1>1, <2>2, <2>3
    <3>3. FlightOK(wire'[b], shown[b], ring[b], ring[o], said[o])
      BY <1>1, <1>2, <1>4, <2>1, TailFlight
    <3>4. Synced(b)' /\ Synced(o)'
      BY <1>1, <1>5, <3>1 DEF Synced
    <3> HIDE DEF o
    <3>5. o = Other(b)
      BY DEF o
    <3> QED
      BY <1>1, <1>5, <3>1, <3>2, <3>3, <3>4, <3>5, BothReset
  <2>4. CASE ~Known(ring[b], p.id)
    <3>1. /\ ring' = [ring EXCEPT ![b] = Added(ring[b], m)]
          /\ shown' = [shown EXCEPT ![b] = S] /\ Save(b)
      BY <1>8, <2>4 DEF RecvText
    <3>2. m \in Messages /\ m.id = p.id /\ m.text = p.text /\ m.out = FALSE /\ m.status = "received"
      BY <1>4 DEF Messages, Statuses
    <3> HIDE DEF m
    <3>3. /\ KnowsMore(ring[b], R) /\ Known(R, p.id) /\ Fewer(ring[b], R)
          /\ OutOK(R, tx[b], said[b]) /\ ConfirmOK(R, ring[o])
          /\ (timer[b] => Awaited(R, awaiting[b]))
      BY <1>1, <1>2, <3>2, AppendedRest
    <3> HIDE DEF R
    <3>4. /\ ListOK(S, said[o]) /\ WaitOK(ring[o], S, R) /\ FlightOK(Tail(wire[b]), S, R, ring[o], said[o])
          /\ Len(S) = Len(shown[b]) + 1 /\ Len(S) <= said[o]
      <4> HIDE DEF o
      <4>1. ~Known(ring[b], wire[b][1].id) /\ Known(R, wire[b][1].id)
        BY <2>4, <3>3
      <4> QED
        BY <1>1, <1>2, <1>4, <3>3, <4>1, ShowFresh
    <3> HIDE DEF S
    <3>5. Added(ring[b], m) = R /\ Len(R) <= said[b] + Len(S)
      <4>1. Len(ring[b]) \in Nat /\ Len(shown[b]) \in Nat
        BY <1>2
      <4>2. said[b] \in Nat /\ said[b] <= MaxTexts /\ said[o] \in Nat /\ said[o] <= MaxTexts
        BY <1>2
      <4>3. Len(ring[b]) <= said[b] + Len(shown[b])
        BY <1>1
      <4>4. Len(ring[b]) < Capacity /\ Len(ring[b]) + 1 <= said[b] + Len(S)
        <5> HIDE DEF o
        <5> QED
          BY <3>4, <4>1, <4>2, <4>3 DEF Roomy
      <4>5. Len(Append(ring[b], m)) = Len(ring[b]) + 1
        BY <1>2, <3>2
      <4> QED
        BY <4>4, <4>5 DEF Added, R
    <3>6. ring'[b] = R /\ ring'[o] = ring[o] /\ shown'[b] = S /\ shown'[o] = shown[o]
      BY <1>1, <1>3, <3>1, <3>5
    <3>7. ConfirmOK(ring[o], R)
      BY <1>1, <3>3, KeptRing
    <3>8. WaitOK(R, shown[o], ring[o]) /\ FlightOK(wire[o], shown[o], ring[o], R, said[b])
      BY <1>1, <3>3, FewerPending
    <3>9. FlightOK(wire'[o], shown[o], ring[o], R, said[b])
      BY <2>2, <3>3, <3>8
    <3>10. Synced(b)' /\ Synced(o)'
      <4>1. \A c \in Boards : Synced(c)
        BY DEF ResetOK
      <4>2. \A c \in Boards : c # b => ring'[c] = ring[c] /\ tx'[c] = tx[c] /\ app'[c] = app[c]
        BY <1>3, <1>5, <3>1
      <4> QED
        BY <1>1, <3>1, <4>1, <4>2, SaveSyncs
    <3> HIDE DEF o
    <3>11. o = Other(b)
      BY DEF o
    <3> QED
      BY <1>1, <1>5, <2>1, <3>3, <3>4, <3>5, <3>6, <3>7, <3>8, <3>9, <3>10, <3>11, BothReset
  <2> QED
    BY <2>3, <2>4
<1> QED
  BY <1>7, <1>8

\* What a board knows again after a reset: its ring, or what it was before the
\* text that was not yet saved.
LEMMA Reloaded ==
  ASSUME TypeInv, NEW b \in Boards, ResetOK(b)
  PROVE  LET r == ring[b]
             R == disk[b].ring
         IN /\ R \in Seq(Messages) /\ Len(R) <= Len(r)
            /\ OutOK(R, disk[b].tx, said[b])
            /\ KnowsMore(r, R) /\ Fewer(r, R)
            /\ \A t : ConfirmOK(r, t) => ConfirmOK(R, t)
<1> DEFINE r == ring[b]
           R == disk[b].ring
<1>1. R \in Seq(Messages) /\ r \in Seq(Messages) /\ tx[b] \in Ids /\ disk[b].tx \in Ids
  BY RestTypes
<1>2. OutOK(r, tx[b], said[b]) /\ Len(r) \in Nat
  BY <1>1 DEF ResetOK
<1>3. CASE R = r /\ disk[b].tx = tx[b]
  BY <1>1, <1>2, <1>3 DEF KnowsMore, Fewer
<1>4. ASSUME tx[b] = disk[b].tx + 1, NEW m \in Messages, m.out = TRUE, m.id = tx[b], r = Append(R, m)
      PROVE  /\ Len(R) <= Len(r) /\ OutOK(R, disk[b].tx, said[b])
             /\ KnowsMore(r, R) /\ Fewer(r, R)
             /\ \A t : ConfirmOK(r, t) => ConfirmOK(R, t)
  <2> HIDE DEF r, R
  <2>1. /\ Len(R) \in Nat /\ Len(r) = Len(R) + 1
        /\ DOMAIN R = 1..Len(R) /\ DOMAIN r = 1..(Len(R) + 1)
        /\ \A i \in 1..Len(R) : r[i] = R[i] /\ R[i] \in Messages
        /\ r[Len(R) + 1] = m
    BY <1>1, <1>4, AppendedRing
  <2>2. KnowsMore(r, R)
    BY <1>1, <1>4, AppendedRest
  <2>3. \A i \in Unsent(R) : i \in Unsent(r) /\ r[i] = R[i]
    BY <2>1 DEF Unsent
  <2>4. Fewer(r, R)
    BY <2>3 DEF Fewer
  <2>5. \A t : ConfirmOK(r, t) => ConfirmOK(R, t)
    BY <2>1 DEF ConfirmOK
  <2>6. ASSUME NEW i \in DOMAIN R, R[i].out PROVE R[i].id <= disk[b].tx
    <3>1. i \in DOMAIN r /\ Len(R) + 1 \in DOMAIN r /\ i < Len(R) + 1 /\ r[i] = R[i]
      BY <2>1, <2>6
    <3>2. R[i].id < tx[b]
      BY <1>2, <1>4, <2>1, <2>6, <3>1 DEF OutOK
    <3>3. R[i].id \in Nat /\ tx[b] \in Nat /\ disk[b].tx \in Nat
      <4>1. R[i] \in Messages
        BY <2>1, <2>6
      <4> QED
        BY <1>1, <4>1 DEF Messages, Ids
    <3> QED
      BY <1>4, <3>2, <3>3
  <2>7. OutOK(R, disk[b].tx, said[b])
    BY <1>2, <2>1, <2>6 DEF OutOK
  <2> QED
    BY <2>1, <2>2, <2>4, <2>5, <2>7
<1>5. Synced(b)
  BY DEF ResetOK
<1> QED
  BY <1>1, <1>3, <1>4, <1>5 DEF Synced

\* A board is reset.
LEMMA CrashReset ==
  ASSUME TypeInv, \A c \in Boards : ResetOK(c), NEW b \in Boards, Crash(b)
  PROVE  \A c \in Boards : ResetOK(c)'
<1> DEFINE o == Other(b)
           R == disk[b].ring
<1>1. /\ o \in Boards /\ o # b /\ Other(o) = b /\ (\A c \in Boards : c = b \/ c = o)
      /\ OutOK(ring[b], tx[b], said[b]) /\ OutOK(ring[o], tx[o], said[o])
      /\ Len(ring[b]) <= said[b] + Len(shown[b]) /\ Len(ring[o]) <= said[o] + Len(shown[o])
      /\ Synced(b) /\ Synced(o)
      /\ ListOK(shown[b], said[o]) /\ ListOK(shown[o], said[b])
      /\ WaitOK(ring[o], shown[b], ring[b]) /\ WaitOK(ring[b], shown[o], ring[o])
      /\ FlightOK(wire[b], shown[b], ring[b], ring[o], said[o])
      /\ FlightOK(wire[o], shown[o], ring[o], ring[b], said[b])
      /\ ConfirmOK(ring[o], ring[b]) /\ ConfirmOK(ring[b], ring[o])
      /\ (timer[b] => Awaited(ring[b], awaiting[b]))
      /\ (timer[o] => Awaited(ring[o], awaiting[o]))
  BY BothStand
<1>2. /\ ring \in [Boards -> Seq(Messages)] /\ tx \in [Boards -> Ids]
      /\ timer \in [Boards -> BOOLEAN] /\ awaiting \in [Boards -> Ids]
      /\ app \in [Boards -> {"idle", "save"}]
      /\ said[b] \in Nat /\ shown[b] \in Seq(Ids) /\ ring[b] \in Seq(Messages)
  BY RestTypes
<1>3. /\ R \in Seq(Messages) /\ Len(R) <= Len(ring[b]) /\ OutOK(R, disk[b].tx, said[b])
      /\ KnowsMore(ring[b], R) /\ Fewer(ring[b], R) /\ ConfirmOK(R, ring[o])
  BY <1>1, Reloaded
<1>4. /\ ring'[b] = R /\ ring'[o] = ring[o] /\ tx'[b] = disk[b].tx /\ tx'[o] = tx[o]
      /\ ~timer'[b] /\ timer'[o] = timer[o] /\ awaiting'[o] = awaiting[o] /\ app'[o] = app[o]
      /\ UNCHANGED <<disk, said, shown>> /\ wire'[b] = <<>> /\ wire'[o] = <<>>
  BY <1>1, <1>2 DEF Crash
<1>5. WaitOK(ring[o], shown[b], R) /\ ConfirmOK(ring[o], R)
  BY <1>1, <1>3, KeptRing
<1>6. WaitOK(R, shown[o], ring[o])
  BY <1>1, <1>3, FewerPending
<1>7. Synced(b)' /\ Synced(o)'
  BY <1>1, <1>4 DEF Synced
<1>8. \A sh, r, q, s : FlightOK(<<>>, sh, r, q, s)
  BY DEF FlightOK
<1>9. Len(R) <= said[b] + Len(shown[b])
  <2>1. Len(ring[b]) <= said[b] + Len(shown[b])
    BY <1>1
  <2>2. Len(R) \in Nat /\ Len(ring[b]) \in Nat /\ Len(shown[b]) \in Nat
    BY <1>2, <1>3
  <2> QED
    BY <1>2, <1>3, <2>1, <2>2
<1> HIDE DEF o, R
<1>10. o = Other(b)
  BY DEF o
<1> QED
  BY <1>1, <1>3, <1>4, <1>5, <1>6, <1>7, <1>8, <1>9, <1>10, BothReset

\* The initial states satisfy the invariant.
LEMMA InitReset == Init => ResetInv
<1> SUFFICES ASSUME Init, NEW b \in Boards PROVE ResetOK(b)
  BY InitTypes DEF ResetInv
<1> DEFINE o == Other(b)
<1>1. /\ o \in Boards /\ tx[b] = 0 /\ said[b] = 0 /\ said[o] = 0 /\ ring[b] = <<>> /\ ring[o] = <<>>
      /\ shown[b] = <<>> /\ shown[o] = <<>> /\ wire[b] = <<>> /\ timer[b] = FALSE
      /\ disk[b].ring = <<>> /\ disk[b].tx = 0
  BY OtherBoard DEF Init, EmptyStore
<1> QED
  BY <1>1 DEF ResetOK, OutOK, ListOK, WaitOK, FlightOK, ConfirmOK, Synced, Unsent

\* Every step keeps it.
LEMMA StepReset ==
  ASSUME Roomy, Durable
  PROVE  ResetInv /\ [Next]_vars => ResetInv'
<1> SUFFICES ASSUME ResetInv, [Next]_vars PROVE \A c \in Boards : ResetOK(c)'
  BY StepTypes DEF ResetInv
<1>0. TypeInv /\ (\A c \in Boards : ResetOK(c)) /\ (\A c \in Boards : Synced(c))
  BY DEF ResetInv, ResetOK
<1>t. /\ wire \in [Boards -> Seq(Packets)] /\ timer \in [Boards -> BOOLEAN]
      /\ awaiting \in [Boards -> Ids] /\ ring \in [Boards -> Seq(Messages)] /\ AirTypes
      /\ app \in [Boards -> {"idle", "save"}]
  BY <1>0, RestTypes
<1>s. UNCHANGED <<ring, tx, disk, app>> => \A c \in Boards : Synced(c)'
  BY <1>0 DEF Synced
<1>1. ASSUME NEW b \in Boards, SendText(b) PROVE \A c \in Boards : ResetOK(c)'
  BY <1>0, <1>1, SendTextReset
<1>2. ASSUME NEW b \in Boards, SendSaved(b) PROVE \A c \in Boards : ResetOK(c)'
  <2>1. UNCHANGED <<ring, tx, said, shown, wire, timer, awaiting>> /\ Save(b)
        /\ app' = [app EXCEPT ![b] = "idle"]
    BY <1>2 DEF SendSaved, air
  <2>2. \A c \in Boards : c # b => ring'[c] = ring[c] /\ tx'[c] = tx[c] /\ app'[c] = app[c]
    BY <1>t, <2>1
  <2>3. \A c \in Boards : Synced(c)'
    BY <1>0, <2>1, <2>2, SaveSyncs
  <2> QED
    BY <1>0, <2>1, <2>3, QuietReset
<1>3. ASSUME NEW b \in Boards, SendNothing(b) PROVE \A c \in Boards : ResetOK(c)'
  <2>1. UNCHANGED <<ring, tx, disk, app, said, shown, wire, timer, awaiting>>
    BY <1>3 DEF SendNothing, air, store
  <2> QED
    BY <1>0, <1>s, <2>1, QuietReset
<1>4. ASSUME NEW b \in Boards, SendPending(b) PROVE \A c \in Boards : ResetOK(c)'
  <2> DEFINE i == Oldest(Unsent(ring[b]))
             e == ring[b][i]
             o == Other(b)
  <2>1. UNCHANGED <<ring, tx, disk, app, said, shown>>
    BY <1>4 DEF SendPending, store
  <2>2. CASE UNCHANGED <<wire, timer, awaiting>>
    BY <1>0, <1>s, <2>1, <2>2, QuietReset
  <2>3. CASE /\ Send(b, Text(e)) /\ timer' = [timer EXCEPT ![b] = TRUE]
             /\ awaiting' = [awaiting EXCEPT ![b] = e.id]
    <3>1. ring[b] \in Seq(Messages) /\ Unsent(ring[b]) # {}
      BY <1>t, <1>4 DEF SendPending
    <3>2. i \in Unsent(ring[b]) /\ e \in Messages /\ \A j \in Unsent(ring[b]) : i <= j
      BY <3>1, NextToSend
    <3> HIDE DEF i
    <3>3. i \in DOMAIN ring[b] /\ e.out = TRUE
      BY <3>2 DEF Unsent, Messages
    <3>4. OutOK(ring[b], tx[b], said[b]) /\ WaitOK(ring[b], shown[o], ring[o])
      BY <1>0, BothStand
    <3>5. e.text \in 1..said[b] /\ Fresh(e.id, e.text, shown[o], ring[o])
      BY <3>2, <3>3, <3>4 DEF OutOK, WaitOK
    <3>6. \A j \in Unsent(ring[b]) : Ahead(e, ring[b][j])
      <4> SUFFICES ASSUME NEW j \in Unsent(ring[b]) PROVE Ahead(e, ring[b][j])
        OBVIOUS
      <4>1. j \in DOMAIN ring[b] /\ ring[b][j].out /\ i <= j /\ i \in Nat /\ j \in Nat
        BY <3>1, <3>2, <3>3 DEF Unsent
      <4>2. CASE i = j
        BY <4>2 DEF Ahead
      <4>3. CASE i < j
        BY <3>3, <3>4, <4>1, <4>3 DEF OutOK, Ahead
      <4> QED
        BY <4>1, <4>2, <4>3
    <3>7. Text(e).type = "text" /\ Text(e).id = e.id /\ Text(e).text = e.text /\ Text(e) \in Packets
      BY <3>2, PacketTypes DEF Text
    <3>8. PacketOK(Text(e), shown[o], ring[o], ring[b], said[b])
      BY <3>5, <3>6, <3>7 DEF PacketOK, Ahead
    <3>9. \E j \in Unsent(ring[b]) : Text(e).id = ring[b][j].id /\ Text(e).text = ring[b][j].text
      BY <3>2, <3>7
    <3>10. awaiting'[b] = e.id /\ Awaited(ring[b], awaiting'[b])
      BY <1>t, <2>3, <3>2 DEF Awaited
    <3>11. \A c \in Boards : c # b => timer'[c] = timer[c] /\ awaiting'[c] = awaiting[c]
      BY <1>t, <2>3
    <3> HIDE DEF e
    <3> QED
      BY <1>0, <2>1, <2>3, <3>7, <3>8, <3>9, <3>10, <3>11, SendReset
  <2> QED
    BY <1>4, <2>2, <2>3 DEF SendPending
<1>5. ASSUME NEW b \in Boards, SendHello(b) PROVE \A c \in Boards : ResetOK(c)'
  <2>1. UNCHANGED <<ring, tx, disk, app, said, shown, timer, awaiting>> /\ Send(b, Hello)
    BY <1>5 DEF SendHello, store
  <2>2. Hello \in Packets /\ Hello.type = "hello"
    BY PacketTypes DEF Hello
  <2>3. timer'[b] => Awaited(ring[b], awaiting'[b])
    BY <1>0, <2>1 DEF ResetOK
  <2> QED
    BY <1>0, <2>1, <2>2, <2>3, SendReset
<1>6. ASSUME NEW b \in Boards, RecvHello(b) PROVE \A c \in Boards : ResetOK(c)'
  <2>1. UNCHANGED <<ring, tx, disk, app, said, shown, awaiting>> /\ timer' = [timer EXCEPT ![b] = FALSE]
        /\ wire[b] # <<>> /\ wire' = [wire EXCEPT ![b] = Tail(@)]
    BY <1>6 DEF RecvHello, store, Arrives, Taken
  <2>2. \A c \in Boards : timer'[c] => timer[c] /\ awaiting'[c] = awaiting[c]
    BY <1>t, <2>1
  <2>3. \A c \in Boards : \/ wire'[c] = wire[c] \/ wire'[c] = <<>>
                          \/ wire[c] # <<>> /\ wire'[c] = Tail(wire[c])
    BY <1>t, <2>1
  <2> QED
    BY <1>0, <1>s, <2>1, <2>2, <2>3, QuietReset
<1>7. ASSUME NEW b \in Boards, RecvText(b) PROVE \A c \in Boards : ResetOK(c)'
  BY <1>0, <1>7, RecvTextReset
<1>8. ASSUME NEW b \in Boards, RecvAck(b) PROVE \A c \in Boards : ResetOK(c)'
  <2> DEFINE id == AckedId(b)
  <2>1. UNCHANGED <<tx, app, said, shown>> /\ wire[b] # <<>> /\ wire' = [wire EXCEPT ![b] = Tail(@)]
        /\ ring' \in {ring, [ring EXCEPT ![b] = Marked(ring[b], id, "delivered")]}
    BY <1>8 DEF RecvAck, store, Arrives, Taken
  <2>2. Known(ring[Other(b)], id)
    <3>1. wire[b][1].type = "ack" /\ wire[b] \in Seq(Packets)
      BY <1>8, <1>t DEF RecvAck, Arrives
    <3>2. FlightOK(wire[b], shown[b], ring[b], ring[Other(b)], said[Other(b)])
      BY <1>0 DEF ResetOK
    <3> QED
      BY <2>1, <3>1, <3>2, TailFlight DEF AckedId
  <2>3. \/ UNCHANGED <<ring, disk, awaiting, timer>>
        \/ awaiting[b] = id /\ NotAwaiting(b) /\ Save(b)
        \/ awaiting[b] # id /\ UNCHANGED <<awaiting, timer>> /\ Save(b)
    BY <1>8 DEF RecvAck, store
  <2>4. /\ ~timer'[b] \/ (/\ timer'[b] = timer[b] /\ awaiting'[b] = awaiting[b]
                          /\ ring' = ring \/ awaiting[b] # id)
        /\ \A c \in Boards : c # b => timer'[c] = timer[c] /\ awaiting'[c] = awaiting[c]
    BY <1>t, <2>3 DEF NotAwaiting
  <2>5. \A c \in Boards : Synced(c)'
    <3>1. CASE UNCHANGED <<ring, disk>>
      BY <1>s, <2>1, <3>1
    <3>2. CASE Save(b)
      <4>1. \A c \in Boards : c # b => ring'[c] = ring[c] /\ tx'[c] = tx[c] /\ app'[c] = app[c]
        BY <1>t, <2>1
      <4> QED
        BY <1>0, <3>2, <4>1, SaveSyncs
    <3> QED
      BY <2>3, <3>1, <3>2
  <2> HIDE DEF id
  <2> QED
    BY <1>0, <2>1, <2>2, <2>4, <2>5, MarkReset
<1>9. ASSUME NEW b \in Boards, Retry(b) PROVE \A c \in Boards : ResetOK(c)'
  <2>1. UNCHANGED <<ring, tx, disk, app, said, shown, wire, awaiting>> /\ timer' = [timer EXCEPT ![b] = FALSE]
    BY <1>9 DEF Retry, store, air
  <2>2. \A c \in Boards : timer'[c] => timer[c] /\ awaiting'[c] = awaiting[c]
    BY <1>t, <2>1
  <2> QED
    BY <1>0, <1>s, <2>1, <2>2, QuietReset
<1>10. ASSUME NEW b \in Boards, GiveUp(b) PROVE \A c \in Boards : ResetOK(c)'
  <2>1. /\ UNCHANGED <<tx, app, said, shown, wire>> /\ NotAwaiting(b)
        /\ ring' \in {ring, [ring EXCEPT ![b] = Marked(ring[b], awaiting[b], "failed")]}
        /\ UNCHANGED <<ring, disk>> \/ Save(b)
    BY <1>10 DEF GiveUp, air
  <2>2. /\ ~timer'[b]
        /\ \A c \in Boards : c # b => timer'[c] = timer[c] /\ awaiting'[c] = awaiting[c]
    BY <1>t, <2>1 DEF NotAwaiting
  <2>3. \A c \in Boards : Synced(c)'
    <3>1. \A c \in Boards : c # b => ring'[c] = ring[c] /\ tx'[c] = tx[c] /\ app'[c] = app[c]
      BY <1>t, <2>1
    <3> QED
      BY <1>0, <1>s, <2>1, <3>1, SaveSyncs
  <2> QED
    BY <1>0, <2>1, <2>2, <2>3, MarkReset
<1>11. ASSUME NEW b \in Boards, HandleDisconnect(b) PROVE \A c \in Boards : ResetOK(c)'
  <2>1. UNCHANGED <<ring, tx, disk, app, said, shown, wire>> /\ NotAwaiting(b)
    BY <1>11 DEF HandleDisconnect, store, air
  <2>2. \A c \in Boards : timer'[c] => timer[c] /\ awaiting'[c] = awaiting[c]
    BY <1>t, <2>1 DEF NotAwaiting
  <2> QED
    BY <1>0, <1>s, <2>1, <2>2, QuietReset
<1>12. ASSUME NEW b \in Boards, Lose(b) PROVE \A c \in Boards : ResetOK(c)'
  <2>1. UNCHANGED <<ring, tx, disk, app, said, shown, timer, awaiting>>
        /\ wire[b] # <<>> /\ wire' = [wire EXCEPT ![b] = Tail(@)]
    BY <1>12 DEF Lose, store, worker, Taken
  <2>2. \A c \in Boards : \/ wire'[c] = wire[c] \/ wire'[c] = <<>>
                          \/ wire[c] # <<>> /\ wire'[c] = Tail(wire[c])
    BY <1>t, <2>1
  <2> QED
    BY <1>0, <1>s, <2>1, <2>2, QuietReset
<1>13. ASSUME NEW b \in Boards, Crash(b) PROVE \A c \in Boards : ResetOK(c)'
  BY <1>0, <1>13, CrashReset
<1>14. CASE Connect
  <2>1. UNCHANGED <<ring, tx, disk, app, said, shown, wire, timer, awaiting>>
    BY <1>14 DEF Connect, store
  <2> QED
    BY <1>0, <1>s, <2>1, QuietReset
<1>15. CASE Drop
  <2>1. UNCHANGED <<ring, tx, disk, app, said, shown, timer, awaiting>> /\ \A c \in Boards : wire'[c] = <<>>
    BY <1>15 DEF Drop, store, worker
  <2> QED
    BY <1>0, <1>s, <2>1, QuietReset
<1>16. CASE UNCHANGED vars
  <2>1. UNCHANGED <<ring, tx, disk, app, said, shown, wire, timer, awaiting>>
    BY <1>16 DEF vars
  <2> QED
    BY <1>0, <1>s, <2>1, QuietReset
<1> QED
  BY <1>1, <1>2, <1>3, <1>4, <1>5, <1>6, <1>7, <1>8, <1>9, <1>10, <1>11, <1>12, <1>13, <1>14, <1>15, <1>16
  DEF Next, Worker

\* It holds in every reachable state.
LEMMA AlwaysReset ==
  ASSUME Roomy, Durable
  PROVE  Spec => []ResetInv
BY InitReset, StepReset, PTL DEF Spec

-----------------------------------------------------------------------------
(* Theorems                                                                *)

\* Nobody sees a text twice or texts out of order, however often they are sent
\* again (vb_peer_handle_text, vb_peer_process_timeouts): not when writing the
\* card fails, and not when boards are reset (vb_peer_history_load), if not both.
THEOREM TextsInOrder ==
  ASSUME Roomy, NeverReset \/ Durable
  PROVE  Spec => []ShownInOrder
<1>1. DeliveryInv => ShownInOrder
  BY DEF DeliveryInv, BoardOK, ShownOK, ShownInOrder
<1>2. ResetInv => ShownInOrder
  BY DEF ResetInv, ResetOK, ListOK, ShownInOrder
<1>3. CASE NeverReset
  BY <1>1, <1>3, Delivery, PTL
<1>4. CASE Durable
  BY <1>2, <1>4, AlwaysReset, PTL
<1> QED
  BY <1>3, <1>4

\* A text counts as delivered only after the other board has added it for its
\* user, however late an acknowledgement comes (vb_peer_handle_ack).
THEOREM DeliveredMeansShown ==
  ASSUME Roomy, NeverReset
  PROVE  Spec => []DeliveredReceived
<1>1. DeliveryInv => DeliveredReceived
  BY DEF DeliveryInv, BoardOK, SentOK, In, DeliveredReceived, TextsOf
<1> QED
  BY <1>1, Delivery, PTL

\* The acknowledgement timer never fires for a text that is settled or gone
\* (ack_deadline and awaiting_id), under the conditions of TextsInOrder.
THEOREM TimerWatchesText ==
  ASSUME Roomy, NeverReset \/ Durable
  PROVE  Spec => []TimerHasText
<1>1. DeliveryInv => TimerHasText
  BY DEF DeliveryInv, BoardOK, Awaited, TimerHasText
<1>2. ResetInv => TimerHasText
  BY DEF ResetInv, ResetOK, Awaited, TimerHasText
<1>3. CASE NeverReset
  BY <1>1, <1>3, Delivery, PTL
<1>4. CASE Durable
  BY <1>2, <1>4, AlwaysReset, PTL
<1> QED
  BY <1>3, <1>4

\* A text is in the file of its receiver before its acknowledgement is under way
\* (vb_peer_handle_text), as long as the card can be written: resets do not
\* undo it.
THEOREM PersistedFirst ==
  ASSUME Roomy, Durable
  PROVE  Spec => []PersistedBeforeAck
<1>1. ResetInv => PersistedBeforeAck
  <2> SUFFICES ASSUME ResetInv, NEW b \in Boards
               PROVE  /\ \A i \in DOMAIN wire[b] :
                           wire[b][i].type = "ack" => Known(disk[Other(b)].ring, wire[b][i].id)
                      /\ \A i \in DOMAIN ring[b] :
                           ring[b][i].out /\ ring[b][i].status = "delivered"
                             => Known(disk[Other(b)].ring, ring[b][i].id)
    BY DEF PersistedBeforeAck
  <2> DEFINE o == Other(b)
  <2>1. /\ o \in Boards /\ ConfirmOK(ring[b], ring[o])
        /\ FlightOK(wire[b], shown[b], ring[b], ring[o], said[o])
    BY BothStand DEF ResetInv
  <2>2. KnowsMore(ring[o], disk[o].ring)
    BY <2>1, Reloaded DEF ResetInv
  <2> QED
    BY <2>1, <2>2 DEF FlightOK, ConfirmOK, KnowsMore
<1> QED
  BY <1>1, AlwaysReset, PTL

-----------------------------------------------------------------------------
(* PeerDelivery implements TextDelivery: the statuses in the rings and the *)
(* texts shown change only as TextDelivery allows, for boards that are not *)
(* reset and a ring with room for every text.                              *)

\* The status a ring gives a text, whose text it is.
StatusIn(r, n) ==
  IF Own(r, n) THEN r[CHOOSE i \in DOMAIN r : r[i].out /\ r[i].text = n].status ELSE "unsent"

Bar == [b \in Boards |-> [n \in 1..MaxTexts |-> Status(b, n)]]

\* A text has one entry in the ring of its sender, which says what its status is.
LEMMA StatusFound ==
  ASSUME NEW r, NEW s, NEW sh, Len(r) \in Nat, DOMAIN r = 1..Len(r), RingOK(r, s, sh), s \in Nat,
         NEW i \in DOMAIN r, r[i].out
  PROVE  StatusIn(r, r[i].text) = r[i].status /\ r[i].status # "received"
<1> DEFINE n == r[i].text
           j == CHOOSE k \in DOMAIN r : r[k].out /\ r[k].text = n
<1>1. Own(r, n)
  BY DEF Own
<1>2. j \in DOMAIN r /\ r[j].out /\ r[j].text = n
  BY <1>1 DEF Own
<1>3. StatusIn(r, n) = r[j].status
  BY <1>1 DEF StatusIn
<1> HIDE DEF j
<1>4. r[i].text \in 1..s /\ r[j].text \in 1..s
  BY <1>2 DEF RingOK
<1>5. ~(i < j) /\ ~(j < i)
  BY <1>2, <1>4 DEF RingOK
<1>6. i = j
  BY <1>2, <1>5
<1> QED
  BY <1>3, <1>6 DEF RingOK

\* A text that was not sent has none.
LEMMA StatusUnsent ==
  ASSUME NEW r, NEW s, NEW sh, RingOK(r, s, sh), NEW n, n \notin 1..s
  PROVE  StatusIn(r, n) = "unsent"
BY DEF StatusIn, Own, RingOK

\* One that was sent has one of the other three.
LEMMA StatusSent ==
  ASSUME NEW r \in Seq(Messages), NEW s \in Nat, NEW sh, RingOK(r, s, sh), NEW n \in 1..s
  PROVE  StatusIn(r, n) \in {"pending", "delivered", "failed"}
<1>1. PICK i \in DOMAIN r : r[i].out /\ r[i].text = n
  BY DEF RingOK, Own
<1>2. Len(r) \in Nat /\ DOMAIN r = 1..Len(r) /\ r[i] \in Messages
  OBVIOUS
<1>3. StatusIn(r, n) = r[i].status /\ r[i].status # "received"
  BY <1>1, <1>2, StatusFound
<1> QED
  BY <1>2, <1>3 DEF Messages, Statuses

\* Ring R has the texts of ring r, and their statuses but for that of text x.
Keeps(r, R, x) ==
  \A i \in DOMAIN r : r[i].out /\ r[i].text # x =>
    \E j \in DOMAIN R : R[j].out /\ R[j].text = r[i].text /\ R[j].status = r[i].status

LEMMA StatusKept ==
  ASSUME NEW r \in Seq(Messages), NEW s \in Nat, NEW sh, RingOK(r, s, sh),
         NEW R \in Seq(Messages), NEW t \in Nat, NEW shR, RingOK(R, t, shR), s <= t,
         NEW x, Keeps(r, R, x), NEW n, n # x, n \in 1..s \/ n \notin 1..t
  PROVE  StatusIn(R, n) = StatusIn(r, n)
<1>1. CASE n \in 1..s
  <2>1. PICK i \in DOMAIN r : r[i].out /\ r[i].text = n
    BY <1>1 DEF RingOK, Own
  <2>2. PICK j \in DOMAIN R : R[j].out /\ R[j].text = n /\ R[j].status = r[i].status
    BY <2>1 DEF Keeps
  <2>3. /\ Len(r) \in Nat /\ DOMAIN r = 1..Len(r) /\ Len(R) \in Nat /\ DOMAIN R = 1..Len(R)
    OBVIOUS
  <2>4. StatusIn(r, n) = r[i].status
    BY <2>1, <2>3, StatusFound
  <2>5. StatusIn(R, n) = R[j].status
    BY <2>2, <2>3, StatusFound
  <2> QED
    BY <2>2, <2>4, <2>5
<1>2. CASE n \notin 1..t
  <2>1. n \notin 1..s
    BY <1>2
  <2> QED
    BY <1>2, <2>1, StatusUnsent
<1> QED
  BY <1>1, <1>2

\* A text that is delivered or given up has that status, the others keep theirs.
LEMMA MarkedStatus ==
  ASSUME NEW r \in Seq(Messages), NEW s \in Nat, NEW sh, RingOK(r, s, sh),
         NEW st \in {"delivered", "failed"}, NEW id, NEW n \in Nat
  PROVE  /\ n # id => StatusIn(Marked(r, id, st), n) = StatusIn(r, n)
         /\ n = id /\ Own(r, n) => StatusIn(Marked(r, id, st), n) = st
<1> DEFINE R == Marked(r, id, st)
<1>1. R \in Seq(Messages) /\ RingOK(R, s, sh)
  BY MarkedOK
<1>2. /\ Len(r) \in Nat /\ DOMAIN r = 1..Len(r) /\ DOMAIN R = DOMAIN r /\ st \in Statuses
      /\ Len(R) \in Nat /\ DOMAIN R = 1..Len(R)
  <2>1. st \in Statuses
    BY DEF Statuses
  <2>2. Len(R) = Len(r)
    BY <2>1, MarkedRing
  <2> HIDE DEF R
  <2> QED
    BY <1>1, <2>1, <2>2
<1>3. ASSUME NEW i \in DOMAIN r
      PROVE  /\ R[i].id = r[i].id /\ R[i].out = r[i].out /\ R[i].text = r[i].text
             /\ r[i].out /\ r[i].id = id => R[i].status = st
             /\ ~(r[i].out /\ r[i].id = id) => R[i].status = r[i].status
  BY <1>2, MarkedEntry
<1> HIDE DEF R
<1>4. \A i \in DOMAIN r : r[i].id = r[i].text
  BY DEF RingOK
<1>5. ASSUME n # id PROVE StatusIn(R, n) = StatusIn(r, n)
  <2>1. Keeps(r, R, id)
    BY <1>2, <1>3, <1>4 DEF Keeps
  <2>2. n \in 1..s \/ n \notin 1..s
    OBVIOUS
  <2>3. s <= s
    OBVIOUS
  <2> QED
    BY <1>1, <1>5, <2>1, <2>2, <2>3, StatusKept
<1>6. ASSUME Own(r, id) PROVE StatusIn(R, id) = st
  <2>1. PICK i \in DOMAIN r : r[i].out /\ r[i].text = id
    BY <1>6 DEF Own
  <2>2. i \in DOMAIN R /\ R[i].out /\ R[i].text = id /\ R[i].status = st
    BY <1>2, <1>3, <1>4, <2>1
  <2> QED
    BY <1>1, <1>2, <2>2, StatusFound
<1> QED
  BY <1>5, <1>6 DEF R

-----------------------------------------------------------------------------
(* The abstract statuses                                                   *)

\* The refinement mapping says of each text what the ring of its sender says.
LEMMA BarIs ==
  \A b \in Boards : \A n \in 1..MaxTexts : Bar[b][n] = StatusIn(ring[b], n)
BY DEF Bar, Status, StatusIn, Own

\* A step that changes no status.
LEMMA BarStays ==
  ASSUME \A c \in Boards : \A n \in 1..MaxTexts : StatusIn(ring'[c], n) = StatusIn(ring[c], n)
  PROVE  Bar' = Bar
<1>1. /\ Bar = [c \in Boards |-> [n \in 1..MaxTexts |-> StatusIn(ring[c], n)]]
      /\ Bar' = [c \in Boards |-> [n \in 1..MaxTexts |-> StatusIn(ring'[c], n)]]
  BY DEF Bar, Status, StatusIn, Own
<1> QED
  BY <1>1

\* A step that changes the status of one text.
LEMMA BarChanges ==
  ASSUME NEW b \in Boards, NEW x \in 1..MaxTexts, NEW st,
         \A c \in Boards : c # b => ring'[c] = ring[c],
         \A n \in 1..MaxTexts : n # x => StatusIn(ring'[b], n) = StatusIn(ring[b], n),
         StatusIn(ring'[b], x) = st
  PROVE  Bar' = [Bar EXCEPT ![b][x] = st]
<1>1. /\ Bar = [c \in Boards |-> [n \in 1..MaxTexts |-> StatusIn(ring[c], n)]]
      /\ Bar' = [c \in Boards |-> [n \in 1..MaxTexts |-> StatusIn(ring'[c], n)]]
  BY DEF Bar, Status, StatusIn, Own
<1>2. [n \in 1..MaxTexts |-> StatusIn(ring'[b], n)]
        = [[n \in 1..MaxTexts |-> StatusIn(ring[b], n)] EXCEPT ![x] = st]
  OBVIOUS
<1>3. \A c \in Boards : c # b =>
        [n \in 1..MaxTexts |-> StatusIn(ring'[c], n)] = [n \in 1..MaxTexts |-> StatusIn(ring[c], n)]
  OBVIOUS
<1> DEFINE old(c) == [n \in 1..MaxTexts |-> StatusIn(ring[c], n)]
           new(c) == [n \in 1..MaxTexts |-> StatusIn(ring'[c], n)]
<1>4. /\ Bar = [c \in Boards |-> old(c)] /\ Bar' = [c \in Boards |-> new(c)]
      /\ new(b) = [old(b) EXCEPT ![x] = st] /\ \A c \in Boards : c # b => new(c) = old(c)
  BY <1>1, <1>2, <1>3
<1> HIDE DEF old, new
<1>5. Bar[b] = old(b)
  BY <1>4
<1>6. [Bar EXCEPT ![b][x] = st] = [c \in Boards |-> IF c = b THEN [old(b) EXCEPT ![x] = st] ELSE old(c)]
  BY <1>4, <1>5
<1> QED
  BY <1>4, <1>6

-----------------------------------------------------------------------------
(* The steps                                                               *)

Refines == [Promise!Next]_<<Bar, shown>>

\* What the invariant says of the ring of a board.
LEMMA Rings ==
  ASSUME DeliveryInv, NEW b \in Boards
  PROVE  /\ ring[b] \in Seq(Messages) /\ said[b] \in Nat /\ said[b] <= MaxTexts
         /\ RingOK(ring[b], said[b], shown[b]) /\ shown[b] \in Seq(Ids)
BY BoardTypes DEF DeliveryInv, BoardOK

\* A step of boards that leaves the rings and what is shown alone.
LEMMA QuietRefines ==
  ASSUME UNCHANGED <<ring, shown>>
  PROVE  Refines
<1>1. Bar' = Bar
  BY BarStays
<1> QED
  BY <1>1 DEF Refines

\* A new text is submitted.
LEMMA SendRefines ==
  ASSUME Roomy, DeliveryInv, DeliveryInv', NEW b \in Boards, SendText(b)
  PROVE  Refines
<1> DEFINE r == ring[b]
           R == ring'[b]
           x == said[b] + 1
           m == [id |-> tx[b] + 1, out |-> TRUE, status |-> "pending", text |-> x]
<1>1. /\ r \in Seq(Messages) /\ said[b] \in Nat /\ RingOK(r, said[b], shown[b])
      /\ R \in Seq(Messages) /\ RingOK(R, said'[b], shown'[b])
      /\ shown[b] \in Seq(Ids) /\ said[b] < MaxTexts
  <2>1. R \in Seq(Messages) /\ RingOK(R, said'[b], shown'[b])
    BY DEF DeliveryInv, TypeInv, TypeOK, StoreTypes, BoardOK
  <2> QED
    BY <2>1, Rings DEF SendText
<1>2. /\ said'[b] = x /\ UNCHANGED shown /\ R = Added(r, m)
      /\ \A c \in Boards : c # b => ring'[c] = ring[c]
  <2>1. ring \in [Boards -> Seq(Messages)] /\ said \in [Boards -> Ids]
    BY DEF DeliveryInv, TypeInv, TypeOK, StoreTypes
  <2> QED
    BY <2>1 DEF SendText
<1>3. R = Append(r, m) /\ m \in Messages
  <2>1. tx[b] = said[b]
    BY DEF DeliveryInv, BoardOK
  <2>2. m \in Messages /\ m.id = x /\ m.text = x /\ m.out = TRUE /\ m.status = "pending"
    BY <1>1, <2>1 DEF Messages, Ids, Statuses
  <2>3. Len(shown[b]) <= MaxTexts
    <3>1. /\ Other(b) \in Boards /\ ShownOK(shown[b], ring[Other(b)], said[Other(b)])
          /\ said[Other(b)] \in Nat /\ said[Other(b)] <= MaxTexts
      BY OtherBoard, BothAre, BoardTypes DEF DeliveryInv
    <3>2. Len(shown[b]) <= said[Other(b)] /\ Len(shown[b]) \in Nat
      BY <1>1, <3>1, ShownBounded
    <3> QED
      BY <3>1, <3>2
  <2> HIDE DEF m, R, r
  <2>4. Added(r, m) = Append(r, m)
    BY <1>1, <2>2, <2>3, NewText
  <2> QED
    BY <1>2, <2>2, <2>4
<1>4. /\ Len(r) \in Nat /\ DOMAIN r = 1..Len(r) /\ DOMAIN R = 1..(Len(r) + 1)
      /\ Len(R) \in Nat /\ DOMAIN R = 1..Len(R)
      /\ \A i \in 1..Len(r) : R[i] = r[i]
      /\ R[Len(r) + 1] = m /\ m.out /\ m.text = x /\ m.status = "pending"
  <2> HIDE DEF r, R
  <2>1. m.out /\ m.text = x /\ m.status = "pending"
    OBVIOUS
  <2> HIDE DEF m
  <2> QED
    BY <1>1, <1>3, <2>1
<1> HIDE DEF r, R, m, x
<1>x. x = said[b] + 1 /\ x \in 1..MaxTexts
  BY <1>1 DEF x
<1>5. StatusIn(R, x) = "pending"
  <2>1. Len(r) + 1 \in DOMAIN R
    BY <1>4
  <2> QED
    BY <1>1, <1>2, <1>4, <1>x, <2>1, StatusFound
<1>6. ASSUME NEW n \in 1..MaxTexts, n # x PROVE StatusIn(R, n) = StatusIn(r, n)
  <2>1. Keeps(r, R, x)
    BY <1>4 DEF Keeps
  <2>2. /\ x \in Nat /\ said[b] <= x
        /\ (n \in 1..said[b]) \/ (n \notin 1..x)
        /\ RingOK(R, x, shown[b])
    BY <1>1, <1>2, <1>6, <1>x
  <2> QED
    BY <1>1, <1>6, <1>x, <2>1, <2>2, StatusKept
<1>7. Bar' = [Bar EXCEPT ![b][x] = "pending"]
  BY <1>2, <1>5, <1>6, <1>x, BarChanges DEF r, R
<1>8. Bar[b][x] = "unsent" /\ \A k \in 1..(x - 1) : Bar[b][k] # "unsent"
  <2>1. Bar[b][x] = "unsent"
    BY <1>1, <1>x, BarIs, StatusUnsent DEF r
  <2>2. ASSUME NEW k \in 1..(x - 1) PROVE Bar[b][k] # "unsent"
    <3>1. k \in 1..said[b] /\ k \in 1..MaxTexts
      BY <1>1, <1>x
    <3>2. StatusIn(r, k) # "unsent"
      BY <1>1, <3>1, StatusSent
    <3> QED
      BY <3>1, <3>2, BarIs DEF r
  <2> QED
    BY <2>1, <2>2
<1>9. Promise!Submit(b, x)
  BY <1>2, <1>7, <1>8 DEF Promise!Submit, Bar
<1> QED
  BY <1>9, <1>x DEF Refines, Promise!Next, Bar

\* A text is shown, unless it was shown before.
LEMMA RecvTextRefines ==
  ASSUME Roomy, DeliveryInv, DeliveryInv', NEW b \in Boards, RecvText(b)
  PROVE  Refines
<1> DEFINE o == Other(b)
           p == wire[b][1]
           m == [id |-> p.id, out |-> FALSE, status |-> "received", text |-> p.text]
           r == ring[b]
           R == ring'[b]
<1>1. /\ o \in Boards /\ o # b /\ Other(o) = b
      /\ ring \in [Boards -> Seq(Messages)] /\ r \in Seq(Messages) /\ ring[o] \in Seq(Messages)
      /\ shown \in [Boards -> Seq(Ids)] /\ wire[b] \in Seq(Packets) /\ shown[b] \in Seq(Ids)
      /\ said[b] \in Nat /\ said[b] <= MaxTexts /\ said[o] \in Nat /\ said[o] <= MaxTexts
      /\ RingOK(r, said[b], shown[b]) /\ RingOK(ring[o], said[o], shown[o])
      /\ ShownOK(shown[b], ring[o], said[o])
      /\ WireOK(wire[b], shown[b], ring[o], said[o], shown[o])
  <2>1. o \in Boards
    BY OtherBoard
  <2>2. TypeInv /\ \A c \in Boards : BoardOK(c)
    BY DEF DeliveryInv
  <2> QED
    BY <2>1, <2>2, BothAre, BoardTypes DEF TypeInv, TypeOK, StoreTypes
<1>2. wire[b] # <<>> /\ p.type = "text" /\ p.id \in Ids /\ p.text \in Ids
  BY ArrivesTypes DEF RecvText, DeliveryInv, TypeInv, TypeOK
<1>3. CASE UNCHANGED <<ring, shown>>
  BY <1>3, QuietRefines
<1>4. CASE ready[b] /\ ~Known(r, p.id)
  <2>1. ring' = [ring EXCEPT ![b] = Added(r, m)] /\ shown' = [shown EXCEPT ![b] = Append(shown[b], p.text)]
    BY <1>4 DEF RecvText
  <2>2. UNCHANGED said
    BY DEF RecvText
  <2>3. R = Added(r, m) /\ ring'[o] = ring[o] /\ \A c \in Boards : c # b => ring'[c] = ring[c]
    BY <1>1, <2>1
  <2>4. m \in Messages /\ m.id = p.id /\ m.text = p.text /\ m.out = FALSE
    BY <1>2 DEF Messages, Statuses
  <2>5. TextOK(p, shown[b], ring[o], said[o])
    <3> HIDE DEF o
    <3> QED
      BY <1>1, <1>2, TailOK
  <2> HIDE DEF m, p, r, R, o
  <2>6. R = Append(r, m)
    <3>1. /\ r \in Seq(Messages) /\ shown[b] \in Seq(Ids) /\ ring[o] \in Seq(Messages)
          /\ said[b] \in Nat /\ said[o] \in Nat /\ said[b] <= MaxTexts /\ said[o] <= MaxTexts
          /\ RingOK(r, said[b], shown[b]) /\ ShownOK(shown[b], ring[o], said[o])
          /\ TextOK(p, shown[b], ring[o], said[o]) /\ ~Known(r, p.id)
          /\ m \in Messages /\ m.id = p.id /\ m.text = p.text /\ m.out = FALSE
      BY <1>1, <1>4, <2>4, <2>5
    <3>2. Added(r, m) = Append(r, m)
      BY <3>1, NewShown
    <3> QED
      BY <2>3, <3>2
  <2>7. /\ Len(r) \in Nat /\ DOMAIN r = 1..Len(r) /\ DOMAIN R = 1..(Len(r) + 1)
        /\ \A i \in 1..Len(r) : R[i] = r[i]
    BY <1>1, <2>4, <2>6
  <2>8. R \in Seq(Messages) /\ RingOK(R, said[b], shown'[b])
    BY <2>2 DEF DeliveryInv, TypeInv, TypeOK, StoreTypes, BoardOK, R
  <2>9. ASSUME NEW n \in 1..MaxTexts PROVE StatusIn(R, n) = StatusIn(r, n)
    <3>1. Keeps(r, R, 0)
      BY <2>7 DEF Keeps
    <3>2. n # 0 /\ said[b] <= said[b] /\ (n \in 1..said[b] \/ n \notin 1..said[b])
      BY <1>1
    <3> QED
      BY <1>1, <2>8, <3>1, <3>2, StatusKept
  <2>10. Bar' = Bar
    BY <2>3, <2>9, BarStays DEF r, R
  <2>11. p.text \in 1..MaxTexts /\ Bar[o][p.text] # "unsent"
    <3>1. p.text \in 1..said[o]
      BY <2>5 DEF TextOK
    <3>2. StatusIn(ring[o], p.text) # "unsent"
      BY <1>1, <3>1, StatusSent
    <3>3. p.text \in 1..MaxTexts
      BY <1>1, <3>1
    <3> QED
      BY <1>1, <3>2, <3>3, BarIs
  <2>12. ASSUME NEW k \in DOMAIN shown[b] PROVE shown[b][k] < p.text
    <3> DEFINE S == Append(shown[b], p.text)
    <3>1. shown'[b] = S
      BY <1>1, <2>1
    <3>2. /\ Len(shown[b]) + 1 \in DOMAIN S /\ k \in DOMAIN S /\ k < Len(shown[b]) + 1
          /\ S[k] = shown[b][k] /\ S[Len(shown[b]) + 1] = p.text
      BY <1>1
    <3>3. ShownOK(shown'[b], ring'[o], said'[o])
      BY DEF DeliveryInv, BoardOK, o
    <3> HIDE DEF S
    <3> QED
      BY <3>1, <3>2, <3>3 DEF ShownOK
  <2>13. Promise!Show(o, b, p.text)
    <3>1. \A n \in Promise!Shown(b) : n < p.text
      BY <2>12 DEF Promise!Shown
    <3> QED
      BY <2>1, <2>10, <2>11, <3>1 DEF Promise!Show, Bar
  <2>14. <<o, b>> \in Promise!Peers
    BY <1>1 DEF Promise!Peers
  <2>15. Promise!Next
    BY <2>11, <2>13, <2>14 DEF Promise!Next
  <2> QED
    BY <2>15 DEF Refines, Bar
<1>5. UNCHANGED <<ring, shown>> \/ (ready[b] /\ ~Known(r, p.id))
  BY DEF RecvText, store
<1> QED
  BY <1>3, <1>4, <1>5

\* One of the sender's texts is marked.
LEMMA MarkRefines ==
  ASSUME DeliveryInv, NEW b \in Boards, NEW id, NEW st \in {"delivered", "failed"},
         UNCHANGED shown, ring' = [ring EXCEPT ![b] = Marked(ring[b], id, st)],
         NEW i \in DOMAIN ring[b], ring[b][i].id = id, ring[b][i].out,
         st = "delivered" => In(id, shown[Other(b)]),
         st = "failed" => ring[b][i].status = "pending"
  PROVE  Refines
<1> DEFINE r == ring[b]
           R == Marked(ring[b], id, st)
<1>1. /\ ring \in [Boards -> Seq(Messages)] /\ r \in Seq(Messages) /\ said[b] \in Nat
      /\ said[b] <= MaxTexts /\ RingOK(r, said[b], shown[b])
  BY Rings DEF DeliveryInv, TypeInv, TypeOK, StoreTypes
<1>2. ring'[b] = R /\ \A c \in Boards : c # b => ring'[c] = ring[c]
  BY <1>1
<1> HIDE DEF R
<1>3. r[i].text = id /\ id \in 1..said[b] /\ Own(r, id)
  BY <1>1 DEF RingOK, Own
<1>4. id \in 1..MaxTexts /\ id \in Nat
  BY <1>1, <1>3
<1>5. StatusIn(R, id) = st /\ \A n \in 1..MaxTexts : n # id => StatusIn(R, n) = StatusIn(r, n)
  <2>1. StatusIn(R, id) = st
    BY <1>1, <1>3, <1>4, MarkedStatus DEF R
  <2>2. ASSUME NEW n \in 1..MaxTexts, n # id PROVE StatusIn(R, n) = StatusIn(r, n)
    <3>1. n \in Nat
      OBVIOUS
    <3> QED
      BY <1>1, <2>2, <3>1, MarkedStatus DEF R
  <2> QED
    BY <2>1, <2>2
<1>6. StatusIn(r, id) = r[i].status /\ StatusIn(r, id) \in {"pending", "delivered", "failed"}
  <2>1. Len(r) \in Nat /\ DOMAIN r = 1..Len(r)
    BY <1>1
  <2> QED
    BY <1>1, <1>3, <2>1, StatusFound, StatusSent
<1>7. Bar' = [Bar EXCEPT ![b][id] = st]
  BY <1>2, <1>4, <1>5, BarChanges
<1>8. Bar[b][id] = StatusIn(r, id)
  BY <1>4, BarIs
<1>9. CASE st = StatusIn(r, id)
  <2>1. \A c \in Boards : \A n \in 1..MaxTexts : StatusIn(ring'[c], n) = StatusIn(ring[c], n)
    BY <1>2, <1>5, <1>9
  <2>2. Bar' = Bar
    BY <2>1, BarStays
  <2> QED
    BY <2>2 DEF Refines
<1>10. CASE st = "delivered" /\ StatusIn(r, id) # st
  <2> DEFINE o == Other(b)
  <2>1. <<b, o>> \in Promise!Peers
    BY OtherBoard DEF Promise!Peers
  <2>2. id \in Promise!Shown(o)
    BY <1>10 DEF Promise!Shown, In
  <2>3. Promise!Confirm(b, o, id)
    BY <1>6, <1>7, <1>8, <1>10, <2>2 DEF Promise!Confirm, Bar
  <2>4. Promise!Next
    BY <1>4, <2>1, <2>3 DEF Promise!Next
  <2> QED
    BY <2>4 DEF Refines, Bar
<1>11. CASE st = "failed"
  <2>1. Promise!GiveUp(b, id)
    BY <1>6, <1>7, <1>8, <1>11 DEF Promise!GiveUp, Bar
  <2>2. Promise!Next
    BY <1>4, <2>1 DEF Promise!Next
  <2> QED
    BY <2>2 DEF Refines, Bar
<1> QED
  BY <1>9, <1>10, <1>11

\* An acknowledgement marks a text that was shown.
LEMMA RecvAckRefines ==
  ASSUME DeliveryInv, NEW b \in Boards, RecvAck(b)
  PROVE  Refines
<1> DEFINE id == AckedId(b)
<1>1. CASE Slots(ring[b], id, TRUE) = {}
  BY <1>1, QuietRefines DEF RecvAck, store
<1>2. CASE Slots(ring[b], id, TRUE) # {}
  <2>1. UNCHANGED shown /\ ring' = [ring EXCEPT ![b] = Marked(ring[b], id, "delivered")]
    BY <1>2 DEF RecvAck
  <2>2. PICK i \in DOMAIN ring[b] : ring[b][i].id = id /\ ring[b][i].out = TRUE
    BY <1>2 DEF Slots
  <2>3. In(id, shown[Other(b)])
    <3>1. wire[b] # <<>> /\ wire[b][1].type = "ack" /\ wire[b] \in Seq(Packets)
      BY BoardTypes DEF RecvAck, Arrives, DeliveryInv
    <3>2. WireOK(wire[b], shown[b], ring[Other(b)], said[Other(b)], shown[Other(b)])
      BY DEF DeliveryInv, BoardOK
    <3> QED
      BY <3>1, <3>2, TailOK DEF AckedId
  <2> HIDE DEF id
  <2> QED
    BY <2>1, <2>2, <2>3, MarkRefines
<1> QED
  BY <1>1, <1>2

\* A text that is given up was still pending.
LEMMA GiveUpRefines ==
  ASSUME DeliveryInv, NEW b \in Boards, GiveUp(b)
  PROVE  Refines
<1>1. PICK i \in Unsent(ring[b]) : ring[b][i].id = awaiting[b]
  BY DEF GiveUp, DeliveryInv, BoardOK, Awaited
<1>2. ring[b] \in Seq(Messages)
  BY Rings
<1>3. i \in DOMAIN ring[b] /\ ring[b][i].out = TRUE /\ ring[b][i].status = "pending"
  <2>1. i \in DOMAIN ring[b] /\ ring[b][i].out /\ ring[b][i].status = "pending"
    BY <1>1 DEF Unsent
  <2>2. ring[b][i] \in Messages
    BY <1>2, <2>1
  <2> QED
    BY <2>1, <2>2 DEF Messages
<1>4. Slots(ring[b], awaiting[b], TRUE) # {}
  BY <1>1, <1>3 DEF Slots
<1>5. UNCHANGED shown /\ ring' = [ring EXCEPT ![b] = Marked(ring[b], awaiting[b], "failed")]
  BY <1>4 DEF GiveUp
<1> QED
  BY <1>1, <1>3, <1>5, MarkRefines

-----------------------------------------------------------------------------
(* The theorem                                                             *)

\* At first nothing was sent and nothing shown.
LEMMA InitRefines == Init => Promise!Init
<1> SUFFICES ASSUME Init PROVE Promise!Init
  OBVIOUS
<1>1. \A b \in Boards : ring[b] = <<>> /\ DOMAIN ring[b] = {}
  BY DEF Init
<1>2. \A b \in Boards : \A n \in 1..MaxTexts : Status(b, n) = "unsent"
  BY <1>1 DEF Status
<1>3. shown = [b \in Boards |-> <<>>]
  BY DEF Init
<1> QED
  BY <1>2, <1>3 DEF Promise!Init

LEMMA StepRefines ==
  ASSUME Roomy, NeverReset
  PROVE  DeliveryInv /\ DeliveryInv' /\ [Next]_vars => Refines
<1> SUFFICES ASSUME DeliveryInv, DeliveryInv', [Next]_vars PROVE Refines
  OBVIOUS
<1>1. CASE \E b \in Boards : SendText(b)
  BY <1>1, SendRefines
<1>2. CASE \E b \in Boards : RecvText(b)
  BY <1>2, RecvTextRefines
<1>3. CASE \E b \in Boards : RecvAck(b)
  BY <1>3, RecvAckRefines
<1>4. CASE \E b \in Boards : GiveUp(b)
  BY <1>4, GiveUpRefines
<1>5. CASE \E b \in Boards : \/ SendSaved(b) \/ SendNothing(b) \/ SendPending(b) \/ SendHello(b)
                             \/ RecvHello(b) \/ Retry(b) \/ HandleDisconnect(b) \/ Lose(b)
  <2>1. UNCHANGED <<ring, shown>>
    BY <1>5 DEF SendSaved, SendNothing, SendPending, SendHello, RecvHello, Retry, HandleDisconnect,
                Lose, store
  <2> QED
    BY <2>1, QuietRefines
<1>6. CASE Connect \/ Drop \/ UNCHANGED vars
  <2>1. UNCHANGED <<ring, shown>>
    BY <1>6 DEF Connect, Drop, vars, store
  <2> QED
    BY <2>1, QuietRefines
<1>7. ASSUME NEW b \in Boards, Crash(b) PROVE FALSE
  BY <1>7 DEF Crash, Fault, NeverReset
<1> QED
  BY <1>1, <1>2, <1>3, <1>4, <1>5, <1>6, <1>7 DEF Next, Worker

\* What users see of their texts - the statuses vb_peer_link.h names, and the
\* texts in the order they are added - follows TextDelivery whatever the air
\* loses, the card refuses and the timers repeat.
THEOREM LinkDelivers ==
  ASSUME Roomy, NeverReset
  PROVE  Spec => Delivers
<1>1. Spec => []DeliveryInv
  BY Delivery
<1>2. DeliveryInv /\ DeliveryInv' /\ [Next]_vars => Refines
  BY StepRefines
<1>3. Refines => [Promise!Next]_<<[b \in Boards |-> [n \in 1..MaxTexts |-> Status(b, n)]], shown>>
  BY DEF Refines, Bar
<1> QED
  BY <1>1, <1>2, <1>3, InitRefines, PTL DEF Spec, Delivers, Promise!Spec
=============================================================================
