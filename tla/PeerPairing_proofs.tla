------------------------- MODULE PeerPairing_proofs --------------------------
(***************************************************************************)
(* Proofs about PeerPairing.  The values of the variables are right for    *)
(* any boards, and a file says what its board believes.  That both users   *)
(* have confirmed is proved for two boards out of reach of others, with    *)
(* any number of windows and faults: a third board breaks it (README,      *)
(* further disagreements).  That it was one code on both screens needs     *)
(* that no window is opened again on an old connection.                    *)
(***************************************************************************)
EXTENDS PeerPairing, SequenceTheorems, TLAPS

USE PairingAssumption

-----------------------------------------------------------------------------
(* Types                                                                   *)

\* A board that is linked has one other board at the end of its connection.
LEMMA LinkEnds ==
  ASSUME AirTypes, NEW b \in Boards, Linked(b)
  PROVE  /\ LinkOf(b) \in links /\ b \in Ends(LinkOf(b))
         /\ FarEnd(b) \in Boards /\ FarEnd(b) # b
<1>1. LinkOf(b) \in links /\ b \in Ends(LinkOf(b))
  BY DEF Linked, LinkOf
<1>2. \E c \in Ends(LinkOf(b)) : c # b
  BY <1>1 DEF AirTypes, Ends
<1>3. FarEnd(b) \in Ends(LinkOf(b)) /\ FarEnd(b) # b
  BY <1>2 DEF FarEnd
<1> QED
  BY <1>1, <1>3 DEF AirTypes, Ends

\* What boards send.
LEMMA PacketTypes ==
  ASSUME NEW b \in Boards, NEW type \in {"hello", "confirm", "cancel", "cccd"},
         NEW n \in Nonces, NEW sure \in BOOLEAN
  PROVE  /\ Packet(b, type, n, sure) \in Packets
         /\ <<Packet(b, type, n, sure)>> \in Seq(Packets)
BY DEF Packet, Packets

LEMMA ZeroNonce == 0 \in Nonces
BY DEF Nonces

\* Sending packets leaves packets on the wires.
LEMMA SentTypes ==
  ASSUME NEW w \in [Boards -> Seq(Packets)], NEW b \in Boards, BoardTypes, NEW ps \in Seq(Packets)
  PROVE  Sent(w, b, ps) \in [Boards -> Seq(Packets)]
<1>1. CASE Reaches(b)
  <2>1. conn[b] \in Boards
    BY <1>1 DEF Reaches, BoardTypes
  <2>2. w[conn[b]] \in Seq(Packets)
    BY <2>1
  <2>3. w[conn[b]] \o ps \in Seq(Packets)
    BY <2>2, ConcatProperties
  <2> QED
    BY <1>1, <2>3 DEF Sent
<1>2. CASE ~Reaches(b)
  BY <1>2 DEF Sent
<1> QED
  BY <1>1, <1>2

\* The first packet on a wire.
LEMMA HeadTypes ==
  ASSUME AirTypes, NEW b \in Boards, wire[b] # <<>>
  PROVE  /\ Head(wire[b]) \in Packets /\ Rest(b) \in [Boards -> Seq(Packets)]
         /\ Head(wire[b]).from \in Boards /\ Head(wire[b]).nonce \in Nonces
         /\ Head(wire[b]).sure \in BOOLEAN
<1>1. wire \in [Boards -> Seq(Packets)] /\ wire[b] \in Seq(Packets)
  BY DEF AirTypes
<1>2. Head(wire[b]) \in Packets /\ Tail(wire[b]) \in Seq(Packets)
  BY <1>1
<1>3. Rest(b) \in [Boards -> Seq(Packets)]
  BY <1>1, <1>2 DEF Rest
<1> QED
  BY <1>2, <1>3 DEF Packets

\* Only connections there are are closed.
LEMMA DisconnectTypes ==
  ASSUME AirTypes, NEW b \in Boards, Disconnect(b), UNCHANGED links
  PROVE  closing' \subseteq links'
BY LinkEnds DEF Disconnect, AirTypes

\* Codes are made of the addresses and nonces of two boards.
LEMMA CodeTypes ==
  ASSUME NEW b \in Boards, NEW c \in Boards, NEW n \in Nonces, NEW m \in Nonces
  PROVE  CodeOf(b, n, c, m) \in Codes
<1>1. <<b, n>> \in Boards \X Nonces /\ <<c, m>> \in Boards \X Nonces
  OBVIOUS
<1>2. {<<b, n>>, <<c, m>>} \in {{x, y} : x, y \in Boards \X Nonces}
  BY <1>1
<1> QED
  BY <1>2 DEF CodeOf, Codes

\* The end of a window, the cancel packet and the end of the connection.
LEMMA CancelsTypes ==
  ASSUME TypeOK, NEW b \in Boards, Cancels(b)
  PROVE  /\ WindowTypes' /\ AirTypes' /\ faults' = faults
         /\ UNCHANGED <<conn, open, hello>> /\ ready' \in [Boards -> BOOLEAN]
<1>1. WindowTypes'
  BY DEF Cancels, CloseWindow, TypeOK, WindowTypes, Codes
<1>2. wire' \in [Boards -> Seq(Packets)]
  <2>1. <<Packet(b, "cancel", nonce[b], mine[b])>> \in Seq(Packets)
    BY PacketTypes DEF TypeOK, WindowTypes
  <2>2. CASE wire' = Sent(wire, b, <<Packet(b, "cancel", nonce[b], mine[b])>>)
    BY <2>1, <2>2, SentTypes DEF TypeOK, AirTypes
  <2>3. CASE wire' = wire
    BY <2>3 DEF TypeOK, AirTypes
  <2> QED
    BY <2>2, <2>3 DEF Cancels, Say
<1>3. closing' \subseteq links'
  BY DisconnectTypes DEF Cancels, TypeOK
<1> QED
  BY <1>1, <1>2, <1>3 DEF Cancels, TypeOK, BoardTypes, AirTypes

LEMMA InitTypes == Init => TypeOK
<1> SUFFICES ASSUME Init PROVE TypeOK
  OBVIOUS
<1>0. 0 \in Nonces /\ NoCode \in Codes /\ <<>> \in Seq(Packets) /\ 0 \in 0..MaxFaults
  BY ZeroNonce DEF Codes
<1>1. WindowTypes
  BY <1>0 DEF Init, WindowTypes
<1>2. BoardTypes
  BY DEF Init, BoardTypes, Calls
<1>3. AirTypes
  BY <1>0 DEF Init, AirTypes
<1> QED
  BY <1>0, <1>1, <1>2, <1>3 DEF Init, TypeOK

\* Every step keeps every variable in its range.
LEMMA StepTypes == TypeOK /\ [Next]_vars => TypeOK'
<1> SUFFICES ASSUME TypeOK, [Next]_vars PROVE TypeOK'
  OBVIOUS
<1> USE DEF window, store, session, threads, air
<1>0. WindowTypes /\ BoardTypes /\ AirTypes /\ faults \in 0..MaxFaults
  BY DEF TypeOK
<1>1. ASSUME NEW b \in Boards, SwitchOn(b) PROVE TypeOK'
  <2>1. WindowTypes'
    BY <1>0, <1>1 DEF SwitchOn, WindowTypes
  <2>2. BoardTypes'
    BY <1>0, <1>1 DEF SwitchOn, BoardTypes
  <2>3. AirTypes'
    BY <1>0, <1>1 DEF SwitchOn, AirTypes
  <2>4. faults' \in 0..MaxFaults
    BY <1>0, <1>1 DEF SwitchOn
  <2> QED
    BY <2>1, <2>2, <2>3, <2>4 DEF TypeOK
<1>2. ASSUME NEW b \in Boards, SwitchOff(b) PROVE TypeOK'
  <2>1. WindowTypes'
    BY <1>0, <1>2 DEF SwitchOff, WindowTypes
  <2>2. BoardTypes'
    BY <1>0, <1>2 DEF SwitchOff, BoardTypes
  <2>3. AirTypes'
    BY <1>0, <1>2, DisconnectTypes DEF SwitchOff, AirTypes
  <2>4. faults' \in 0..MaxFaults
    BY <1>0, <1>2 DEF SwitchOff
  <2> QED
    BY <2>1, <2>2, <2>3, <2>4 DEF TypeOK
<1>3. ASSUME NEW b \in Boards, PairStart(b) PROVE TypeOK'
  <2>1. WindowTypes'
    BY <1>0, <1>3 DEF PairStart, WindowTypes, Nonces, Codes
  <2>2. BoardTypes'
    BY <1>0, <1>3 DEF PairStart, BoardTypes
  <2>3. AirTypes'
    BY <1>0, <1>3 DEF PairStart, AirTypes
  <2>4. faults' \in 0..MaxFaults
    BY <1>0, <1>3 DEF PairStart
  <2> QED
    BY <2>1, <2>2, <2>3, <2>4 DEF TypeOK
<1>4. ASSUME NEW b \in Boards, ConfirmMark(b) PROVE TypeOK'
  <2>1. WindowTypes'
    BY <1>0, <1>4 DEF ConfirmMark, WindowTypes
  <2>2. BoardTypes'
    BY <1>0, <1>4 DEF ConfirmMark, BoardTypes, Calls
  <2>3. AirTypes'
    BY <1>0, <1>4 DEF ConfirmMark, AirTypes
  <2>4. faults' \in 0..MaxFaults
    BY <1>0, <1>4 DEF ConfirmMark
  <2> QED
    BY <2>1, <2>2, <2>3, <2>4 DEF TypeOK
<1>5. ASSUME NEW b \in Boards, ConfirmSend(b) PROVE TypeOK'
  <2>1. WindowTypes'
    BY <1>0, <1>5 DEF ConfirmSend, WindowTypes
  <2>2. BoardTypes'
    BY <1>0, <1>5 DEF ConfirmSend, BoardTypes, Calls
  <2>3. AirTypes'
    <3>1. <<Packet(b, "confirm", nonce[b], mine[b])>> \in Seq(Packets)
      BY <1>0, PacketTypes DEF WindowTypes
    <3>2. wire' = wire \/ wire' = Sent(wire, b, <<Packet(b, "confirm", nonce[b], mine[b])>>)
      BY <1>5 DEF ConfirmSend, Say
    <3>3. /\ wire \in [Boards -> Seq(Packets)]
          /\ Sent(wire, b, <<Packet(b, "confirm", nonce[b], mine[b])>>) \in [Boards -> Seq(Packets)]
      BY <1>0, <3>1, SentTypes DEF AirTypes
    <3>4. wire' \in [Boards -> Seq(Packets)]
      BY <3>2, <3>3
    <3> QED
      BY <1>0, <1>5, <3>4 DEF ConfirmSend, AirTypes
  <2>4. faults' \in 0..MaxFaults
    BY <1>0, <1>5 DEF ConfirmSend
  <2> QED
    BY <2>1, <2>2, <2>3, <2>4 DEF TypeOK
<1>6. ASSUME NEW b \in Boards, ConfirmCommit(b) PROVE TypeOK'
  <2>1. WindowTypes'
    BY <1>0, <1>6 DEF ConfirmCommit, WindowTypes
  <2>2. BoardTypes'
    BY <1>0, <1>6 DEF ConfirmCommit, BoardTypes, Calls, Threads, MayCommit
  <2>3. AirTypes'
    BY <1>0, <1>6 DEF ConfirmCommit, AirTypes
  <2>4. faults' \in 0..MaxFaults
    BY <1>0, <1>6 DEF ConfirmCommit
  <2> QED
    BY <2>1, <2>2, <2>3, <2>4 DEF TypeOK
<1>7. ASSUME NEW b \in Boards, Cancel(b) PROVE TypeOK'
  <2>1. WindowTypes'
    BY <1>0, <1>7, CancelsTypes DEF Cancel, TypeOK
  <2>2. BoardTypes'
    BY <1>0, <1>7, CancelsTypes DEF Cancel, TypeOK, BoardTypes
  <2>3. AirTypes'
    BY <1>0, <1>7, CancelsTypes DEF Cancel, TypeOK
  <2>4. faults' \in 0..MaxFaults
    BY <1>0, <1>7, CancelsTypes DEF Cancel, TypeOK
  <2> QED
    BY <2>1, <2>2, <2>3, <2>4 DEF TypeOK
<1>8. ASSUME NEW b \in Boards, Expire(b) PROVE TypeOK'
  <2>1. WindowTypes'
    BY <1>0, <1>8, CancelsTypes DEF Expire, TypeOK
  <2>2. BoardTypes'
    BY <1>0, <1>8, CancelsTypes DEF Expire, TypeOK, BoardTypes
  <2>3. AirTypes'
    BY <1>0, <1>8, CancelsTypes DEF Expire, TypeOK
  <2>4. faults' \in 0..MaxFaults
    BY <1>0, <1>8, CancelsTypes DEF Expire, TypeOK
  <2> QED
    BY <2>1, <2>2, <2>3, <2>4 DEF TypeOK
<1>9. ASSUME NEW b \in Boards, Forget(b) PROVE TypeOK'
  <2>1. WindowTypes'
    BY <1>0, <1>9, CancelsTypes DEF Forget, TypeOK
  <2>2. BoardTypes'
    BY <1>0, <1>9, CancelsTypes DEF Forget, TypeOK, BoardTypes, Calls
  <2>3. AirTypes'
    BY <1>0, <1>9, CancelsTypes DEF Forget, TypeOK
  <2>4. faults' \in 0..MaxFaults
    BY <1>0, <1>9, CancelsTypes DEF Forget, TypeOK
  <2> QED
    BY <2>1, <2>2, <2>3, <2>4 DEF TypeOK
<1>10. ASSUME NEW b \in Boards, ForgetUnlink(b) PROVE TypeOK'
  <2>1. WindowTypes'
    BY <1>0, <1>10 DEF ForgetUnlink, WindowTypes
  <2>2. BoardTypes'
    BY <1>0, <1>10 DEF ForgetUnlink, BoardTypes, Calls
  <2>3. AirTypes'
    BY <1>0, <1>10 DEF ForgetUnlink, AirTypes
  <2>4. faults' \in 0..MaxFaults
    BY <1>0, <1>10 DEF ForgetUnlink
  <2> QED
    BY <2>1, <2>2, <2>3, <2>4 DEF TypeOK
<1>11. ASSUME NEW b \in Boards, ForgetClear(b) PROVE TypeOK'
  <2>1. WindowTypes'
    BY <1>0, <1>11 DEF ForgetClear, WindowTypes
  <2>2. BoardTypes'
    BY <1>0, <1>11 DEF ForgetClear, BoardTypes, Calls
  <2>3. AirTypes'
    BY <1>0, <1>11 DEF ForgetClear, AirTypes
  <2>4. faults' \in 0..MaxFaults
    BY <1>0, <1>11 DEF ForgetClear
  <2> QED
    BY <2>1, <2>2, <2>3, <2>4 DEF TypeOK
<1>12. ASSUME NEW b \in Boards, NEW t \in Threads, CommitSave(b, t) PROVE TypeOK'
  <2>1. WindowTypes'
    BY <1>0, <1>12 DEF CommitSave, Readies, WindowTypes
  <2>2. BoardTypes'
    BY <1>0, <1>12 DEF CommitSave, Readies, BoardTypes
  <2>3. AirTypes'
    BY <1>0, <1>12 DEF CommitSave, AirTypes
  <2>4. faults' \in 0..MaxFaults
    BY <1>0, <1>12 DEF CommitSave, Fault
  <2> QED
    BY <2>1, <2>2, <2>3, <2>4 DEF TypeOK
<1>13. ASSUME NEW b \in Boards, RecvStray(b) PROVE TypeOK'
  <2>1. WindowTypes'
    BY <1>0, <1>13 DEF RecvStray, WindowTypes
  <2>2. BoardTypes'
    BY <1>0, <1>13 DEF RecvStray, BoardTypes
  <2>3. AirTypes'
    BY <1>0, <1>13, HeadTypes DEF RecvStray, Due, AirTypes
  <2>4. faults' \in 0..MaxFaults
    BY <1>0, <1>13 DEF RecvStray
  <2> QED
    BY <2>1, <2>2, <2>3, <2>4 DEF TypeOK
<1>14. ASSUME NEW b \in Boards, RecvSubscribed(b) PROVE TypeOK'
  <2>1. WindowTypes'
    BY <1>0, <1>14 DEF RecvSubscribed, WindowTypes
  <2>2. BoardTypes'
    BY <1>0, <1>14 DEF RecvSubscribed, BoardTypes
  <2>3. AirTypes'
    BY <1>0, <1>14, HeadTypes DEF RecvSubscribed, Arrives, Due, AirTypes
  <2>4. faults' \in 0..MaxFaults
    BY <1>0, <1>14 DEF RecvSubscribed
  <2> QED
    BY <2>1, <2>2, <2>3, <2>4 DEF TypeOK
<1>15. ASSUME NEW b \in Boards, RecvCancel(b) PROVE TypeOK'
  <2>1. WindowTypes'
    BY <1>0, <1>15 DEF RecvCancel, WindowTypes, CloseWindow, Codes
  <2>2. BoardTypes'
    BY <1>0, <1>15 DEF RecvCancel, BoardTypes
  <2>3. AirTypes'
    BY <1>0, <1>15, HeadTypes, DisconnectTypes DEF RecvCancel, Arrives, Due, AirTypes
  <2>4. faults' \in 0..MaxFaults
    BY <1>0, <1>15 DEF RecvCancel
  <2> QED
    BY <2>1, <2>2, <2>3, <2>4 DEF TypeOK
<1>16. ASSUME NEW b \in Boards, RecvPairNoted(b) PROVE TypeOK'
  <2>1. WindowTypes'
    BY <1>0, <1>16, HeadTypes DEF RecvPairNoted, Arrives, Due, Notes, Readies, WindowTypes
  <2>2. BoardTypes'
    BY <1>0, <1>16 DEF RecvPairNoted, BoardTypes, Readies
  <2>3. AirTypes'
    BY <1>0, <1>16, HeadTypes DEF RecvPairNoted, Arrives, Due, AirTypes
  <2>4. faults' \in 0..MaxFaults
    BY <1>0, <1>16 DEF RecvPairNoted
  <2> QED
    BY <2>1, <2>2, <2>3, <2>4 DEF TypeOK
<1>17. ASSUME NEW b \in Boards, RecvPair(b) PROVE TypeOK'
  <2>1. WindowTypes'
    <3>1. Head(wire[b]).from \in Boards /\ Head(wire[b]).nonce \in Nonces /\ Head(wire[b]).sure \in BOOLEAN
      BY <1>0, <1>17, HeadTypes DEF RecvPair, Arrives, Due
    <3>2. CodeOf(b, nonce[b], Head(wire[b]).from, Head(wire[b]).nonce) \in Codes
      BY <1>0, <3>1, CodeTypes DEF WindowTypes
    <3> QED
      BY <1>0, <1>17, <3>1, <3>2 DEF RecvPair, Notes, WindowTypes
  <2>2. BoardTypes'
    BY <1>0, <1>17 DEF RecvPair, BoardTypes, Threads
  <2>3. AirTypes'
    <3>1. Rest(b) \in [Boards -> Seq(Packets)] /\ Answers(b, Head(wire[b])) \in Seq(Packets)
      <4>1. /\ <<Packet(b, "hello", nonce[b], mine[b])>> \in Seq(Packets)
            /\ <<Packet(b, "confirm", nonce[b], TRUE)>> \in Seq(Packets)
        <5>1. nonce[b] \in Nonces /\ mine[b] \in BOOLEAN /\ TRUE \in BOOLEAN
          BY <1>0 DEF WindowTypes
        <5> QED
          BY <5>1, PacketTypes
      <4>2. <<>> \in Seq(Packets)
        OBVIOUS
      <4>3. \A s, u \in Seq(Packets) : s \o u \in Seq(Packets)
        BY ConcatProperties
      <4>4. Answers(b, Head(wire[b])) \in Seq(Packets)
        BY <4>1, <4>2, <4>3, Zenon DEF Answers
      <4>5. Rest(b) \in [Boards -> Seq(Packets)]
        BY <1>0, <1>17, HeadTypes DEF RecvPair, Arrives, Due
      <4> QED
        BY <4>4, <4>5
    <3>2. Sent(Rest(b), b, Answers(b, Head(wire[b]))) \in [Boards -> Seq(Packets)]
      BY <1>0, <3>1, SentTypes
    <3> QED
      BY <1>0, <1>17, <3>2 DEF RecvPair, AirTypes
  <2>4. faults' \in 0..MaxFaults
    BY <1>0, <1>17 DEF RecvPair
  <2> QED
    BY <2>1, <2>2, <2>3, <2>4 DEF TypeOK
<1>18. ASSUME NEW b \in Boards, Accept(b) PROVE TypeOK'
  <2>1. WindowTypes'
    BY <1>0, <1>18 DEF Accept, WindowTypes
  <2>2. BoardTypes'
    <3>1. FarEnd(b) \in Boards
      BY <1>0, <1>18, LinkEnds DEF Accept
    <3>2. /\ conn' \in [Boards -> Boards \cup {0}]
          /\ hello' \in [Boards -> BOOLEAN] /\ ready' \in [Boards -> BOOLEAN]
      <4>1. CASE Wanted(b)
        <5>1. /\ conn' = [conn EXCEPT ![b] = FarEnd(b)] /\ hello' = [hello EXCEPT ![b] = FALSE]
              /\ ready' = [ready EXCEPT ![b] = FALSE]
          BY <1>18, <4>1, Zenon DEF Accept
        <5>2. /\ conn \in [Boards -> Boards \cup {0}] /\ hello \in [Boards -> BOOLEAN]
              /\ ready \in [Boards -> BOOLEAN]
          BY <1>0 DEF BoardTypes
        <5> HIDE DEF store, session, threads, air, window
        <5>3. conn' \in [Boards -> Boards \cup {0}]
          BY <5>1, <5>2, <3>1
        <5> QED
          BY <5>1, <5>2, <5>3
      <4>2. CASE ~Wanted(b)
        BY <1>0, <1>18, <4>2 DEF Accept, BoardTypes
      <4> QED
        BY <4>1, <4>2
    <3> QED
      BY <1>0, <1>18, <3>2 DEF Accept, BoardTypes
  <2>3. AirTypes'
    BY <1>0, <1>18 DEF Accept, AirTypes
  <2>4. faults' \in 0..MaxFaults
    BY <1>0, <1>18 DEF Accept
  <2> QED
    BY <2>1, <2>2, <2>3, <2>4 DEF TypeOK
<1>19. ASSUME NEW b \in Boards, Subscribe(b) PROVE TypeOK'
  <2>1. WindowTypes'
    BY <1>0, <1>19 DEF Subscribe, WindowTypes
  <2>2. BoardTypes'
    BY <1>0, <1>19 DEF Subscribe, BoardTypes
  <2>3. AirTypes'
    <3>1. conn[b] \in Boards /\ Packet(b, "cccd", 0, FALSE) \in Packets
      BY <1>0, <1>19, PacketTypes, ZeroNonce DEF Subscribe, BoardTypes
    <3>2. wire[conn[b]] \in Seq(Packets)
      BY <1>0, <3>1 DEF AirTypes
    <3>3. Append(wire[conn[b]], Packet(b, "cccd", 0, FALSE)) \in Seq(Packets)
      BY <3>1, <3>2, AppendProperties
    <3>4. wire' \in [Boards -> Seq(Packets)]
      BY <1>0, <1>19, <3>1, <3>3 DEF Subscribe, AirTypes
    <3> QED
      BY <1>0, <1>19, <3>4 DEF Subscribe, AirTypes
  <2>4. faults' \in 0..MaxFaults
    BY <1>0, <1>19 DEF Subscribe
  <2> QED
    BY <2>1, <2>2, <2>3, <2>4 DEF TypeOK
<1>20. ASSUME NEW b \in Boards, SendHello(b) PROVE TypeOK'
  <2>1. WindowTypes'
    BY <1>0, <1>20 DEF SendHello, WindowTypes
  <2>2. BoardTypes'
    BY <1>0, <1>20 DEF SendHello, BoardTypes
  <2>3. AirTypes'
    <3>1. <<Packet(b, "hello", nonce[b], mine[b])>> \in Seq(Packets)
      BY <1>0, PacketTypes DEF WindowTypes
    <3>2. wire' \in [Boards -> Seq(Packets)]
      BY <1>0, <1>20, <3>1, SentTypes DEF SendHello, Say, AirTypes
    <3> QED
      BY <1>0, <1>20, <3>2 DEF SendHello, AirTypes
  <2>4. faults' \in 0..MaxFaults
    BY <1>0, <1>20 DEF SendHello
  <2> QED
    BY <2>1, <2>2, <2>3, <2>4 DEF TypeOK
<1>21. ASSUME NEW b \in Boards, HandleDisconnect(b) PROVE TypeOK'
  <2>1. WindowTypes'
    BY <1>0, <1>21 DEF HandleDisconnect, WindowTypes
  <2>2. BoardTypes'
    BY <1>0, <1>21 DEF HandleDisconnect, BoardTypes
  <2>3. AirTypes'
    BY <1>0, <1>21 DEF HandleDisconnect, AirTypes
  <2>4. faults' \in 0..MaxFaults
    BY <1>0, <1>21 DEF HandleDisconnect
  <2> QED
    BY <2>1, <2>2, <2>3, <2>4 DEF TypeOK
<1>22. ASSUME NEW b \in Boards, Crash(b) PROVE TypeOK'
  <2>1. WindowTypes'
    BY <1>0, <1>22 DEF Crash, WindowTypes, Codes, Nonces
  <2>2. BoardTypes'
    BY <1>0, <1>22 DEF Crash, BoardTypes, Calls
  <2>3. AirTypes'
    BY <1>0, <1>22 DEF Crash, AirTypes
  <2>4. faults' \in 0..MaxFaults
    BY <1>0, <1>22 DEF Crash, Fault
  <2> QED
    BY <2>1, <2>2, <2>3, <2>4 DEF TypeOK
<1>23. ASSUME NEW c \in Boards, NEW p \in Boards, Connect(c, p) PROVE TypeOK'
  <2>1. WindowTypes' /\ BoardTypes' /\ faults' \in 0..MaxFaults
    BY <1>0, <1>23 DEF Connect, WindowTypes, BoardTypes
  <2>2. AirTypes'
    <3>1. <<c, p>> \in {l \in Boards \X Boards : l[1] < l[2]}
      BY <1>23 DEF Connect
    <3>2. links' \subseteq {l \in Boards \X Boards : l[1] < l[2]} /\ closing' \subseteq links'
      BY <1>0, <1>23, <3>1, Zenon DEF Connect, AirTypes, air
    <3> QED
      BY <1>0, <1>23, <3>2 DEF Connect, AirTypes
  <2> QED
    BY <2>1, <2>2 DEF TypeOK
<1>24. ASSUME NEW l \in links, Closed(l) \/ Drop(l) PROVE TypeOK'
  <2>1. LinkDown(l) /\ faults' \in 0..MaxFaults
    BY <1>0, <1>24 DEF Closed, Drop, Fault
  <2>2. WindowTypes' /\ BoardTypes'
    BY <1>0, <2>1 DEF LinkDown, WindowTypes, BoardTypes
  <2>3. wire' \in [Boards -> Seq(Packets)]
    BY <1>0, <2>1 DEF LinkDown, AirTypes
  <2>4. AirTypes'
    BY <1>0, <2>1, <2>3 DEF LinkDown, AirTypes
  <2> QED
    BY <2>1, <2>2, <2>4 DEF TypeOK
<1>25. CASE UNCHANGED vars
  BY <1>0, <1>25 DEF vars, TypeOK, WindowTypes, BoardTypes, AirTypes
<1> QED
  BY <1>1, <1>2, <1>3, <1>4, <1>5, <1>6, <1>7, <1>8, <1>9, <1>10, <1>11, <1>12, <1>13, <1>14, <1>15, <1>16, <1>17, <1>18, <1>19, <1>20, <1>21, <1>22, <1>23, <1>24, <1>25
  DEF Next, User, Running, Receive, Worker

\* The variables keep their ranges, for any boards and any faults.
THEOREM TypeCorrect == Spec => []TypeOK
BY InitTypes, StepTypes, PTL DEF Spec


-----------------------------------------------------------------------------
(* The file                                                                *)

\* Users do not forget a peer while the worker commits one.
ForgetsInPeace == "forgetInCommit" \notin Faults

\* Who is about to write the file has a peer to write down; a command that
\* forgets the peer is alone with the file, which it has unlinked first.
SaveHasPeer == \A b \in Boards : save[b] # {} => paired[b] # 0
ForgetAlone == \A b \in Boards : call[b] \in {"unlink", "clear"} => save[b] = {} /\ paired[b] # 0
Unlinked    == Written => \A b \in Boards : call[b] = "clear" => file[b] = 0
FileInv     == SaveHasPeer /\ ForgetAlone /\ Unlinked /\ FileIsMemory

\* Steps that leave the pairing and its threads alone.
LEMMA FileFrame ==
  ASSUME FileInv, UNCHANGED <<paired, file, save, call>>, Written' => Written
  PROVE  FileInv'
BY DEF FileInv, SaveHasPeer, ForgetAlone, Unlinked, FileIsMemory, Quiet

\* No step but a failed one makes the file and the memory differ.
LEMMA StepFile == ForgetsInPeace /\ TypeOK /\ FileInv /\ [Next]_vars => FileInv'
<1> SUFFICES ASSUME ForgetsInPeace, TypeOK, FileInv, [Next]_vars PROVE FileInv'
  OBVIOUS
<1> USE DEF window, store, session, threads, air
<1>0. BoardTypes /\ faults \in Nat
  BY DEF TypeOK
<1>1. ASSUME NEW b \in Boards, SwitchOn(b) \/ SwitchOff(b) \/ PairStart(b) PROVE FileInv'
  BY <1>1, FileFrame DEF SwitchOn, SwitchOff, PairStart, Written
<1>2. ASSUME NEW b \in Boards, ConfirmMark(b) PROVE FileInv'
  <2>1. /\ call[b] = "idle" /\ call' = [call EXCEPT ![b] = "send"]
        /\ UNCHANGED <<paired, file, save, faults>>
    BY <1>2 DEF ConfirmMark, Idle
  <2>2. save[b] # {} => paired[b] # 0
    BY DEF FileInv, SaveHasPeer
  <2>3. Written /\ save[b] = {} => file[b] = paired[b]
    BY <2>1 DEF FileInv, FileIsMemory, Quiet
  <2> QED
    BY <1>0, <2>1, <2>2, <2>3 DEF FileInv, SaveHasPeer, ForgetAlone, Unlinked, FileIsMemory, Quiet,
       Written, BoardTypes
<1>3. ASSUME NEW b \in Boards, ConfirmSend(b) PROVE FileInv'
  <2>1. /\ call[b] = "send" /\ UNCHANGED <<paired, file, save, faults>>
        /\ call' = [call EXCEPT ![b] = IF conn[b] # 0 /\ ~open[b] THEN "idle" ELSE "commit"]
    BY <1>3 DEF ConfirmSend
  <2> QED
    BY <1>0, <2>1 DEF FileInv, SaveHasPeer, ForgetAlone, Unlinked, FileIsMemory, Quiet, Written,
       BoardTypes
<1>4. ASSUME NEW b \in Boards, ConfirmCommit(b) PROVE FileInv'
  <2>1. /\ call[b] = "commit" /\ call' = [call EXCEPT ![b] = "idle"] /\ UNCHANGED <<file, faults>>
        /\ \/ UNCHANGED <<paired, save>>
           \/ /\ conn[b] # 0 /\ paired' = [paired EXCEPT ![b] = conn[b]]
              /\ save' = [save EXCEPT ![b] = @ \cup {"command"}]
    BY <1>4 DEF ConfirmCommit, MayCommit
  <2> QED
    BY <1>0, <2>1 DEF FileInv, SaveHasPeer, ForgetAlone, Unlinked, FileIsMemory, Quiet, Written,
       BoardTypes
<1>5. ASSUME NEW b \in Boards, Cancel(b) \/ Expire(b) PROVE FileInv'
  BY <1>5, FileFrame DEF Cancel, Expire, Cancels, Written
<1>6. ASSUME NEW b \in Boards, Forget(b) PROVE FileInv'
  <2>1. /\ paired[b] # 0 /\ save[b] = {} /\ UNCHANGED <<paired, file, save, faults>>
        /\ call' = [call EXCEPT ![b] = "unlink"]
    BY <1>6 DEF Forget, Cancels, ForgetsInPeace
  <2> QED
    BY <1>0, <2>1 DEF FileInv, SaveHasPeer, ForgetAlone, Unlinked, FileIsMemory, Quiet, Written,
       BoardTypes
<1>7. ASSUME NEW b \in Boards, ForgetUnlink(b) PROVE FileInv'
  <2>1. /\ call[b] = "unlink" /\ UNCHANGED <<paired, save, faults>>
        /\ file' = [file EXCEPT ![b] = 0] /\ call' = [call EXCEPT ![b] = "clear"]
    BY <1>7 DEF ForgetUnlink
  <2> QED
    BY <1>0, <2>1 DEF FileInv, SaveHasPeer, ForgetAlone, Unlinked, FileIsMemory, Quiet, Written,
       BoardTypes
<1>8. ASSUME NEW b \in Boards, ForgetClear(b) PROVE FileInv'
  <2>1. /\ call[b] = "clear" /\ UNCHANGED <<file, save, faults>>
        /\ paired' = [paired EXCEPT ![b] = 0] /\ call' = [call EXCEPT ![b] = "idle"]
    BY <1>8 DEF ForgetClear
  <2> QED
    BY <1>0, <2>1 DEF FileInv, SaveHasPeer, ForgetAlone, Unlinked, FileIsMemory, Quiet, Written,
       BoardTypes
<1>9. ASSUME NEW b \in Boards, NEW t \in Threads, CommitSave(b, t) PROVE FileInv'
  <2>1. /\ save[b] # {} /\ save' = [save EXCEPT ![b] = @ \ {t}] /\ UNCHANGED <<paired, call>>
    BY <1>9 DEF CommitSave
  <2>2. paired[b] # 0 /\ call[b] \notin {"unlink", "clear"}
    BY <2>1 DEF FileInv, SaveHasPeer, ForgetAlone
  <2>3. CASE file' = [file EXCEPT ![b] = paired[b]] /\ UNCHANGED faults
    BY <1>0, <2>1, <2>2, <2>3 DEF FileInv, SaveHasPeer, ForgetAlone, Unlinked, FileIsMemory, Quiet,
       Written, BoardTypes
  <2>4. CASE Fault("saveFails")
    <3>1. ~Written'
      BY <1>0, <2>4 DEF Fault, Written
    <3>2. SaveHasPeer' /\ ForgetAlone'
      BY <1>0, <2>1, <2>2 DEF FileInv, SaveHasPeer, ForgetAlone, BoardTypes
    <3> QED
      BY <3>1, <3>2 DEF FileInv, Unlinked, FileIsMemory
  <2> QED
    BY <1>9, <2>2, <2>3, <2>4 DEF CommitSave
<1>10. ASSUME NEW b \in Boards, RecvStray(b) \/ RecvSubscribed(b) \/ RecvCancel(b) \/ RecvPairNoted(b)
       PROVE  FileInv'
  BY <1>10, FileFrame DEF RecvStray, RecvSubscribed, RecvCancel, RecvPairNoted, Written
<1>11. ASSUME NEW b \in Boards, RecvPair(b) PROVE FileInv'
  <2>1. /\ paired[b] = 0 /\ conn[b] \in Boards /\ UNCHANGED <<file, call, faults>>
        /\ \/ UNCHANGED <<paired, save>>
           \/ /\ paired' = [paired EXCEPT ![b] = conn[b]]
              /\ save' = [save EXCEPT ![b] = @ \cup {"worker"}]
    BY <1>11, HeadTypes DEF RecvPair, Arrives, Due, TypeOK
  <2> QED
    BY <1>0, <2>1 DEF FileInv, SaveHasPeer, ForgetAlone, Unlinked, FileIsMemory, Quiet, Written,
       BoardTypes
<1>12. ASSUME NEW b \in Boards, Accept(b) \/ Subscribe(b) \/ SendHello(b) \/ HandleDisconnect(b)
       PROVE  FileInv'
  BY <1>12, FileFrame DEF Accept, Subscribe, SendHello, HandleDisconnect, Written
<1>13. ASSUME NEW b \in Boards, Crash(b) PROVE FileInv'
  <2>1. /\ paired' = [paired EXCEPT ![b] = file[b]] /\ UNCHANGED file
        /\ save' = [save EXCEPT ![b] = {}] /\ call' = [call EXCEPT ![b] = "idle"]
        /\ Written' => Written
    BY <1>0, <1>13 DEF Crash, Fault, Written
  <2> QED
    BY <1>0, <2>1 DEF FileInv, SaveHasPeer, ForgetAlone, Unlinked, FileIsMemory, Quiet, BoardTypes
<1>14. ASSUME NEW c \in Boards, NEW p \in Boards, Connect(c, p) PROVE FileInv'
  BY <1>14, FileFrame DEF Connect, Written
<1>15. ASSUME NEW l \in links, Closed(l) \/ Drop(l) PROVE FileInv'
  <2>1. UNCHANGED <<paired, file, save, call>> /\ (Written' => Written)
    BY <1>0, <1>15 DEF Closed, Drop, LinkDown, Fault, Written
  <2> QED
    BY <2>1, FileFrame
<1>16. CASE UNCHANGED vars
  BY <1>16, FileFrame DEF vars, Written
<1> QED
  BY <1>1, <1>2, <1>3, <1>4, <1>5, <1>6, <1>7, <1>8, <1>9, <1>10, <1>11, <1>12, <1>13, <1>14, <1>15,
     <1>16 DEF Next, User, Running, Receive, Worker

LEMMA InitFile == Init => FileInv
BY DEF Init, FileInv, SaveHasPeer, ForgetAlone, Unlinked, FileIsMemory, Quiet

\* A board that is reset believes what it did before, with any drops, resets
\* and orders of its two threads, as long as no write has failed.
THEOREM FileKept == ASSUME ForgetsInPeace PROVE Spec => []FileIsMemory
<1>1. Init => TypeOK /\ FileInv
  BY InitTypes, InitFile
<1>2. TypeOK /\ FileInv /\ [Next]_vars => (TypeOK /\ FileInv)'
  BY StepTypes, StepFile
<1>3. FileInv => FileIsMemory
  BY DEF FileInv
<1> QED
  BY <1>1, <1>2, <1>3, PTL DEF Spec

-----------------------------------------------------------------------------
(* Consent                                                                 *)

\* Two boards and nobody else within reach.
Alone == \E x, y \in Boards : x # y /\ Boards = {x, y}

Far(b) == CHOOSE c \in Boards : c # b

LEMMA Fars ==
  ASSUME Alone, NEW b \in Boards
  PROVE  /\ Far(b) \in Boards /\ Far(b) # b /\ Far(b) # 0 /\ Far(Far(b)) = b
         /\ \A c \in Boards : c # b => c = Far(b)
<1>1. \E c \in Boards : c # b
  BY DEF Alone
<1>2. Far(b) \in Boards /\ Far(b) # b
  BY <1>1 DEF Far
<1>3. \A c \in Boards : c # b => c = Far(b)
  BY <1>2 DEF Alone
<1>4. Far(Far(b)) \in Boards /\ Far(Far(b)) # Far(b)
  <2>1. \E c \in Boards : c # Far(b)
    BY <1>2
  <2> QED
    BY <2>1 DEF Far
<1> QED
  BY <1>2, <1>3, <1>4

\* A board tracks no connection but one with the other, knows no other peer,
\* and shows a code of the two.
Between ==
  \A b \in Boards : /\ conn[b] \in {0, Far(b)} /\ paired[b] \in {0, Far(b)}
                    /\ file[b] \in {0, Far(b)}
CodeOfTwo(k, b) == \E u, v \in k : u[1] = b /\ v[1] = Far(b)
CodesOfTwo == \A b \in Boards : code[b] # NoCode => CodeOfTwo(code[b], b)

\* The decision of the user of a board, in the flags and calls of the board.
Said(b) == Agreed(b, Far(b))
OwnWord == \A b \in Boards : mine[b] \/ call[b] \in {"send", "commit"} => Said(b)

\* A packet claims no decision its sender's user has not taken.
Honest(p) == p.type = "confirm" \/ p.sure => Said(p.from)
HonestSeq(s) == \A i \in 1..Len(s) : Honest(s[i])
HonestAir == \A b \in Boards : HonestSeq(wire[b])

\* What a board believes of the other user.
FarWord  == \A b \in Boards : theirs[b] => Said(Far(b))
PairWord == \A b \in Boards : paired[b] # 0 \/ file[b] # 0 => Said(b) /\ Said(Far(b))

\* A ready board has a peer.
ReadyPaired == \A b \in Boards : ready[b] => paired[b] # 0

Words == CodesOfTwo /\ OwnWord /\ FarWord
Peers == Between /\ PairWord /\ ReadyPaired
ConsentInv == Words /\ Peers /\ HonestAir

\* What a user has confirmed stays confirmed.
SaidStays == \A b \in Boards : Said(b) => Said(b)'

LEMMA SaidGrows ==
  ASSUME Alone, \A b \in Boards : pressed[b] \subseteq pressed'[b]
  PROVE  SaidStays
<1> SUFFICES ASSUME NEW b \in Boards, Said(b) PROVE Said(b)'
  BY DEF SaidStays
<1> QED
  BY DEF Said, Agreed

LEMMA StepSaid ==
  ASSUME Alone, TypeOK, [Next]_vars
  PROVE  SaidStays
<1> USE DEF window, store, session, threads, air
<1>1. ASSUME NEW b \in Boards, ConfirmMark(b) PROVE SaidStays
  BY <1>1, SaidGrows DEF ConfirmMark, TypeOK, WindowTypes
<1>2. CASE UNCHANGED pressed
  BY <1>2, SaidGrows
<1>3. ASSUME NEW b \in Boards, User(b) \/ Running(b), ~ConfirmMark(b) PROVE UNCHANGED pressed
  BY <1>3 DEF User, Running, SwitchOn, SwitchOff, PairStart, Cancel, Cancels, Forget, ConfirmSend,
     ConfirmCommit, ForgetUnlink, ForgetClear, CommitSave
<1>4. ASSUME NEW b \in Boards, Worker(b) \/ Expire(b) \/ Crash(b) PROVE UNCHANGED pressed
  BY <1>4 DEF Worker, Receive, RecvStray, RecvSubscribed, RecvCancel, RecvPairNoted, RecvPair, Accept,
     Subscribe, SendHello, HandleDisconnect, Expire, Cancels, Crash
<1>5. ASSUME NEW c \in Boards, NEW p \in Boards, Connect(c, p) PROVE UNCHANGED pressed
  BY <1>5 DEF Connect
<1>6. ASSUME NEW l \in links, Closed(l) \/ Drop(l) PROVE UNCHANGED pressed
  BY <1>6 DEF Closed, Drop, LinkDown
<1>7. CASE UNCHANGED vars
  BY <1>7, <1>2 DEF vars
<1> QED
  BY <1>1, <1>2, <1>3, <1>4, <1>5, <1>6, <1>7 DEF Next

\* Flags that are cleared, windows that close and calls that end claim nothing.
LEMMA WordsFrame ==
  ASSUME Alone, Words, SaidStays,
         \A b \in Boards : /\ code'[b] \in {NoCode, code[b]}
                           /\ mine'[b] => mine[b]
                           /\ theirs'[b] => theirs[b]
                           /\ call'[b] \in {"send", "commit"} => call[b] \in {"send", "commit"}
  PROVE  Words'
<1>1. \A b \in Boards : Far(b) \in Boards
  BY Fars
<1>2. CodesOfTwo'
  BY DEF Words, CodesOfTwo
<1>3. OwnWord'
  BY DEF Words, OwnWord, SaidStays
<1>4. FarWord'
  BY <1>1 DEF Words, FarWord, SaidStays
<1> QED
  BY <1>2, <1>3, <1>4 DEF Words

\* A board connects to the other one only; its memory and its file take values
\* they had before.
LEMMA PeersFrame ==
  ASSUME Alone, Peers, SaidStays,
         \A b \in Boards : /\ conn'[b] \in {0, Far(b)}
                           /\ paired'[b] \in {0, paired[b], file[b]}
                           /\ file'[b] \in {0, paired[b], file[b]}
                           /\ ready'[b] => paired'[b] # 0
  PROVE  Peers'
<1>1. \A b \in Boards : Far(b) \in Boards
  BY Fars
<1>2. Between'
  BY DEF Peers, Between
<1>3. PairWord'
  BY <1>1 DEF Peers, PairWord, SaidStays
<1>4. ReadyPaired'
  BY DEF ReadyPaired
<1> QED
  BY <1>2, <1>3, <1>4 DEF Peers

\* Steps that leave the pairing alone.
LEMMA PeersSame ==
  ASSUME Alone, Peers, SaidStays, UNCHANGED <<conn, paired, file>>,
         \A b \in Boards : ready'[b] => ready[b]
  PROVE  Peers'
<1>1. \A b \in Boards : conn'[b] \in {0, Far(b)} /\ (ready'[b] => paired'[b] # 0)
  BY DEF Peers, Between, ReadyPaired
<1> QED
  BY <1>1, PeersFrame

\* What is honest now is honest after the step.
LEMMA HonestWires ==
  ASSUME SaidStays, wire' \in [Boards -> Seq(Packets)], \A b \in Boards : HonestSeq(wire'[b])
  PROVE  HonestAir'
<1> SUFFICES ASSUME NEW b \in Boards, NEW i \in 1..Len(wire'[b]) PROVE Honest(wire[b][i])'
  BY DEF HonestAir, HonestSeq
<1>1. wire'[b][i] \in Packets
  OBVIOUS
<1>2. wire'[b][i].from \in Boards
  BY <1>1 DEF Packets
<1>3. Honest(wire'[b][i])
  BY DEF HonestSeq
<1> QED
  BY <1>2, <1>3 DEF Honest, SaidStays

LEMMA HonestSame ==
  ASSUME TypeOK, SaidStays, HonestAir, UNCHANGED wire
  PROVE  HonestAir'
<1>1. wire' \in [Boards -> Seq(Packets)] /\ \A b \in Boards : HonestSeq(wire'[b])
  BY DEF TypeOK, AirTypes, HonestAir
<1> QED
  BY <1>1, HonestWires

\* A single packet.
LEMMA HonestOne ==
  ASSUME NEW p \in Packets, Honest(p)
  PROVE  HonestSeq(<<p>>)
BY DEF HonestSeq

LEMMA HonestJoin ==
  ASSUME NEW s \in Seq(Packets), NEW u \in Seq(Packets), HonestSeq(s), HonestSeq(u)
  PROVE  HonestSeq(s \o u)
<1> SUFFICES ASSUME NEW i \in 1..Len(s \o u) PROVE Honest((s \o u)[i])
  BY DEF HonestSeq
<1>1. Len(s \o u) = Len(s) + Len(u) /\ Len(s) \in Nat /\ Len(u) \in Nat
  BY ConcatProperties
<1>2. (s \o u)[i] = IF i <= Len(s) THEN s[i] ELSE u[i - Len(s)]
  BY <1>1, ConcatProperties
<1>3. CASE i <= Len(s)
  BY <1>1, <1>2, <1>3 DEF HonestSeq
<1>4. CASE ~(i <= Len(s))
  <2>1. i - Len(s) \in 1..Len(u)
    BY <1>1, <1>4
  <2> QED
    BY <1>2, <1>4, <2>1 DEF HonestSeq
<1> QED
  BY <1>3, <1>4

LEMMA HonestSent ==
  ASSUME NEW w \in [Boards -> Seq(Packets)], NEW b \in Boards, BoardTypes, NEW ps \in Seq(Packets),
         \A c \in Boards : HonestSeq(w[c]), HonestSeq(ps)
  PROVE  \A c \in Boards : HonestSeq(Sent(w, b, ps)[c])
<1>1. CASE Reaches(b)
  <2>1. conn[b] \in Boards
    BY <1>1 DEF Reaches, BoardTypes
  <2>2. w[conn[b]] \in Seq(Packets) /\ HonestSeq(w[conn[b]])
    BY <2>1
  <2>3. HonestSeq(w[conn[b]] \o ps)
    BY <2>2, HonestJoin
  <2>4. Sent(w, b, ps) = [w EXCEPT ![conn[b]] = @ \o ps]
    BY <1>1 DEF Sent
  <2> QED
    BY <2>1, <2>3, <2>4
<1>2. CASE ~Reaches(b)
  BY <1>2 DEF Sent
<1> QED
  BY <1>1, <1>2

LEMMA HonestRest ==
  ASSUME TypeOK, HonestAir, NEW b \in Boards, wire[b] # <<>>
  PROVE  Honest(Head(wire[b])) /\ \A c \in Boards : HonestSeq(Rest(b)[c])
<1>1. wire \in [Boards -> Seq(Packets)] /\ wire[b] \in Seq(Packets) /\ HonestSeq(wire[b])
  BY DEF TypeOK, AirTypes, HonestAir
<1>2. Honest(Head(wire[b]))
  BY <1>1 DEF HonestSeq
<1>3. HonestSeq(Tail(wire[b]))
  BY <1>1 DEF HonestSeq
<1>4. \A c \in Boards : Rest(b)[c] = IF c = b THEN Tail(wire[b]) ELSE wire[c]
  BY <1>1 DEF Rest
<1> QED
  BY <1>2, <1>3, <1>4 DEF HonestAir

\* What the actions send.
LEMMA HonestPackets ==
  ASSUME TypeOK, OwnWord, NEW b \in Boards
  PROVE  /\ HonestSeq(<<Packet(b, "cancel", nonce[b], mine[b])>>)
         /\ HonestSeq(<<Packet(b, "hello", nonce[b], mine[b])>>)
         /\ Said(b) => HonestSeq(<<Packet(b, "confirm", nonce[b], mine[b])>>)
         /\ Said(b) => HonestSeq(<<Packet(b, "confirm", nonce[b], TRUE)>>)
         /\ Honest(Packet(b, "cccd", 0, FALSE))
<1>1. nonce[b] \in Nonces /\ mine[b] \in BOOLEAN /\ (mine[b] => Said(b))
  BY DEF TypeOK, WindowTypes, OwnWord
<1>2. /\ Packet(b, "cancel", nonce[b], mine[b]) \in Packets
      /\ Packet(b, "hello", nonce[b], mine[b]) \in Packets
      /\ Packet(b, "confirm", nonce[b], mine[b]) \in Packets
      /\ Packet(b, "confirm", nonce[b], TRUE) \in Packets
  BY <1>1, PacketTypes
<1>3. /\ Honest(Packet(b, "cancel", nonce[b], mine[b]))
      /\ Honest(Packet(b, "hello", nonce[b], mine[b]))
      /\ Said(b) => Honest(Packet(b, "confirm", nonce[b], mine[b]))
      /\ Said(b) => Honest(Packet(b, "confirm", nonce[b], TRUE))
      /\ Honest(Packet(b, "cccd", 0, FALSE))
  BY <1>1 DEF Honest, Packet
<1> QED
  BY <1>2, <1>3, HonestOne

\* The cancel packet.
LEMMA CancelsHonest ==
  ASSUME TypeOK, ConsentInv, SaidStays, NEW b \in Boards, Cancels(b)
  PROVE  HonestAir'
<1>1. /\ <<Packet(b, "cancel", nonce[b], mine[b])>> \in Seq(Packets)
      /\ HonestSeq(<<Packet(b, "cancel", nonce[b], mine[b])>>)
  BY PacketTypes, HonestPackets DEF TypeOK, WindowTypes, ConsentInv, Words
<1>2. \A c \in Boards : HonestSeq(Sent(wire, b, <<Packet(b, "cancel", nonce[b], mine[b])>>)[c])
  BY <1>1, HonestSent DEF TypeOK, AirTypes, ConsentInv, HonestAir
<1>3. CASE wire' = Sent(wire, b, <<Packet(b, "cancel", nonce[b], mine[b])>>)
  <2>1. wire' \in [Boards -> Seq(Packets)]
    BY <1>1, <1>3, SentTypes DEF TypeOK, AirTypes
  <2> QED
    BY <1>2, <1>3, <2>1, HonestWires
<1>4. CASE UNCHANGED wire
  BY <1>4, HonestSame DEF ConsentInv
<1> QED
  BY <1>3, <1>4 DEF Cancels, Say

\* No step claims a decision that was not taken.
LEMMA StepConsent ==
  ASSUME Alone, ForgetsInPeace, TypeOK, TypeOK', FileInv, ConsentInv, [Next]_vars
  PROVE  ConsentInv'
<1> USE DEF window, store, session, threads, air
<1>0. /\ SaidStays /\ Words /\ Peers /\ HonestAir
      /\ CodesOfTwo /\ OwnWord /\ FarWord /\ Between /\ PairWord /\ ReadyPaired
      /\ WindowTypes /\ BoardTypes /\ AirTypes
      /\ \A b \in Boards : /\ Far(b) \in Boards /\ Far(b) # b /\ Far(b) # 0
                           /\ \A c \in Boards : c # b => c = Far(b)
  BY StepSaid, Fars DEF ConsentInv, Words, Peers, TypeOK
<1>1. ASSUME NEW b \in Boards, SwitchOn(b) \/ SwitchOff(b) \/ PairStart(b) PROVE ConsentInv'
  <2>1. Words'
    BY <1>0, <1>1, WordsFrame DEF SwitchOn, SwitchOff, PairStart, WindowTypes
  <2>2. Peers'
    BY <1>0, <1>1, PeersSame DEF SwitchOn, SwitchOff, PairStart, BoardTypes
  <2>3. HonestAir'
    BY <1>0, <1>1, HonestSame DEF SwitchOn, SwitchOff, PairStart
  <2> QED
    BY <2>1, <2>2, <2>3 DEF ConsentInv
<1>2. ASSUME NEW b \in Boards, ConfirmMark(b) PROVE ConsentInv'
  <2>1. Said(b)'
    <3>1. CodeOfTwo(code[b], b) /\ code[b] \in pressed'[b]
      BY <1>0, <1>2 DEF ConfirmMark, CodesOfTwo, WindowTypes
    <3> QED
      BY <3>1 DEF CodeOfTwo, Said, Agreed
  <2>2. UNCHANGED code /\ UNCHANGED theirs
    BY <1>2 DEF ConfirmMark
  <2>3. CodesOfTwo' /\ FarWord'
    BY <1>0, <2>2 DEF CodesOfTwo, FarWord, SaidStays
  <2>4. OwnWord'
    BY <1>0, <1>2, <2>1 DEF ConfirmMark, OwnWord, SaidStays, WindowTypes, BoardTypes
  <2>5. Peers'
    BY <1>0, <1>2, PeersSame DEF ConfirmMark
  <2>6. HonestAir'
    BY <1>0, <1>2, HonestSame DEF ConfirmMark
  <2> QED
    BY <2>3, <2>4, <2>5, <2>6 DEF ConsentInv, Words
<1>3. ASSUME NEW b \in Boards, ConfirmSend(b) PROVE ConsentInv'
  <2>1. Words'
    BY <1>0, <1>3, WordsFrame DEF ConfirmSend, BoardTypes
  <2>2. Peers'
    BY <1>0, <1>3, PeersSame DEF ConfirmSend
  <2>3. /\ <<Packet(b, "confirm", nonce[b], mine[b])>> \in Seq(Packets)
        /\ HonestSeq(<<Packet(b, "confirm", nonce[b], mine[b])>>)
    <3>1. Said(b)
      BY <1>0, <1>3 DEF ConfirmSend, OwnWord
    <3> QED
      BY <1>0, <3>1, PacketTypes, HonestPackets DEF WindowTypes
  <2>4. \A c \in Boards : HonestSeq(Sent(wire, b, <<Packet(b, "confirm", nonce[b], mine[b])>>)[c])
    BY <1>0, <2>3, HonestSent DEF AirTypes, HonestAir
  <2>5. wire' = wire \/ wire' = Sent(wire, b, <<Packet(b, "confirm", nonce[b], mine[b])>>)
    BY <1>3 DEF ConfirmSend, Say
  <2>6. HonestAir'
    BY <1>0, <2>4, <2>5, HonestWires, HonestSame DEF TypeOK, AirTypes
  <2> QED
    BY <2>1, <2>2, <2>6 DEF ConsentInv
<1>4. ASSUME NEW b \in Boards, ConfirmCommit(b) PROVE ConsentInv'
  <2>1. Words'
    BY <1>0, <1>4, WordsFrame DEF ConfirmCommit, BoardTypes
  <2>2. HonestAir'
    BY <1>0, <1>4, HonestSame DEF ConfirmCommit
  <2>3. CASE MayCommit(b)
    <3>1. /\ paired' = [paired EXCEPT ![b] = conn[b]] /\ UNCHANGED <<conn, file, ready>>
          /\ conn[b] # 0 /\ theirs[b] /\ call[b] = "commit"
      BY <1>4, <2>3 DEF ConfirmCommit, MayCommit
    <3>2. Said(b) /\ Said(Far(b)) /\ conn[b] = Far(b)
      BY <1>0, <3>1 DEF OwnWord, FarWord, Between
    <3>3. Between'
      BY <1>0, <3>1 DEF Between, BoardTypes
    <3>4. PairWord'
      BY <1>0, <3>1, <3>2 DEF PairWord, BoardTypes, SaidStays
    <3>5. ReadyPaired'
      BY <1>0, <3>1 DEF ReadyPaired, BoardTypes
    <3> QED
      BY <2>1, <2>2, <3>3, <3>4, <3>5 DEF ConsentInv, Peers
  <2>4. CASE ~MayCommit(b)
    <3>1. Peers'
      BY <1>0, <1>4, <2>4, PeersSame DEF ConfirmCommit
    <3> QED
      BY <2>1, <2>2, <3>1 DEF ConsentInv
  <2> QED
    BY <2>3, <2>4
<1>5. ASSUME NEW b \in Boards, Cancel(b) \/ Expire(b) \/ Forget(b) PROVE ConsentInv'
  <2>1. Cancels(b) /\ UNCHANGED <<paired, file>>
    BY <1>5 DEF Cancel, Expire, Forget
  <2>2. \A c \in Boards : call'[c] \in {"send", "commit"} => call[c] \in {"send", "commit"}
    BY <1>0, <1>5 DEF Cancel, Expire, Forget, BoardTypes
  <2>3. Words'
    BY <1>0, <2>1, <2>2, WordsFrame DEF Cancels, CloseWindow, WindowTypes
  <2>4. Peers'
    BY <1>0, <2>1, PeersSame DEF Cancels, BoardTypes
  <2>5. HonestAir'
    BY <1>0, <2>1, CancelsHonest
  <2> QED
    BY <2>3, <2>4, <2>5 DEF ConsentInv
<1>6. ASSUME NEW b \in Boards, ForgetUnlink(b) \/ ForgetClear(b) PROVE ConsentInv'
  <2>1. Words'
    BY <1>0, <1>6, WordsFrame DEF ForgetUnlink, ForgetClear, BoardTypes
  <2>2. Peers'
    BY <1>0, <1>6, PeersFrame DEF ForgetUnlink, ForgetClear, BoardTypes, Between, ReadyPaired
  <2>3. HonestAir'
    BY <1>0, <1>6, HonestSame DEF ForgetUnlink, ForgetClear
  <2> QED
    BY <2>1, <2>2, <2>3 DEF ConsentInv
<1>7. ASSUME NEW b \in Boards, NEW t \in Threads, CommitSave(b, t) PROVE ConsentInv'
  <2>1. Words'
    BY <1>0, <1>7, WordsFrame DEF CommitSave, Readies
  <2>2. paired[b] # 0
    BY <1>7 DEF CommitSave, FileInv, SaveHasPeer
  <2>3. UNCHANGED <<conn, paired>>
    BY <1>7 DEF CommitSave
  <2>4. \A c \in Boards : file'[c] \in {0, paired[c], file[c]} /\ (ready'[c] => paired[c] # 0)
    BY <1>0, <1>7, <2>2 DEF CommitSave, Readies, ReadyPaired, BoardTypes
  <2>5. Peers'
    BY <1>0, <2>3, <2>4, PeersFrame DEF Between
  <2>6. HonestAir'
    BY <1>0, <1>7, HonestSame DEF CommitSave
  <2> QED
    BY <2>1, <2>5, <2>6 DEF ConsentInv
<1>8. ASSUME NEW b \in Boards, RecvStray(b) \/ RecvSubscribed(b) \/ RecvCancel(b) PROVE ConsentInv'
  <2>1. Words'
    BY <1>0, <1>8, WordsFrame DEF RecvStray, RecvSubscribed, RecvCancel, CloseWindow, WindowTypes
  <2>2. Peers'
    BY <1>0, <1>8, PeersSame DEF RecvStray, RecvSubscribed, RecvCancel, BoardTypes
  <2>3. wire' = Rest(b) /\ wire[b] # <<>>
    BY <1>8 DEF RecvStray, RecvSubscribed, RecvCancel, Arrives, Due
  <2>4. HonestAir'
    BY <1>0, <2>3, HonestRest, HonestWires DEF TypeOK, AirTypes
  <2> QED
    BY <2>1, <2>2, <2>4 DEF ConsentInv
<1>9. ASSUME NEW b \in Boards, RecvPairNoted(b) \/ RecvPair(b) PROVE ConsentInv'
  <2>1. /\ wire[b] # <<>> /\ conn[b] = Head(wire[b]).from /\ Notes(b, Head(wire[b]))
        /\ UNCHANGED <<mine, call, conn, file>>
    BY <1>9 DEF RecvPairNoted, RecvPair, Arrives, Due
  <2>2. conn[b] = Far(b)
    BY <1>0, <2>1, HeadTypes DEF Between
  <2>3. Honest(Head(wire[b]))
    BY <1>0, <2>1, HonestRest
  <2>4. theirs'[b] => Said(Far(b))
    BY <1>0, <2>1, <2>2, <2>3 DEF Notes, Honest, FarWord, WindowTypes
  <2>5. FarWord'
    BY <1>0, <2>1, <2>4 DEF Notes, FarWord, SaidStays, WindowTypes
  <2>6. OwnWord'
    BY <1>0, <2>1 DEF OwnWord, SaidStays
  <2>7. CASE RecvPairNoted(b)
    <3>1. CodesOfTwo'
      BY <1>0, <2>7 DEF RecvPairNoted, CodesOfTwo
    <3>2. \A c \in Boards : ready'[c] => paired[c] # 0
      BY <1>0, <2>7, <2>2 DEF RecvPairNoted, Readies, Trusts, ReadyPaired, BoardTypes
    <3>3. UNCHANGED paired
      BY <2>7 DEF RecvPairNoted
    <3>4. Peers'
      BY <1>0, <2>1, <3>2, <3>3, PeersFrame DEF Between
    <3>5. wire' = Rest(b)
      BY <2>7 DEF RecvPairNoted
    <3>6. HonestAir'
      BY <1>0, <2>1, <3>5, HonestRest, HonestWires DEF TypeOK, AirTypes
    <3> QED
      BY <2>5, <2>6, <3>1, <3>4, <3>6 DEF ConsentInv, Words
  <2>8. CASE RecvPair(b)
    <3>1. CodesOfTwo'
      <4>1. code' = [code EXCEPT ![b] = CodeOf(b, nonce[b], Head(wire[b]).from, Head(wire[b]).nonce)]
        BY <2>8 DEF RecvPair
      <4>2. CodeOfTwo(CodeOf(b, nonce[b], Head(wire[b]).from, Head(wire[b]).nonce), b)
        BY <2>1, <2>2 DEF CodeOfTwo, CodeOf
      <4> QED
        BY <1>0, <4>1, <4>2 DEF CodesOfTwo, WindowTypes
    <3>2. ASSUME mine[b] /\ theirs'[b] PROVE Peers'
      <4>1. /\ paired' = [paired EXCEPT ![b] = conn[b]] /\ ready' = [ready EXCEPT ![b] = FALSE]
            /\ UNCHANGED <<conn, file>>
        BY <2>8, <3>2 DEF RecvPair
      <4>2. Said(b) /\ Said(Far(b))
        BY <1>0, <2>4, <3>2 DEF OwnWord
      <4>3. Between'
        BY <1>0, <4>1, <2>2 DEF Between, BoardTypes
      <4>4. PairWord'
        <5>1. Said(b)' /\ Said(Far(b))'
          BY <1>0, <4>2 DEF SaidStays
        <5>2. \A c \in Boards \ {b} : paired'[c] = paired[c] /\ file'[c] = file[c]
          BY <1>0, <4>1 DEF BoardTypes
        <5>3. \A c \in Boards \ {b} : paired'[c] # 0 \/ file'[c] # 0 => Said(c)' /\ Said(Far(c))'
          BY <1>0, <5>2 DEF PairWord, SaidStays
        <5> QED
          BY <5>1, <5>3 DEF PairWord
      <4>5. ReadyPaired'
        BY <1>0, <4>1 DEF ReadyPaired, BoardTypes
      <4> QED
        BY <4>3, <4>4, <4>5 DEF Peers
    <3>3. ASSUME ~(mine[b] /\ theirs'[b]) PROVE Peers'
      <4>1. UNCHANGED <<conn, file, paired>> /\ ready' = [ready EXCEPT ![b] = FALSE]
        BY <2>8, <3>3 DEF RecvPair
      <4> QED
        BY <1>0, <4>1, PeersSame DEF BoardTypes
    <3>4. /\ Rest(b) \in [Boards -> Seq(Packets)] /\ \A c \in Boards : HonestSeq(Rest(b)[c])
      BY <1>0, <2>1, HeadTypes, HonestRest
    <3>5. Answers(b, Head(wire[b])) \in Seq(Packets) /\ HonestSeq(Answers(b, Head(wire[b])))
      <4>1. /\ <<Packet(b, "hello", nonce[b], mine[b])>> \in Seq(Packets)
            /\ <<Packet(b, "confirm", nonce[b], TRUE)>> \in Seq(Packets)
        <5>1. nonce[b] \in Nonces /\ mine[b] \in BOOLEAN /\ TRUE \in BOOLEAN
          BY <1>0 DEF WindowTypes
        <5> QED
          BY <5>1, PacketTypes
      <4>2. <<>> \in Seq(Packets) /\ HonestSeq(<<>>)
        BY DEF HonestSeq
      <4>3. \A s, u \in Seq(Packets) : s \o u \in Seq(Packets)
        BY ConcatProperties
      <4>4. \A s, u \in Seq(Packets) : HonestSeq(s) /\ HonestSeq(u) => HonestSeq(s \o u)
        BY HonestJoin
      <4>5. /\ HonestSeq(<<Packet(b, "hello", nonce[b], mine[b])>>)
            /\ mine[b] => HonestSeq(<<Packet(b, "confirm", nonce[b], TRUE)>>)
        BY <1>0, HonestPackets DEF OwnWord
      <4> QED
        BY <4>1, <4>2, <4>3, <4>4, <4>5, Zenon DEF Answers
    <3>6. HonestAir'
      <4>1. \A c \in Boards : HonestSeq(Sent(Rest(b), b, Answers(b, Head(wire[b])))[c])
        BY <1>0, <3>4, <3>5, HonestSent
      <4>2. wire' = Sent(Rest(b), b, Answers(b, Head(wire[b])))
        BY <2>8 DEF RecvPair
      <4> QED
        BY <1>0, <4>1, <4>2, HonestWires DEF TypeOK, AirTypes
    <3> QED
      BY <2>5, <2>6, <3>1, <3>2, <3>3, <3>6 DEF ConsentInv, Words
  <2> QED
    BY <1>9, <2>7, <2>8
<1>10. ASSUME NEW b \in Boards, Accept(b) PROVE ConsentInv'
  <2>1. Words'
    BY <1>0, <1>10, WordsFrame DEF Accept
  <2>2. FarEnd(b) = Far(b)
    BY <1>0, <1>10, LinkEnds DEF Accept
  <2>3. UNCHANGED <<paired, file>>
    BY <1>10 DEF Accept
  <2>4. \A c \in Boards : conn'[c] \in {0, Far(c)} /\ (ready'[c] => ready[c])
    <3>1. CASE Wanted(b)
      <4>1. conn' = [conn EXCEPT ![b] = FarEnd(b)] /\ ready' = [ready EXCEPT ![b] = FALSE]
        BY <1>10, <3>1 DEF Accept
      <4> QED
        BY <1>0, <2>2, <4>1 DEF Between, BoardTypes
    <3>2. CASE ~Wanted(b)
      BY <1>0, <1>10, <3>2 DEF Accept, Between
    <3> QED
      BY <3>1, <3>2
  <2>5. Peers'
    BY <1>0, <2>3, <2>4, PeersFrame DEF Between, ReadyPaired
  <2>6. HonestAir'
    BY <1>0, <1>10, HonestSame DEF Accept
  <2> QED
    BY <2>1, <2>5, <2>6 DEF ConsentInv
<1>11. ASSUME NEW b \in Boards, Subscribe(b) PROVE ConsentInv'
  <2>1. Words'
    BY <1>0, <1>11, WordsFrame DEF Subscribe
  <2>2. Peers'
    BY <1>0, <1>11, PeersSame DEF Subscribe
  <2>3. Packet(b, "cccd", 0, FALSE) \in Packets /\ Honest(Packet(b, "cccd", 0, FALSE))
    BY <1>0, PacketTypes, ZeroNonce, HonestPackets
  <2>4. /\ conn[b] \in Boards
        /\ wire' = [wire EXCEPT ![conn[b]] = Append(@, Packet(b, "cccd", 0, FALSE))]
    BY <1>0, <1>11 DEF Subscribe, BoardTypes
  <2>5. wire[conn[b]] \in Seq(Packets) /\ HonestSeq(wire[conn[b]])
    BY <1>0, <2>4 DEF AirTypes, HonestAir
  <2>6. HonestSeq(Append(wire[conn[b]], Packet(b, "cccd", 0, FALSE)))
    <3> DEFINE s == wire[conn[b]]  p == Packet(b, "cccd", 0, FALSE)
    <3>1. s \in Seq(Packets) /\ p \in Packets /\ HonestSeq(s) /\ Honest(p)
      BY <2>3, <2>5
    <3> HIDE DEF s, p
    <3>2. HonestSeq(Append(s, p))
      BY <3>1 DEF HonestSeq
    <3> QED
      BY <3>2 DEF s, p
  <2>7. \A c \in Boards : HonestSeq(wire'[c])
    BY <1>0, <2>4, <2>6 DEF AirTypes, HonestAir
  <2>8. HonestAir'
    BY <1>0, <2>7, HonestWires DEF TypeOK, AirTypes
  <2> QED
    BY <2>1, <2>2, <2>8 DEF ConsentInv
<1>12. ASSUME NEW b \in Boards, SendHello(b) PROVE ConsentInv'
  <2>1. Words'
    BY <1>0, <1>12, WordsFrame DEF SendHello
  <2>2. Peers'
    BY <1>0, <1>12, PeersSame DEF SendHello
  <2>3. /\ <<Packet(b, "hello", nonce[b], mine[b])>> \in Seq(Packets)
        /\ HonestSeq(<<Packet(b, "hello", nonce[b], mine[b])>>)
    BY <1>0, PacketTypes, HonestPackets DEF WindowTypes
  <2>4. \A c \in Boards : HonestSeq(Sent(wire, b, <<Packet(b, "hello", nonce[b], mine[b])>>)[c])
    BY <1>0, <2>3, HonestSent DEF AirTypes, HonestAir
  <2>5. wire' = Sent(wire, b, <<Packet(b, "hello", nonce[b], mine[b])>>)
    BY <1>12 DEF SendHello, Say
  <2>6. HonestAir'
    BY <1>0, <2>4, <2>5, HonestWires DEF TypeOK, AirTypes
  <2> QED
    BY <2>1, <2>2, <2>6 DEF ConsentInv
<1>13. ASSUME NEW b \in Boards, HandleDisconnect(b) PROVE ConsentInv'
  <2>1. Words'
    BY <1>0, <1>13, WordsFrame DEF HandleDisconnect
  <2>2. Peers'
    BY <1>0, <1>13, PeersFrame DEF HandleDisconnect, Between, ReadyPaired, BoardTypes
  <2>3. HonestAir'
    BY <1>0, <1>13, HonestSame DEF HandleDisconnect
  <2> QED
    BY <2>1, <2>2, <2>3 DEF ConsentInv
<1>14. ASSUME NEW b \in Boards, Crash(b) PROVE ConsentInv'
  <2>1. Words'
    BY <1>0, <1>14, WordsFrame DEF Crash, WindowTypes, BoardTypes
  <2>2. \A c \in Boards : /\ conn'[c] \in {0, conn[c]} /\ paired'[c] \in {paired[c], file[c]}
                          /\ ready'[c] => ready[c] /\ paired'[c] = paired[c]
                          /\ file'[c] = file[c]
    BY <1>0, <1>14 DEF Crash, BoardTypes
  <2>3. Peers'
    BY <1>0, <2>2, PeersFrame DEF Between, ReadyPaired
  <2>4. \A c \in Boards : HonestSeq(wire'[c])
    <3>1. HonestSeq(<<>>)
      BY DEF HonestSeq
    <3> QED
      BY <1>0, <1>14, <3>1 DEF Crash, AirTypes, HonestAir
  <2>5. HonestAir'
    BY <1>0, <2>4, HonestWires DEF TypeOK, AirTypes
  <2> QED
    BY <2>1, <2>3, <2>5 DEF ConsentInv
<1>15. ASSUME NEW c \in Boards, NEW p \in Boards, Connect(c, p) PROVE ConsentInv'
  <2>1. UNCHANGED <<code, mine, theirs, call, conn, paired, file, ready, wire>>
    BY <1>15 DEF Connect
  <2> QED
    BY <1>0, <2>1, WordsFrame, PeersSame, HonestSame DEF ConsentInv
<1>16. ASSUME NEW l \in links, Closed(l) \/ Drop(l) PROVE ConsentInv'
  <2>1. /\ UNCHANGED <<code, mine, theirs, call, conn, paired, file, ready>>
        /\ \A c \in Boards : wire'[c] \in {<<>>, wire[c]}
    BY <1>0, <1>16 DEF Closed, Drop, LinkDown
  <2>2. HonestSeq(<<>>)
    BY DEF HonestSeq
  <2>3. HonestAir'
    BY <1>0, <2>1, <2>2, HonestWires DEF TypeOK, AirTypes, HonestAir
  <2> QED
    BY <1>0, <2>1, <2>3, WordsFrame, PeersSame DEF ConsentInv
<1>17. CASE UNCHANGED vars
  <2>1. UNCHANGED <<code, mine, theirs, call, conn, paired, file, ready, wire>>
    BY <1>17 DEF vars
  <2> QED
    BY <1>0, <2>1, WordsFrame, PeersSame, HonestSame DEF ConsentInv
<1> QED
  BY <1>1, <1>2, <1>3, <1>4, <1>5, <1>6, <1>7, <1>8, <1>9, <1>10, <1>11, <1>12, <1>13, <1>14, <1>15,
     <1>16, <1>17 DEF Next, User, Running, Receive, Worker

LEMMA InitConsent == Init => ConsentInv
BY DEF Init, ConsentInv, Words, CodesOfTwo, OwnWord, FarWord, Peers, Between, PairWord, ReadyPaired,
   HonestAir, HonestSeq, NoCode

\* The invariant of two boards, whatever is lost, closed or reset between them,
\* in any number of windows.
LEMMA Consent == ASSUME Alone, ForgetsInPeace PROVE Spec => []ConsentInv
<1>1. Init => TypeOK /\ FileInv /\ ConsentInv
  BY InitTypes, InitFile, InitConsent
<1>2. TypeOK /\ FileInv /\ ConsentInv /\ [Next]_vars => (TypeOK /\ FileInv /\ ConsentInv)'
  BY StepTypes, StepFile, StepConsent
<1> QED
  BY <1>1, <1>2, PTL DEF Spec

\* A board is paired only when both users have confirmed a code of the two.
THEOREM PairedByBoth == ASSUME Alone, ForgetsInPeace PROVE Spec => []BothConfirmed
<1>1. ConsentInv => BothConfirmed
  <2> SUFFICES ASSUME ConsentInv, NEW b \in Boards, paired[b] # 0
               PROVE  Agreed(b, paired[b]) /\ Agreed(paired[b], b)
    BY DEF BothConfirmed
  <2>1. paired[b] = Far(b) /\ Said(b) /\ Said(Far(b)) /\ Far(Far(b)) = b
    BY Fars DEF ConsentInv, Peers, Between, PairWord
  <2> QED
    BY <2>1 DEF Said
<1> QED
  BY <1>1, Consent, PTL

\* A ready board is connected to its peer.
THEOREM ReadyWithItsPeer == ASSUME Alone, ForgetsInPeace PROVE Spec => []ReadyWithPeer
<1>1. ConsentInv => ReadyWithPeer
  BY DEF ConsentInv, Peers, Between, ReadyPaired, ReadyWithPeer
<1> QED
  BY <1>1, Consent, PTL

-----------------------------------------------------------------------------
(* One code                                                                *)

\* The code of the present windows of the two boards.
Now(b) == CodeOf(b, nonce[b], Far(b), nonce[Far(b)])
Confirmed(b) == Now(b) \in pressed[b]

\* Nothing connects the boards.
Apart == links = {} /\ \A b \in Boards : conn[b] = 0 /\ wire[b] = <<>>

\* A window is opened again only when nothing is left of the connection of the
\* last one, and the other board has met nobody in its own since it was opened.
Afresh(b)    == Apart /\ (pairing[Far(b)] => code[Far(b)] = NoCode)
StartsAfresh == \A b \in Boards : PairStart(b) /\ nonce[b] # 0 => Afresh(b)

\* What a board remembers of an earlier window does no harm: it will not be
\* connected before it opens another one.
Deciding(b) == call[b] \in {"send", "commit"}
Barred(b)   == Apart /\ ~pairing[b] /\ (paired[b] = 0 \/ paired[Far(b)] = 0)

OwnCode   == \A b \in Boards : mine[b] \/ Deciding(b) => Confirmed(b) \/ Barred(b)
FarCode   == \A b \in Boards : theirs[b] => Confirmed(Far(b)) \/ Barred(b)
ShownCode == \A b \in Boards : pairing[b] /\ code[b] # NoCode => code[b] = Now(b)
Unmet     == \A b \in Boards : pairing[b] /\ code[b] = NoCode =>
               ~theirs[b] /\ ~mine[b] /\ ~Deciding(b) /\ paired[b] = 0
CodeWords == OwnCode /\ FarCode /\ ShownCode /\ Unmet

\* A packet carries the nonce of its sender, and a decision on the present code.
True(p) == p.type \in {"hello", "confirm"} =>
  p.nonce = nonce[p.from] /\ (p.type = "confirm" \/ p.sure => Confirmed(p.from))
TruePackets == {p \in Packets : True(p)}
TrueAir     == wire \in [Boards -> Seq(TruePackets)]

\* Both users have confirmed one code of the two boards.
Shared(b)  == \E k \in pressed[b] \cap pressed[Far(b)] : CodeOfTwo(k, b)
PairedSame == \A b \in Boards : paired[b] # 0 \/ file[b] # 0 => Shared(b)

\* A file without a pairing in memory is none to be read.
Filed == \A b \in Boards : (file[b] # 0 => paired[b] # 0) /\ (call[b] = "clear" => file[b] = 0)

\* Before both boards have opened a window nothing has happened between them.
Untouched == Apart /\ \A b \in Boards :
  code[b] = NoCode /\ ~mine[b] /\ ~theirs[b] /\ ~Deciding(b) /\ paired[b] = 0 /\ file[b] = 0
Before == \A b \in Boards : nonce[b] = 0 => ~pairing[b] /\ Untouched

CodeInv == CodeWords /\ TrueAir /\ PairedSame /\ Filed /\ Before

\* What was confirmed stays confirmed, until a window is opened again.
PressedStays == \A b \in Boards : pressed[b] \subseteq pressed'[b]

LEMMA StepPressed ==
  ASSUME TypeOK, [Next]_vars
  PROVE  PressedStays
<1> USE DEF window, store, session, threads, air, PressedStays
<1>1. ASSUME NEW b \in Boards, ConfirmMark(b) PROVE PressedStays
  BY <1>1 DEF ConfirmMark, TypeOK, WindowTypes
<1>2. CASE UNCHANGED pressed
  BY <1>2
<1>3. ASSUME NEW b \in Boards, User(b) \/ Running(b), ~ConfirmMark(b) PROVE UNCHANGED pressed
  BY <1>3 DEF User, Running, SwitchOn, SwitchOff, PairStart, Cancel, Cancels, Forget, ConfirmSend,
     ConfirmCommit, ForgetUnlink, ForgetClear, CommitSave
<1>4. ASSUME NEW b \in Boards, Worker(b) \/ Expire(b) \/ Crash(b) PROVE UNCHANGED pressed
  BY <1>4 DEF Worker, Receive, RecvStray, RecvSubscribed, RecvCancel, RecvPairNoted, RecvPair, Accept,
     Subscribe, SendHello, HandleDisconnect, Expire, Cancels, Crash
<1>5. ASSUME NEW c \in Boards, NEW p \in Boards, Connect(c, p) PROVE UNCHANGED pressed
  BY <1>5 DEF Connect
<1>6. ASSUME NEW l \in links, Closed(l) \/ Drop(l) PROVE UNCHANGED pressed
  BY <1>6 DEF Closed, Drop, LinkDown
<1>7. CASE UNCHANGED vars
  BY <1>7, <1>2 DEF vars
<1> HIDE DEF PressedStays
<1> QED
  BY <1>1, <1>2, <1>3, <1>4, <1>5, <1>6, <1>7 DEF Next

\* Only opening a window draws a nonce.
LEMMA StepNonce ==
  ASSUME [Next]_vars
  PROVE  UNCHANGED nonce \/ \E b \in Boards : PairStart(b)
<1> USE DEF window, store, session, threads, air
<1>1. ASSUME NEW b \in Boards, User(b) \/ Running(b), ~PairStart(b) PROVE UNCHANGED nonce
  BY <1>1 DEF User, Running, SwitchOn, SwitchOff, ConfirmMark, Cancel, Cancels, CloseWindow, Forget, ConfirmSend,
     ConfirmCommit, ForgetUnlink, ForgetClear, CommitSave
<1>2. ASSUME NEW b \in Boards, Worker(b) \/ Expire(b) \/ Crash(b) PROVE UNCHANGED nonce
  BY <1>2 DEF Worker, Receive, RecvStray, RecvSubscribed, RecvCancel, RecvPairNoted, RecvPair, Accept,
     Subscribe, SendHello, HandleDisconnect, Expire, Cancels, CloseWindow, Crash
<1>3. ASSUME NEW c \in Boards, NEW p \in Boards, Connect(c, p) PROVE UNCHANGED nonce
  BY <1>3 DEF Connect
<1>4. ASSUME NEW l \in links, Closed(l) \/ Drop(l) PROVE UNCHANGED nonce
  BY <1>4 DEF Closed, Drop, LinkDown
<1>5. CASE UNCHANGED vars
  BY <1>5 DEF vars
<1> QED
  BY <1>1, <1>2, <1>3, <1>4, <1>5 DEF Next

\* Both boards compute one code.
LEMMA NowOfBoth ==
  ASSUME Alone, NEW b \in Boards
  PROVE  Now(Far(b)) = Now(b) /\ CodeOfTwo(Now(b), b)
<1>1. Far(Far(b)) = b
  BY Fars
<1> QED
  BY <1>1 DEF Now, CodeOf, CodeOfTwo

\* Boards that nothing connects are only connected by their radios.
LEMMA StepApart ==
  ASSUME Alone, TypeOK, Apart, [Next]_vars, ~Apart'
  PROVE  \E c, p \in Boards : Connect(c, p)
<1> USE DEF window, store, session, threads, air
<1>0. links = {} /\ \A b \in Boards : conn[b] = 0 /\ wire[b] = <<>> /\ ~Reaches(b) /\ ~Linked(b)
  BY DEF Apart, Reaches, Linked
<1>1. ASSUME NEW b \in Boards, User(b) \/ Running(b) PROVE FALSE
  <2>1. UNCHANGED <<links, conn, wire>>
    BY <1>0, <1>1 DEF User, Running, SwitchOn, SwitchOff, PairStart, ConfirmMark, Cancel, Cancels, Forget, ConfirmSend,
       ConfirmCommit, ForgetUnlink, ForgetClear, CommitSave
  <2> QED
    BY <2>1 DEF Apart
<1>2. ASSUME NEW b \in Boards, Expire(b) PROVE FALSE
  BY <1>0, <1>2 DEF Expire, Cancels, Apart
<1>3. ASSUME NEW b \in Boards, Worker(b) PROVE FALSE
  BY <1>0, <1>3 DEF Worker, Receive, RecvStray, RecvSubscribed, RecvCancel, RecvPairNoted, RecvPair, Accept,
     Subscribe, SendHello, HandleDisconnect, Arrives, Due
<1>4. ASSUME NEW b \in Boards, Crash(b) PROVE FALSE
  BY <1>0, <1>4 DEF Crash, Apart, TypeOK, BoardTypes, AirTypes
<1>5. ASSUME NEW l \in links, Closed(l) \/ Drop(l) PROVE FALSE
  BY <1>0
<1>6. CASE UNCHANGED vars
  BY <1>6 DEF vars, Apart
<1> QED
  BY <1>1, <1>2, <1>3, <1>4, <1>5, <1>6 DEF Next

\* Without a connection a board gets no peer.
LEMMA ApartUnpaired ==
  ASSUME Alone, TypeOK, FileInv, Filed, Apart, [Next]_vars, NEW b \in Boards, paired[b] = 0
  PROVE  paired'[b] = 0 /\ file'[b] = 0 /\ file[b] = 0
<1> USE DEF window, store, session, threads, air
<1>0. links = {} /\ file[b] = 0 /\ save[b] = {}
      /\ \A d \in Boards : conn[d] = 0 /\ wire[d] = <<>> /\ ~MayCommit(d) /\ ~Linked(d)
  BY DEF Apart, MayCommit, Linked, Filed, FileInv, SaveHasPeer
<1>1. ASSUME NEW d \in Boards, User(d) PROVE paired'[b] = 0 /\ file'[b] = 0
  BY <1>0, <1>1 DEF User, SwitchOn, SwitchOff, PairStart, ConfirmMark, Cancel, Forget
<1>2. ASSUME NEW d \in Boards, Running(d) PROVE paired'[b] = 0 /\ file'[b] = 0
  BY <1>0, <1>2 DEF Running, ConfirmSend, ConfirmCommit, ForgetUnlink, ForgetClear, CommitSave, TypeOK, BoardTypes
<1>3. ASSUME NEW d \in Boards, Expire(d) PROVE paired'[b] = 0 /\ file'[b] = 0
  BY <1>0, <1>3 DEF Expire
<1>4. ASSUME NEW d \in Boards, Worker(d) PROVE FALSE
  BY <1>0, <1>4 DEF Worker, Receive, RecvStray, RecvSubscribed, RecvCancel, RecvPairNoted, RecvPair, Accept,
     Subscribe, SendHello, HandleDisconnect, Arrives, Due
<1>5. ASSUME NEW d \in Boards, Crash(d) PROVE paired'[b] = 0 /\ file'[b] = 0
  BY <1>0, <1>5 DEF Crash, TypeOK, BoardTypes
<1>6. ASSUME NEW c \in Boards, NEW p \in Boards, Connect(c, p) PROVE paired'[b] = 0 /\ file'[b] = 0
  BY <1>0, <1>6 DEF Connect
<1>7. ASSUME NEW l \in links, Closed(l) \/ Drop(l) PROVE FALSE
  BY <1>0
<1>8. ASSUME UNCHANGED vars PROVE paired'[b] = 0 /\ file'[b] = 0
  BY <1>0, <1>8 DEF vars
<1> QED
  BY <1>0, <1>1, <1>2, <1>3, <1>4, <1>5, <1>6, <1>7, <1>8 DEF Next

\* Only its own user opens the window of a board.
LEMMA StepClosed ==
  ASSUME TypeOK, [Next]_vars, NEW b \in Boards, ~pairing[b], pairing'[b]
  PROVE  PairStart(b)
<1> USE DEF window, store, session, threads, air, TypeOK, WindowTypes
<1>1. ASSUME NEW d \in Boards, User(d) \/ Running(d), ~PairStart(d) PROVE FALSE
  BY <1>1 DEF User, Running, SwitchOn, SwitchOff, ConfirmMark, Cancel, Cancels, CloseWindow, Forget, ConfirmSend,
     ConfirmCommit, ForgetUnlink, ForgetClear, CommitSave, Readies
<1>2. ASSUME NEW d \in Boards, PairStart(d) PROVE d = b
  BY <1>2 DEF PairStart
<1>3. ASSUME NEW d \in Boards, Worker(d) \/ Expire(d) \/ Crash(d) PROVE FALSE
  BY <1>3 DEF Worker, Receive, RecvStray, RecvSubscribed, RecvCancel, RecvPairNoted, RecvPair, Accept,
     Subscribe, SendHello, HandleDisconnect, Expire, Cancels, CloseWindow, Crash, Readies
<1>4. ASSUME NEW c \in Boards, NEW p \in Boards, Connect(c, p) PROVE FALSE
  BY <1>4 DEF Connect
<1>5. ASSUME NEW l \in links, Closed(l) \/ Drop(l) PROVE FALSE
  BY <1>5 DEF Closed, Drop, LinkDown
<1>6. CASE UNCHANGED vars
  BY <1>6 DEF vars
<1> QED
  BY <1>1, <1>2, <1>3, <1>4, <1>5, <1>6 DEF Next

\* A board that is barred stays so until its user opens a window.
LEMMA BarredStays ==
  ASSUME Alone, TypeOK, FileInv, Filed, [Next]_vars, NEW b \in Boards, Barred(b), ~PairStart(b)
  PROVE  Barred(b)'
<1>0. Apart /\ ~pairing[b] /\ Far(b) \in Boards /\ \A c \in Boards : c # b => c = Far(b)
  BY Fars DEF Barred
<1>1. Apart'
  <2> SUFFICES ASSUME ~Apart' PROVE FALSE
    OBVIOUS
  <2>1. PICK c \in Boards, p \in Boards : Connect(c, p)
    BY <1>0, StepApart
  <2>2. c # p /\ {c, p} = {b, Far(b)}
    BY <1>0, <2>1 DEF Connect
  <2>3. paired[c] # 0 /\ paired[p] # 0
    BY <1>0, <2>1, <2>2 DEF Connect, Sees
  <2> QED
    BY <2>2, <2>3 DEF Barred
<1>2. ~pairing'[b]
  BY <1>0, StepClosed
<1>3. paired'[b] = 0 \/ paired'[Far(b)] = 0
  BY <1>0, ApartUnpaired DEF Barred
<1> QED
  BY <1>1, <1>2, <1>3 DEF Barred

\* Boards that never met agree on nothing.
LEMMA UntouchedWords ==
  ASSUME Alone, TypeOK, Untouched, [Next]_vars, NEW d \in Boards
  PROVE  code'[d] = NoCode /\ ~mine'[d] /\ ~theirs'[d] /\ ~Deciding(d)'
<1> USE DEF window, store, session, threads, air
<1> DEFINE Goal == code'[d] = NoCode /\ ~mine'[d] /\ ~theirs'[d] /\ ~Deciding(d)'
<1>0. /\ links = {}
      /\ \A b \in Boards : /\ code[b] = NoCode /\ ~mine[b] /\ ~theirs[b] /\ call[b] \notin {"send", "commit"}
                           /\ paired[b] = 0 /\ conn[b] = 0 /\ wire[b] = <<>> /\ ~Linked(b)
  BY DEF Untouched, Apart, Deciding, Linked
<1>t. WindowTypes /\ BoardTypes
  BY DEF TypeOK
<1>1. ASSUME NEW b \in Boards, SwitchOn(b) \/ SwitchOff(b) \/ PairStart(b) PROVE Goal
  BY <1>0, <1>t, <1>1 DEF SwitchOn, SwitchOff, PairStart, Deciding, WindowTypes
<1>2. ASSUME NEW b \in Boards, ConfirmMark(b) \/ ConfirmSend(b) \/ ConfirmCommit(b) \/ Forget(b) PROVE FALSE
  BY <1>0, <1>2 DEF ConfirmMark, ConfirmSend, ConfirmCommit, Forget
<1>3. ASSUME NEW b \in Boards, Cancel(b) \/ Expire(b) PROVE Goal
  BY <1>0, <1>t, <1>3 DEF Cancel, Expire, Cancels, CloseWindow, WindowTypes, Deciding
<1>4. ASSUME NEW b \in Boards, ForgetUnlink(b) \/ ForgetClear(b) PROVE Goal
  BY <1>0, <1>t, <1>4 DEF ForgetUnlink, ForgetClear, BoardTypes, Deciding
<1>5. ASSUME NEW b \in Boards, NEW t \in Threads, CommitSave(b, t) PROVE Goal
  BY <1>0, <1>5 DEF CommitSave, Deciding
<1>6. ASSUME NEW b \in Boards, Worker(b) PROVE FALSE
  BY <1>0, <1>6 DEF Worker, Receive, RecvStray, RecvSubscribed, RecvCancel, RecvPairNoted, RecvPair, Accept,
     Subscribe, SendHello, HandleDisconnect, Arrives, Due
<1>7. ASSUME NEW b \in Boards, Crash(b) PROVE Goal
  BY <1>0, <1>t, <1>7 DEF Crash, WindowTypes, BoardTypes, Deciding
<1>8. ASSUME NEW c \in Boards, NEW p \in Boards, Connect(c, p) PROVE Goal
  BY <1>0, <1>8 DEF Connect, Deciding
<1>9. ASSUME NEW l \in links, Closed(l) \/ Drop(l) PROVE FALSE
  BY <1>0
<1>10. ASSUME UNCHANGED vars PROVE Goal
  BY <1>0, <1>10 DEF vars, Deciding
<1> HIDE DEF Goal
<1>11. Goal
  BY <1>1, <1>2, <1>3, <1>4, <1>5, <1>6, <1>7, <1>8, <1>9, <1>10 DEF Next, User, Running
<1> QED
  BY <1>11 DEF Goal

LEMMA StepBefore ==
  ASSUME Alone, TypeOK, FileInv, Filed, Before, [Next]_vars
  PROVE  Before'
<1> SUFFICES ASSUME NEW b \in Boards, nonce'[b] = 0
             PROVE  ~pairing'[b] /\ Untouched'
  BY DEF Before
<1>1. ~PairStart(b)
  BY DEF PairStart, TypeOK, WindowTypes, Nonces
<1>2. nonce[b] = 0
  <2>1. ASSUME NEW d \in Boards, PairStart(d) PROVE nonce[b] = 0
    BY <1>1, <2>1 DEF PairStart, TypeOK, WindowTypes
  <2> QED
    BY <2>1, StepNonce
<1>3. ~pairing[b] /\ Untouched /\ Apart
  BY <1>2 DEF Before, Untouched
<1>4. ~pairing'[b]
  BY <1>1, <1>3, StepClosed
<1>5. Apart'
  <2> SUFFICES ASSUME ~Apart' PROVE FALSE
    OBVIOUS
  <2>1. PICK c \in Boards, p \in Boards : Connect(c, p)
    BY <1>3, StepApart
  <2>2. c # p /\ (c = b \/ p = b)
    <3>1. c # p
      BY <2>1 DEF Connect
    <3> QED
      BY <3>1, Fars
  <2>3. pairing[c] /\ pairing[p]
    BY <1>3, <2>1 DEF Connect, Sees, Untouched
  <2> QED
    BY <1>3, <2>2, <2>3
<1>6. ASSUME NEW d \in Boards
      PROVE  /\ code'[d] = NoCode /\ ~mine'[d] /\ ~theirs'[d] /\ ~Deciding(d)'
             /\ paired'[d] = 0 /\ file'[d] = 0
  BY <1>3, UntouchedWords, ApartUnpaired DEF Untouched
<1> QED
  BY <1>4, <1>5, <1>6 DEF Untouched

\* The file is written from a pairing in memory, which is cleared after it.
LEMMA StepFiled ==
  ASSUME TypeOK, FileInv, Filed, [Next]_vars
  PROVE  Filed'
<1> USE DEF window, store, session, threads, air, Filed
<1>0. BoardTypes /\ SaveHasPeer /\ ForgetAlone
  BY DEF TypeOK, FileInv
<1>1. ASSUME NEW b \in Boards, SwitchOn(b) \/ SwitchOff(b) \/ PairStart(b) PROVE Filed'
  BY <1>1 DEF SwitchOn, SwitchOff, PairStart
<1>2. ASSUME NEW b \in Boards, ConfirmMark(b) \/ ConfirmSend(b) PROVE Filed'
  BY <1>0, <1>2 DEF ConfirmMark, ConfirmSend, BoardTypes
<1>3. ASSUME NEW b \in Boards, ConfirmCommit(b) PROVE Filed'
  BY <1>0, <1>3 DEF ConfirmCommit, MayCommit, BoardTypes
<1>4. ASSUME NEW b \in Boards, Cancel(b) \/ Expire(b) \/ Forget(b) PROVE Filed'
  BY <1>0, <1>4 DEF Cancel, Expire, Forget, BoardTypes
<1>5. ASSUME NEW b \in Boards, ForgetUnlink(b) \/ ForgetClear(b) PROVE Filed'
  BY <1>0, <1>5 DEF ForgetUnlink, ForgetClear, BoardTypes
<1>6. ASSUME NEW b \in Boards, NEW t \in Threads, CommitSave(b, t) PROVE Filed'
  BY <1>0, <1>6 DEF CommitSave, BoardTypes, SaveHasPeer, ForgetAlone
<1>7. ASSUME NEW b \in Boards, Worker(b), ~RecvPair(b) PROVE Filed'
  BY <1>7 DEF Worker, Receive, RecvStray, RecvSubscribed, RecvCancel, RecvPairNoted, Accept,
     Subscribe, SendHello, HandleDisconnect
<1>8. ASSUME NEW b \in Boards, RecvPair(b) PROVE Filed'
  <2>1. conn[b] # 0
    BY <1>8, HeadTypes DEF RecvPair, Arrives, Due, TypeOK
  <2> QED
    BY <1>0, <1>8, <2>1 DEF RecvPair, BoardTypes
<1>9. ASSUME NEW b \in Boards, Crash(b) PROVE Filed'
  BY <1>0, <1>9 DEF Crash, BoardTypes
<1>10. ASSUME NEW c \in Boards, NEW p \in Boards, Connect(c, p) PROVE Filed'
  BY <1>10 DEF Connect
<1>11. ASSUME NEW l \in links, Closed(l) \/ Drop(l) PROVE Filed'
  BY <1>11 DEF Closed, Drop, LinkDown
<1>12. ASSUME UNCHANGED vars PROVE Filed'
  BY <1>12 DEF vars
<1> HIDE DEF Filed
<1> QED
  BY <1>1, <1>2, <1>3, <1>4, <1>5, <1>6, <1>7, <1>8, <1>9, <1>10, <1>11, <1>12 DEF Next, User, Running

\* Within its window a board keeps its code, and what was confirmed.
LEMMA ConfirmedStays ==
  ASSUME Alone, UNCHANGED nonce, PressedStays, NEW b \in Boards
  PROVE  Now(b)' = Now(b) /\ (Confirmed(b) => Confirmed(b)')
BY DEF Now, Confirmed, PressedStays

LEMMA CodeWordsFrame ==
  ASSUME Alone, TypeOK, FileInv, CodeInv, [Next]_vars, UNCHANGED nonce,
         \A b \in Boards :
           /\ pairing'[b] => pairing[b] /\ code'[b] = code[b]
           /\ pairing'[b] /\ paired'[b] # 0 => paired[b] # 0 \/ code[b] # NoCode
           /\ mine'[b] => mine[b]
           /\ theirs'[b] => theirs[b]
           /\ Deciding(b)' => Deciding(b)
  PROVE  CodeWords'
<1>0. PressedStays /\ Filed /\ \A b \in Boards : Far(b) \in Boards /\ ~PairStart(b)
  BY StepPressed, Fars DEF CodeInv, PairStart, TypeOK, WindowTypes, Nonces
<1>1. \A b \in Boards : Barred(b) => Barred(b)'
  BY <1>0, BarredStays
<1>2. OwnCode'
  BY <1>0, <1>1, ConfirmedStays DEF CodeInv, CodeWords, OwnCode
<1>3. FarCode'
  BY <1>0, <1>1, ConfirmedStays DEF CodeInv, CodeWords, FarCode
<1>4. ShownCode'
  BY <1>0, ConfirmedStays DEF CodeInv, CodeWords, ShownCode
<1>5. Unmet'
  BY DEF CodeInv, CodeWords, Unmet
<1> QED
  BY <1>2, <1>3, <1>4, <1>5 DEF CodeWords

\* Opening a window, the boards are not connected, and the other board has met
\* nobody in its own.
LEMMA StartsApart ==
  ASSUME Alone, Before, StartsAfresh, NEW b \in Boards, PairStart(b)
  PROVE  Apart /\ (pairing[Far(b)] => code[Far(b)] = NoCode)
<1>1. Far(b) \in Boards
  BY Fars
<1>2. CASE nonce[b] = 0
  BY <1>1, <1>2 DEF Before, Untouched
<1>3. CASE nonce[b] # 0
  BY <1>3 DEF StartsAfresh, Afresh
<1> QED
  BY <1>2, <1>3

\* Between boards that a connection or a packet joins a decision is on the code
\* of their present windows.
LEMMA Decided ==
  ASSUME OwnCode, FarCode, ~Apart, NEW b \in Boards
  PROVE  (mine[b] \/ Deciding(b) => Confirmed(b)) /\ (theirs[b] => Confirmed(Far(b)))
BY DEF OwnCode, FarCode, Barred

LEMMA StepCodeWords ==
  ASSUME Alone, TypeOK, FileInv, ConsentInv, CodeInv, StartsAfresh, [Next]_vars
  PROVE  CodeWords'
<1> USE DEF window, store, session, threads, air
<1>0. /\ WindowTypes /\ BoardTypes /\ AirTypes /\ PressedStays /\ Filed /\ Before /\ TrueAir /\ Between
      /\ OwnCode /\ FarCode /\ ShownCode /\ Unmet
      /\ \A b \in Boards : /\ Far(b) \in Boards /\ Far(b) # b /\ Far(Far(b)) = b
                           /\ \A c \in Boards : c # b => c = Far(b)
  BY StepPressed, Fars DEF TypeOK, CodeInv, CodeWords, ConsentInv, Peers
<1>1. ASSUME NEW b \in Boards, SwitchOn(b) \/ SwitchOff(b) PROVE CodeWords'
  BY <1>0, <1>1, CodeWordsFrame DEF SwitchOn, SwitchOff, Deciding, WindowTypes
<1>2. ASSUME NEW b \in Boards, PairStart(b) PROVE CodeWords'
  <2>1. Apart /\ (pairing[Far(b)] => code[Far(b)] = NoCode)
    BY <1>0, <1>2, StartsApart
  <2>2. /\ pairing'[b] /\ ~mine'[b] /\ ~theirs'[b] /\ code'[b] = NoCode /\ paired[b] = 0 /\ ~Deciding(b)'
        /\ UNCHANGED <<paired, call>>
    BY <1>0, <1>2 DEF PairStart, Idle, Deciding, WindowTypes
  <2>3. \A c \in Boards \ {b} :
          /\ mine'[c] = mine[c] /\ theirs'[c] = theirs[c] /\ pairing'[c] = pairing[c] /\ code'[c] = code[c]
          /\ Deciding(c)' = Deciding(c)
    BY <1>0, <1>2 DEF PairStart, Deciding, WindowTypes
  <2>4. Apart'
    BY <1>2, <2>1 DEF PairStart, Apart
  <2>5. ~pairing[Far(b)] => Barred(Far(b))'
    BY <1>0, <2>2, <2>3, <2>4 DEF Barred
  <2>6. pairing[Far(b)] => /\ ~theirs[Far(b)] /\ ~mine[Far(b)] /\ ~Deciding(Far(b)) /\ paired[Far(b)] = 0
    BY <1>0, <2>1 DEF Unmet
  <2>7. OwnCode'
    BY <1>0, <2>2, <2>3, <2>5, <2>6 DEF OwnCode
  <2>8. FarCode'
    BY <1>0, <2>2, <2>3, <2>5, <2>6 DEF FarCode
  <2>9. ShownCode'
    BY <1>0, <2>1, <2>2, <2>3 DEF ShownCode
  <2>10. Unmet'
    BY <1>0, <2>2, <2>3, <2>6 DEF Unmet
  <2> QED
    BY <2>7, <2>8, <2>9, <2>10 DEF CodeWords
<1>3. ASSUME NEW b \in Boards, ConfirmMark(b) PROVE CodeWords'
  <2>0. /\ UNCHANGED <<nonce, pairing, code, theirs, paired>> /\ pairing[b] /\ code[b] # NoCode
        /\ code[b] \in pressed'[b]
    BY <1>0, <1>3 DEF ConfirmMark, WindowTypes
  <2>1. \A c \in Boards : Barred(c) => Barred(c)'
    <3>1. \A c \in Boards : ~PairStart(c)
      BY <1>0, <2>0 DEF PairStart, WindowTypes, Nonces
    <3> QED
      BY <1>0, <3>1, BarredStays
  <2>2. \A c \in Boards : Now(c)' = Now(c) /\ (Confirmed(c) => Confirmed(c)')
    BY <1>0, <2>0, ConfirmedStays
  <2>3. Confirmed(b)'
    BY <1>0, <2>0, <2>2 DEF ShownCode, Confirmed
  <2>4. \A c \in Boards \ {b} : mine'[c] = mine[c] /\ Deciding(c)' = Deciding(c)
    BY <1>0, <1>3 DEF ConfirmMark, Deciding, WindowTypes, BoardTypes
  <2>5. OwnCode'
    BY <1>0, <2>1, <2>2, <2>3, <2>4 DEF OwnCode
  <2>6. FarCode'
    BY <1>0, <2>0, <2>1, <2>2 DEF FarCode
  <2>7. ShownCode'
    BY <1>0, <2>0, <2>2 DEF ShownCode
  <2>8. Unmet'
    BY <1>0, <2>0, <2>4 DEF Unmet
  <2> QED
    BY <2>5, <2>6, <2>7, <2>8 DEF CodeWords
<1>4. ASSUME NEW b \in Boards, ConfirmSend(b) PROVE CodeWords'
  BY <1>0, <1>4, CodeWordsFrame DEF ConfirmSend, Deciding, BoardTypes
<1>5. ASSUME NEW b \in Boards, ConfirmCommit(b) PROVE CodeWords'
  <2>1. UNCHANGED <<nonce, pairing, code, mine, theirs>> /\ \A c \in Boards : Deciding(c)' => Deciding(c)
    BY <1>0, <1>5 DEF ConfirmCommit, Deciding, BoardTypes
  <2>2. \A c \in Boards \ {b} : paired'[c] = paired[c]
    BY <1>0, <1>5 DEF ConfirmCommit, BoardTypes
  <2>3. pairing[b] => code[b] # NoCode
    BY <1>0, <1>5 DEF ConfirmCommit, Unmet, Deciding
  <2> QED
    BY <2>1, <2>2, <2>3, CodeWordsFrame
<1>6. ASSUME NEW b \in Boards, Cancel(b) \/ Expire(b) \/ Forget(b) PROVE CodeWords'
  <2>1. CloseWindow(b) /\ UNCHANGED paired
    BY <1>6 DEF Cancel, Expire, Forget, Cancels
  <2>2. \A c \in Boards : Deciding(c)' => Deciding(c)
    BY <1>0, <1>6 DEF Cancel, Expire, Forget, Deciding, BoardTypes
  <2>3. \A c \in Boards : /\ pairing'[c] => pairing[c] /\ code'[c] = code[c]
                          /\ mine'[c] => mine[c]
                          /\ theirs'[c] => theirs[c]
    BY <1>0, <2>1 DEF CloseWindow, WindowTypes
  <2>4. UNCHANGED nonce
    BY <2>1 DEF CloseWindow
  <2> QED
    BY <2>1, <2>2, <2>3, <2>4, CodeWordsFrame
<1>7. ASSUME NEW b \in Boards, ForgetUnlink(b) \/ ForgetClear(b) PROVE CodeWords'
  BY <1>0, <1>7, CodeWordsFrame DEF ForgetUnlink, ForgetClear, Deciding, BoardTypes
<1>8. ASSUME NEW b \in Boards, NEW t \in Threads, CommitSave(b, t) PROVE CodeWords'
  BY <1>0, <1>8, CodeWordsFrame DEF CommitSave, Readies, Deciding, WindowTypes
<1>9. ASSUME NEW b \in Boards, RecvStray(b) \/ RecvSubscribed(b) \/ RecvCancel(b) PROVE CodeWords'
  BY <1>0, <1>9, CodeWordsFrame DEF RecvStray, RecvSubscribed, RecvCancel, CloseWindow, Deciding, WindowTypes
<1>10. ASSUME NEW b \in Boards, RecvPairNoted(b) \/ RecvPair(b) PROVE CodeWords'
  <2> DEFINE p == Head(wire[b])
  <2>1. /\ wire[b] # <<>> /\ conn[b] = p.from /\ p.type \in {"hello", "confirm"} /\ Notes(b, p)
        /\ UNCHANGED <<mine, call, nonce>>
    BY <1>10 DEF RecvPairNoted, RecvPair, Arrives, Due
  <2>2. ~Apart /\ conn[b] = Far(b)
    BY <1>0, <2>1, HeadTypes DEF Between, Apart
  <2>3. p \in TruePackets
    <3>1. wire[b] \in Seq(TruePackets)
      BY <1>0 DEF TrueAir
    <3> QED
      BY <2>1, <3>1
  <2>4. p.nonce = nonce[Far(b)] /\ (p.type = "confirm" \/ p.sure => Confirmed(Far(b)))
    BY <2>1, <2>2, <2>3 DEF TruePackets, True
  <2>5. \A c \in Boards : Now(c)' = Now(c) /\ (Confirmed(c) => Confirmed(c)')
    BY <1>0, <2>1, ConfirmedStays
  <2>6. OwnCode'
    BY <1>0, <2>1, <2>2, <2>5, Decided DEF OwnCode, Deciding
  <2>7. FarCode'
    <3>1. theirs' = [theirs EXCEPT ![b] = @ \/ p.type = "confirm" \/ p.sure]
      BY <2>1 DEF Notes
    <3>2. theirs'[b] => Confirmed(Far(b))
      BY <1>0, <2>2, <2>4, <3>1, Decided DEF WindowTypes
    <3>3. \A c \in Boards \ {b} : theirs'[c] => Confirmed(Far(c))
      BY <1>0, <2>2, <3>1, Decided DEF WindowTypes
    <3> QED
      BY <1>0, <2>5, <3>2, <3>3 DEF FarCode
  <2>8. CASE RecvPairNoted(b)
    <3>1. /\ UNCHANGED <<code, paired>> /\ (paired[b] # 0 \/ ~pairing[b])
          /\ \A c \in Boards : pairing'[c] => pairing[c]
      BY <1>0, <2>8 DEF RecvPairNoted, Readies, WindowTypes
    <3>2. ShownCode'
      BY <1>0, <2>5, <3>1 DEF ShownCode
    <3>3. \A c \in Boards \ {b} : theirs'[c] = theirs[c]
      BY <1>0, <2>1 DEF Notes, WindowTypes
    <3>4. Unmet'
      BY <1>0, <2>1, <3>1, <3>3 DEF Unmet, Deciding
    <3> QED
      BY <2>6, <2>7, <3>2, <3>4 DEF CodeWords
  <2>9. CASE RecvPair(b)
    <3>1. code' = [code EXCEPT ![b] = Now(b)] /\ UNCHANGED pairing
      BY <2>1, <2>2, <2>4, <2>9 DEF RecvPair, Now
    <3>2. code'[b] = Now(b) /\ Now(b) # NoCode /\ \A c \in Boards \ {b} : code'[c] = code[c]
      BY <1>0, <3>1 DEF WindowTypes, Now, CodeOf, NoCode
    <3>3. ShownCode'
      BY <1>0, <2>5, <3>1, <3>2 DEF ShownCode
    <3>4. \A c \in Boards \ {b} : theirs'[c] = theirs[c] /\ paired'[c] = paired[c]
      BY <1>0, <2>1, <2>9 DEF Notes, RecvPair, WindowTypes, BoardTypes
    <3>5. Unmet'
      BY <1>0, <2>1, <3>1, <3>2, <3>4 DEF Unmet, Deciding
    <3> QED
      BY <2>6, <2>7, <3>3, <3>5 DEF CodeWords
  <2> QED
    BY <1>10, <2>8, <2>9
<1>11. ASSUME NEW b \in Boards, Accept(b) \/ Subscribe(b) \/ SendHello(b) \/ HandleDisconnect(b) PROVE CodeWords'
  BY <1>0, <1>11, CodeWordsFrame DEF Accept, Subscribe, SendHello, HandleDisconnect, Deciding
<1>12. ASSUME NEW b \in Boards, Crash(b) PROVE CodeWords'
  <2>1. \A c \in Boards : /\ pairing'[c] => pairing[c] /\ code'[c] = code[c]
                          /\ mine'[c] => mine[c]
                          /\ theirs'[c] => theirs[c]
    BY <1>0, <1>12 DEF Crash, WindowTypes
  <2>2. \A c \in Boards : (Deciding(c)' => Deciding(c)) /\ (paired'[c] # 0 => paired[c] # 0)
    BY <1>0, <1>12 DEF Crash, Deciding, BoardTypes, Filed
  <2>3. UNCHANGED nonce
    BY <1>12 DEF Crash
  <2> QED
    BY <2>1, <2>2, <2>3, CodeWordsFrame
<1>13. ASSUME NEW c \in Boards, NEW p \in Boards, Connect(c, p) PROVE CodeWords'
  BY <1>0, <1>13, CodeWordsFrame DEF Connect, Deciding
<1>14. ASSUME NEW l \in links, Closed(l) \/ Drop(l) PROVE CodeWords'
  BY <1>0, <1>14, CodeWordsFrame DEF Closed, Drop, LinkDown, Deciding
<1>15. CASE UNCHANGED vars
  BY <1>0, <1>15, CodeWordsFrame DEF vars, Deciding
<1> QED
  BY <1>1, <1>2, <1>3, <1>4, <1>5, <1>6, <1>7, <1>8, <1>9, <1>10, <1>11, <1>12, <1>13, <1>14, <1>15
     DEF Next, User, Running, Receive, Worker

\* Sending packets of a set leaves packets of that set on the wires.
LEMMA SentIn ==
  ASSUME NEW S, NEW w \in [Boards -> Seq(S)], NEW b \in Boards, BoardTypes, NEW ps \in Seq(S)
  PROVE  Sent(w, b, ps) \in [Boards -> Seq(S)]
<1>1. CASE Reaches(b)
  <2>1. conn[b] \in Boards
    BY <1>1 DEF Reaches, BoardTypes
  <2>2. w[conn[b]] \o ps \in Seq(S)
    BY <2>1, ConcatProperties
  <2> QED
    BY <1>1, <2>2 DEF Sent
<1>2. CASE ~Reaches(b)
  BY <1>2 DEF Sent
<1> QED
  BY <1>1, <1>2

LEMMA SeqsOf ==
  ASSUME NEW S, NEW p \in S, NEW s \in Seq(S)
  PROVE  <<>> \in Seq(S) /\ <<p>> \in Seq(S) /\ Append(s, p) \in Seq(S)
OBVIOUS

\* What is true stays true within the windows.
LEMMA TruthStays ==
  ASSUME Alone, UNCHANGED nonce, PressedStays, wire' \in [Boards -> Seq(TruePackets)]
  PROVE  TrueAir'
<1>1. TruePackets \subseteq TruePackets'
  <2> SUFFICES ASSUME NEW p \in Packets, True(p) PROVE True(p)'
    BY DEF TruePackets
  <2>1. p.from \in Boards
    BY DEF Packets
  <2>2. Confirmed(p.from) => Confirmed(p.from)'
    BY <2>1, ConfirmedStays
  <2> QED
    BY <2>2 DEF True
<1>2. Seq(TruePackets) \subseteq Seq(TruePackets')
  BY <1>1
<1> QED
  BY <1>2 DEF TrueAir

\* What is left after the first packet.
LEMMA TrueRest ==
  ASSUME TrueAir, NEW b \in Boards, wire[b] # <<>>
  PROVE  Rest(b) \in [Boards -> Seq(TruePackets)]
<1>1. wire[b] \in Seq(TruePackets)
  BY DEF TrueAir
<1>2. Tail(wire[b]) \in Seq(TruePackets)
  BY <1>1
<1> QED
  BY <1>2 DEF Rest, TrueAir

\* What the actions send.
LEMMA TrueToSend ==
  ASSUME WindowTypes, NEW b \in Boards, mine[b] => Confirmed(b)
  PROVE  /\ Packet(b, "cancel", nonce[b], mine[b]) \in TruePackets
         /\ Packet(b, "hello", nonce[b], mine[b]) \in TruePackets
         /\ Packet(b, "cccd", 0, FALSE) \in TruePackets
         /\ Confirmed(b) => /\ Packet(b, "confirm", nonce[b], mine[b]) \in TruePackets
                            /\ Packet(b, "confirm", nonce[b], TRUE) \in TruePackets
<1>1. nonce[b] \in Nonces /\ mine[b] \in BOOLEAN /\ TRUE \in BOOLEAN /\ FALSE \in BOOLEAN
  BY DEF WindowTypes
<1>2. /\ Packet(b, "cancel", nonce[b], mine[b]) \in Packets
      /\ Packet(b, "hello", nonce[b], mine[b]) \in Packets
      /\ Packet(b, "confirm", nonce[b], mine[b]) \in Packets
      /\ Packet(b, "confirm", nonce[b], TRUE) \in Packets
      /\ Packet(b, "cccd", 0, FALSE) \in Packets
  BY <1>1, PacketTypes, ZeroNonce
<1>3. /\ True(Packet(b, "cancel", nonce[b], mine[b]))
      /\ True(Packet(b, "hello", nonce[b], mine[b]))
      /\ True(Packet(b, "cccd", 0, FALSE))
      /\ Confirmed(b) => /\ True(Packet(b, "confirm", nonce[b], mine[b]))
                         /\ True(Packet(b, "confirm", nonce[b], TRUE))
  BY DEF True, Packet
<1> QED
  BY <1>2, <1>3 DEF TruePackets

\* A packet that is sent is true, when it is from a board with a connection.
LEMMA TrueSay ==
  ASSUME Alone, BoardTypes, TrueAir, UNCHANGED nonce, PressedStays, NEW b \in Boards, NEW p,
         conn[b] # 0 => p \in TruePackets, Say(b, <<p>>)
  PROVE  TrueAir'
<1>1. CASE conn[b] # 0
  <2>1. <<p>> \in Seq(TruePackets)
    BY <1>1
  <2>2. wire' \in [Boards -> Seq(TruePackets)]
    BY <2>1, SentIn DEF Say, TrueAir
  <2> QED
    BY <2>2, TruthStays
<1>2. CASE conn[b] = 0
  <2>1. UNCHANGED wire
    BY <1>2 DEF Say, Sent, Reaches
  <2> QED
    BY <2>1, TruthStays DEF TrueAir
<1> QED
  BY <1>1, <1>2

LEMMA StepTrueAir ==
  ASSUME Alone, TypeOK, CodeInv, StartsAfresh, [Next]_vars
  PROVE  TrueAir'
<1> USE DEF window, store, session, threads, air
<1>0. /\ WindowTypes /\ BoardTypes /\ AirTypes /\ PressedStays /\ Before /\ TrueAir /\ OwnCode /\ FarCode
  BY StepPressed DEF TypeOK, CodeInv, CodeWords
<1>a. ASSUME NEW b \in Boards, ~Apart PROVE mine[b] \/ Deciding(b) => Confirmed(b)
  BY <1>0, <1>a, Decided
<1>b. ASSUME NEW b \in Boards, conn[b] # 0 PROVE ~Apart
  BY <1>b DEF Apart
<1>c. ASSUME UNCHANGED <<nonce, wire>> PROVE TrueAir'
  BY <1>0, <1>c, TruthStays DEF TrueAir
<1>d. ASSUME NEW b \in Boards, UNCHANGED nonce, wire[b] # <<>>, wire' = Rest(b) PROVE TrueAir'
  BY <1>0, <1>d, TrueRest, TruthStays
<1>1. ASSUME NEW b \in Boards, SwitchOn(b) \/ SwitchOff(b) \/ ConfirmMark(b) PROVE TrueAir'
  BY <1>1, <1>c DEF SwitchOn, SwitchOff, ConfirmMark
<1>2. ASSUME NEW b \in Boards, PairStart(b) PROVE TrueAir'
  <2>1. \A c \in Boards : wire[c] = <<>>
    BY <1>0, <1>2, StartsApart DEF Apart
  <2>2. UNCHANGED wire
    BY <1>2 DEF PairStart
  <2>3. <<>> \in Seq(TruePackets')
    OBVIOUS
  <2> QED
    BY <1>0, <2>1, <2>2, <2>3 DEF TrueAir
<1>3. ASSUME NEW b \in Boards, ConfirmSend(b) PROVE TrueAir'
  <2>1. CASE conn[b] # 0
    <3>1. mine[b] \/ Deciding(b) => Confirmed(b)
      BY <1>a, <1>b, <2>1
    <3>2. Packet(b, "confirm", nonce[b], mine[b]) \in TruePackets
      BY <1>0, <1>3, <3>1, TrueToSend DEF ConfirmSend, Deciding
    <3>3. Say(b, <<Packet(b, "confirm", nonce[b], mine[b])>>) /\ UNCHANGED nonce
      BY <1>3, <2>1 DEF ConfirmSend
    <3> QED
      BY <1>0, <3>2, <3>3, TrueSay
  <2>2. CASE conn[b] = 0
    BY <1>3, <1>c, <2>2 DEF ConfirmSend
  <2> QED
    BY <2>1, <2>2
<1>4. ASSUME NEW b \in Boards, ConfirmCommit(b) \/ ForgetUnlink(b) \/ ForgetClear(b) PROVE TrueAir'
  BY <1>4, <1>c DEF ConfirmCommit, ForgetUnlink, ForgetClear
<1>5. ASSUME NEW b \in Boards, Cancel(b) \/ Expire(b) \/ Forget(b) PROVE TrueAir'
  <2>1. Cancels(b) /\ UNCHANGED nonce
    BY <1>5 DEF Cancel, Expire, Forget, Cancels, CloseWindow
  <2>2. CASE conn[b] # 0
    <3>1. mine[b] => Confirmed(b)
      BY <1>a, <1>b, <2>2
    <3>2. Packet(b, "cancel", nonce[b], mine[b]) \in TruePackets
      BY <1>0, <3>1, TrueToSend
    <3>3. Say(b, <<Packet(b, "cancel", nonce[b], mine[b])>>)
      BY <2>1, <2>2 DEF Cancels
    <3> QED
      BY <1>0, <2>1, <3>2, <3>3, TrueSay
  <2>3. CASE conn[b] = 0
    BY <1>c, <2>1, <2>3 DEF Cancels
  <2> QED
    BY <2>2, <2>3
<1>6. ASSUME NEW b \in Boards, NEW t \in Threads, CommitSave(b, t) PROVE TrueAir'
  BY <1>6, <1>c DEF CommitSave
<1>7. ASSUME NEW b \in Boards, RecvStray(b) \/ RecvSubscribed(b) \/ RecvCancel(b) \/ RecvPairNoted(b)
      PROVE TrueAir'
  <2>1. UNCHANGED nonce /\ wire[b] # <<>> /\ wire' = Rest(b)
    BY <1>7 DEF RecvStray, RecvSubscribed, RecvCancel, RecvPairNoted, Arrives, Due, CloseWindow
  <2> QED
    BY <1>d, <2>1
<1>8. ASSUME NEW b \in Boards, RecvPair(b) PROVE TrueAir'
  <2> DEFINE p == Head(wire[b])
             h == Packet(b, "hello", nonce[b], mine[b])
             c == Packet(b, "confirm", nonce[b], TRUE)
  <2>1. /\ UNCHANGED nonce /\ wire[b] # <<>> /\ wire' = Sent(Rest(b), b, Answers(b, p))
    BY <1>8 DEF RecvPair, Arrives, Due
  <2>2. mine[b] => Confirmed(b)
    BY <1>a, <2>1 DEF Apart
  <2>3. h \in TruePackets /\ (mine[b] => c \in TruePackets)
    BY <1>0, <2>2, TrueToSend
  <2>4. Answers(b, p) \in Seq(TruePackets)
    <3>1. \A s, u \in Seq(TruePackets) : s \o u \in Seq(TruePackets)
      BY ConcatProperties
    <3>2. <<>> \in Seq(TruePackets) /\ <<h>> \in Seq(TruePackets) /\ (mine[b] => <<c>> \in Seq(TruePackets))
      <4>1. wire[b] \in Seq(TruePackets)
        BY <1>0 DEF TrueAir
      <4> HIDE DEF h, c
      <4> QED
        BY <2>3, <4>1, SeqsOf
    <3> QED
      BY <3>1, <3>2, Zenon DEF Answers
  <2>5. Rest(b) \in [Boards -> Seq(TruePackets)]
    BY <1>0, <2>1, TrueRest
  <2> HIDE DEF p
  <2>6. wire' \in [Boards -> Seq(TruePackets)]
    BY <1>0, <2>1, <2>4, <2>5, SentIn
  <2> QED
    BY <1>0, <2>1, <2>6, TruthStays
<1>9. ASSUME NEW b \in Boards, Accept(b) \/ HandleDisconnect(b) PROVE TrueAir'
  BY <1>9, <1>c DEF Accept, HandleDisconnect
<1>10. ASSUME NEW b \in Boards, Subscribe(b) PROVE TrueAir'
  <2>1. UNCHANGED nonce /\ conn[b] \in Boards
        /\ wire' = [wire EXCEPT ![conn[b]] = Append(@, Packet(b, "cccd", 0, FALSE))]
    BY <1>0, <1>10 DEF Subscribe, BoardTypes
  <2>2. mine[b] => Confirmed(b)
    BY <1>10, <1>a, <1>b DEF Subscribe
  <2>3. Packet(b, "cccd", 0, FALSE) \in TruePackets
    BY <1>0, <2>2, TrueToSend
  <2>4. wire[conn[b]] \in Seq(TruePackets)
    BY <1>0, <2>1 DEF TrueAir
  <2>5. Append(wire[conn[b]], Packet(b, "cccd", 0, FALSE)) \in Seq(TruePackets)
    BY <2>3, <2>4, SeqsOf
  <2>6. wire' \in [Boards -> Seq(TruePackets)]
    BY <1>0, <2>1, <2>5 DEF TrueAir
  <2> QED
    BY <1>0, <2>1, <2>6, TruthStays
<1>11. ASSUME NEW b \in Boards, SendHello(b) PROVE TrueAir'
  <2>1. mine[b] => Confirmed(b)
    BY <1>11, <1>a, <1>b DEF SendHello
  <2>2. Packet(b, "hello", nonce[b], mine[b]) \in TruePackets
    BY <1>0, <2>1, TrueToSend
  <2>3. Say(b, <<Packet(b, "hello", nonce[b], mine[b])>>) /\ UNCHANGED nonce
    BY <1>11 DEF SendHello
  <2> QED
    BY <1>0, <2>2, <2>3, TrueSay
<1>12. ASSUME NEW b \in Boards, Crash(b) PROVE TrueAir'
  <2>1. UNCHANGED nonce /\ wire' = [wire EXCEPT ![b] = <<>>]
    BY <1>12 DEF Crash
  <2>2. wire' \in [Boards -> Seq(TruePackets)]
    BY <1>0, <2>1 DEF TrueAir
  <2> QED
    BY <1>0, <2>1, <2>2, TruthStays
<1>13. ASSUME NEW c \in Boards, NEW p \in Boards, Connect(c, p) PROVE TrueAir'
  BY <1>13, <1>c DEF Connect
<1>14. ASSUME NEW l \in links, Closed(l) \/ Drop(l) PROVE TrueAir'
  <2>1. LinkDown(l) /\ UNCHANGED nonce
    BY <1>14 DEF Closed, Drop, LinkDown
  <2>2. PICK kept : wire' = [b \in Boards |-> IF b \in Ends(l) \ kept THEN <<>> ELSE wire[b]]
    BY <2>1 DEF LinkDown
  <2>3. wire' \in [Boards -> Seq(TruePackets)]
    BY <1>0, <2>2 DEF TrueAir
  <2> QED
    BY <1>0, <2>1, <2>3, TruthStays
<1>15. CASE UNCHANGED vars
  BY <1>15, <1>c DEF vars
<1> QED
  BY <1>1, <1>2, <1>3, <1>4, <1>5, <1>6, <1>7, <1>8, <1>9, <1>10, <1>11, <1>12, <1>13, <1>14, <1>15
     DEF Next, User, Running, Receive, Worker

\* A pairing and its file are of boards whose users have confirmed one code.
LEMMA PairedSameFrame ==
  ASSUME Alone, PairedSame, PressedStays,
         \A b \in Boards : paired'[b] # 0 \/ file'[b] # 0 => paired[b] # 0 \/ file[b] # 0
  PROVE  PairedSame'
<1> SUFFICES ASSUME NEW b \in Boards, Shared(b) PROVE Shared(b)'
  BY DEF PairedSame
<1>1. Far(b) \in Boards
  BY Fars
<1> QED
  BY <1>1 DEF Shared, PressedStays

\* Both users have confirmed the code of the present windows.
LEMMA SharedNow ==
  ASSUME Alone, NEW b \in Boards, Confirmed(b), Confirmed(Far(b)), PressedStays
  PROVE  Shared(b)'
<1>1. Far(b) \in Boards
  BY Fars
<1>2. Now(b) \in pressed[b] \cap pressed[Far(b)] /\ CodeOfTwo(Now(b), b)
  BY NowOfBoth DEF Confirmed
<1>3. Now(b) \in pressed'[b] \cap pressed'[Far(b)]
  BY <1>1, <1>2 DEF PressedStays
<1> QED
  BY <1>2, <1>3 DEF Shared

LEMMA StepPairedSame ==
  ASSUME Alone, TypeOK, FileInv, ConsentInv, CodeInv, [Next]_vars
  PROVE  PairedSame'
<1> USE DEF window, store, session, threads, air
<1>0. /\ WindowTypes /\ BoardTypes /\ AirTypes /\ PressedStays /\ PairedSame /\ OwnCode /\ FarCode /\ TrueAir
      /\ SaveHasPeer /\ Between /\ \A b \in Boards : Far(b) \in Boards
  BY StepPressed, Fars DEF TypeOK, CodeInv, CodeWords, FileInv, ConsentInv, Peers
<1>a. ASSUME UNCHANGED <<paired, file>> PROVE PairedSame'
  BY <1>0, <1>a, PairedSameFrame
<1>b. ASSUME NEW b \in Boards, conn[b] # 0, Confirmed(b), Confirmed(Far(b)),
             paired' = [paired EXCEPT ![b] = conn[b]], UNCHANGED file
      PROVE  PairedSame'
  <2>1. Shared(b)'
    BY <1>0, <1>b, SharedNow
  <2>2. \A c \in Boards : paired'[c] # 0 \/ file'[c] # 0 => c = b \/ paired[c] # 0 \/ file[c] # 0
    BY <1>0, <1>b DEF BoardTypes
  <2>3. \A c \in Boards : Shared(c) => Shared(c)'
    BY <1>0 DEF Shared, PressedStays
  <2> QED
    BY <1>0, <2>1, <2>2, <2>3 DEF PairedSame
<1>1. ASSUME NEW b \in Boards, ConfirmCommit(b) PROVE PairedSame'
  <2>1. CASE MayCommit(b)
    <3>1. conn[b] # 0 /\ theirs[b] /\ Deciding(b) /\ ~Apart
      BY <1>1, <2>1 DEF ConfirmCommit, MayCommit, Deciding, Apart
    <3>2. Confirmed(b) /\ Confirmed(Far(b))
      BY <1>0, <3>1, Decided
    <3> QED
      BY <1>1, <1>b, <2>1, <3>1, <3>2 DEF ConfirmCommit
  <2>2. CASE ~MayCommit(b)
    BY <1>1, <1>a, <2>2 DEF ConfirmCommit
  <2> QED
    BY <2>1, <2>2
<1>2. ASSUME NEW b \in Boards, RecvPair(b) PROVE PairedSame'
  <2> DEFINE p == Head(wire[b])
  <2>1. /\ wire[b] # <<>> /\ conn[b] = p.from /\ p.type \in {"hello", "confirm"} /\ Notes(b, p)
        /\ UNCHANGED file
    BY <1>2 DEF RecvPair, Arrives, Due
  <2>2. ~Apart /\ conn[b] = Far(b) /\ conn[b] # 0
    BY <1>0, <2>1, HeadTypes DEF Between, Apart
  <2>3. CASE mine[b] /\ theirs'[b]
    <3>1. wire[b] \in Seq(TruePackets)
      BY <1>0 DEF TrueAir
    <3>2. p \in TruePackets
      BY <2>1, <3>1
    <3>3. p.type = "confirm" \/ p.sure => Confirmed(Far(b))
      BY <2>1, <2>2, <3>2 DEF TruePackets, True
    <3>4. theirs[b] \/ p.type = "confirm" \/ p.sure
      BY <1>0, <2>1, <2>3 DEF Notes, WindowTypes
    <3>5. Confirmed(b) /\ Confirmed(Far(b))
      BY <1>0, <2>2, <2>3, <3>3, <3>4, Decided
    <3>6. paired' = [paired EXCEPT ![b] = conn[b]]
      BY <1>2, <2>3 DEF RecvPair
    <3> QED
      BY <1>b, <2>1, <2>2, <3>5, <3>6
  <2>4. CASE ~(mine[b] /\ theirs'[b])
    BY <1>2, <1>a, <2>4 DEF RecvPair
  <2> QED
    BY <2>3, <2>4
<1>3. ASSUME NEW b \in Boards, NEW t \in Threads, CommitSave(b, t) PROVE PairedSame'
  <2>1. \A c \in Boards : paired'[c] # 0 \/ file'[c] # 0 => paired[c] # 0 \/ file[c] # 0
    BY <1>0, <1>3 DEF CommitSave, SaveHasPeer, BoardTypes
  <2> QED
    BY <1>0, <2>1, PairedSameFrame
<1>4. ASSUME NEW b \in Boards, ForgetUnlink(b) \/ ForgetClear(b) \/ Crash(b) PROVE PairedSame'
  <2>1. \A c \in Boards : paired'[c] # 0 \/ file'[c] # 0 => paired[c] # 0 \/ file[c] # 0
    BY <1>0, <1>4 DEF ForgetUnlink, ForgetClear, Crash, BoardTypes
  <2> QED
    BY <1>0, <2>1, PairedSameFrame
<1>5. ASSUME NEW b \in Boards, User(b) \/ ConfirmSend(b) \/ Expire(b) PROVE PairedSame'
  BY <1>5, <1>a DEF User, SwitchOn, SwitchOff, PairStart, ConfirmMark, Cancel, Forget, ConfirmSend, Expire
<1>6. ASSUME NEW b \in Boards, Worker(b), ~RecvPair(b) PROVE PairedSame'
  BY <1>6, <1>a DEF Worker, Receive, RecvStray, RecvSubscribed, RecvCancel, RecvPairNoted, Accept,
     Subscribe, SendHello, HandleDisconnect
<1>7. ASSUME NEW c \in Boards, NEW p \in Boards, Connect(c, p) PROVE PairedSame'
  BY <1>7, <1>a DEF Connect
<1>8. ASSUME NEW l \in links, Closed(l) \/ Drop(l) PROVE PairedSame'
  BY <1>8, <1>a DEF Closed, Drop, LinkDown
<1>9. CASE UNCHANGED vars
  BY <1>9, <1>a DEF vars
<1> QED
  BY <1>1, <1>2, <1>3, <1>4, <1>5, <1>6, <1>7, <1>8, <1>9 DEF Next, Running

LEMMA InitCode == Init => CodeInv
BY DEF Init, CodeInv, CodeWords, OwnCode, FarCode, ShownCode, Unmet, TrueAir, PairedSame, Filed, Before,
   Untouched, Apart, Deciding, NoCode

\* The invariant of two boards whose windows are opened with nothing left of
\* the last connection.
LEMMA CodeKept == ASSUME Alone, ForgetsInPeace PROVE Spec /\ [][StartsAfresh]_vars => []CodeInv
<1> DEFINE Inv == TypeOK /\ FileInv /\ ConsentInv /\ CodeInv
<1>1. Init => Inv
  BY InitTypes, InitFile, InitConsent, InitCode
<1>2. ASSUME Inv, [Next]_vars, [StartsAfresh]_vars PROVE Inv'
  <2>1. TypeOK' /\ FileInv' /\ ConsentInv'
    BY <1>2, StepTypes, StepFile, StepConsent
  <2>2. StartsAfresh
    <3>1. CASE UNCHANGED vars
      <4>1. nonce' = nonce /\ nonce \in [Boards -> 0..MaxWindows]
        BY <1>2, <3>1 DEF vars, window, TypeOK, WindowTypes, Nonces
      <4>2. \A b \in Boards : ~PairStart(b)
        BY <4>1 DEF PairStart
      <4> QED
        BY <4>2 DEF StartsAfresh
    <3> QED
      BY <1>2, <3>1
  <2>3. CodeInv'
    BY <1>2, <2>2, StepCodeWords, StepTrueAir, StepPairedSame, StepFiled, StepBefore DEF CodeInv
  <2> QED
    BY <2>1, <2>3
<1> QED
  BY <1>1, <1>2, PTL DEF Spec

LEMMA CodeInvSame == ASSUME Alone, ConsentInv, CodeInv PROVE SameCode
<1> SUFFICES ASSUME NEW b \in Boards, paired[b] # 0
             PROVE  \E k \in pressed[b] \cap pressed[paired[b]] : \E x, y \in k : x[1] = b /\ y[1] = paired[b]
  BY DEF SameCode
<1>1. paired[b] = Far(b) /\ Shared(b)
  BY DEF ConsentInv, Peers, Between, CodeInv, PairedSame
<1> QED
  BY <1>1 DEF Shared, CodeOfTwo

\* Two boards that are paired have shown one code, and both users have confirmed
\* it: however the packets, the two threads and the resets of the boards
\* interleave, as long as a window is opened again only when nothing is left of
\* the connection of the last one.  A decision is not tied to the code it is
\* about, so that it could count for the next one otherwise (README, further
\* disagreements).
THEOREM SameCodeShown ==
  ASSUME Alone, ForgetsInPeace PROVE Spec /\ [][StartsAfresh]_vars => []SameCode
<1>1. ConsentInv /\ CodeInv => SameCode
  BY CodeInvSame
<1> QED
  BY <1>1, Consent, CodeKept, PTL

\* That needs no condition for boards that open one window each.
THEOREM SameCodeOnce ==
  ASSUME Alone, ForgetsInPeace, MaxWindows = 1 PROVE Spec => []SameCode
<1>1. TypeOK /\ [Next]_vars => [StartsAfresh]_vars
  BY DEF StartsAfresh, PairStart, TypeOK, WindowTypes, Nonces
<1> QED
  BY <1>1, TypeCorrect, SameCodeShown, PTL DEF Spec
=============================================================================
