--------------------------- MODULE PCIELinkProofs ---------------------------
(***************************************************************************)
(* Proofs about PCIELink: for every size of the replay buffers, with or    *)
(* without propagation delay, and for any number of packets whose numbers  *)
(* fit an int, the link delivers in order and loses nothing.               *)
(*                                                                         *)
(* The invariants of PCIELink are not inductive.  IndInv adds what an      *)
(* interface has on its link and in its buffer (InterfaceInv), how far the *)
(* two ends of a direction may be apart, and which TLP arrives first       *)
(* (ChannelInv).  One lemma for each handler shows what it does to one     *)
(* interface; one for each action puts the two interfaces together.        *)
(***************************************************************************)
EXTENDS PCIELink, TLAPS, SequenceTheorems

-----------------------------------------------------------------------------
(* The inductive invariant *)

\* The number of packets of s that have been acknowledged: the sequence number
\* of the oldest packet the interface still holds.
Base(s) == s.sendSeqNum - Held(s)

\* p is an Ack that s may send: it covers only packets s has taken.
IsAck(s, p) == p.isDLLP /\ ~p.isTLP /\ p.seqNum < s.recvSeqNum

\* p is the TLP made for a packet the device at s handed over.
IsCopy(s, p) == /\ p.seqNum < Len(s.accepted)
                /\ p = TLP(p.seqNum, s.accepted[p.seqNum + 1])

\* What may be on the link that s transmits on.
OnLink(s, p) == IsAck(s, p) \/ IsCopy(s, p)

\* The replay buffer and replayPacket hold consecutive numbers, up to the last
\* one given out, each with the packet it was given to.
Numbered(s) ==
  /\ s.sendSeqNum = Len(s.accepted)
  /\ Held(s) <= s.sendSeqNum
  /\ \A i \in 1 .. Len(s.buffer) :
       s.buffer[i] = TLP(Base(s) + i - 1, s.accepted[Base(s) + i])
  /\ s.replayPacket # Null =>
       s.replayPacket = TLP(s.sendSeqNum - 1, s.accepted[s.sendSeqNum])

\* BufferHasRoom for one interface.
Room(s) ==
  /\ Len(s.buffer) <= MaxQueueSize
  /\ s.replayPacket # Null => Len(s.buffer) < MaxQueueSize

\* The part of the invariant that concerns one interface; max bounds what its
\* device offers.
InterfaceInv(s, max) ==
  /\ s \in LinkState
  /\ Offered(s) <= max
  /\ Numbered(s)
  /\ Room(s)
  /\ s.packet # Null => OnLink(s, s.packet)
  /\ \A i \in 1 .. Len(s.txQueue) : OnLink(s, s.txQueue[i])
  /\ s.replayDLLP # Null => IsAck(s, s.replayDLLP)
  /\ s.ackEvent => s.recvSeqNum > 0

\* The interface has not finished the first transmission of any TLP but,
\* perhaps, number 0.
Fresh(s) == s.sendSeqNum = 0 \/ (s.sendSeqNum = 1 /\ s.replayPacket # Null)

\* A handler takes s to u without touching what the other end relies on:
\* nothing is received, nothing is acknowledged, accepted only grows.
Preserves(s, u) ==
  /\ u.recvSeqNum = s.recvSeqNum
  /\ u.delivered = s.delivered
  /\ u.txQueue = s.txQueue
  /\ Len(s.accepted) <= Len(u.accepted)
  /\ \A i \in 1 .. Len(s.accepted) : u.accepted[i] = s.accepted[i]
  /\ Base(u) = Base(s)

\* The same, and the first TLP that leaves is still to be number 0.
Keeps(s, u) == Preserves(s, u) /\ (Fresh(s) => Fresh(u))

\* The first TLP to arrive from s has number 0: it is the first one in txQueue,
\* or none is there and s is fresh.
FirstIsZero(s) ==
  \/ /\ \A j \in 1 .. Len(s.txQueue) : ~s.txQueue[j].isTLP
     /\ Fresh(s)
  \/ \E j \in 1 .. Len(s.txQueue) :
       /\ s.txQueue[j].isTLP
       /\ s.txQueue[j].seqNum = 0
       /\ \A i \in 1 .. j - 1 : ~s.txQueue[i].isTLP

\* t has taken a prefix of what s accepted, and every acknowledged packet of s
\* is in it.
InOrder(s, t) ==
  /\ t.recvSeqNum = Len(t.delivered)
  /\ Len(t.delivered) <= Len(s.accepted)
  /\ \A i \in 1 .. Len(t.delivered) : t.delivered[i] = s.accepted[i]
  /\ Base(s) <= t.recvSeqNum

\* The part of the invariant that concerns the direction from s to t. Until t
\* has taken a packet, no TLP but number 0 may reach it: t would acknowledge
\* number -1.
ChannelInv(s, t) == InOrder(s, t) /\ (t.recvSeqNum = 0 => FirstIsZero(s))

\* The inductive invariant.
IndInv ==
  /\ undefined \in BOOLEAN
  /\ link \in [Links -> LinkState]
  /\ \A l \in Links : /\ InterfaceInv(link[l], MaxTLP[l])
                      /\ ChannelInv(link[l], link[Other(l)])
                      /\ ~Delayed => link[l].txQueue = <<>>

-----------------------------------------------------------------------------
(* Types and counts *)

\* NULL is a possible value of a packet pointer.
LEMMA NullType == Null \in Packet
BY DEF Null, NoPkt, Packet, Pkt

\* A PCIELinkPacket made from a gem5 packet is a packet, and not NULL.
LEMMA TLPType ==
  ASSUME NEW n \in Nat, NEW pkt \in Pkt
  PROVE  TLP(n, pkt) \in Packet /\ TLP(n, pkt) # Null
BY DEF TLP, Packet, Null, Pkt

\* An index of the replay buffer, of which there is at least one.
LEMMA ReplayIndexes ==
  /\ ReplayIndex \subseteq Nat /\ 0 \in ReplayIndex /\ 1 \in ReplayIndex
  /\ \A n \in Nat : n <= MaxQueueSize => n \in ReplayIndex
BY ConstantsAssumption DEF ReplayIndex

\* transmit() changes only packet, and that only if the link is free.
LEMMA TransmitEffect ==
  ASSUME NEW s \in LinkState, NEW p \in Packet
  PROVE  LET u == Transmit(s, p)
         IN  /\ u \in LinkState
             /\ u = [s EXCEPT !.packet = IF Busy(s) THEN s.packet ELSE p]
BY Zenon DEF Transmit, LinkState, Busy

\* What linkTransmitInterface changes when it accepts a packet.
LEMMA AcceptEffect ==
  ASSUME NEW s \in LinkState, NEW master \in BOOLEAN, ~Rejects(s),
         s.sendSeqNum < SeqSpace - 1
  PROVE  LET u == LinkTransmitInterface(s, master)
             pkt == [isResponse |-> master, id |-> Len(s.accepted) + 1]
             tlp == TLP(s.sendSeqNum, pkt)
         IN /\ u \in LinkState
            /\ u = [s EXCEPT !.packet = IF Busy(s) THEN s.packet ELSE tlp,
                             !.replayPacket = tlp,
                             !.sendSeqNum = s.sendSeqNum + 1,
                             !.accepted = Append(s.accepted, pkt)]
<1> DEFINE pkt == [isResponse |-> master, id |-> Len(s.accepted) + 1]
           tlp == TLP(s.sendSeqNum, pkt)
           r == [s EXCEPT !.replayPacket = tlp]
           t == Transmit(r, tlp)
<1>1. pkt \in Pkt /\ s.sendSeqNum \in Nat
  BY DEF Pkt, LinkState
<1>2. tlp \in Packet
  BY <1>1, TLPType
<1> HIDE DEF pkt, tlp, r, t
<1>3. r \in LinkState
  BY <1>2, Zenon DEF LinkState, r
<1>4. t \in LinkState /\ t = [r EXCEPT !.packet = IF Busy(r) THEN r.packet ELSE tlp]
  BY <1>2, <1>3, TransmitEffect DEF t
<1>5. Busy(r) = Busy(s) /\ r.packet = s.packet
  BY DEF Busy, LinkState, r
<1>6. LinkTransmitInterface(s, master)
        = [t EXCEPT !.sendSeqNum = Plus1(t.sendSeqNum),
                    !.accepted = Append(t.accepted, pkt)]
  BY DEF LinkTransmitInterface, pkt, tlp, r, t
<1>7. t.sendSeqNum = s.sendSeqNum /\ t.accepted = s.accepted
  BY <1>4 DEF LinkState, r
<1>8. Plus1(t.sendSeqNum) = s.sendSeqNum + 1
  BY <1>1, <1>7, ConstantsAssumption DEF Plus1
<1>9. Append(s.accepted, pkt) \in Seq(Pkt)
  BY <1>1 DEF LinkState
<1>10. LinkTransmitInterface(s, master)  
        = [s EXCEPT !.packet = IF Busy(s) THEN s.packet ELSE tlp,
                             !.replayPacket = tlp,
                             !.sendSeqNum = s.sendSeqNum + 1,
                             !.accepted = Append(s.accepted, pkt)]
  BY <1>4, <1>5, <1>6, <1>7, <1>8, ZenonT(60) DEF LinkState, r
<1>11. LinkTransmitInterface(s, master) \in LinkState
  <2>1. s.sendSeqNum + 1 \in Nat /\ t \in LinkState
    BY <1>1, <1>4
  <2> QED
    BY <2>1, <1>6, <1>7, <1>8, <1>9, ZenonT(60) DEF LinkState
<1> QED
  BY <1>10, <1>11 DEF pkt, tlp

\* The types of the members of PCIELink::Link.
LEMMA FieldTypes ==
  ASSUME NEW s \in LinkState
  PROVE  /\ s.packet \in Packet /\ s.replayPacket \in Packet
         /\ s.replayDLLP \in Packet
         /\ s.txQueue \in Seq(Packet) /\ Len(s.txQueue) \in Nat
         /\ s.buffer \in Seq(Packet) /\ Len(s.buffer) \in Nat
         /\ s.accepted \in Seq(Pkt) /\ Len(s.accepted) \in Nat
         /\ s.delivered \in Seq(Pkt) /\ Len(s.delivered) \in Nat
         /\ s.sendSeqNum \in Nat /\ s.recvSeqNum \in Nat
         /\ s.lastAcked \in Nat /\ s.retransmitIdx \in Nat
         /\ s.retryReq \in BOOLEAN /\ s.retryResp \in BOOLEAN
         /\ s.retransmit \in BOOLEAN /\ s.timeoutEvent \in BOOLEAN
         /\ s.ackEvent \in BOOLEAN
<1>1. s.retransmitIdx \in ReplayIndex
  BY DEF LinkState
<1>2. s.retransmitIdx \in Nat
  BY <1>1, ReplayIndexes
<1> QED
  BY <1>2 DEF LinkState

\* What a device has offered is what was accepted and what waits for a retry.
LEMMA OfferedCounts ==
  ASSUME NEW s \in LinkState
  PROVE  /\ Offered(s) \in Nat
         /\ Len(s.accepted) <= Offered(s)
         /\ \A u \in LinkState :
              u.retryReq = s.retryReq /\ u.retryResp = s.retryResp =>
                Offered(u) - Len(u.accepted) = Offered(s) - Len(s.accepted)
<1> DEFINE Bit(b) == IF b THEN 1 ELSE 0
<1>1. \A b : Bit(b) \in 0 .. 1
  OBVIOUS
<1>2. \A u \in LinkState :
        /\ Len(u.accepted) \in Nat
        /\ Offered(u) = Len(u.accepted) + Bit(u.retryReq) + Bit(u.retryResp)
  BY DEF Offered, LinkState
<1> HIDE DEF Bit
<1> QED
  BY <1>1, <1>2

\* What an interface holds is what its replay buffer and replayPacket contain.
LEMMA HeldCounts ==
  ASSUME NEW s \in LinkState
  PROVE  /\ Held(s) \in Nat
         /\ s.replayPacket = Null => Held(s) = Len(s.buffer)
         /\ s.replayPacket # Null => Held(s) = Len(s.buffer) + 1
<1>1. Len(s.buffer) \in Nat
  BY FieldTypes
<1>2. CASE s.replayPacket = Null
  BY <1>1, <1>2 DEF Held
<1>3. CASE s.replayPacket # Null
  BY <1>1, <1>3 DEF Held
<1> QED
  BY <1>2, <1>3

\* The constructor of Link establishes the invariant of an interface.
LEMMA InitialInterface ==
  ASSUME NEW max \in Nat
  PROVE  InterfaceInv(InitLink, max)
<1>1. Null \in Packet
  BY NullType
<1>2. InitLink \in LinkState
  BY <1>1, ReplayIndexes DEF InitLink, LinkState
<1>3. /\ InitLink.accepted = <<>> /\ InitLink.buffer = <<>>
      /\ InitLink.txQueue = <<>> /\ InitLink.sendSeqNum = 0
      /\ InitLink.packet = Null /\ InitLink.replayPacket = Null
      /\ InitLink.replayDLLP = Null /\ InitLink.ackEvent = FALSE
      /\ InitLink.retryReq = FALSE /\ InitLink.retryResp = FALSE
  BY DEF InitLink
<1>4. Offered(InitLink) = 0
  BY <1>3 DEF Offered
<1>5. Numbered(InitLink) /\ Room(InitLink)
  BY <1>3, ConstantsAssumption DEF Numbered, Room, Held, Base
<1> QED
  BY <1>2, <1>3, <1>4, <1>5 DEF InterfaceInv

-----------------------------------------------------------------------------
(* The device offers packets *)

\* The members that carry packets and numbers are the same in s and u.
SameData(s, u) ==
  /\ u.txQueue = s.txQueue
  /\ u.buffer = s.buffer
  /\ u.sendSeqNum = s.sendSeqNum
  /\ u.recvSeqNum = s.recvSeqNum
  /\ u.replayPacket = s.replayPacket
  /\ u.accepted = s.accepted
  /\ u.delivered = s.delivered

\* A handler that leaves the packets and numbers alone, and puts only what is
\* allowed on the link, preserves the invariant of the interface.
LEMMA DataDecides ==
  ASSUME NEW max \in Nat, NEW s, NEW u \in LinkState,
         InterfaceInv(s, max), SameData(s, u),
         Offered(u) <= max,
         u.ackEvent => u.recvSeqNum > 0,
         u.packet # Null => OnLink(s, u.packet),
         u.replayDLLP # Null => IsAck(s, u.replayDLLP)
  PROVE  InterfaceInv(u, max) /\ Keeps(s, u)
<1>1. Base(u) = Base(s) /\ Held(u) = Held(s) /\ Fresh(u) = Fresh(s)
  BY DEF SameData, Base, Held, Fresh
<1>2. Numbered(u)
  BY <1>1 DEF InterfaceInv, Numbered, SameData
<1>3. Room(u)
  BY DEF InterfaceInv, Room, SameData
<1>4. \A p : OnLink(u, p) = OnLink(s, p) /\ IsAck(u, p) = IsAck(s, p)
  BY DEF OnLink, IsAck, IsCopy, SameData
<1>5. InterfaceInv(u, max)
  BY <1>2, <1>3, <1>4 DEF InterfaceInv, SameData
<1>6. Keeps(s, u)
  <2>1. Len(s.accepted) \in Nat
    BY DEF InterfaceInv, LinkState
  <2> QED
    BY <2>1, <1>1 DEF Keeps, Preserves, SameData
<1> QED
  BY <1>5, <1>6

\* What may be on the link stays so while numbers grow.
LEMMA OnLinkStays ==
  ASSUME NEW s \in LinkState, NEW u \in LinkState, NEW p \in Packet,
         Len(s.accepted) <= Len(u.accepted),
         \A i \in 1 .. Len(s.accepted) : u.accepted[i] = s.accepted[i],
         s.recvSeqNum <= u.recvSeqNum
  PROVE  /\ OnLink(s, p) => OnLink(u, p)
         /\ IsAck(s, p) => IsAck(u, p)
<1>1. /\ Len(s.accepted) \in Nat
      /\ Len(u.accepted) \in Nat
      /\ s.recvSeqNum \in Nat
      /\ u.recvSeqNum \in Nat
  BY DEF LinkState
<1>4. p.seqNum \in Nat
  BY DEF Packet
<1>2. IsAck(s, p) => IsAck(u, p)
  BY <1>1, <1>4 DEF IsAck
<1>3. IsCopy(s, p) => IsCopy(u, p)
  <2> SUFFICES ASSUME IsCopy(s, p)
               PROVE  IsCopy(u, p)
    OBVIOUS
  <2>1. p.seqNum < Len(s.accepted) /\ p = TLP(p.seqNum, s.accepted[p.seqNum + 1])
    BY DEF IsCopy
  <2>2. p.seqNum + 1 \in 1 .. Len(s.accepted) /\ p.seqNum < Len(u.accepted)
    BY <2>1, <1>1, <1>4
  <2>3. u.accepted[p.seqNum + 1] = s.accepted[p.seqNum + 1]
    BY <2>2
  <2> QED
    BY <2>1, <2>2, <2>3 DEF IsCopy
<1> QED
  BY <1>2, <1>3 DEF OnLink

\* transmit() of an allowed packet preserves the invariant of the interface.
LEMMA TransmitKeeps ==
  ASSUME NEW max \in Nat, NEW s, NEW p \in Packet,
         InterfaceInv(s, max), OnLink(s, p)
  PROVE  InterfaceInv(Transmit(s, p), max) /\ Keeps(s, Transmit(s, p))
<1> DEFINE u == Transmit(s, p)
<1>1. s \in LinkState
  BY DEF InterfaceInv
<1>2. /\ u \in LinkState
      /\ u = [s EXCEPT !.packet = IF Busy(s) THEN s.packet ELSE p]
  BY <1>1, TransmitEffect
<1> HIDE DEF u
<1>3. /\ SameData(s, u)
      /\ u.packet \in {s.packet, p}
      /\ u.replayDLLP = s.replayDLLP
      /\ u.retryReq = s.retryReq
      /\ u.retryResp = s.retryResp
      /\ u.ackEvent = s.ackEvent
  BY <1>1, <1>2 DEF LinkState, SameData
<1>4. Offered(u) = Offered(s)
  BY <1>3 DEF Offered, SameData
<1> QED
  BY <1>2, <1>3, <1>4, DataDecides, Zenon DEF u, InterfaceInv, SameData

\* linkTransmitInterface preserves the invariant when it accepts a packet: the
\* next number goes to the next packet.
LEMMA AcceptKeeps ==
  ASSUME NEW max \in Nat, NEW s, NEW master \in BOOLEAN,
         InterfaceInv(s, max), ~Rejects(s),
         Offered(s) < max, max <= IntLimit
  PROVE  LET u == LinkTransmitInterface(s, master)
         IN  InterfaceInv(u, max) /\ Keeps(s, u)
<1> DEFINE pkt == [isResponse |-> master, id |-> Len(s.accepted) + 1]
           tlp == TLP(s.sendSeqNum, pkt)
           u == LinkTransmitInterface(s, master)
<1>1. s \in LinkState
  BY DEF InterfaceInv
<1>2. /\ Len(s.accepted) \in Nat
      /\ Len(s.buffer) \in Nat
      /\ s.sendSeqNum = Len(s.accepted)
      /\ s.sendSeqNum \in Nat
      /\ s.retryReq \in BOOLEAN
      /\ s.retryResp \in BOOLEAN
      /\ s.accepted \in Seq(Pkt)
      /\ pkt \in Pkt
  BY <1>1 DEF LinkState, InterfaceInv, Numbered, Pkt
<1>3. s.sendSeqNum < max
  BY <1>1, <1>2, OfferedCounts
<1>4. s.sendSeqNum < SeqSpace - 1
  BY <1>2, <1>3, ConstantsAssumption
<1>5. /\ u \in LinkState
      /\ u = [s EXCEPT !.packet = IF Busy(s) THEN s.packet ELSE tlp,
                       !.replayPacket = tlp,
                       !.sendSeqNum = s.sendSeqNum + 1,
                       !.accepted = Append(s.accepted, pkt)]
  BY <1>1, <1>4, AcceptEffect, Zenon
<1>6. tlp \in Packet /\ tlp # Null
  BY <1>2, TLPType
<1> HIDE DEF u, tlp, pkt
<1>7. /\ u.packet = IF Busy(s) THEN s.packet ELSE tlp
      /\ u.txQueue = s.txQueue
      /\ u.buffer = s.buffer
      /\ u.sendSeqNum = s.sendSeqNum + 1
      /\ u.recvSeqNum = s.recvSeqNum
      /\ u.replayPacket = tlp
      /\ u.replayDLLP = s.replayDLLP
      /\ u.accepted = Append(s.accepted, pkt)
      /\ u.delivered = s.delivered
      /\ u.retryReq = s.retryReq
      /\ u.retryResp = s.retryResp
      /\ u.ackEvent = s.ackEvent
  BY <1>1, <1>5 DEF LinkState
<1>8. /\ Len(u.accepted) = Len(s.accepted) + 1
      /\ \A i \in 1 .. Len(s.accepted) : u.accepted[i] = s.accepted[i]
      /\ u.accepted[Len(s.accepted) + 1] = pkt
  BY <1>2, <1>7, AppendProperties
<1>9. s.replayPacket = Null /\ Len(s.buffer) < MaxQueueSize
  BY <1>2, ConstantsAssumption DEF Rejects
<1>10. Held(s) = Len(s.buffer) /\ Held(u) = Len(s.buffer) + 1
  BY <1>2, <1>6, <1>7, <1>9 DEF Held
<1>11. Base(u) = Base(s) /\ Base(s) \in Nat /\ Base(s) + Len(s.buffer) = Len(s.accepted)
  BY <1>2, <1>7, <1>10 DEF Base, InterfaceInv, Numbered
<1>12. Offered(u) = Offered(s) + 1 /\ Offered(s) \in Nat
  <2>1. Offered(s) \in Nat /\ Offered(u) \in Nat
    BY <1>1, <1>5, OfferedCounts
  <2>2. Offered(u) - Len(u.accepted) = Offered(s) - Len(s.accepted)
    BY <1>1, <1>5, <1>7, OfferedCounts, Zenon
  <2> QED
    BY <2>1, <2>2, <1>2, <1>8
<1>13. Numbered(u)
  <2>1. Held(u) <= u.sendSeqNum /\ u.sendSeqNum = Len(u.accepted)
    BY <1>2, <1>7, <1>8, <1>10, <1>11
  <2>2. ASSUME NEW i \in 1 .. Len(u.buffer)
        PROVE  u.buffer[i] = TLP(Base(u) + i - 1, u.accepted[Base(u) + i])
    <3>1. s.buffer[i] = TLP(Base(s) + i - 1, s.accepted[Base(s) + i])
      BY <1>7 DEF InterfaceInv, Numbered
    <3>2. Base(s) + i \in 1 .. Len(s.accepted)
      BY <1>2, <1>7, <1>11
    <3> QED
      BY <3>1, <3>2, <1>7, <1>8, <1>11
  <2>3. u.replayPacket = TLP(u.sendSeqNum - 1, u.accepted[u.sendSeqNum])
    BY <1>2, <1>7, <1>8 DEF tlp
  <2> QED
    BY <2>1, <2>2, <2>3 DEF Numbered
<1>14. Room(u)
  BY <1>2, <1>7, <1>9, ConstantsAssumption DEF Room
<1>15. \A p \in Packet : /\ OnLink(s, p) => OnLink(u, p)
                         /\ IsAck(s, p) => IsAck(u, p)
  <2>1. Len(s.accepted) <= Len(u.accepted) /\ s.recvSeqNum <= u.recvSeqNum
    BY <1>1, <1>2, <1>7, <1>8 DEF LinkState
  <2> QED
    BY <2>1, <1>1, <1>5, <1>8, OnLinkStays, Zenon
<1>16. OnLink(u, tlp)
  <2>1. tlp.seqNum = s.sendSeqNum
    BY DEF tlp, TLP
  <2>2. tlp = TLP(tlp.seqNum, u.accepted[tlp.seqNum + 1])
    BY <2>1, <1>2, <1>8 DEF tlp
  <2> QED
    BY <2>1, <2>2, <1>2, <1>8 DEF OnLink, IsCopy
<1>17. s.packet \in Packet /\ s.replayDLLP \in Packet
       /\ \A i \in 1 .. Len(s.txQueue) : s.txQueue[i] \in Packet
  BY <1>1 DEF LinkState
<1>18. u.packet # Null => OnLink(u, u.packet)
  BY <1>7, <1>15, <1>16, <1>17 DEF InterfaceInv
<1>19. InterfaceInv(u, max)
  BY <1>5, <1>7, <1>12, <1>13, <1>14, <1>15, <1>17, <1>18 DEF InterfaceInv
<1>20. Fresh(s) => Fresh(u)
  BY <1>2, <1>6, <1>7, <1>9 DEF Fresh
<1>21. Keeps(s, u)
  BY <1>2, <1>7, <1>8, <1>11, <1>20 DEF Keeps, Preserves
<1> QED
  BY <1>19, <1>21 DEF u

\* Handlers that preserve what the other end sees can be composed.
LEMMA PreservesTransitive ==
  ASSUME NEW s \in LinkState, NEW t \in LinkState, NEW u \in LinkState,
         Preserves(s, t), Preserves(t, u)
  PROVE  Preserves(s, u)
<1>1. /\ Len(s.accepted) \in Nat
      /\ Len(t.accepted) \in Nat
      /\ Len(u.accepted) \in Nat
  BY FieldTypes
<1> QED
  BY <1>1 DEF Preserves

\* Handlers that keep what the other end relies on can be composed.
LEMMA KeepsTransitive ==
  ASSUME NEW s \in LinkState, NEW t \in LinkState, NEW u \in LinkState,
         Keeps(s, t), Keeps(t, u)
  PROVE  Keeps(s, u)
BY PreservesTransitive DEF Keeps

\* linkTransmitInterface preserves the invariant of the interface, whether it
\* accepts the packet or turns it down.
LEMMA OfferKeeps ==
  ASSUME NEW max \in Nat, NEW s, NEW master \in BOOLEAN,
         InterfaceInv(s, max), Offered(s) < max, max <= IntLimit
  PROVE  LET u == LinkTransmitInterface(s, master)
         IN  InterfaceInv(u, max) /\ Keeps(s, u)
<1> DEFINE u == LinkTransmitInterface(s, master)
<1>1. s \in LinkState
  BY DEF InterfaceInv
<1>2. CASE ~Rejects(s)
  BY <1>2, AcceptKeeps
<1>3. CASE Rejects(s)
  <2>1. u = IF master THEN [s EXCEPT !.retryResp = TRUE]
                      ELSE [s EXCEPT !.retryReq = TRUE]
    BY <1>3 DEF LinkTransmitInterface
  <2> HIDE DEF u
  <2>2. u \in LinkState
    BY <1>1, <2>1, Zenon DEF LinkState
  <2>3. /\ SameData(s, u)
        /\ u.packet = s.packet
        /\ u.replayDLLP = s.replayDLLP
        /\ u.ackEvent = s.ackEvent
    BY <1>1, <2>1 DEF LinkState, SameData
  <2>4. Offered(u) <= Offered(s) + 1
    <3> DEFINE Bit(b) == IF b THEN 1 ELSE 0
    <3>1. \A b : Bit(b) \in 0 .. 1
      OBVIOUS
    <3>2. /\ Offered(u) = Len(u.accepted) + Bit(u.retryReq) + Bit(u.retryResp)
          /\ Offered(s) = Len(s.accepted) + Bit(s.retryReq) + Bit(s.retryResp)
          /\ Len(s.accepted) \in Nat
          /\ u.accepted = s.accepted
      BY <1>1, <2>3 DEF Offered, LinkState, SameData
    <3>3. u.retryReq = s.retryReq \/ u.retryResp = s.retryResp
      BY <1>1, <2>1 DEF LinkState
    <3> HIDE DEF Bit
    <3> QED
      BY <3>1, <3>2, <3>3
  <2>5. Offered(u) <= max
    BY <1>1, <2>2, <2>4, OfferedCounts
  <2> QED
    BY <2>2, <2>3, <2>5, DataDecides DEF u, InterfaceInv, SameData
<1> QED
  BY <1>2, <1>3

\* sendRetryReq() and sendRetryResp(), with the packet the device offers from
\* inside, preserve the invariant of the interface.
LEMMA RetryKeeps ==
  ASSUME NEW max \in Nat, NEW s, InterfaceInv(s, max), max <= IntLimit
  PROVE  /\ InterfaceInv(RetryReq(s), max) /\ Keeps(s, RetryReq(s))
         /\ InterfaceInv(RetryResp(s), max) /\ Keeps(s, RetryResp(s))
<1>1. s \in LinkState
  BY DEF InterfaceInv
<1> DEFINE a == [s EXCEPT !.retryReq = FALSE]
           b == [s EXCEPT !.retryResp = FALSE]
<1>2. a \in LinkState /\ b \in LinkState
  BY <1>1, Zenon DEF LinkState
<1>3. /\ SameData(s, a) /\ SameData(s, b)
      /\ a.packet = s.packet /\ b.packet = s.packet
      /\ a.replayDLLP = s.replayDLLP /\ b.replayDLLP = s.replayDLLP
      /\ a.ackEvent = s.ackEvent /\ b.ackEvent = s.ackEvent
      /\ a.retryReq = FALSE /\ a.retryResp = s.retryResp
      /\ b.retryResp = FALSE /\ b.retryReq = s.retryReq
  BY <1>1 DEF LinkState, SameData
<1>4. SameData(s, s)
  BY DEF SameData
<1>5. InterfaceInv(s, max) /\ Keeps(s, s)
  BY <1>1, <1>4, DataDecides DEF InterfaceInv
<1> HIDE DEF a, b
<1>6. /\ s.retryReq => Offered(a) = Offered(s) - 1
      /\ s.retryResp => Offered(b) = Offered(s) - 1
  <2> DEFINE x == IF s.retryReq THEN 1 ELSE 0
             y == IF s.retryResp THEN 1 ELSE 0
  <2>1. Len(s.accepted) \in Nat /\ a.accepted = s.accepted /\ b.accepted = s.accepted
    BY <1>1, <1>3, FieldTypes DEF SameData
  <2>2. /\ Offered(a) = Len(s.accepted) + 0 + y
        /\ Offered(b) = Len(s.accepted) + x + 0
        /\ Offered(s) = Len(s.accepted) + x + y
    BY <1>3, <2>1, Zenon DEF Offered
  <2>3. x \in 0 .. 1 /\ y \in 0 .. 1
    OBVIOUS
  <2>4. (s.retryReq => x = 1) /\ (s.retryResp => y = 1)
    OBVIOUS
  <2> HIDE DEF x, y
  <2>5. /\ x = 1 => Offered(a) = Offered(s) - 1
        /\ y = 1 => Offered(b) = Offered(s) - 1
    BY <2>1, <2>2, <2>3
  <2> QED
    BY <2>4, <2>5
<1>7. Offered(s) \in Nat /\ Offered(a) \in Nat /\ Offered(b) \in Nat
      /\ Offered(s) <= max
  BY <1>1, <1>2, OfferedCounts DEF InterfaceInv
<1>8. InterfaceInv(RetryReq(s), max) /\ Keeps(s, RetryReq(s))
  <2>1. CASE ~s.retryReq
    BY <2>1, <1>5 DEF RetryReq
  <2>2. CASE s.retryReq
    <3>1. Offered(a) < max
      BY <2>2, <1>6, <1>7
    <3>2. InterfaceInv(a, max) /\ Keeps(s, a)
      BY <1>2, <1>3, <3>1, <1>7, DataDecides DEF InterfaceInv, SameData
    <3>3. /\ InterfaceInv(LinkTransmitInterface(a, FALSE), max)
          /\ Keeps(a, LinkTransmitInterface(a, FALSE))
      BY <3>1, <3>2, OfferKeeps, Zenon
    <3>4. LinkTransmitInterface(a, FALSE) \in LinkState
      BY <3>3, Zenon DEF InterfaceInv
    <3>5. Keeps(s, LinkTransmitInterface(a, FALSE))
      BY <1>1, <1>2, <3>2, <3>3, <3>4, KeepsTransitive, Zenon
    <3>6. RetryReq(s) = LinkTransmitInterface(a, FALSE)
      BY <2>2 DEF RetryReq, a
    <3> QED
      BY <3>3, <3>5, <3>6, Zenon
  <2> QED
    BY <2>1, <2>2
<1>9. InterfaceInv(RetryResp(s), max) /\ Keeps(s, RetryResp(s))
  <2>1. CASE ~s.retryResp
    BY <2>1, <1>5 DEF RetryResp
  <2>2. CASE s.retryResp
    <3>1. Offered(b) < max
      BY <2>2, <1>6, <1>7
    <3>2. InterfaceInv(b, max) /\ Keeps(s, b)
      BY <1>2, <1>3, <3>1, <1>7, DataDecides DEF InterfaceInv, SameData
    <3>3. /\ InterfaceInv(LinkTransmitInterface(b, TRUE), max)
          /\ Keeps(b, LinkTransmitInterface(b, TRUE))
      BY <3>1, <3>2, OfferKeeps, Zenon
    <3>4. LinkTransmitInterface(b, TRUE) \in LinkState
      BY <3>3, Zenon DEF InterfaceInv
    <3>5. Keeps(s, LinkTransmitInterface(b, TRUE))
      BY <1>1, <1>2, <3>2, <3>3, <3>4, KeepsTransitive, Zenon
    <3>6. RetryResp(s) = LinkTransmitInterface(b, TRUE)
      BY <2>2 DEF RetryResp, b
    <3> QED
      BY <3>3, <3>5, <3>6, Zenon
  <2> QED
    BY <2>1, <2>2
<1> QED
  BY <1>8, <1>9

\* The two retries in a row preserve it too.
LEMMA RetriesKeep ==
  ASSUME NEW max \in Nat, NEW s, InterfaceInv(s, max), max <= IntLimit
  PROVE  InterfaceInv(Retry(s), max) /\ Keeps(s, Retry(s))
<1>1. InterfaceInv(RetryReq(s), max) /\ Keeps(s, RetryReq(s))
  BY RetryKeeps
<1>2. InterfaceInv(Retry(s), max) /\ Keeps(RetryReq(s), Retry(s))
  BY <1>1, RetryKeeps DEF Retry
<1>3. s \in LinkState /\ RetryReq(s) \in LinkState /\ Retry(s) \in LinkState
  BY <1>1, <1>2 DEF InterfaceInv
<1> QED
  BY <1>1, <1>2, <1>3, KeepsTransitive

-----------------------------------------------------------------------------
(* Acknowledgements *)

\* The loop of linkReceiveInterface stops after the last packet that the Ack
\* covers.
LEMMA AckedCounts ==
  ASSUME NEW buffer \in Seq(Packet), NEW base \in Nat, NEW n \in Nat,
         \A i \in 1 .. Len(buffer) : buffer[i].seqNum = base + i - 1
  PROVE  /\ Acked(buffer, n) \in 0 .. Len(buffer)
         /\ Acked(buffer, n) > 0 => base + Acked(buffer, n) - 1 <= n
<1> DEFINE P(k) == /\ \A i \in 1 .. k : buffer[i].seqNum <= n
                   /\ k < Len(buffer) => buffer[k + 1].seqNum > n
           m == IF n < base THEN 0
                ELSE IF n - base + 1 > Len(buffer) THEN Len(buffer)
                ELSE n - base + 1
<1>1. Len(buffer) \in Nat
  OBVIOUS
<1>2. m \in 0 .. Len(buffer)
  BY <1>1
<1>3. P(m)
  <2>1. ASSUME NEW i \in 1 .. m PROVE buffer[i].seqNum <= n
    <3>1. i \in 1 .. Len(buffer) /\ base + i - 1 <= n
      BY <1>1, <1>2
    <3> QED
      BY <3>1
  <2>2. ASSUME m < Len(buffer) PROVE buffer[m + 1].seqNum > n
    <3>1. m + 1 \in 1 .. Len(buffer) /\ base + (m + 1) - 1 > n
      BY <2>2, <1>1, <1>2
    <3> QED
      BY <3>1
  <2> QED
    BY <2>1, <2>2
<1>4. \E k \in 0 .. Len(buffer) : P(k)
  BY <1>2, <1>3, Zenon
<1>5. Acked(buffer, n) \in 0 .. Len(buffer) /\ P(Acked(buffer, n))
  BY <1>4, Zenon DEF Acked
<1> QED
  BY <1>1, <1>5

\* An Ack for a packet the other end has taken removes only packets the other
\* end has taken.
LEMMA PurgeKeeps ==
  ASSUME NEW max \in Nat, NEW s, NEW n \in Nat, NEW r \in Nat,
         InterfaceInv(s, max), n < r, Base(s) <= r
  PROVE  LET w == ApplyAck(s, n)
         IN  /\ InterfaceInv(w, max)
             /\ Base(w) <= r
             /\ w.recvSeqNum = s.recvSeqNum
             /\ w.delivered = s.delivered
             /\ w.txQueue = s.txQueue
             /\ w.accepted = s.accepted
<1> DEFINE k == Acked(s.buffer, n)
           rest == Purge(s.buffer, n)
           w == [s EXCEPT !.buffer = rest, !.timeoutEvent = rest # <<>>]
<1> HIDE DEF k, rest, w
<1>1. s \in LinkState
  BY DEF InterfaceInv
<1>2. /\ s.buffer \in Seq(Packet) /\ Len(s.buffer) \in Nat
      /\ s.sendSeqNum \in Nat
  BY <1>1, FieldTypes
<1>3. /\ Held(s) \in Nat
      /\ Base(s) \in Nat
      /\ s.replayPacket = Null => Held(s) = Len(s.buffer)
      /\ s.replayPacket # Null => Held(s) = Len(s.buffer) + 1
  BY <1>1, <1>2, HeldCounts DEF InterfaceInv, Numbered, Base
<1>4. \A i \in 1 .. Len(s.buffer) : s.buffer[i].seqNum = Base(s) + i - 1
  <2>1. \A m, pkt : TLP(m, pkt).seqNum = m
    BY DEF TLP
  <2> QED
    BY <2>1 DEF InterfaceInv, Numbered
<1>5. k \in 0 .. Len(s.buffer) /\ (k > 0 => Base(s) + k - 1 <= n)
  BY <1>2, <1>3, <1>4, AckedCounts, Zenon DEF k
<1>6. /\ rest \in Seq(Packet)
      /\ Len(rest) = Len(s.buffer) - k
      /\ \A i \in 1 .. Len(rest) : rest[i] = s.buffer[k + i]
  <2>1. \A i \in k + 1 .. Len(s.buffer) : s.buffer[i] \in Packet
    BY <1>2, <1>5
  <2>2. /\ SubSeq(s.buffer, k + 1, Len(s.buffer)) \in Seq(Packet)
        /\ Len(SubSeq(s.buffer, k + 1, Len(s.buffer))) =
             IF k + 1 <= Len(s.buffer) THEN Len(s.buffer) - (k + 1) + 1 ELSE 0
        /\ \A i \in 1 .. Len(s.buffer) - (k + 1) + 1 :
             SubSeq(s.buffer, k + 1, Len(s.buffer))[i] = s.buffer[k + 1 + i - 1]
    BY <1>2, <1>5, <2>1, SubSeqProperties
  <2>3. rest = SubSeq(s.buffer, k + 1, Len(s.buffer))
    BY DEF Purge, k, rest
  <2>4. Len(rest) = Len(s.buffer) - k
    BY <1>2, <1>5, <2>2, <2>3
  <2>5. ASSUME NEW i \in 1 .. Len(rest)
        PROVE  rest[i] = s.buffer[k + i]
    <3>1. i \in 1 .. Len(s.buffer) - (k + 1) + 1
      BY <1>2, <1>5, <2>4
    <3>2. k + 1 + i - 1 = k + i
      BY <1>2, <1>5, <3>1
    <3> QED
      BY <3>1, <3>2, <2>2, <2>3
  <2> QED
    BY <2>2, <2>3, <2>4, <2>5
<1>7. w \in LinkState
  BY <1>1, <1>6, Zenon DEF LinkState, w
<1>8. /\ w.buffer = rest
      /\ w.packet = s.packet
      /\ w.txQueue = s.txQueue
      /\ w.sendSeqNum = s.sendSeqNum
      /\ w.recvSeqNum = s.recvSeqNum
      /\ w.replayPacket = s.replayPacket
      /\ w.replayDLLP = s.replayDLLP
      /\ w.accepted = s.accepted
      /\ w.delivered = s.delivered
      /\ w.retryReq = s.retryReq
      /\ w.retryResp = s.retryResp
      /\ w.ackEvent = s.ackEvent
  BY <1>1 DEF LinkState, w
<1>9. Held(w) = Held(s) - k /\ Base(w) = Base(s) + k
  <2>1. Held(w) = Held(s) - k
    <3>1. Len(w.buffer) = Len(s.buffer) - k
      BY <1>6, <1>8
    <3>2. CASE s.replayPacket = Null
      BY <3>1, <3>2, <1>2, <1>3, <1>5, <1>8 DEF Held
    <3>3. CASE s.replayPacket # Null
      BY <3>1, <3>3, <1>2, <1>3, <1>5, <1>8 DEF Held
    <3> QED
      BY <3>2, <3>3
  <2> QED
    BY <2>1, <1>2, <1>3, <1>5, <1>8 DEF Base
<1>10. Base(w) <= r
  BY <1>3, <1>5, <1>9
<1>11. Offered(w) = Offered(s)
  BY <1>8 DEF Offered
<1>12. Numbered(w)
  <2>1. w.sendSeqNum = Len(w.accepted) /\ Held(w) <= w.sendSeqNum
    BY <1>2, <1>3, <1>5, <1>8, <1>9 DEF InterfaceInv, Numbered
  <2>2. ASSUME NEW i \in 1 .. Len(w.buffer)
        PROVE  w.buffer[i] = TLP(Base(w) + i - 1, w.accepted[Base(w) + i])
    <3>1. w.buffer[i] = s.buffer[k + i] /\ k + i \in 1 .. Len(s.buffer)
      BY <1>2, <1>5, <1>6, <1>8
    <3>2. s.buffer[k + i] =
            TLP(Base(s) + (k + i) - 1, s.accepted[Base(s) + (k + i)])
      BY <3>1 DEF InterfaceInv, Numbered
    <3>3. /\ Base(s) + (k + i) = Base(w) + i
          /\ Base(s) + (k + i) - 1 = Base(w) + i - 1
      BY <3>1, <1>2, <1>3, <1>5, <1>9
    <3> QED
      BY <3>1, <3>2, <3>3, <1>8
  <2> QED
    BY <2>1, <2>2, <1>8 DEF InterfaceInv, Numbered
<1>13. Room(w)
  <2>1. Len(w.buffer) <= Len(s.buffer) /\ Len(w.buffer) \in Nat
    BY <1>2, <1>5, <1>6, <1>8
  <2> QED
    BY <2>1, <1>2, <1>8, ConstantsAssumption DEF Room, InterfaceInv
<1>14. \A p : OnLink(w, p) = OnLink(s, p) /\ IsAck(w, p) = IsAck(s, p)
  BY <1>8 DEF OnLink, IsAck, IsCopy
<1>15. InterfaceInv(w, max)
  BY <1>7, <1>8, <1>11, <1>12, <1>13, <1>14 DEF InterfaceInv
<1>16. w = ApplyAck(s, n)
  BY DEF w, rest, ApplyAck
<1> QED
  BY <1>8, <1>10, <1>15, <1>16

\* The effect of an Ack that arrives at s from an end that has taken r packets.
TakesAck(s, r, u) ==
  /\ Base(u) <= r
  /\ u.recvSeqNum = s.recvSeqNum
  /\ u.delivered = s.delivered
  /\ u.txQueue = s.txQueue
  /\ Len(s.accepted) <= Len(u.accepted)
  /\ \A i \in 1 .. Len(s.accepted) : u.accepted[i] = s.accepted[i]

\* The same for the whole of linkReceiveInterface with an Ack, the retries
\* included.
LEMMA ReceiveDLLPKeeps ==
  ASSUME NEW max \in Nat, NEW s, NEW p \in Packet, NEW r \in Nat,
         InterfaceInv(s, max), max <= IntLimit, p.seqNum < r, Base(s) <= r
  PROVE  /\ InterfaceInv(ReceiveDLLP(s, p), max)
         /\ TakesAck(s, r, ReceiveDLLP(s, p))
<1> DEFINE w == ApplyAck(s, p.seqNum)
<1>1. p.seqNum \in Nat
  BY DEF Packet
<1>2. /\ InterfaceInv(w, max)
      /\ Base(w) <= r
      /\ w.recvSeqNum = s.recvSeqNum
      /\ w.delivered = s.delivered
      /\ w.txQueue = s.txQueue
      /\ w.accepted = s.accepted
  BY <1>1, PurgeKeeps
<1>3. ReceiveDLLP(s, p) = Retry(w)
  BY DEF ReceiveDLLP
<1> HIDE DEF w
<1>4. InterfaceInv(Retry(w), max) /\ Keeps(w, Retry(w))
  BY <1>2, RetriesKeep
<1> QED
  BY <1>2, <1>3, <1>4 DEF Keeps, Preserves, TakesAck

\* Once a packet was received, and below 2^31, the Ack that is sent covers
\* exactly what was received: neither recvSeqNum - 1 nor the passage through
\* int goes wrong.
LEMMA AckIsEarned ==
  ASSUME NEW s, NEW max, InterfaceInv(s, max), s.recvSeqNum \in 1 .. IntLimit
  PROVE  /\ AckOf(s) \in Packet
         /\ IsAck(s, AckOf(s))
         /\ Minus1(s.recvSeqNum) \in Nat
<1>1. IntLimit \in Nat
  BY ConstantsAssumption
<1>2. Minus1(s.recvSeqNum) = s.recvSeqNum - 1 /\ s.recvSeqNum - 1 \in Nat
  BY <1>1 DEF Minus1
<1>3. ThroughInt(s.recvSeqNum - 1) = s.recvSeqNum - 1
  BY <1>1, <1>2 DEF ThroughInt
<1>4. AckOf(s) = DLLP(s.recvSeqNum - 1)
  BY <1>2, <1>3 DEF AckOf
<1>5. DLLP(s.recvSeqNum - 1) \in Packet
  BY <1>2 DEF DLLP, Packet, NoPkt, Pkt
<1>6. IsAck(s, DLLP(s.recvSeqNum - 1))
  BY <1>1, <1>2 DEF IsAck, DLLP
<1> QED
  BY <1>2, <1>4, <1>5, <1>6

\* Sending or deferring that Ack preserves the invariant of the interface.
LEMMA AcknowledgeKeeps ==
  ASSUME NEW max \in Nat, NEW s, InterfaceInv(s, max),
         s.recvSeqNum \in 1 .. IntLimit
  PROVE  InterfaceInv(Acknowledge(s), max) /\ Keeps(s, Acknowledge(s))
<1>1. s \in LinkState
  BY DEF InterfaceInv
<1>2. AckOf(s) \in Packet /\ IsAck(s, AckOf(s)) /\ Minus1(s.recvSeqNum) \in Nat
  BY AckIsEarned
<1>3. CASE s.ackEvent
  <2>1. SameData(s, s)
    BY DEF SameData
  <2>2. Acknowledge(s) = s
    BY <1>3 DEF Acknowledge
  <2> QED
    BY <2>1, <2>2, <1>1, DataDecides DEF InterfaceInv
<1>4. CASE ~s.ackEvent /\ ~Busy(s)
  <2>1. Acknowledge(s) = Transmit(s, AckOf(s))
    BY <1>4 DEF Acknowledge
  <2> QED
    BY <2>1, <1>2, TransmitKeeps DEF OnLink
<1>5. CASE ~s.ackEvent /\ Busy(s)
  <2> DEFINE u == [s EXCEPT !.replayDLLP = AckOf(s),
                            !.lastAcked = Minus1(s.recvSeqNum),
                            !.ackEvent = TRUE]
  <2>1. Acknowledge(s) = u
    BY <1>5 DEF Acknowledge
  <2>2. u \in LinkState
    BY <1>1, <1>2, Zenon DEF LinkState
  <2>3. /\ SameData(s, u)
        /\ u.packet = s.packet
        /\ u.replayDLLP = AckOf(s)
        /\ u.retryReq = s.retryReq
        /\ u.retryResp = s.retryResp
    BY <1>1 DEF LinkState, SameData
  <2> HIDE DEF u
  <2>4. Offered(u) = Offered(s)
    BY <2>3 DEF Offered, SameData
  <2>5. u.recvSeqNum > 0
    BY <2>3, ConstantsAssumption DEF SameData
  <2> QED
    BY <2>1, <2>2, <2>3, <2>4, <2>5, <1>2, DataDecides DEF InterfaceInv
<1> QED
  BY <1>3, <1>4, <1>5

-----------------------------------------------------------------------------
(* Arriving TLPs *)

\* The effect of a TLP p that arrives at t: it is taken if it has the expected
\* number and the device accepts it.
TakesTLP(t, p, accept, u) ==
  /\ u.txQueue = t.txQueue
  /\ Len(t.accepted) <= Len(u.accepted)
  /\ \A i \in 1 .. Len(t.accepted) : u.accepted[i] = t.accepted[i]
  /\ Base(u) = Base(t)
  /\ Fresh(t) => Fresh(u)
  /\ \/ /\ ~(p.seqNum = t.recvSeqNum /\ accept)
        /\ u.recvSeqNum = t.recvSeqNum
        /\ u.delivered = t.delivered
     \/ /\ p.seqNum = t.recvSeqNum /\ accept
        /\ u.recvSeqNum = t.recvSeqNum + 1
        /\ u.delivered = Append(t.delivered, p.pkt)

\* linkReceiveInterface with a TLP takes it or not, and preserves the invariant
\* of the interface.
LEMMA ReceiveTLPKeeps ==
  ASSUME NEW max \in Nat, NEW t, NEW p \in Packet, NEW accept \in BOOLEAN,
         InterfaceInv(t, max), t.recvSeqNum <= IntLimit,
         p.seqNum # t.recvSeqNum => t.recvSeqNum > 0,
         p.seqNum = t.recvSeqNum => t.recvSeqNum < IntLimit
  PROVE  /\ InterfaceInv(ReceiveTLP(t, p, accept), max)
         /\ TakesTLP(t, p, accept, ReceiveTLP(t, p, accept))
<1>1. t \in LinkState
  BY DEF InterfaceInv
<1>2. /\ t.recvSeqNum \in Nat /\ Len(t.accepted) \in Nat
      /\ t.delivered \in Seq(Pkt)
  BY <1>1, FieldTypes
<1>3. CASE p.seqNum # t.recvSeqNum
  <2>1. ReceiveTLP(t, p, accept) = Acknowledge(t)
    BY <1>3 DEF ReceiveTLP
  <2>2. t.recvSeqNum \in 1 .. IntLimit
    BY <1>2, <1>3, ConstantsAssumption
  <2>3. InterfaceInv(Acknowledge(t), max) /\ Keeps(t, Acknowledge(t))
    BY <2>2, AcknowledgeKeeps
  <2> QED
    BY <1>3, <2>1, <2>3 DEF Keeps, Preserves, TakesTLP
<1>4. CASE p.seqNum = t.recvSeqNum /\ ~accept
  <2>1. ReceiveTLP(t, p, accept) = t
    BY <1>4 DEF ReceiveTLP
  <2> QED
    BY <1>2, <1>4, <2>1 DEF TakesTLP
<1>5. CASE p.seqNum = t.recvSeqNum /\ accept
  <2> DEFINE d == [t EXCEPT !.recvSeqNum = Plus1(t.recvSeqNum),
                            !.delivered = Append(t.delivered, p.pkt)]
  <2>1. ReceiveTLP(t, p, accept) = Acknowledge(d)
    BY <1>5 DEF ReceiveTLP
  <2>2. Plus1(t.recvSeqNum) = t.recvSeqNum + 1
    BY <1>2, <1>5, ConstantsAssumption DEF Plus1
  <2>3. p.pkt \in Pkt
    BY DEF Packet
  <2>4. Append(t.delivered, p.pkt) \in Seq(Pkt)
    BY <1>2, <2>3
  <2>5. d \in LinkState
    <3>1. \A n \in Nat, q \in Seq(Pkt) :
            [t EXCEPT !.recvSeqNum = n, !.delivered = q] \in LinkState
      BY <1>1, Zenon DEF LinkState
    <3>2. Plus1(t.recvSeqNum) \in Nat
      BY <1>2, <2>2
    <3> QED
      BY <3>1, <3>2, <2>4, Zenon
  <2>6. /\ d.recvSeqNum = t.recvSeqNum + 1
        /\ d.delivered = Append(t.delivered, p.pkt)
        /\ d.packet = t.packet
        /\ d.txQueue = t.txQueue
        /\ d.buffer = t.buffer
        /\ d.sendSeqNum = t.sendSeqNum
        /\ d.replayPacket = t.replayPacket
        /\ d.replayDLLP = t.replayDLLP
        /\ d.accepted = t.accepted
        /\ d.retryReq = t.retryReq
        /\ d.retryResp = t.retryResp
    BY <1>1, <2>2 DEF LinkState
  <2> HIDE DEF d
  <2>7. /\ Base(d) = Base(t) /\ Held(d) = Held(t) /\ Fresh(d) = Fresh(t)
        /\ Offered(d) = Offered(t)
    BY <2>6 DEF Base, Held, Fresh, Offered
  <2>8. Numbered(d) /\ Room(d)
    BY <2>6, <2>7 DEF InterfaceInv, Numbered, Room
  <2>9. \A q \in Packet : /\ OnLink(t, q) => OnLink(d, q)
                          /\ IsAck(t, q) => IsAck(d, q)
    <3>1. Len(t.accepted) <= Len(d.accepted) /\ t.recvSeqNum <= d.recvSeqNum
      BY <1>2, <2>6
    <3> QED
      BY <3>1, <1>1, <2>5, <2>6, OnLinkStays
  <2>10. t.packet \in Packet /\ t.replayDLLP \in Packet
         /\ \A i \in 1 .. Len(t.txQueue) : t.txQueue[i] \in Packet
    BY <1>1 DEF LinkState
  <2>11. d.recvSeqNum \in 1 .. IntLimit /\ d.recvSeqNum > 0
    BY <1>2, <1>5, <2>6, ConstantsAssumption
  <2>12. InterfaceInv(d, max)
    BY <2>5, <2>6, <2>7, <2>8, <2>9, <2>10, <2>11 DEF InterfaceInv
  <2>13. InterfaceInv(Acknowledge(d), max) /\ Keeps(d, Acknowledge(d))
    BY <2>11, <2>12, AcknowledgeKeeps
  <2> QED
    BY <1>5, <2>1, <2>6, <2>7, <2>13, Zenon DEF Keeps, Preserves, TakesTLP
<1> QED
  BY <1>3, <1>4, <1>5

-----------------------------------------------------------------------------
(* The end of a transmission, the replay timer and the Ack timer *)

\* Every packet the interface holds may be put on the link.
LEMMA HeldOnLink ==
  ASSUME NEW max \in Nat, NEW s, InterfaceInv(s, max)
  PROVE  /\ \A i \in 1 .. Len(s.buffer) :
              s.buffer[i] \in Packet /\ OnLink(s, s.buffer[i])
         /\ s.replayPacket # Null => OnLink(s, s.replayPacket)
<1>1. s \in LinkState
  BY DEF InterfaceInv
<1>2. /\ s.buffer \in Seq(Packet) /\ Len(s.buffer) \in Nat
      /\ s.sendSeqNum \in Nat /\ Len(s.accepted) \in Nat
  BY <1>1, FieldTypes
<1>3. /\ Held(s) \in Nat
      /\ s.replayPacket = Null => Held(s) = Len(s.buffer)
      /\ s.replayPacket # Null => Held(s) = Len(s.buffer) + 1
  BY <1>1, HeldCounts
<1>4. /\ s.sendSeqNum = Len(s.accepted)
      /\ Held(s) <= s.sendSeqNum
      /\ \A i \in 1 .. Len(s.buffer) :
           s.buffer[i] = TLP(Base(s) + i - 1, s.accepted[Base(s) + i])
      /\ s.replayPacket # Null =>
           s.replayPacket = TLP(s.sendSeqNum - 1, s.accepted[s.sendSeqNum])
  BY DEF InterfaceInv, Numbered
<1>5. Base(s) \in Nat /\ Base(s) + Held(s) = Len(s.accepted)
  BY <1>2, <1>3, <1>4 DEF Base
<1>6. \A n, pkt : TLP(n, pkt).seqNum = n
  BY DEF TLP
<1>7. ASSUME NEW i \in 1 .. Len(s.buffer)
      PROVE  s.buffer[i] \in Packet /\ OnLink(s, s.buffer[i])
  <2>1. s.buffer[i].seqNum = Base(s) + i - 1
    BY <1>4, <1>6
  <2>2. /\ Base(s) + i - 1 < Len(s.accepted)
        /\ (Base(s) + i - 1) + 1 = Base(s) + i
    BY <1>2, <1>3, <1>5
  <2>3. IsCopy(s, s.buffer[i])
    BY <1>4, <2>1, <2>2 DEF IsCopy
  <2> QED
    BY <1>2, <2>3 DEF OnLink
<1>8. ASSUME s.replayPacket # Null
      PROVE  OnLink(s, s.replayPacket)
  <2>1. s.replayPacket.seqNum = s.sendSeqNum - 1
    BY <1>4, <1>6, <1>8
  <2>2. IsCopy(s, s.replayPacket)
    BY <1>2, <1>4, <1>8, <2>1 DEF IsCopy
  <2> QED
    BY <2>2 DEF OnLink
<1> QED
  BY <1>7, <1>8

\* The first part of txDone, which sends a pending Ack, preserves the invariant
\* of the interface.
LEMMA PendingDLLPKeeps ==
  ASSUME NEW max \in Nat, NEW s, InterfaceInv(s, max)
  PROVE  LET u == TransmitPendingDLLP(s)
         IN  /\ InterfaceInv(u, max)
             /\ Keeps(s, u)
             /\ u.replayPacket = s.replayPacket
<1>1. s \in LinkState
  BY DEF InterfaceInv
<1>2. CASE s.replayDLLP = Null
  <2>1. TransmitPendingDLLP(s) = s
    BY <1>2 DEF TransmitPendingDLLP
  <2>2. SameData(s, s)
    BY DEF SameData
  <2> QED
    BY <2>1, <2>2, <1>1, DataDecides DEF InterfaceInv
<1>3. CASE s.replayDLLP # Null
  <2> DEFINE t == Transmit(s, s.replayDLLP)
             u == [t EXCEPT !.replayDLLP = Null]
  <2>1. /\ t \in LinkState
        /\ t = [s EXCEPT !.packet = IF Busy(s) THEN s.packet ELSE s.replayDLLP]
    BY <1>1, FieldTypes, TransmitEffect, Zenon
  <2>2. TransmitPendingDLLP(s) = u
    BY <1>3 DEF TransmitPendingDLLP
  <2> HIDE DEF t
  <2>3. u \in LinkState /\ u.replayDLLP = Null
    BY <2>1, NullType, Zenon DEF LinkState
  <2>4. /\ SameData(s, u)
        /\ u.packet \in {s.packet, s.replayDLLP}
        /\ u.retryReq = s.retryReq
        /\ u.retryResp = s.retryResp
        /\ u.ackEvent = s.ackEvent
    BY <1>1, <2>1 DEF LinkState, SameData
  <2> HIDE DEF u
  <2>5. Offered(u) = Offered(s)
    BY <2>4 DEF Offered, SameData
  <2>6. u.packet # Null => OnLink(s, u.packet)
    BY <1>3, <2>4 DEF InterfaceInv, OnLink
  <2> QED
    BY <2>2, <2>3, <2>4, <2>5, <2>6, DataDecides DEF InterfaceInv, SameData
<1> QED
  BY <1>2, <1>3

\* The interface after the first transmission of replayPacket has ended.
Stored(s) == [s EXCEPT !.buffer = PushBack(s.buffer, s.replayPacket),
                       !.replayPacket = Null,
                       !.timeoutEvent = TRUE]

\* Storing the transmitted packet keeps the numbers of the replay buffer
\* consecutive, and finds room.
LEMMA StoredKeeps ==
  ASSUME NEW max \in Nat, NEW s, InterfaceInv(s, max), s.replayPacket # Null
  PROVE  InterfaceInv(Stored(s), max) /\ Preserves(s, Stored(s))
<1> DEFINE w == Stored(s)
           b == Append(s.buffer, s.replayPacket)
<1>1. s \in LinkState
  BY DEF InterfaceInv
<1>2. /\ s.buffer \in Seq(Packet) /\ Len(s.buffer) \in Nat
      /\ s.sendSeqNum \in Nat /\ Len(s.accepted) \in Nat
      /\ s.replayPacket \in Packet
  BY <1>1, FieldTypes
<1>3. PushBack(s.buffer, s.replayPacket) = b
  BY <1>2, ConstantsAssumption DEF PushBack, InterfaceInv, Room
<1>4. /\ b \in Seq(Packet)
      /\ Len(b) = Len(s.buffer) + 1
      /\ \A i \in 1 .. Len(s.buffer) : b[i] = s.buffer[i]
      /\ b[Len(s.buffer) + 1] = s.replayPacket
  BY <1>2, AppendProperties
<1> HIDE DEF b, w
<1>5. w \in LinkState
  BY <1>1, <1>3, <1>4, NullType, Zenon DEF LinkState, Stored, w
<1>6. /\ w.buffer = b
      /\ w.replayPacket = Null
      /\ w.packet = s.packet
      /\ w.txQueue = s.txQueue
      /\ w.sendSeqNum = s.sendSeqNum
      /\ w.recvSeqNum = s.recvSeqNum
      /\ w.replayDLLP = s.replayDLLP
      /\ w.accepted = s.accepted
      /\ w.delivered = s.delivered
      /\ w.retryReq = s.retryReq
      /\ w.retryResp = s.retryResp
      /\ w.ackEvent = s.ackEvent
  BY <1>1, <1>3 DEF LinkState, Stored, w
<1>7. Held(w) = Held(s) /\ Held(s) = Len(s.buffer) + 1 /\ Held(s) \in Nat
  <2>1. Held(s) = Len(s.buffer) + 1 /\ Held(s) \in Nat
    BY <1>1, HeldCounts
  <2>2. Held(w) = Len(w.buffer)
    BY <1>5, <1>6, HeldCounts
  <2> QED
    BY <2>1, <2>2, <1>4, <1>6
<1>8. Base(w) = Base(s) /\ Offered(w) = Offered(s)
  BY <1>6, <1>7 DEF Base, Offered
<1>9. Base(s) + Held(s) = s.sendSeqNum /\ s.sendSeqNum = Len(s.accepted)
      /\ Base(s) \in Nat
  <2>1. s.sendSeqNum = Len(s.accepted) /\ Held(s) <= s.sendSeqNum
    BY DEF InterfaceInv, Numbered
  <2>2. Held(s) \in Nat /\ s.sendSeqNum \in Nat
    BY <1>2, <1>7
  <2>3. Base(s) = s.sendSeqNum - Held(s)
    BY DEF Base
  <2> QED
    BY <2>1, <2>2, <2>3
<1>10. Numbered(w)
  <2>1. w.sendSeqNum = Len(w.accepted) /\ Held(w) <= w.sendSeqNum
    BY <1>6, <1>7 DEF InterfaceInv, Numbered
  <2>2. ASSUME NEW i \in 1 .. Len(w.buffer)
        PROVE  w.buffer[i] = TLP(Base(w) + i - 1, w.accepted[Base(w) + i])
    <3>1. CASE i \in 1 .. Len(s.buffer)
      BY <3>1, <1>4, <1>6, <1>8 DEF InterfaceInv, Numbered
    <3>2. CASE i = Len(s.buffer) + 1
      <4>1. w.buffer[i] = TLP(s.sendSeqNum - 1, s.accepted[s.sendSeqNum])
        BY <3>2, <1>4, <1>6 DEF InterfaceInv, Numbered
      <4>2. Base(w) + i = s.sendSeqNum /\ Base(w) + i - 1 = s.sendSeqNum - 1
        BY <3>2, <1>2, <1>7, <1>8, <1>9
      <4> QED
        BY <4>1, <4>2, <1>6
    <3> QED
      BY <3>1, <3>2, <1>2, <1>4, <1>6
  <2> QED
    BY <2>1, <2>2, <1>6 DEF Numbered
<1>11. Room(w)
  BY <1>2, <1>4, <1>6, ConstantsAssumption DEF Room, InterfaceInv
<1>12. \A p : OnLink(w, p) = OnLink(s, p) /\ IsAck(w, p) = IsAck(s, p)
  BY <1>6 DEF OnLink, IsAck, IsCopy
<1>13. InterfaceInv(w, max)
  BY <1>5, <1>6, <1>8, <1>10, <1>11, <1>12 DEF InterfaceInv
<1>14. Preserves(s, w)
  BY <1>2, <1>6, <1>8 DEF Preserves
<1> QED
  BY <1>13, <1>14 DEF w

\* The second part of txDone, which stores a packet that was transmitted for
\* the first time, preserves the invariant of the interface.
LEMMA FirstTransmissionKeeps ==
  ASSUME NEW max \in Nat, NEW s, NEW p \in Packet, InterfaceInv(s, max),
         max <= IntLimit, p # Null
  PROVE  LET u == StoreFirstTransmission(s, p)
         IN  /\ InterfaceInv(u, max)
             /\ Preserves(s, u)
             /\ p # s.replayPacket => Keeps(s, u)
<1>1. s \in LinkState
  BY DEF InterfaceInv
<1>2. CASE p # s.replayPacket
  <2>1. StoreFirstTransmission(s, p) = s
    BY <1>2 DEF StoreFirstTransmission
  <2>2. SameData(s, s)
    BY DEF SameData
  <2>3. Keeps(s, s)
    BY <2>2, <1>1, DataDecides DEF InterfaceInv
  <2> QED
    BY <2>1, <2>3 DEF Keeps
<1>3. CASE p = s.replayPacket
  <2>1. StoreFirstTransmission(s, p) = Retry(Stored(s))
    BY <1>3 DEF StoreFirstTransmission, Stored
  <2>2. InterfaceInv(Stored(s), max) /\ Preserves(s, Stored(s))
    BY <1>3, StoredKeeps
  <2>3. /\ InterfaceInv(Retry(Stored(s)), max)
        /\ Preserves(Stored(s), Retry(Stored(s)))
    BY <2>2, RetriesKeep DEF Keeps
  <2>4. Preserves(s, Retry(Stored(s)))
    <3>1. Len(s.accepted) \in Nat /\ Len(Stored(s).accepted) \in Nat
          /\ Len(Retry(Stored(s)).accepted) \in Nat
      BY <1>1, <2>2, <2>3, FieldTypes DEF InterfaceInv
    <3> QED
      BY <3>1, <2>2, <2>3 DEF Preserves
  <2> QED
    BY <1>3, <2>1, <2>3, <2>4
<1> QED
  BY <1>2, <1>3

\* Changing timers and replay flags alone preserves the invariant of the
\* interface.
LEMMA FlagsKeep ==
  ASSUME NEW max \in Nat, NEW s, NEW u \in LinkState, InterfaceInv(s, max),
         SameData(s, u), u.packet = s.packet, u.replayDLLP = s.replayDLLP,
         u.retryReq = s.retryReq, u.retryResp = s.retryResp,
         u.ackEvent => s.ackEvent
  PROVE  InterfaceInv(u, max) /\ Keeps(s, u)
<1>1. Offered(u) = Offered(s)
  BY DEF Offered, SameData
<1> QED
  BY <1>1, DataDecides, Zenon DEF InterfaceInv, SameData

\* The last part of txDone, which sends a pending TLP, preserves the invariant
\* of the interface.
LEMMA PendingTLPKeeps ==
  ASSUME NEW max \in Nat, NEW s, InterfaceInv(s, max)
  PROVE  /\ InterfaceInv(TransmitPendingTLP(s), max)
         /\ Keeps(s, TransmitPendingTLP(s))
<1>1. s \in LinkState
  BY DEF InterfaceInv
<1>2. CASE s.replayPacket # Null
  <2>1. s.replayPacket \in Packet /\ OnLink(s, s.replayPacket)
    BY <1>1, <1>2, FieldTypes, HeldOnLink
  <2> QED
    BY <1>2, <2>1, TransmitKeeps DEF TransmitPendingTLP
<1>3. CASE s.replayPacket = Null
  <2>1. TransmitPendingTLP(s) = s /\ SameData(s, s)
    BY <1>3 DEF TransmitPendingTLP, SameData
  <2> QED
    BY <1>1, <2>1, FlagsKeep
<1> QED
  BY <1>2, <1>3

\* So does the part of txDone that replays the next entry of the buffer.
LEMMA ReplayKeeps ==
  ASSUME NEW max \in Nat, NEW s, InterfaceInv(s, max), max <= IntLimit
  PROVE  InterfaceInv(ReplayOrPending(s), max) /\ Keeps(s, ReplayOrPending(s))
<1>1. s \in LinkState
  BY DEF InterfaceInv
<1>2. s.retransmit \in BOOLEAN /\ s.retransmitIdx \in Nat /\ Len(s.buffer) \in Nat
  BY <1>1, FieldTypes
<1>3. CASE ~s.retransmit
  BY <1>3, PendingTLPKeeps DEF ReplayOrPending
<1>4. CASE s.retransmit /\ s.retransmitIdx >= Len(s.buffer)
  <2> DEFINE w == [s EXCEPT !.timeoutEvent = TRUE,
                            !.retransmitIdx = 0,
                            !.retransmit = FALSE]
  <2>1. ReplayOrPending(s) = TransmitPendingTLP(Retry(w))
    BY <1>2, <1>4 DEF ReplayOrPending
  <2>2. /\ w \in LinkState /\ SameData(s, w)
        /\ w.packet = s.packet /\ w.replayDLLP = s.replayDLLP
        /\ w.retryReq = s.retryReq /\ w.retryResp = s.retryResp
        /\ w.ackEvent = s.ackEvent
    BY <1>1, ReplayIndexes, Zenon DEF LinkState, SameData
  <2> HIDE DEF w
  <2>3. InterfaceInv(w, max) /\ Keeps(s, w)
    BY <2>2, FlagsKeep
  <2>4. InterfaceInv(Retry(w), max) /\ Keeps(w, Retry(w))
    BY <2>3, RetriesKeep
  <2>5. /\ InterfaceInv(TransmitPendingTLP(Retry(w)), max)
        /\ Keeps(Retry(w), TransmitPendingTLP(Retry(w)))
    BY <2>4, PendingTLPKeeps
  <2>6. Retry(w) \in LinkState /\ TransmitPendingTLP(Retry(w)) \in LinkState
    BY <2>4, <2>5 DEF InterfaceInv
  <2>7. Keeps(s, Retry(w))
    BY <1>1, <2>2, <2>3, <2>4, <2>6, KeepsTransitive
  <2>8. Keeps(s, TransmitPendingTLP(Retry(w)))
    BY <1>1, <2>5, <2>6, <2>7, KeepsTransitive
  <2> QED
    BY <2>1, <2>5, <2>8
<1>5. CASE s.retransmit /\ s.retransmitIdx < Len(s.buffer)
  <2> DEFINE p == s.buffer[s.retransmitIdx + 1]
             t == Transmit(s, p)
             u == [t EXCEPT !.timeoutEvent = TRUE,
                            !.retransmitIdx = t.retransmitIdx + 1]
  <2>1. ReplayOrPending(s) = u
    BY <1>2, <1>5 DEF ReplayOrPending
  <2>2. s.retransmitIdx + 1 \in 1 .. Len(s.buffer)
    BY <1>2, <1>5
  <2>3. p \in Packet /\ OnLink(s, p)
    BY <2>2, HeldOnLink
  <2> HIDE DEF p
  <2>4. InterfaceInv(t, max) /\ Keeps(s, t)
    BY <2>3, TransmitKeeps
  <2>5. t \in LinkState /\ t.retransmitIdx = s.retransmitIdx
    BY <1>1, <2>3, TransmitEffect DEF LinkState
  <2> HIDE DEF t
  <2>6. /\ u \in LinkState /\ SameData(t, u)
        /\ u.packet = t.packet /\ u.replayDLLP = t.replayDLLP
        /\ u.retryReq = t.retryReq /\ u.retryResp = t.retryResp
        /\ u.ackEvent = t.ackEvent
    <3>1. \A n \in ReplayIndex :
            [t EXCEPT !.timeoutEvent = TRUE, !.retransmitIdx = n] \in LinkState
      BY <2>5, Zenon DEF LinkState
    <3>2. t.retransmitIdx + 1 \in ReplayIndex
      <4>1. Len(s.buffer) <= MaxQueueSize /\ MaxQueueSize \in Nat
        BY ConstantsAssumption DEF InterfaceInv, Room
      <4>2. s.retransmitIdx + 1 \in Nat /\ s.retransmitIdx + 1 <= MaxQueueSize
        BY <4>1, <2>2, <1>2
      <4> QED
        BY <4>2, <2>5, ReplayIndexes, Zenon
    <3>3. u \in LinkState
      BY <3>1, <3>2, Zenon
    <3> QED
      BY <2>5, <3>3 DEF LinkState, SameData
  <2> HIDE DEF u
  <2>7. InterfaceInv(u, max) /\ Keeps(t, u)
    BY <2>4, <2>6, FlagsKeep
  <2> QED
    BY <1>1, <2>1, <2>4, <2>5, <2>6, <2>7, KeepsTransitive
<1> QED
  BY <1>2, <1>3, <1>4, <1>5

\* All of txDone preserves the invariant of the interface.
LEMMA AfterTransmissionKeeps ==
  ASSUME NEW max \in Nat, NEW s, InterfaceInv(s, max), max <= IntLimit, Busy(s)
  PROVE  LET u == AfterTransmission(s)
         IN  /\ InterfaceInv(u, max)
             /\ Preserves(s, u)
             /\ s.packet # s.replayPacket => Keeps(s, u)
<1> DEFINE p == s.packet
           a == [s EXCEPT !.packet = Null]
           b == TransmitPendingDLLP(a)
           c == StoreFirstTransmission(b, p)
           u == ReplayOrPending(c)
<1>1. AfterTransmission(s) = u
  BY DEF AfterTransmission
<1>2. s \in LinkState
  BY DEF InterfaceInv
<1>3. p \in Packet /\ p # Null
  BY <1>2, FieldTypes DEF Busy
<1>4. /\ a \in LinkState /\ SameData(s, a) /\ a.packet = Null
      /\ a.replayDLLP = s.replayDLLP /\ a.ackEvent = s.ackEvent
      /\ a.retryReq = s.retryReq /\ a.retryResp = s.retryResp
  BY <1>2, NullType, Zenon DEF LinkState, SameData
<1> HIDE DEF p, a
<1>5. InterfaceInv(a, max) /\ Keeps(s, a) /\ a.replayPacket = s.replayPacket
  <2>1. Offered(a) = Offered(s)
    BY <1>4 DEF Offered, SameData
  <2> QED
    BY <2>1, <1>4, DataDecides, Zenon DEF InterfaceInv, SameData
<1>6. InterfaceInv(b, max) /\ Keeps(a, b) /\ b.replayPacket = s.replayPacket
  BY <1>5, PendingDLLPKeeps
<1> HIDE DEF b
<1>7. /\ InterfaceInv(c, max) /\ Preserves(b, c)
      /\ p # b.replayPacket => Keeps(b, c)
  BY <1>3, <1>6, FirstTransmissionKeeps
<1> HIDE DEF c
<1>8. InterfaceInv(u, max) /\ Keeps(c, u)
  BY <1>7, ReplayKeeps
<1> HIDE DEF u
<1>9. /\ b \in LinkState /\ c \in LinkState /\ u \in LinkState
  BY <1>6, <1>7, <1>8 DEF InterfaceInv
<1>10. Keeps(s, b)
  BY <1>2, <1>4, <1>5, <1>6, <1>9, KeepsTransitive
<1>11. Preserves(s, u)
  <2>1. Preserves(s, b) /\ Preserves(c, u)
    BY <1>8, <1>10 DEF Keeps
  <2>2. Preserves(s, c)
    BY <2>1, <1>2, <1>7, <1>9, PreservesTransitive
  <2> QED
    BY <2>1, <2>2, <1>2, <1>9, PreservesTransitive
<1>12. p # s.replayPacket => Keeps(s, u)
  BY <1>6, <1>7, <1>8, <1>10, <1>11 DEF Keeps
<1> QED
  BY <1>1, <1>8, <1>11, <1>12 DEF p

\* timeoutFunc preserves the invariant of the interface.
LEMMA TimeoutKeeps ==
  ASSUME NEW max \in Nat, NEW s, InterfaceInv(s, max)
  PROVE  InterfaceInv(TimeoutFunc(s), max) /\ Keeps(s, TimeoutFunc(s))
<1> DEFINE t == [s EXCEPT !.timeoutEvent = FALSE]
<1>1. s \in LinkState
  BY DEF InterfaceInv
<1>2. /\ t \in LinkState /\ SameData(s, t)
      /\ t.packet = s.packet /\ t.replayDLLP = s.replayDLLP
      /\ t.retryReq = s.retryReq /\ t.retryResp = s.retryResp
      /\ t.ackEvent = s.ackEvent
  BY <1>1, Zenon DEF LinkState, SameData
<1>3. TimeoutFunc(s) =
        IF t.buffer = <<>> \/ t.retransmit
        THEN t
        ELSE [Transmit(t, Head(t.buffer)) EXCEPT
                !.retransmit = TRUE,
                !.retransmitIdx = IF Busy(t) THEN 0 ELSE 1]
  BY DEF TimeoutFunc
<1> HIDE DEF t
<1>4. InterfaceInv(t, max) /\ Keeps(s, t)
  BY <1>2, FlagsKeep
<1>5. CASE t.buffer = <<>> \/ t.retransmit
  BY <1>3, <1>4, <1>5
<1>6. CASE ~(t.buffer = <<>> \/ t.retransmit)
  <2> DEFINE r == Transmit(t, Head(t.buffer))
             u == [r EXCEPT !.retransmit = TRUE,
                            !.retransmitIdx = IF Busy(t) THEN 0 ELSE 1]
  <2>1. TimeoutFunc(s) = u
    BY <1>3, <1>6
  <2>2. Head(t.buffer) \in Packet /\ OnLink(t, Head(t.buffer))
    <3>1. t.buffer \in Seq(Packet) /\ t.buffer # <<>>
      BY <1>2, <1>6, FieldTypes
    <3>2. Head(t.buffer) = t.buffer[1] /\ 1 \in 1 .. Len(t.buffer)
      BY <3>1
    <3> QED
      BY <3>2, <1>4, HeldOnLink
  <2>3. InterfaceInv(r, max) /\ Keeps(t, r)
    BY <1>4, <2>2, TransmitKeeps
  <2>4. r \in LinkState
    BY <2>3 DEF InterfaceInv
  <2> HIDE DEF r
  <2>5. /\ u \in LinkState /\ SameData(r, u)
        /\ u.packet = r.packet /\ u.replayDLLP = r.replayDLLP
        /\ u.retryReq = r.retryReq /\ u.retryResp = r.retryResp
        /\ u.ackEvent = r.ackEvent
    BY <2>4, ReplayIndexes, Zenon DEF LinkState, SameData
  <2> HIDE DEF u
  <2>6. InterfaceInv(u, max) /\ Keeps(r, u)
    BY <2>3, <2>5, FlagsKeep
  <2>7. Keeps(s, r)
    BY <1>1, <1>2, <1>4, <2>3, <2>4, KeepsTransitive
  <2>8. Keeps(s, u)
    BY <1>1, <2>4, <2>5, <2>6, <2>7, KeepsTransitive
  <2> QED
    BY <2>1, <2>6, <2>8
<1> QED
  BY <1>5, <1>6

\* sendAck preserves the invariant of the interface.
LEMMA SendAckKeeps ==
  ASSUME NEW max \in Nat, NEW s, InterfaceInv(s, max),
         s.ackEvent, s.recvSeqNum <= IntLimit
  PROVE  InterfaceInv(SendAckFunc(s), max) /\ Keeps(s, SendAckFunc(s))
<1> DEFINE t == [s EXCEPT !.ackEvent = FALSE]
           u == [t EXCEPT !.lastAcked = Minus1(t.recvSeqNum), !.ackEvent = TRUE]
           v == [u EXCEPT !.replayDLLP = AckOf(t)]
<1>1. s \in LinkState
  BY DEF InterfaceInv
<1>2. /\ t \in LinkState /\ SameData(s, t)
      /\ t.packet = s.packet /\ t.replayDLLP = s.replayDLLP
      /\ t.retryReq = s.retryReq /\ t.retryResp = s.retryResp
      /\ t.ackEvent = FALSE
  BY <1>1, Zenon DEF LinkState, SameData
<1>3. \/ SendAckFunc(s) = t
      \/ SendAckFunc(s) = v
      \/ SendAckFunc(s) = Transmit(u, AckOf(t))
  <2>1. CASE t.lastAcked = Minus1(t.recvSeqNum)
    BY <2>1 DEF SendAckFunc
  <2>2. CASE t.lastAcked # Minus1(t.recvSeqNum) /\ Busy(t)
    BY <2>2 DEF SendAckFunc
  <2>3. CASE t.lastAcked # Minus1(t.recvSeqNum) /\ ~Busy(t)
    BY <2>3 DEF SendAckFunc
  <2> QED
    BY <2>1, <2>2, <2>3
<1> HIDE DEF t
<1>4. InterfaceInv(t, max) /\ Keeps(s, t)
  BY <1>2, FlagsKeep
<1>5. t.recvSeqNum \in 1 .. IntLimit
  <2>1. s.recvSeqNum \in Nat /\ s.recvSeqNum > 0
    BY <1>1, FieldTypes DEF InterfaceInv
  <2> QED
    BY <2>1, <1>2, ConstantsAssumption DEF SameData
<1>6. AckOf(t) \in Packet /\ IsAck(t, AckOf(t)) /\ Minus1(t.recvSeqNum) \in Nat
  BY <1>4, <1>5, AckIsEarned
<1>7. /\ u \in LinkState /\ SameData(t, u)
      /\ u.packet = t.packet /\ u.replayDLLP = t.replayDLLP
      /\ u.retryReq = t.retryReq /\ u.retryResp = t.retryResp
  BY <1>2, <1>6, Zenon DEF LinkState, SameData
<1>8. /\ v \in LinkState /\ SameData(t, v)
      /\ v.packet = t.packet /\ v.replayDLLP = AckOf(t)
      /\ v.retryReq = t.retryReq /\ v.retryResp = t.retryResp
  BY <1>2, <1>6, <1>7, Zenon DEF LinkState, SameData
<1> HIDE DEF u, v
<1>9. Offered(u) = Offered(t) /\ Offered(v) = Offered(t)
  BY <1>7, <1>8 DEF Offered, SameData
<1>10. u.recvSeqNum > 0 /\ v.recvSeqNum > 0
  <2>1. u.recvSeqNum = t.recvSeqNum /\ v.recvSeqNum = t.recvSeqNum
    BY <1>7, <1>8, Zenon DEF SameData
  <2> QED
    BY <2>1, <1>5, ConstantsAssumption
<1>11. InterfaceInv(u, max) /\ Keeps(t, u)
  BY <1>4, <1>7, <1>9, <1>10, DataDecides, Zenon DEF InterfaceInv
<1>12. InterfaceInv(v, max) /\ Keeps(t, v)
  BY <1>4, <1>6, <1>8, <1>9, <1>10, DataDecides, Zenon DEF InterfaceInv
<1>13. OnLink(u, AckOf(t))
  BY <1>6, <1>7 DEF OnLink, IsAck, SameData
<1>14. /\ InterfaceInv(Transmit(u, AckOf(t)), max)
       /\ Keeps(u, Transmit(u, AckOf(t)))
  BY <1>6, <1>11, <1>13, TransmitKeeps
<1>15. Transmit(u, AckOf(t)) \in LinkState
  BY <1>14 DEF InterfaceInv
<1>16. Keeps(s, u) /\ Keeps(s, v)
  BY <1>1, <1>2, <1>4, <1>7, <1>8, <1>11, <1>12, KeepsTransitive
<1>17. Keeps(s, Transmit(u, AckOf(t)))
  BY <1>1, <1>7, <1>14, <1>15, <1>16, KeepsTransitive
<1> QED
  BY <1>3, <1>4, <1>12, <1>14, <1>16, <1>17

-----------------------------------------------------------------------------
(* The two ends of a direction *)

\* A handler at the sending end that keeps what the receiving end relies on
\* preserves the invariant of the direction.
LEMMA SenderChannel ==
  ASSUME NEW s \in LinkState, NEW u \in LinkState, NEW t \in LinkState
  PROVE  /\ InOrder(s, t) /\ Preserves(s, u) => InOrder(u, t)
         /\ ChannelInv(s, t) /\ Keeps(s, u) => ChannelInv(u, t)
<1>1. /\ Len(s.accepted) \in Nat /\ Len(u.accepted) \in Nat
      /\ Len(t.delivered) \in Nat
  BY FieldTypes
<1>2. InOrder(s, t) /\ Preserves(s, u) => InOrder(u, t)
  BY <1>1 DEF InOrder, Preserves
<1>3. FirstIsZero(s) /\ Keeps(s, u) => FirstIsZero(u)
  BY DEF FirstIsZero, Keeps, Preserves
<1> QED
  BY <1>2, <1>3 DEF ChannelInv, Keeps

\* So does a handler at the receiving end that receives nothing.
LEMMA ReceiverChannel ==
  ASSUME NEW s, NEW t, NEW u, ChannelInv(s, t),
         u.recvSeqNum = t.recvSeqNum, u.delivered = t.delivered
  PROVE  ChannelInv(s, u)
BY DEF ChannelInv, InOrder

\* What s has delivered remains a prefix of what t accepted when t accepts more.
LEMMA InOrderGrows ==
  ASSUME NEW s, NEW t, NEW u, ChannelInv(t, s),
         Len(s.delivered) \in Nat, Len(t.accepted) \in Nat,
         Len(u.accepted) \in Nat, Len(t.accepted) <= Len(u.accepted),
         \A i \in 1 .. Len(t.accepted) : u.accepted[i] = t.accepted[i],
         Base(u) <= s.recvSeqNum
  PROVE  InOrder(u, s)
<1>1. /\ s.recvSeqNum = Len(s.delivered)
      /\ Len(s.delivered) <= Len(t.accepted)
      /\ \A i \in 1 .. Len(s.delivered) : s.delivered[i] = t.accepted[i]
  BY DEF ChannelInv, InOrder
<1>2. Len(s.delivered) <= Len(u.accepted)
  BY <1>1
<1>3. ASSUME NEW i \in 1 .. Len(s.delivered)
      PROVE  s.delivered[i] = u.accepted[i]
  <2>1. i \in 1 .. Len(t.accepted)
    BY <1>1
  <2> QED
    BY <2>1, <1>1
<1> QED
  BY <1>1, <1>2, <1>3 DEF InOrder

\* The first TLP to arrive at t is number 0 and is accepted.
FirstTaken(t, p, accept) ==
  t.recvSeqNum = 0 /\ p.isTLP => p.seqNum = 0 /\ accept

\* The effect on the pair of ends s and t of a packet p of s that arrives at t.
Arrives(s, t, p, u) ==
  /\ ChannelInv(u, s)
  /\ InOrder(s, u)
  /\ u.txQueue = t.txQueue
  /\ \/ p.isTLP /\ u.recvSeqNum > 0
     \/ ~p.isTLP /\ u.recvSeqNum = t.recvSeqNum

\* The arrival of a packet at t preserves the invariant of t and of both
\* directions, provided the first TLP to arrive is number 0 and is accepted.
LEMMA ReceiveKeeps ==
  ASSUME NEW m \in Nat, NEW n \in Nat, m <= IntLimit, n <= IntLimit,
         NEW s, NEW t, InterfaceInv(s, m), InterfaceInv(t, n),
         ChannelInv(s, t), ChannelInv(t, s),
         NEW p \in Packet, OnLink(s, p), NEW accept \in BOOLEAN,
         FirstTaken(t, p, accept)
  PROVE  /\ InterfaceInv(LinkReceiveInterface(t, p, accept), n)
         /\ Arrives(s, t, p, LinkReceiveInterface(t, p, accept))
<1> DEFINE u == LinkReceiveInterface(t, p, accept)
<1>1. s \in LinkState /\ t \in LinkState
  BY DEF InterfaceInv
<1>2. /\ s.recvSeqNum \in Nat /\ t.recvSeqNum \in Nat
      /\ Len(s.accepted) \in Nat /\ Len(t.accepted) \in Nat
      /\ Len(s.delivered) \in Nat /\ Len(t.delivered) \in Nat
      /\ t.delivered \in Seq(Pkt)
  BY <1>1, FieldTypes
<1>3. CASE IsAck(s, p)
  <2>1. ~p.isTLP /\ p.seqNum < s.recvSeqNum
    BY <1>3 DEF IsAck
  <2>2. u = ReceiveDLLP(t, p)
    BY <2>1 DEF LinkReceiveInterface
  <2>3. Base(t) <= s.recvSeqNum
    BY DEF ChannelInv, InOrder
  <2>4. /\ InterfaceInv(u, n)
        /\ Base(u) <= s.recvSeqNum
        /\ u.recvSeqNum = t.recvSeqNum
        /\ u.delivered = t.delivered
        /\ u.txQueue = t.txQueue
        /\ Len(t.accepted) <= Len(u.accepted)
        /\ \A i \in 1 .. Len(t.accepted) : u.accepted[i] = t.accepted[i]
    <3>1. InterfaceInv(u, n) /\ TakesAck(t, s.recvSeqNum, u)
      <4> HIDE DEF u
      <4> QED
        BY <1>2, <2>1, <2>2, <2>3, ReceiveDLLPKeeps
    <3> QED
      BY <3>1 DEF TakesAck
  <2> HIDE DEF u
  <2>5. Len(u.accepted) \in Nat
    BY <2>4, FieldTypes DEF InterfaceInv
  <2>6. InOrder(u, s)
    BY <1>2, <2>4, <2>5, InOrderGrows
  <2>7. s.recvSeqNum # 0
    <3>1. p.seqNum \in Nat
      BY DEF Packet
    <3> QED
      BY <3>1, <1>2, <2>1
  <2>8. ChannelInv(u, s)
    BY <2>6, <2>7 DEF ChannelInv
  <2>9. InOrder(s, u)
    BY <2>4 DEF ChannelInv, InOrder
  <2> QED
    BY <2>1, <2>4, <2>8, <2>9 DEF u, Arrives
<1>4. CASE IsCopy(s, p)
  <2>1. /\ p.seqNum < Len(s.accepted) /\ p.seqNum \in Nat
        /\ p.isTLP /\ p.pkt = s.accepted[p.seqNum + 1]
    <3>1. p.seqNum \in Nat
      BY DEF Packet
    <3>2. \A k, pkt : TLP(k, pkt).isTLP /\ TLP(k, pkt).pkt = pkt
      BY DEF TLP
    <3> QED
      BY <3>1, <3>2, <1>4 DEF IsCopy
  <2>2. u = ReceiveTLP(t, p, accept)
    BY <2>1 DEF LinkReceiveInterface
  <2>3. Len(s.accepted) <= IntLimit
    <3>1. Offered(s) \in Nat /\ Len(s.accepted) <= Offered(s) /\ Offered(s) <= m
      BY <1>1, OfferedCounts DEF InterfaceInv
    <3> QED
      BY <3>1, <1>2, ConstantsAssumption
  <2>4. /\ t.recvSeqNum = Len(t.delivered)
        /\ t.recvSeqNum <= Len(s.accepted)
    BY DEF ChannelInv, InOrder
  <2>5. /\ t.recvSeqNum <= IntLimit
        /\ p.seqNum # t.recvSeqNum => t.recvSeqNum > 0
        /\ p.seqNum = t.recvSeqNum => t.recvSeqNum < IntLimit
    <3>1. t.recvSeqNum <= IntLimit
      BY <1>2, <2>3, <2>4, ConstantsAssumption
    <3>2. p.seqNum # t.recvSeqNum => t.recvSeqNum > 0
      <4>1. t.recvSeqNum = 0 => p.seqNum = 0
        BY <2>1 DEF FirstTaken
      <4> QED
        BY <4>1, <1>2
    <3>3. p.seqNum = t.recvSeqNum => t.recvSeqNum < IntLimit
      BY <1>2, <2>1, <2>3, ConstantsAssumption
    <3> QED
      BY <3>1, <3>2, <3>3
  <2>6. /\ InterfaceInv(u, n)
        /\ u.txQueue = t.txQueue
        /\ Len(t.accepted) <= Len(u.accepted)
        /\ \A i \in 1 .. Len(t.accepted) : u.accepted[i] = t.accepted[i]
        /\ Base(u) = Base(t)
        /\ Fresh(t) => Fresh(u)
        /\ \/ /\ ~(p.seqNum = t.recvSeqNum /\ accept)
              /\ u.recvSeqNum = t.recvSeqNum
              /\ u.delivered = t.delivered
           \/ /\ p.seqNum = t.recvSeqNum /\ accept
              /\ u.recvSeqNum = t.recvSeqNum + 1
              /\ u.delivered = Append(t.delivered, p.pkt)
    <3>1. InterfaceInv(u, n) /\ TakesTLP(t, p, accept, u)
      <4> HIDE DEF u
      <4> QED
        BY <2>2, <2>5, ReceiveTLPKeeps, Zenon
    <3> QED
      BY <3>1 DEF TakesTLP
  <2> HIDE DEF u
  <2>7. u \in LinkState /\ Len(u.accepted) \in Nat
    BY <2>6, FieldTypes, Zenon DEF InterfaceInv
  <2>8. InOrder(u, s)
    <3>1. Base(u) <= s.recvSeqNum
      BY <2>6 DEF ChannelInv, InOrder
    <3> QED
      BY <3>1, <1>2, <2>6, <2>7, InOrderGrows, Zenon
  <2>9. FirstIsZero(t) => FirstIsZero(u)
    BY <2>6 DEF FirstIsZero
  <2>10. ChannelInv(u, s)
    BY <2>8, <2>9 DEF ChannelInv
  <2>11. u.recvSeqNum > 0
    <3>1. u.recvSeqNum = t.recvSeqNum \/ u.recvSeqNum = t.recvSeqNum + 1
      BY <2>6
    <3>2. t.recvSeqNum = 0 => p.seqNum = t.recvSeqNum /\ accept
      BY <2>1 DEF FirstTaken
    <3>3. t.recvSeqNum = 0 => u.recvSeqNum = t.recvSeqNum + 1
      BY <3>2, <2>6
    <3> QED
      BY <3>1, <3>3, <1>2
  <2>12. InOrder(s, u)
    <3>1. CASE u.recvSeqNum = t.recvSeqNum /\ u.delivered = t.delivered
      BY <3>1 DEF ChannelInv, InOrder
    <3>2. CASE /\ p.seqNum = t.recvSeqNum
               /\ u.recvSeqNum = t.recvSeqNum + 1
               /\ u.delivered = Append(t.delivered, p.pkt)
      <4>1. /\ Len(u.delivered) = Len(t.delivered) + 1
            /\ \A i \in 1 .. Len(t.delivered) : u.delivered[i] = t.delivered[i]
            /\ u.delivered[Len(t.delivered) + 1] = p.pkt
        <5>1. p.pkt \in Pkt
          BY DEF Packet
        <5> QED
          BY <5>1, <3>2, <1>2, AppendProperties
      <4>2. ASSUME NEW i \in 1 .. Len(u.delivered)
            PROVE  u.delivered[i] = s.accepted[i]
        <5>1. CASE i \in 1 .. Len(t.delivered)
          BY <5>1, <4>1 DEF ChannelInv, InOrder
        <5>2. CASE i = Len(t.delivered) + 1
          BY <5>2, <4>1, <2>1, <2>4, <3>2
        <5> QED
          BY <5>1, <5>2, <4>1, <1>2
      <4>3. Base(s) <= u.recvSeqNum
        <5>1. Base(s) \in Int /\ Base(s) <= t.recvSeqNum
          <6>1. s.sendSeqNum \in Nat /\ Held(s) \in Nat
            BY <1>1, FieldTypes, HeldCounts
          <6> QED
            BY <6>1 DEF ChannelInv, InOrder, Base
        <5> QED
          BY <5>1, <3>2, <1>2
      <4> QED
        BY <4>1, <4>2, <4>3, <3>2, <1>2, <2>1, <2>4 DEF InOrder
    <3> QED
      BY <3>1, <3>2, <2>6
  <2> QED
    BY <2>1, <2>6, <2>10, <2>11, <2>12 DEF u, Arrives
<1> QED
  BY <1>3, <1>4 DEF OnLink

-----------------------------------------------------------------------------
(* The actions *)

\* The assumption of the theorems: no device refuses the first packet it is
\* sent, and sequence numbers stay below 2^31. Without either of them
\* linkReceiveInterface acknowledges packets that were not received.
Regular == ~RefuseFirst /\ \A l \in Links : MaxTLP[l] <= IntLimit

\* The two interfaces face each other.
LEMMA TwoEnds ==
  ASSUME NEW l \in Links
  PROVE  /\ Other(l) \in Links /\ Other(l) # l /\ Other(Other(l)) = l
         /\ \A k \in Links : k = l \/ k = Other(l)
         /\ MaxTLP[l] \in Nat
BY ConstantsAssumption DEF Links, Other

\* The invariant from its parts, after a step that gives the interfaces the
\* states a and b.
LEMMA Reassemble ==
  ASSUME NEW l \in Links, NEW a, NEW b, IndInv, undefined' \in BOOLEAN,
         link' = [link EXCEPT ![l] = a, ![Other(l)] = b],
         InterfaceInv(a, MaxTLP[l]), InterfaceInv(b, MaxTLP[Other(l)]),
         ChannelInv(a, b), ChannelInv(b, a),
         ~Delayed => a.txQueue = <<>> /\ b.txQueue = <<>>
  PROVE  IndInv'
<1>1. a \in LinkState /\ b \in LinkState
  BY Zenon DEF InterfaceInv
<1>2. link \in [Links -> LinkState]
  BY DEF IndInv
<1>3. link' \in [Links -> LinkState] /\ link'[l] = a /\ link'[Other(l)] = b
  BY <1>1, <1>2, TwoEnds
<1>4. ASSUME NEW k \in Links
      PROVE  /\ InterfaceInv(link'[k], MaxTLP[k])
             /\ ChannelInv(link'[k], link'[Other(k)])
             /\ ~Delayed => link'[k].txQueue = <<>>
  <2>1. CASE k = l
    BY <2>1, <1>3
  <2>2. CASE k = Other(l)
    BY <2>2, <1>3, TwoEnds
  <2> QED
    BY <2>1, <2>2, TwoEnds
<1> QED
  BY <1>3, <1>4, Zenon DEF IndInv, InterfaceInv, ChannelInv, InOrder, FirstIsZero,
     Offered, Numbered, Room, OnLink, IsAck, IsCopy, Base, Held, Fresh

\* A step of one interface that keeps what the other one relies on preserves
\* the invariant.
LEMMA OneEnd ==
  ASSUME NEW l \in Links, NEW a, IndInv, undefined' \in BOOLEAN,
         link' = [link EXCEPT ![l] = a],
         InterfaceInv(a, MaxTLP[l]), Keeps(link[l], a)
  PROVE  IndInv'
<1> DEFINE s == link[l]
           t == link[Other(l)]
<1>1. Other(l) \in Links /\ Other(l) # l /\ Other(Other(l)) = l
  BY TwoEnds
<1>2. /\ s \in LinkState /\ t \in LinkState /\ a \in LinkState
      /\ InterfaceInv(t, MaxTLP[Other(l)])
      /\ ChannelInv(s, t) /\ ChannelInv(t, s)
      /\ ~Delayed => s.txQueue = <<>> /\ t.txQueue = <<>>
  BY <1>1, Zenon DEF IndInv, InterfaceInv
<1>3. link' = [link EXCEPT ![l] = a, ![Other(l)] = t]
  BY <1>1, Zenon DEF IndInv
<1>4. ChannelInv(a, t)
  BY <1>2, SenderChannel
<1>5. ChannelInv(t, a) /\ a.txQueue = s.txQueue
  BY <1>2, ReceiverChannel DEF Keeps, Preserves
<1> HIDE DEF s, t
<1> QED
  BY <1>2, <1>3, <1>4, <1>5, Reassemble, Zenon

\* The parts of the invariant for an interface and the one it faces.
LEMMA Ends ==
  ASSUME IndInv, NEW l \in Links
  PROVE  LET s == link[l]
             t == link[Other(l)]
         IN  /\ s \in LinkState /\ t \in LinkState
             /\ InterfaceInv(s, MaxTLP[l])
             /\ InterfaceInv(t, MaxTLP[Other(l)])
             /\ ChannelInv(s, t) /\ ChannelInv(t, s)
             /\ ~Delayed => s.txQueue = <<>> /\ t.txQueue = <<>>
             /\ MaxTLP[l] \in Nat /\ MaxTLP[Other(l)] \in Nat
             /\ link = [link EXCEPT ![l] = s]
             /\ \A a, b : [link EXCEPT ![l] = a, ![Other(l)] = b][Other(l)] = b
<1>1. Other(l) \in Links /\ Other(l) # l /\ Other(Other(l)) = l
  BY TwoEnds
<1> QED
  BY <1>1, TwoEnds DEF IndInv

\* recvTimingReq and recvTimingResp preserve the invariant.
LEMMA SendStep ==
  ASSUME IndInv, Regular, NEW l \in Links, NEW master \in BOOLEAN,
         Send(l, master)
  PROVE  IndInv'
<1> DEFINE s == link[l]
           a == LinkTransmitInterface(s, master)
<1>1. InterfaceInv(s, MaxTLP[l]) /\ MaxTLP[l] \in Nat /\ MaxTLP[l] <= IntLimit
  BY Ends DEF Regular
<1>2. Offered(s) < MaxTLP[l] /\ link' = [link EXCEPT ![l] = a] /\ undefined' = undefined
  BY DEF Send
<1>3. undefined' \in BOOLEAN
  BY <1>2 DEF IndInv
<1> HIDE DEF s
<1>4. InterfaceInv(a, MaxTLP[l]) /\ Keeps(s, a)
  BY <1>1, <1>2, OfferKeeps
<1> HIDE DEF a
<1> QED
  BY <1>2, <1>3, <1>4, OneEnd, Zenon DEF s

\* The replay timer preserves the invariant.
LEMMA TimeoutStep ==
  ASSUME IndInv, NEW l \in Links, Timeout(l)
  PROVE  IndInv'
<1> DEFINE s == link[l]
           a == TimeoutFunc(s)
<1>1. InterfaceInv(s, MaxTLP[l]) /\ MaxTLP[l] \in Nat
  BY Ends
<1>2. link' = [link EXCEPT ![l] = a] /\ undefined' = undefined
  BY DEF Timeout
<1>3. undefined' \in BOOLEAN
  BY <1>2 DEF IndInv
<1> HIDE DEF s
<1>4. InterfaceInv(a, MaxTLP[l]) /\ Keeps(s, a)
  BY <1>1, TimeoutKeeps
<1> HIDE DEF a
<1> QED
  BY <1>2, <1>3, <1>4, OneEnd, Zenon DEF s

\* recvSeqNum stays within int: there are never more packets than were
\* accepted.
LEMMA RecvBounded ==
  ASSUME IndInv, Regular, NEW l \in Links
  PROVE  link[l].recvSeqNum \in Nat /\ link[l].recvSeqNum <= IntLimit
<1> DEFINE s == link[l]
           t == link[Other(l)]
<1>1. /\ s \in LinkState /\ t \in LinkState /\ ChannelInv(t, s)
      /\ InterfaceInv(t, MaxTLP[Other(l)]) /\ MaxTLP[Other(l)] \in Nat
  BY Ends
<1>2. MaxTLP[Other(l)] <= IntLimit
  BY TwoEnds DEF Regular
<1> HIDE DEF s, t
<1>3. Len(t.accepted) <= MaxTLP[Other(l)] /\ Len(t.accepted) \in Nat
  <2>1. Offered(t) \in Nat /\ Len(t.accepted) <= Offered(t)
        /\ Len(t.accepted) \in Nat /\ Offered(t) <= MaxTLP[Other(l)]
    BY <1>1, OfferedCounts, FieldTypes DEF InterfaceInv
  <2> QED
    BY <2>1, <1>1
<1>4. s.recvSeqNum \in Nat /\ s.recvSeqNum <= Len(t.accepted)
  BY <1>1, FieldTypes DEF ChannelInv, InOrder
<1> QED
  BY <1>1, <1>2, <1>3, <1>4, ConstantsAssumption DEF s

\* The Ack timer preserves the invariant.
LEMMA SendAckStep ==
  ASSUME IndInv, Regular, NEW l \in Links, SendAck(l)
  PROVE  IndInv'
<1> DEFINE s == link[l]
           a == SendAckFunc(s)
<1>1. InterfaceInv(s, MaxTLP[l]) /\ MaxTLP[l] \in Nat
  BY Ends
<1>2. link' = [link EXCEPT ![l] = a] /\ undefined' = undefined /\ s.ackEvent
  BY DEF SendAck
<1>3. undefined' \in BOOLEAN
  BY <1>2 DEF IndInv
<1>4. s.recvSeqNum <= IntLimit
  BY RecvBounded
<1> HIDE DEF s
<1>5. InterfaceInv(a, MaxTLP[l]) /\ Keeps(s, a)
  BY <1>1, <1>2, <1>4, SendAckKeeps
<1> HIDE DEF a
<1> QED
  BY <1>2, <1>3, <1>5, OneEnd, Zenon DEF s

\* A transmitted Ack is not mistaken for the packet in replayPacket.
LEMMA AckIsNotHeld ==
  ASSUME NEW s, NEW max, InterfaceInv(s, max), NEW p, ~p.isTLP, p # Null
  PROVE  p # s.replayPacket
<1>1. \A n, pkt : TLP(n, pkt).isTLP
  BY DEF TLP
<1> QED
  BY <1>1 DEF InterfaceInv, Numbered

\* The only TLP a fresh interface can have on its link is number 0.
LEMMA FreshSendsZero ==
  ASSUME NEW s, NEW max, InterfaceInv(s, max), Fresh(s),
         NEW p \in Packet, p.isTLP, OnLink(s, p)
  PROVE  p.seqNum = 0
<1>1. p.seqNum < Len(s.accepted) /\ p.seqNum \in Nat
  BY DEF OnLink, IsAck, IsCopy, Packet
<1>2. s.sendSeqNum = Len(s.accepted) /\ s.sendSeqNum \in Nat
  BY FieldTypes DEF InterfaceInv, Numbered
<1>3. s.sendSeqNum \in {0, 1}
  BY DEF Fresh
<1>4. \A i, j \in Nat : i < j /\ j \in {0, 1} => i = 0
  OBVIOUS
<1> QED
  BY <1>1, <1>2, <1>3, <1>4, Zenon

\* txDone without propagation delay, the arrival at the other end included,
\* preserves the invariant.
LEMMA TxDoneStep ==
  ASSUME IndInv, Regular, NEW l \in Links, NEW accept \in BOOLEAN,
         TxDone(l, accept)
  PROVE  IndInv'
<1> DEFINE s == link[l]
           t == link[Other(l)]
           p == s.packet
           a == AfterTransmission(s)
           b == LinkReceiveInterface(t, p, accept)
           m == MaxTLP[l]
           n == MaxTLP[Other(l)]
<1>1. /\ s \in LinkState /\ t \in LinkState
      /\ InterfaceInv(s, m) /\ InterfaceInv(t, n)
      /\ ChannelInv(s, t) /\ ChannelInv(t, s)
      /\ ~Delayed => s.txQueue = <<>> /\ t.txQueue = <<>>
      /\ m \in Nat /\ n \in Nat
  BY Ends
<1>2. m <= IntLimit /\ n <= IntLimit
  BY TwoEnds DEF Regular
<1>3. /\ ~Delayed /\ Busy(s) /\ MayAnswer(t, accept)
      /\ undefined' = undefined
      /\ link' = [link EXCEPT ![l] = a, ![Other(l)] = b]
  BY TwoEnds DEF TxDone, IndInv
<1>4. undefined' \in BOOLEAN
  BY <1>3 DEF IndInv
<1>5. p \in Packet /\ p # Null /\ OnLink(s, p) /\ s.txQueue = <<>> /\ t.txQueue = <<>>
  BY <1>1, <1>3, FieldTypes, Zenon DEF Busy, InterfaceInv
<1> HIDE DEF s, t, m, n, p
<1>6. FirstTaken(t, p, accept)
  <2> SUFFICES ASSUME t.recvSeqNum = 0, p.isTLP
               PROVE  p.seqNum = 0 /\ accept
    BY DEF FirstTaken
  <2>1. accept
    BY <1>3 DEF MayAnswer, Regular
  <2>2. Fresh(s)
    <3>1. FirstIsZero(s)
      BY <1>1 DEF ChannelInv
    <3>2. 1 .. Len(s.txQueue) = {}
      BY <1>5
    <3> QED
      BY <3>1, <3>2 DEF FirstIsZero
  <2>3. p.seqNum = 0
    BY <2>2, <1>1, <1>5, FreshSendsZero
  <2> QED
    BY <2>1, <2>3
<1>7. /\ InterfaceInv(b, n) /\ ChannelInv(b, s) /\ InOrder(s, b)
      /\ b.txQueue = t.txQueue
      /\ \/ p.isTLP /\ b.recvSeqNum > 0
         \/ ~p.isTLP /\ b.recvSeqNum = t.recvSeqNum
  <2>1. b = LinkReceiveInterface(t, p, accept) /\ accept \in BOOLEAN
    OBVIOUS
  <2> HIDE DEF b
  <2>2. InterfaceInv(b, n) /\ Arrives(s, t, p, b)
    BY <2>1, <1>1, <1>2, <1>5, <1>6, ReceiveKeeps
  <2> QED
    BY <2>2 DEF Arrives
<1>8. /\ InterfaceInv(a, m) /\ Preserves(s, a)
      /\ p # s.replayPacket => Keeps(s, a)
  BY <1>1, <1>2, <1>3, AfterTransmissionKeeps DEF p
<1> HIDE DEF a, b
<1>9. a \in LinkState /\ b \in LinkState /\ b.recvSeqNum \in Nat
  BY <1>7, <1>8, FieldTypes, Zenon DEF InterfaceInv
<1>10. ChannelInv(b, a) /\ a.txQueue = <<>>
  BY <1>5, <1>7, <1>8, ReceiverChannel DEF Preserves
<1>11. ChannelInv(a, b)
  <2>1. CASE p.isTLP
    <3>1. InOrder(a, b)
      BY <1>1, <1>7, <1>8, <1>9, SenderChannel
    <3>2. b.recvSeqNum # 0
      <4>1. b.recvSeqNum > 0
        BY <2>1, <1>7
      <4> QED
        BY <4>1, <1>9
    <3> QED
      BY <3>1, <3>2 DEF ChannelInv
  <2>2. CASE ~p.isTLP
    <3>1. Keeps(s, a)
      BY <2>2, <1>1, <1>5, <1>8, AckIsNotHeld
    <3>2. ChannelInv(s, b)
      BY <2>2, <1>1, <1>7 DEF ChannelInv
    <3> QED
      BY <3>1, <3>2, <1>1, <1>9, SenderChannel
  <2> QED
    BY <2>1, <2>2
<1>12. b.txQueue = <<>>
  BY <1>5, <1>7
<1> QED
  BY <1>3, <1>4, <1>7, <1>8, <1>10, <1>11, <1>12, Reassemble, Zenon DEF m, n

\* Changing txQueue alone preserves the invariant of the interface.
LEMMA QueueChanges ==
  ASSUME NEW m \in Nat, NEW u, InterfaceInv(u, m),
         NEW q \in Seq(Packet), \A i \in 1 .. Len(q) : OnLink(u, q[i])
  PROVE  LET a == [u EXCEPT !.txQueue = q]
         IN  /\ InterfaceInv(a, m)
             /\ a.txQueue = q
             /\ a.accepted = u.accepted
             /\ a.delivered = u.delivered
             /\ a.recvSeqNum = u.recvSeqNum
             /\ Base(a) = Base(u)
             /\ Fresh(a) = Fresh(u)
<1> DEFINE a == [u EXCEPT !.txQueue = q]
<1>1. u \in LinkState
  BY DEF InterfaceInv
<1>2. /\ a \in LinkState
      /\ a.txQueue = q
      /\ a.packet = u.packet
      /\ a.buffer = u.buffer
      /\ a.sendSeqNum = u.sendSeqNum
      /\ a.recvSeqNum = u.recvSeqNum
      /\ a.replayPacket = u.replayPacket
      /\ a.replayDLLP = u.replayDLLP
      /\ a.accepted = u.accepted
      /\ a.delivered = u.delivered
      /\ a.retryReq = u.retryReq
      /\ a.retryResp = u.retryResp
      /\ a.ackEvent = u.ackEvent
  BY <1>1, Zenon DEF LinkState
<1> HIDE DEF a
<1>3. /\ Base(a) = Base(u) /\ Held(a) = Held(u) /\ Fresh(a) = Fresh(u)
      /\ Offered(a) = Offered(u)
  BY <1>2 DEF Base, Held, Fresh, Offered
<1>4. \A p : OnLink(a, p) = OnLink(u, p) /\ IsAck(a, p) = IsAck(u, p)
  BY <1>2 DEF OnLink, IsAck, IsCopy
<1>5. Numbered(a) /\ Room(a)
  BY <1>2, <1>3 DEF InterfaceInv, Numbered, Room
<1>6. InterfaceInv(a, m)
  BY <1>2, <1>3, <1>4, <1>5, Zenon DEF InterfaceInv
<1> QED
  BY <1>2, <1>3, <1>6 DEF a

\* txDone with propagation delay preserves the invariant.
LEMMA TxDoneDelayedStep ==
  ASSUME IndInv, Regular, NEW l \in Links, TxDoneDelayed(l)
  PROVE  IndInv'
<1> DEFINE s == link[l]
           t == link[Other(l)]
           p == s.packet
           u == AfterTransmission(s)
           q == Append(u.txQueue, p)
           a == EnterDelay(u, p)
           m == MaxTLP[l]
           n == MaxTLP[Other(l)]
<1>1. /\ s \in LinkState /\ t \in LinkState
      /\ InterfaceInv(s, m) /\ InterfaceInv(t, n)
      /\ ChannelInv(s, t) /\ ChannelInv(t, s)
      /\ m \in Nat /\ n \in Nat
  BY Ends
<1>2. m <= IntLimit /\ n <= IntLimit
  BY TwoEnds DEF Regular
<1>3. /\ Delayed /\ Busy(s)
      /\ undefined' = undefined
      /\ link' = [link EXCEPT ![l] = a, ![Other(l)] = t]
  <2>1. /\ Delayed /\ Busy(s) /\ undefined' = undefined
        /\ link' = [link EXCEPT ![l] = a]
    BY DEF TxDoneDelayed
  <2> HIDE DEF a
  <2>2. [link EXCEPT ![l] = a] = [link EXCEPT ![l] = a, ![Other(l)] = t]
    BY TwoEnds, Zenon DEF IndInv
  <2> QED
    BY <2>1, <2>2
<1>4. undefined' \in BOOLEAN
  BY <1>3 DEF IndInv
<1>5. p \in Packet /\ p # Null /\ OnLink(s, p)
  BY <1>1, <1>3, FieldTypes DEF Busy, InterfaceInv
<1> HIDE DEF s, t, m, n
<1>6. /\ InterfaceInv(u, m) /\ Preserves(s, u)
      /\ p # s.replayPacket => Keeps(s, u)
  BY <1>1, <1>2, <1>3, AfterTransmissionKeeps, Zenon
<1> HIDE DEF p, u
<1>7. u \in LinkState /\ u.txQueue = s.txQueue
  BY <1>6, Zenon DEF InterfaceInv, Preserves
<1>8. OnLink(u, p)
  <2>1. s.recvSeqNum \in Nat /\ u.recvSeqNum \in Nat
    BY <1>1, <1>7, FieldTypes
  <2>2. /\ Len(s.accepted) <= Len(u.accepted)
        /\ \A i \in 1 .. Len(s.accepted) : u.accepted[i] = s.accepted[i]
        /\ s.recvSeqNum <= u.recvSeqNum
    BY <2>1, <1>6 DEF Preserves
  <2> QED
    BY <2>2, <1>1, <1>5, <1>7, OnLinkStays
<1>9. /\ q \in Seq(Packet)
      /\ Len(q) = Len(u.txQueue) + 1
      /\ \A i \in 1 .. Len(u.txQueue) : q[i] = u.txQueue[i]
      /\ q[Len(u.txQueue) + 1] = p
      /\ Len(u.txQueue) \in Nat
  BY <1>5, <1>7, FieldTypes, AppendProperties
<1> HIDE DEF q
<1>10. \A i \in 1 .. Len(q) : OnLink(u, q[i])
  <2> SUFFICES ASSUME NEW i \in 1 .. Len(q)
               PROVE  OnLink(u, q[i])
    OBVIOUS
  <2>1. CASE i \in 1 .. Len(u.txQueue)
    BY <2>1, <1>6, <1>9 DEF InterfaceInv
  <2>2. CASE i = Len(u.txQueue) + 1
    BY <2>2, <1>8, <1>9
  <2> QED
    BY <2>1, <2>2, <1>9
<1>11. /\ InterfaceInv(a, m)
       /\ a.txQueue = q
       /\ a.accepted = u.accepted
       /\ a.delivered = u.delivered
       /\ a.recvSeqNum = u.recvSeqNum
       /\ Base(a) = Base(u)
       /\ Fresh(a) = Fresh(u)
  <2>1. a = [u EXCEPT !.txQueue = q]
    BY DEF EnterDelay, q
  <2> HIDE DEF a
  <2> QED
    BY <2>1, <1>1, <1>6, <1>9, <1>10, QueueChanges
<1> HIDE DEF a
<1>12. ChannelInv(t, a)
  BY <1>1, <1>6, <1>11, ReceiverChannel DEF Preserves
<1>13. InOrder(a, t)
  <2>1. InOrder(u, t)
    BY <1>1, <1>6, <1>7, SenderChannel DEF ChannelInv
  <2> QED
    BY <2>1, <1>11 DEF InOrder
<1>14. /\ Len(s.txQueue) \in Nat
       /\ Len(a.txQueue) = Len(s.txQueue) + 1
       /\ \A i \in 1 .. Len(s.txQueue) : a.txQueue[i] = s.txQueue[i]
       /\ a.txQueue[Len(s.txQueue) + 1] = p
  <2>1. a.txQueue = q /\ u.txQueue = s.txQueue
    BY <1>7, <1>11
  <2> QED
    BY <2>1, <1>9
<1>15. ASSUME t.recvSeqNum = 0
       PROVE  FirstIsZero(a)
  <2>1. FirstIsZero(s)
    BY <1>1, <1>15 DEF ChannelInv
  <2>2. CASE \E j \in 1 .. Len(s.txQueue) :
               /\ s.txQueue[j].isTLP
               /\ s.txQueue[j].seqNum = 0
               /\ \A i \in 1 .. j - 1 : ~s.txQueue[i].isTLP
    <3>1. PICK j \in 1 .. Len(s.txQueue) :
               /\ s.txQueue[j].isTLP
               /\ s.txQueue[j].seqNum = 0
               /\ \A i \in 1 .. j - 1 : ~s.txQueue[i].isTLP
      BY <2>2
    <3>2. /\ j \in 1 .. Len(a.txQueue)
          /\ a.txQueue[j] = s.txQueue[j]
          /\ \A i \in 1 .. j - 1 : a.txQueue[i] = s.txQueue[i]
      BY <1>14
    <3> QED
      BY <3>1, <3>2 DEF FirstIsZero
  <2>3. CASE (\A j \in 1 .. Len(s.txQueue) : ~s.txQueue[j].isTLP) /\ Fresh(s)
    <3>1. /\ \A i \in 1 .. Len(a.txQueue) - 1 : ~a.txQueue[i].isTLP
          /\ Len(a.txQueue) \in 1 .. Len(a.txQueue)
          /\ a.txQueue[Len(a.txQueue)] = p
      BY <2>3, <1>14
    <3>2. CASE p.isTLP
      <4>1. p.seqNum = 0
        BY <2>3, <3>2, <1>1, <1>5, FreshSendsZero
      <4> QED
        BY <3>1, <3>2, <4>1 DEF FirstIsZero
    <3>3. CASE ~p.isTLP
      <4>1. Keeps(s, u)
        BY <3>3, <1>1, <1>5, <1>6, AckIsNotHeld
      <4>2. Fresh(a)
        BY <2>3, <4>1, <1>11 DEF Keeps
      <4>3. \A i \in 1 .. Len(a.txQueue) : ~a.txQueue[i].isTLP
        BY <3>1, <3>3, <1>9, <1>11
      <4> QED
        BY <4>2, <4>3 DEF FirstIsZero
    <3> QED
      BY <3>2, <3>3
  <2> QED
    BY <2>1, <2>2, <2>3 DEF FirstIsZero
<1>16. ChannelInv(a, t)
  BY <1>13, <1>15 DEF ChannelInv
<1> QED
  BY <1>1, <1>3, <1>4, <1>11, <1>12, <1>16, Reassemble, Zenon DEF m, n

\* processTxQueue preserves the invariant.
LEMMA ProcessTxQueueStep ==
  ASSUME IndInv, Regular, NEW l \in Links, NEW accept \in BOOLEAN,
         ProcessTxQueue(l, accept)
  PROVE  IndInv'
<1> DEFINE s == link[l]
           t == link[Other(l)]
           p == Head(s.txQueue)
           q == Tail(s.txQueue)
           a == LeaveDelay(s)
           b == LinkReceiveInterface(t, p, accept)
           m == MaxTLP[l]
           n == MaxTLP[Other(l)]
<1>1. /\ s \in LinkState /\ t \in LinkState
      /\ InterfaceInv(s, m) /\ InterfaceInv(t, n)
      /\ ChannelInv(s, t) /\ ChannelInv(t, s)
      /\ ~Delayed => s.txQueue = <<>>
      /\ m \in Nat /\ n \in Nat
  BY Ends
<1>2. m <= IntLimit /\ n <= IntLimit
  BY TwoEnds DEF Regular
<1>3. /\ s.txQueue # <<>> /\ MayAnswer(t, accept)
      /\ undefined' = undefined
      /\ link' = [link EXCEPT ![l] = a, ![Other(l)] = b]
  BY TwoEnds DEF ProcessTxQueue, IndInv
<1>4. undefined' \in BOOLEAN
  BY <1>3 DEF IndInv
<1> HIDE DEF s, t, m, n
<1>5. /\ p \in Packet /\ p = s.txQueue[1] /\ q \in Seq(Packet)
      /\ Len(s.txQueue) \in Nat /\ Len(s.txQueue) >= 1
      /\ Len(q) = Len(s.txQueue) - 1
      /\ \A i \in 1 .. Len(q) : q[i] = s.txQueue[i + 1]
  <2>1. s.txQueue \in Seq(Packet)
    BY <1>1, FieldTypes
  <2> QED
    BY <2>1, <1>3, HeadTailProperties
<1> HIDE DEF p, q
<1>6. OnLink(s, p) /\ \A i \in 1 .. Len(q) : OnLink(s, q[i])
  <2>1. \A i \in 1 .. Len(s.txQueue) : OnLink(s, s.txQueue[i])
    BY <1>1 DEF InterfaceInv
  <2> QED
    BY <2>1, <1>5
<1>7. FirstTaken(t, p, accept)
  <2> SUFFICES ASSUME t.recvSeqNum = 0, p.isTLP
               PROVE  p.seqNum = 0 /\ accept
    BY DEF FirstTaken
  <2>1. accept
    BY <1>3 DEF MayAnswer, Regular
  <2>2. PICK j \in 1 .. Len(s.txQueue) :
          /\ s.txQueue[j].isTLP
          /\ s.txQueue[j].seqNum = 0
          /\ \A i \in 1 .. j - 1 : ~s.txQueue[i].isTLP
    <3>1. FirstIsZero(s)
      BY <1>1 DEF ChannelInv
    <3>2. 1 \in 1 .. Len(s.txQueue) /\ s.txQueue[1].isTLP
      BY <1>5
    <3> QED
      BY <3>1, <3>2 DEF FirstIsZero
  <2>3. j = 1
    BY <2>2, <1>5
  <2> QED
    BY <2>1, <2>2, <2>3, <1>5
<1>8. /\ InterfaceInv(b, n) /\ ChannelInv(b, s) /\ InOrder(s, b)
      /\ b.txQueue = t.txQueue
      /\ \/ p.isTLP /\ b.recvSeqNum > 0
         \/ ~p.isTLP /\ b.recvSeqNum = t.recvSeqNum
  <2>1. b = LinkReceiveInterface(t, p, accept) /\ accept \in BOOLEAN
    OBVIOUS
  <2> HIDE DEF b
  <2>2. InterfaceInv(b, n) /\ Arrives(s, t, p, b)
    BY <2>1, <1>1, <1>2, <1>5, <1>6, <1>7, ReceiveKeeps
  <2> QED
    BY <2>2 DEF Arrives
<1>9. /\ InterfaceInv(a, m)
      /\ a.txQueue = q
      /\ a.accepted = s.accepted
      /\ a.delivered = s.delivered
      /\ a.recvSeqNum = s.recvSeqNum
      /\ Base(a) = Base(s)
      /\ Fresh(a) = Fresh(s)
  <2>1. a = [s EXCEPT !.txQueue = q]
    BY DEF LeaveDelay, q
  <2> HIDE DEF a
  <2> QED
    BY <2>1, <1>1, <1>5, <1>6, QueueChanges
<1> HIDE DEF a, b
<1>10. ChannelInv(b, a)
  BY <1>8, <1>9, ReceiverChannel
<1>11. InOrder(a, b)
  BY <1>8, <1>9 DEF InOrder
<1>12. b.recvSeqNum \in Nat
  BY <1>8, FieldTypes DEF InterfaceInv
<1>13. ASSUME b.recvSeqNum = 0
       PROVE  FirstIsZero(a)
  <2>1. ~p.isTLP /\ t.recvSeqNum = 0
    BY <1>8, <1>13
  <2>2. FirstIsZero(s)
    BY <2>1, <1>1 DEF ChannelInv
  <2>3. CASE (\A j \in 1 .. Len(s.txQueue) : ~s.txQueue[j].isTLP) /\ Fresh(s)
    <3>1. ASSUME NEW j \in 1 .. Len(a.txQueue)
          PROVE  ~a.txQueue[j].isTLP
      <4>1. /\ j \in 1 .. Len(q) /\ j + 1 \in 1 .. Len(s.txQueue)
            /\ a.txQueue[j] = s.txQueue[j + 1]
        BY <1>5, <1>9
      <4> QED
        BY <4>1, <2>3
    <3>2. Fresh(a)
      BY <2>3, <1>9
    <3> QED
      BY <3>1, <3>2 DEF FirstIsZero
  <2>4. CASE \E j \in 1 .. Len(s.txQueue) :
               /\ s.txQueue[j].isTLP
               /\ s.txQueue[j].seqNum = 0
               /\ \A i \in 1 .. j - 1 : ~s.txQueue[i].isTLP
    <3>1. PICK j \in 1 .. Len(s.txQueue) :
               /\ s.txQueue[j].isTLP
               /\ s.txQueue[j].seqNum = 0
               /\ \A i \in 1 .. j - 1 : ~s.txQueue[i].isTLP
      BY <2>4
    <3>2. j # 1
      BY <2>1, <3>1, <1>5
    <3>3. /\ Len(a.txQueue) = Len(s.txQueue) - 1
          /\ \A i \in 1 .. Len(a.txQueue) : a.txQueue[i] = s.txQueue[i + 1]
      BY <1>5, <1>9
    <3> DEFINE k == j - 1
    <3>4. k \in 1 .. Len(a.txQueue) /\ k + 1 = j /\ k \in Nat
      BY <3>2, <3>3, <1>5
    <3> HIDE DEF k
    <3>5. a.txQueue[k] = s.txQueue[j]
      BY <3>3, <3>4
    <3>6. ASSUME NEW i \in 1 .. k - 1
          PROVE  ~a.txQueue[i].isTLP
      <4>1. i \in 1 .. Len(a.txQueue) /\ i + 1 \in 1 .. j - 1
        BY <3>3, <3>4, <1>5
      <4>2. ~s.txQueue[i + 1].isTLP
        BY <4>1, <3>1
      <4> QED
        BY <4>1, <4>2, <3>3
    <3> QED
      BY <3>1, <3>4, <3>5, <3>6 DEF FirstIsZero
  <2> QED
    BY <2>2, <2>3, <2>4 DEF FirstIsZero
<1>14. ChannelInv(a, b)
  BY <1>11, <1>13 DEF ChannelInv
<1>15. Delayed
  BY <1>1, <1>3, ConstantsAssumption
<1> QED
  BY <1>3, <1>4, <1>8, <1>9, <1>10, <1>14, <1>15, Reassemble, Zenon DEF m, n

\* A step that leaves both interfaces alone preserves the invariant.
LEMMA SameLink ==
  ASSUME IndInv, link' = link, undefined' \in BOOLEAN
  PROVE  IndInv'
<1> DEFINE l == "down"
           a == link[l]
           b == link[Other(l)]
<1>1. l \in Links
  BY DEF Links
<1> HIDE DEF l
<1>2. /\ InterfaceInv(a, MaxTLP[l]) /\ InterfaceInv(b, MaxTLP[Other(l)])
      /\ ChannelInv(a, b) /\ ChannelInv(b, a)
      /\ ~Delayed => a.txQueue = <<>> /\ b.txQueue = <<>>
  BY <1>1, Ends
<1>3. link' = [link EXCEPT ![l] = a, ![Other(l)] = b]
  BY <1>1, TwoEnds DEF IndInv
<1> HIDE DEF a, b
<1> QED
  BY <1>1, <1>2, <1>3, Reassemble, Zenon

\* The invariant holds when the link has been constructed.
LEMMA Initially == Init => IndInv
<1> SUFFICES ASSUME Init
             PROVE  IndInv
  OBVIOUS
<1>1. /\ InitLink.accepted = <<>> /\ InitLink.delivered = <<>>
      /\ InitLink.buffer = <<>> /\ InitLink.txQueue = <<>>
      /\ InitLink.sendSeqNum = 0 /\ InitLink.recvSeqNum = 0
      /\ InitLink.replayPacket = Null
  BY DEF InitLink
<1>2. InOrder(InitLink, InitLink) /\ FirstIsZero(InitLink)
  BY <1>1 DEF InOrder, FirstIsZero, Fresh, Base, Held
<1>3. ASSUME NEW l \in Links
      PROVE  /\ link[l] = InitLink /\ link[Other(l)] = InitLink
             /\ InterfaceInv(link[l], MaxTLP[l])
    BY TwoEnds, InitialInterface DEF Init
<1>4. InitLink \in LinkState
  BY InitialInterface DEF InterfaceInv
<1> QED
  BY <1>1, <1>2, <1>3, <1>4, Zenon DEF Init, IndInv, ChannelInv

\* Every step preserves the invariant.
LEMMA Inductive == ASSUME Regular, IndInv, [Next]_vars PROVE IndInv'
<1>1. ASSUME UNCHANGED vars PROVE IndInv'
  <2>1. link' = link /\ undefined' \in BOOLEAN
    BY <1>1 DEF vars, IndInv
  <2> QED
    BY <2>1, SameLink
<1>2. ASSUME NEW l \in Links, ReadFreed(l) PROVE IndInv'
  BY <1>2, SameLink DEF ReadFreed
<1>3. ASSUME NEW l \in Links PROVE Masters[l] \subseteq BOOLEAN
  BY ConstantsAssumption
<1> QED
  BY <1>1, <1>2, <1>3, SendStep, TxDoneStep, TxDoneDelayedStep,
     ProcessTxQueueStep, TimeoutStep, SendAckStep DEF Next

-----------------------------------------------------------------------------
(* The theorems *)

\* The invariant holds in every reachable state of the link, for any size of
\* the replay buffer, any delay and any number of packets below 2^31.
THEOREM Invariance ==
  ASSUME Regular
  PROVE  Spec => []IndInv
<1>1. Init => IndInv
  BY Initially
<1>2. IndInv /\ [Next]_vars => IndInv'
  BY Inductive
<1> QED
  BY <1>1, <1>2, PTL DEF Spec

\* The members of both interfaces keep their types.
THEOREM TypeCorrect ==
  ASSUME Regular
  PROVE  Spec => []TypeOK
<1>1. IndInv => TypeOK
  BY DEF IndInv, TypeOK
<1> QED
  BY <1>1, Invariance, PTL

\* Each device is given the packets the other one handed over in their order,
\* none twice (the sequence number check of linkReceiveInterface).
THEOREM DeliversInOrder ==
  ASSUME Regular
  PROVE  Spec => []InOrderDelivery
<1>1. IndInv => InOrderDelivery
  BY DEF IndInv, InOrderDelivery, ChannelInv, InOrder
<1> QED
  BY <1>1, Invariance, PTL

\* What an interface no longer holds has been delivered.
LEMMA BaseCovered ==
  ASSUME NEW s, NEW t, NEW max, InterfaceInv(s, max), InOrder(s, t),
         t \in LinkState
  PROVE  Len(s.accepted) - Held(s) <= Len(t.delivered)
<1>1. /\ s.sendSeqNum = Len(s.accepted)
      /\ s.sendSeqNum - Held(s) <= t.recvSeqNum
      /\ t.recvSeqNum = Len(t.delivered)
  BY DEF InterfaceInv, Numbered, InOrder, Base
<1> QED
  BY <1>1

\* A packet that linkTransmitInterface accepted and that was not delivered is
\* still held for replay.
THEOREM LosesNothing ==
  ASSUME Regular
  PROVE  Spec => []NoLoss
<1>1. IndInv => NoLoss
  BY Ends, BaseCovered DEF NoLoss, ChannelInv
<1> QED
  BY <1>1, Invariance, PTL

\* pushBack never drops a packet: the replay buffer has room when the first
\* transmission ends.
THEOREM NeverOverflows ==
  ASSUME Regular
  PROVE  Spec => []BufferHasRoom
<1>1. IndInv => BufferHasRoom
  BY DEF IndInv, InterfaceInv, Room, BufferHasRoom
<1> QED
  BY <1>1, Invariance, PTL

\* The Acks of one interface cover only what it took.
LEMMA AcksEarned ==
  ASSUME NEW s, NEW max, InterfaceInv(s, max),
         NEW a \in AcksFrom(s)
  PROVE  a.seqNum < s.recvSeqNum
<1>1. a.isDLLP /\ a # Null
  <2>1. a.isDLLP
    BY DEF AcksFrom
  <2>2. ~Null.isDLLP
    BY DEF Null
  <2> QED
    BY <2>1, <2>2
<1>2. OnLink(s, a) \/ IsAck(s, a)
  <2>1. \/ a = s.packet
        \/ a = s.replayDLLP
        \/ \E i \in 1 .. Len(s.txQueue) : a = s.txQueue[i]
    BY DEF AcksFrom, InFlight
  <2> QED
    BY <2>1, <1>1 DEF InterfaceInv
<1>3. ~IsCopy(s, a)
  BY <1>1 DEF IsCopy, TLP
<1> QED
  BY <1>2, <1>3 DEF OnLink, IsAck

\* No Ack under way covers a packet its sender has not taken.
THEOREM NoUnearnedAck ==
  ASSUME Regular
  PROVE  Spec => []AcksAreEarned
<1>1. IndInv => AcksAreEarned
  BY AcksEarned DEF IndInv, AcksAreEarned
<1> QED
  BY <1>1, Invariance, PTL
=============================================================================
