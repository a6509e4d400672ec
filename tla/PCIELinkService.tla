-------------------------- MODULE PCIELinkService --------------------------
(***************************************************************************)
(* Proofs about what PCIELink does for its two devices.                    *)
(*                                                                         *)
(* Nothing waits for an event that will not come: a stored packet has its  *)
(* replay timer or its replay, whatever waits for the link waits for a     *)
(* packet on it, and a device that was turned down is offered a retry when *)
(* the last reason goes away.  Each of the three is about one interface    *)
(* (Awake), but none holds in the middle of txDone, where the link is free *)
(* and the pending packets are served one after the other (Halfway).       *)
(*                                                                         *)
(* Both directions implement ReliableLink.  One event may offer the same   *)
(* device several retries; that it accepts one packet at most follows from *)
(* what the first of them leaves behind (Offers).                          *)
(***************************************************************************)
EXTENDS PCIELinkProofs

-----------------------------------------------------------------------------
(* The invariant, for one interface *)

\* ReplayArmed for one interface.
Armed(s) == s.buffer # <<>> => s.timeoutEvent \/ (s.retransmit /\ Busy(s))

\* NothingWaitsForIdleLink for one interface.
Attended(s) ==
  s.replayPacket # Null \/ s.replayDLLP # Null \/ s.retransmit => Busy(s)

\* NoLostRetry for one interface.
Reasoned(s) == s.retryReq \/ s.retryResp => Rejects(s)

Awake(s) == Armed(s) /\ Attended(s) /\ Reasoned(s)

\* The invariant: that of PCIELinkProofs, and both interfaces are awake.
WakeInv == IndInv /\ \A l \in Links : Awake(link[l])

-----------------------------------------------------------------------------
(* What the parts of the handlers change *)

\* From s to u nothing happens to the packets of the device; the link may have
\* become busy, and an Ack waits only for a busy link.
Aside(s, u) ==
  /\ u.buffer = s.buffer
  /\ u.replayPacket = s.replayPacket
  /\ u.retransmit = s.retransmit
  /\ u.timeoutEvent = s.timeoutEvent
  /\ u.retryReq = s.retryReq
  /\ u.retryResp = s.retryResp
  /\ u.accepted = s.accepted
  /\ Busy(s) => Busy(u)
  /\ u.replayDLLP # Null => s.replayDLLP # Null \/ Busy(u)

\* From s to u the device offers packets, of which at most one is accepted: the
\* link turns down whatever comes after it.
Offers(s, u) ==
  /\ u.buffer = s.buffer
  /\ u.retransmit = s.retransmit
  /\ u.retransmitIdx = s.retransmitIdx
  /\ u.timeoutEvent = s.timeoutEvent
  /\ u.replayDLLP = s.replayDLLP
  /\ Busy(s) => Busy(u)
  /\ u.replayPacket # Null => s.replayPacket # Null \/ Busy(u)
  /\ Rejects(s) => Rejects(u)
  /\ \/ u.accepted = s.accepted
     \/ /\ ~Rejects(s) /\ Rejects(u)
        /\ \E pkt \in Pkt : u.accepted = Append(s.accepted, pkt)

\* At most one packet is accepted between s and u.
Grows(s, u) ==
  \/ u.accepted = s.accepted
  \/ \E pkt \in Pkt : u.accepted = Append(s.accepted, pkt)

\* An interface from which only an Ack was sent or deferred stays awake.
LEMMA AsideAwake ==
  ASSUME NEW s, NEW u, Awake(s), Aside(s, u)
  PROVE  Awake(u)
<1>1. Armed(u)
  BY DEF Awake, Armed, Aside
<1>2. Attended(u)
  BY DEF Awake, Attended, Aside
<1>3. Rejects(u) = Rejects(s)
  BY DEF Rejects, Aside
<1> QED
  BY <1>1, <1>2, <1>3 DEF Awake, Reasoned, Aside

\* Nothing offered, nothing changed.
LEMMA OffersNothing ==
  ASSUME NEW s
  PROVE  Offers(s, s) /\ Aside(s, s)
BY DEF Offers, Aside

\* Of packets offered one after the other, too, at most one is accepted.
LEMMA OffersTransitive ==
  ASSUME NEW s, NEW t, NEW u, Offers(s, t), Offers(t, u)
  PROVE  Offers(s, u)
BY DEF Offers

\* linkTransmitInterface accepts the packet or turns it down, and in both cases
\* would turn down the next one.
LEMMA OfferEffect ==
  ASSUME NEW s \in LinkState, NEW master \in BOOLEAN
  PROVE  /\ Offers(s, LinkTransmitInterface(s, master))
         /\ Rejects(LinkTransmitInterface(s, master))
<1> DEFINE u == LinkTransmitInterface(s, master)
           pkt == [isResponse |-> master, id |-> Len(s.accepted) + 1]
           tlp == TLP(s.sendSeqNum, pkt)
           r == [s EXCEPT !.replayPacket = tlp]
           t == Transmit(r, tlp)
<1>1. CASE Rejects(s)
  <2>1. u = IF master THEN [s EXCEPT !.retryResp = TRUE]
                      ELSE [s EXCEPT !.retryReq = TRUE]
    BY <1>1 DEF LinkTransmitInterface
  <2> HIDE DEF u
  <2>2. /\ u.buffer = s.buffer /\ u.retransmit = s.retransmit
        /\ u.retransmitIdx = s.retransmitIdx
        /\ u.timeoutEvent = s.timeoutEvent /\ u.replayDLLP = s.replayDLLP
        /\ u.packet = s.packet /\ u.replayPacket = s.replayPacket
        /\ u.accepted = s.accepted
    BY <2>1 DEF LinkState
  <2>3. Rejects(u)
    BY <1>1, <2>2 DEF Rejects
  <2>4. Offers(s, u)
    BY <2>2, <2>3 DEF Offers, Busy
  <2> QED
    BY <2>3, <2>4 DEF u
<1>2. CASE ~Rejects(s)
  <2>1. pkt \in Pkt /\ s.sendSeqNum \in Nat
    BY DEF Pkt, LinkState
  <2>2. tlp \in Packet /\ tlp # Null
    BY <2>1, TLPType
  <2>3. u = [t EXCEPT !.sendSeqNum = Plus1(t.sendSeqNum),
                      !.accepted = Append(t.accepted, pkt)]
    BY <1>2 DEF LinkTransmitInterface
  <2> HIDE DEF pkt, tlp, u
  <2>4. r \in LinkState
    BY <2>2, Zenon DEF LinkState
  <2>5. /\ r.buffer = s.buffer /\ r.retransmit = s.retransmit
        /\ r.retransmitIdx = s.retransmitIdx
        /\ r.timeoutEvent = s.timeoutEvent /\ r.replayDLLP = s.replayDLLP
        /\ r.packet = s.packet /\ r.replayPacket = tlp
        /\ r.accepted = s.accepted
    BY DEF LinkState
  <2> HIDE DEF r
  <2>6. t \in LinkState /\ t = [r EXCEPT !.packet = IF Busy(r) THEN r.packet ELSE tlp]
    BY <2>2, <2>4, TransmitEffect
  <2> HIDE DEF t
  <2>7. /\ t.buffer = r.buffer /\ t.retransmit = r.retransmit
        /\ t.retransmitIdx = r.retransmitIdx
        /\ t.timeoutEvent = r.timeoutEvent /\ t.replayDLLP = r.replayDLLP
        /\ t.packet = IF Busy(r) THEN r.packet ELSE tlp
        /\ t.replayPacket = r.replayPacket
        /\ t.accepted = r.accepted
    BY <2>4, <2>6 DEF LinkState
  <2>8. /\ u.buffer = t.buffer /\ u.retransmit = t.retransmit
        /\ u.retransmitIdx = t.retransmitIdx
        /\ u.timeoutEvent = t.timeoutEvent /\ u.replayDLLP = t.replayDLLP
        /\ u.packet = t.packet /\ u.replayPacket = t.replayPacket
        /\ u.accepted = Append(t.accepted, pkt)
    BY <2>3, <2>6 DEF LinkState
  <2>9. Busy(u)
    BY <2>2, <2>5, <2>7, <2>8 DEF Busy
  <2>10. Rejects(u)
    BY <2>2, <2>5, <2>7, <2>8 DEF Rejects
  <2>11. u.accepted = Append(s.accepted, pkt)
    BY <2>5, <2>7, <2>8
  <2>12. Offers(s, u)
    BY <1>2, <2>1, <2>5, <2>7, <2>8, <2>9, <2>10, <2>11 DEF Offers
  <2> QED
    BY <2>10, <2>12 DEF u
<1> QED
  BY <1>1, <1>2

\* The members that decide whether an interface is awake.
SameDuties(s, u) ==
  /\ u.buffer = s.buffer
  /\ u.retransmit = s.retransmit
  /\ u.retransmitIdx = s.retransmitIdx
  /\ u.timeoutEvent = s.timeoutEvent
  /\ u.replayDLLP = s.replayDLLP
  /\ u.replayPacket = s.replayPacket
  /\ u.packet = s.packet
  /\ u.accepted = s.accepted

\* Whether the device was turned down does not matter to the next offer.
LEMMA OffersAfterFlag ==
  ASSUME NEW s, NEW a, NEW u, SameDuties(s, a), Offers(a, u)
  PROVE  Offers(s, u)
BY DEF SameDuties, Offers, Busy, Rejects

\* sendRetryReq() and sendRetryResp(): afterwards a device waits only if there
\* is a reason to turn it down.
LEMMA RetryEffect ==
  ASSUME NEW max \in Nat, NEW s, InterfaceInv(s, max), max <= IntLimit
  PROVE  Offers(s, Retry(s)) /\ Reasoned(Retry(s))
<1> DEFINE a == [s EXCEPT !.retryReq = FALSE]
           t == RetryReq(s)
           b == [t EXCEPT !.retryResp = FALSE]
           u == RetryResp(t)
<1>1. s \in LinkState /\ t \in LinkState /\ u = Retry(s)
  BY RetryKeeps DEF InterfaceInv, Retry
<1>2. a \in LinkState /\ SameDuties(s, a)
  BY <1>1, Zenon DEF LinkState, SameDuties
<1>3. /\ s.retryReq => t = LinkTransmitInterface(a, FALSE)
      /\ ~s.retryReq => t = s
  BY Zenon DEF RetryReq
<1> HIDE DEF a, t
<1>4. b \in LinkState /\ SameDuties(t, b)
  BY <1>1, Zenon DEF LinkState, SameDuties
<1>5. /\ t.retryResp => u = LinkTransmitInterface(b, TRUE)
      /\ ~t.retryResp => u = t
  BY Zenon DEF RetryResp
<1> HIDE DEF b, u
<1>6. Offers(s, t) /\ (s.retryReq => Rejects(t))
  <2>1. CASE s.retryReq
    BY <2>1, <1>2, <1>3, OfferEffect, OffersAfterFlag, Zenon
  <2>2. CASE ~s.retryReq
    BY <2>2, <1>3, OffersNothing
  <2> QED
    BY <2>1, <2>2
<1>7. Offers(t, u) /\ (t.retryResp => Rejects(u))
  <2>1. CASE t.retryResp
    BY <2>1, <1>4, <1>5, OfferEffect, OffersAfterFlag, Zenon
  <2>2. CASE ~t.retryResp
    BY <2>2, <1>5, OffersNothing
  <2> QED
    BY <2>1, <2>2
<1>8. Rejects(t) => Rejects(u)
  BY <1>7 DEF Offers
<1>9. Reasoned(u)
  <2>1. CASE s.retryReq \/ t.retryResp
    BY <2>1, <1>6, <1>7, <1>8 DEF Reasoned
  <2>2. CASE ~s.retryReq /\ ~t.retryResp
    BY <2>2, <1>3, <1>5 DEF Reasoned
  <2> QED
    BY <2>1, <2>2
<1> QED
  BY <1>1, <1>6, <1>7, <1>9, OffersTransitive

\* An interface that was awake before the retries is awake after them.
LEMMA OffersAwake ==
  ASSUME NEW s, NEW u, Armed(s), Attended(s), Offers(s, u), Reasoned(u)
  PROVE  Awake(u) /\ Grows(s, u)
<1>1. Armed(u)
  BY DEF Armed, Offers
<1>2. Attended(u)
  BY DEF Attended, Offers
<1> QED
  BY <1>1, <1>2 DEF Awake, Offers, Grows

-----------------------------------------------------------------------------
(* linkReceiveInterface *)

\* Sending an Ack, or deferring it on a busy link, touches nothing else.
LEMMA AcknowledgeAside ==
  ASSUME NEW s \in LinkState
  PROVE  Aside(s, Acknowledge(s)) /\ Acknowledge(s).delivered = s.delivered
<1> DEFINE u == Acknowledge(s)
           v == [s EXCEPT !.packet = AckOf(s)]
           w == [s EXCEPT !.replayDLLP = AckOf(s),
                          !.lastAcked = Minus1(s.recvSeqNum),
                          !.ackEvent = TRUE]
<1>1. s.ackEvent \in BOOLEAN
  BY FieldTypes DEF LinkState
<1>2. CASE s.ackEvent
  BY <1>2, OffersNothing DEF Acknowledge
<1>3. CASE ~s.ackEvent /\ ~Busy(s)
  <2>1. u = v
    BY <1>3 DEF Acknowledge, Transmit
  <2>2. /\ v.buffer = s.buffer /\ v.replayPacket = s.replayPacket
        /\ v.retransmit = s.retransmit /\ v.timeoutEvent = s.timeoutEvent
        /\ v.retryReq = s.retryReq /\ v.retryResp = s.retryResp
        /\ v.accepted = s.accepted /\ v.replayDLLP = s.replayDLLP
        /\ v.delivered = s.delivered
    BY DEF LinkState
  <2> HIDE DEF u, v
  <2>3. Aside(s, u)
    BY <1>3, <2>1, <2>2 DEF Aside
  <2> QED
    BY <2>1, <2>2, <2>3 DEF u
<1>4. CASE ~s.ackEvent /\ Busy(s)
  <2>1. u = w
    BY <1>4 DEF Acknowledge
  <2>2. /\ w.buffer = s.buffer /\ w.replayPacket = s.replayPacket
        /\ w.retransmit = s.retransmit /\ w.timeoutEvent = s.timeoutEvent
        /\ w.retryReq = s.retryReq /\ w.retryResp = s.retryResp
        /\ w.accepted = s.accepted /\ w.packet = s.packet
        /\ w.delivered = s.delivered
    BY DEF LinkState
  <2> HIDE DEF u, w
  <2>3. Aside(s, u)
    BY <1>4, <2>1, <2>2 DEF Aside, Busy
  <2> QED
    BY <2>1, <2>2, <2>3 DEF u
<1> QED
  BY <1>1, <1>2, <1>3, <1>4

\* From t to u the packet p was given to the device, if it was the next one.
Receives(t, p, u) ==
  \/ u.delivered = t.delivered
  \/ p.seqNum = t.recvSeqNum /\ u.delivered = Append(t.delivered, p.pkt)

\* A TLP that arrives leads to an Ack and nothing else on this link.
LEMMA ReceiveTLPAside ==
  ASSUME NEW s \in LinkState, NEW p \in Packet, NEW accept \in BOOLEAN
  PROVE  /\ Aside(s, ReceiveTLP(s, p, accept))
         /\ Receives(s, p, ReceiveTLP(s, p, accept))
<1> DEFINE w == [s EXCEPT !.recvSeqNum = Plus1(s.recvSeqNum),
                          !.delivered = Append(s.delivered, p.pkt)]
<1>1. CASE p.seqNum # s.recvSeqNum
  BY <1>1, AcknowledgeAside DEF ReceiveTLP, Receives
<1>2. CASE p.seqNum = s.recvSeqNum /\ ~accept
  BY <1>2, OffersNothing DEF ReceiveTLP, Receives
<1>3. CASE p.seqNum = s.recvSeqNum /\ accept
  <2>1. ReceiveTLP(s, p, accept) = Acknowledge(w)
    BY <1>3 DEF ReceiveTLP
  <2>2. /\ s.recvSeqNum \in Nat /\ s.delivered \in Seq(Pkt) /\ p.pkt \in Pkt
    BY DEF LinkState, Packet
  <2>3. Plus1(s.recvSeqNum) \in Nat
    BY <2>2 DEF Plus1
  <2>4. Append(s.delivered, p.pkt) \in Seq(Pkt)
    BY <2>2
  <2>5. w \in LinkState
    BY <2>3, <2>4, Zenon DEF LinkState
  <2>6. Aside(s, w) /\ w.delivered = Append(s.delivered, p.pkt)
    BY DEF LinkState, Aside, Busy
  <2> HIDE DEF w
  <2>7. Aside(w, Acknowledge(w)) /\ Acknowledge(w).delivered = w.delivered
    BY <2>5, AcknowledgeAside
  <2>8. Aside(s, Acknowledge(w))
    BY <2>6, <2>7 DEF Aside
  <2> QED
    BY <1>3, <2>1, <2>6, <2>7, <2>8, Zenon DEF Receives
<1> QED
  BY <1>1, <1>2, <1>3

\* An Ack stops the replay timer only if it empties the replay buffer, and the
\* room it makes is offered to the devices that wait.
LEMMA ReceiveDLLPAwake ==
  ASSUME NEW max \in Nat, NEW s, NEW p \in Packet, NEW r \in Nat,
         InterfaceInv(s, max), max <= IntLimit, p.seqNum < r, Base(s) <= r,
         Awake(s)
  PROVE  Awake(ReceiveDLLP(s, p)) /\ Grows(s, ReceiveDLLP(s, p))
<1> DEFINE w == ApplyAck(s, p.seqNum)
           rest == Purge(s.buffer, p.seqNum)
<1>1. s \in LinkState /\ p.seqNum \in Nat
  BY DEF InterfaceInv, Packet
<1>2. InterfaceInv(w, max)
  BY <1>1, PurgeKeeps
<1>3. ReceiveDLLP(s, p) = Retry(w)
  BY DEF ReceiveDLLP
<1>4. w = [s EXCEPT !.buffer = rest, !.timeoutEvent = rest # <<>>]
  BY DEF ApplyAck
<1> HIDE DEF w, rest
<1>5. /\ w.buffer = rest /\ w.timeoutEvent = (rest # <<>>)
      /\ w.retransmit = s.retransmit /\ w.packet = s.packet
      /\ w.replayPacket = s.replayPacket /\ w.replayDLLP = s.replayDLLP
      /\ w.accepted = s.accepted
  BY <1>1, <1>4 DEF LinkState
<1>6. Armed(w)
  BY <1>5, Zenon DEF Armed
<1>7. Attended(w)
  BY <1>5 DEF Awake, Attended, Busy
<1>8. Offers(w, Retry(w)) /\ Reasoned(Retry(w))
  BY <1>2, RetryEffect
<1>9. Awake(Retry(w)) /\ Grows(w, Retry(w))
  BY <1>6, <1>7, <1>8, OffersAwake
<1> QED
  BY <1>3, <1>5, <1>9 DEF Grows

\* From s to u, facing t, the device is given nothing or the next packet that t
\* accepted.
Delivers(s, t, u) ==
  \/ u.delivered = s.delivered
  \/ /\ Len(s.delivered) < Len(t.accepted)
     /\ u.delivered = Append(s.delivered, t.accepted[Len(s.delivered) + 1])

\* The next packet from s, in a copy that arrives at t, is the next one that s
\* accepted.
LEMMA CopyDelivers ==
  ASSUME NEW s, NEW t, NEW p, NEW u, ChannelInv(s, t), IsCopy(s, p),
         Receives(t, p, u)
  PROVE  Delivers(t, s, u)
<1>1. t.recvSeqNum = Len(t.delivered)
  BY DEF ChannelInv, InOrder
<1>2. p.seqNum < Len(s.accepted) /\ p.pkt = s.accepted[p.seqNum + 1]
  BY DEF IsCopy, TLP
<1> QED
  BY <1>1, <1>2 DEF Receives, Delivers

\* All of linkReceiveInterface leaves the interface awake, and hands over only
\* the next packet.
LEMMA ReceiveAwake ==
  ASSUME NEW n \in Nat, n <= IntLimit,
         NEW s, NEW t, InterfaceInv(t, n), ChannelInv(t, s), ChannelInv(s, t),
         s \in LinkState, Awake(t),
         NEW p \in Packet, OnLink(s, p), NEW accept \in BOOLEAN
  PROVE  /\ Awake(LinkReceiveInterface(t, p, accept))
         /\ Grows(t, LinkReceiveInterface(t, p, accept))
         /\ Delivers(t, s, LinkReceiveInterface(t, p, accept))
<1>1. t \in LinkState
  BY DEF InterfaceInv
<1>2. CASE p.isTLP
  <2>1. LinkReceiveInterface(t, p, accept) = ReceiveTLP(t, p, accept)
    BY <1>2 DEF LinkReceiveInterface
  <2>2. /\ Aside(t, ReceiveTLP(t, p, accept))
        /\ Receives(t, p, ReceiveTLP(t, p, accept))
    BY <1>1, ReceiveTLPAside
  <2>3. IsCopy(s, p)
    BY <1>2 DEF OnLink, IsAck
  <2>4. Delivers(t, s, ReceiveTLP(t, p, accept))
    BY <2>2, <2>3, CopyDelivers
  <2> QED
    BY <2>1, <2>2, <2>4, AsideAwake DEF Aside, Grows
<1>3. CASE ~p.isTLP
  <2>1. LinkReceiveInterface(t, p, accept) = ReceiveDLLP(t, p)
    BY <1>3 DEF LinkReceiveInterface
  <2>2. ~IsCopy(s, p)
    BY <1>3 DEF IsCopy, TLP
  <2>3. p.seqNum < s.recvSeqNum /\ s.recvSeqNum \in Nat
    BY <2>2, FieldTypes DEF OnLink, IsAck
  <2>4. Base(t) <= s.recvSeqNum
    BY DEF ChannelInv, InOrder
  <2>5. ReceiveDLLP(t, p).delivered = t.delivered
    BY <2>3, <2>4, ReceiveDLLPKeeps DEF TakesAck
  <2> QED
    BY <2>1, <2>3, <2>4, <2>5, ReceiveDLLPAwake DEF Delivers
<1> QED
  BY <1>2, <1>3

-----------------------------------------------------------------------------
(* txDone *)

\* What holds after the first two parts of txDone: no Ack waits, and a stored
\* packet has the timer or a replay, although the link may be free.
Halfway(s) ==
  /\ s.replayDLLP = Null
  /\ s.buffer # <<>> => s.timeoutEvent \/ s.retransmit
  /\ Reasoned(s)

\* What TransmitPendingDLLP and StoreFirstTransmission leave to be done.
LEMMA FirstParts ==
  ASSUME NEW max \in Nat, NEW s, InterfaceInv(s, max), max <= IntLimit,
         Awake(s), Busy(s)
  PROVE  LET a == [s EXCEPT !.packet = Null]
             c == StoreFirstTransmission(TransmitPendingDLLP(a), s.packet)
         IN  /\ InterfaceInv(c, max)
             /\ Halfway(c)
             /\ Grows(s, c)
             /\ c.retransmit => c.accepted = s.accepted
<1> DEFINE p == s.packet
           a == [s EXCEPT !.packet = Null]
           d == Transmit(a, a.replayDLLP)
           b == TransmitPendingDLLP(a)
           c == StoreFirstTransmission(b, p)
<1>1. s \in LinkState /\ p \in Packet /\ p # Null
  BY FieldTypes DEF InterfaceInv, Busy
<1>2. /\ a \in LinkState /\ SameData(s, a) /\ a.packet = Null
      /\ a.replayDLLP = s.replayDLLP /\ a.ackEvent = s.ackEvent
      /\ a.retryReq = s.retryReq /\ a.retryResp = s.retryResp
      /\ a.retransmit = s.retransmit /\ a.timeoutEvent = s.timeoutEvent
  BY <1>1, NullType, Zenon DEF LinkState, SameData
<1> HIDE DEF p, a
<1>3. InterfaceInv(a, max)
  <2>1. Offered(a) = Offered(s)
    BY <1>2 DEF Offered, SameData
  <2> QED
    BY <2>1, <1>2, DataDecides, Zenon DEF InterfaceInv, SameData
<1>4. InterfaceInv(b, max) /\ b \in LinkState
  BY <1>3, PendingDLLPKeeps DEF InterfaceInv
<1>5. /\ b.replayDLLP = Null
      /\ b.buffer = s.buffer /\ b.replayPacket = s.replayPacket
      /\ b.retransmit = s.retransmit /\ b.timeoutEvent = s.timeoutEvent
      /\ b.retryReq = s.retryReq /\ b.retryResp = s.retryResp
      /\ b.accepted = s.accepted
  <2>1. /\ a.buffer = s.buffer /\ a.replayPacket = s.replayPacket
        /\ a.accepted = s.accepted /\ a.replayDLLP \in Packet
    BY <1>2, FieldTypes DEF SameData
  <2>2. CASE a.replayDLLP = Null
    <3>1. b = a
      BY <2>2 DEF TransmitPendingDLLP
    <3> HIDE DEF b
    <3> QED
      BY <2>1, <2>2, <3>1, <1>2
  <2>3. CASE a.replayDLLP # Null
    <3>1. b = [d EXCEPT !.replayDLLP = Null]
      BY <2>3 DEF TransmitPendingDLLP
    <3>2. d \in LinkState /\ d = [a EXCEPT !.packet =
                                 IF Busy(a) THEN a.packet ELSE a.replayDLLP]
      BY <1>2, <2>1, TransmitEffect
    <3> HIDE DEF b, d
    <3>3. /\ d.buffer = a.buffer /\ d.replayPacket = a.replayPacket
          /\ d.retransmit = a.retransmit /\ d.timeoutEvent = a.timeoutEvent
          /\ d.retryReq = a.retryReq /\ d.retryResp = a.retryResp
          /\ d.accepted = a.accepted
      BY <1>2, <3>2 DEF LinkState
    <3>4. /\ b.replayDLLP = Null
          /\ b.buffer = d.buffer /\ b.replayPacket = d.replayPacket
          /\ b.retransmit = d.retransmit /\ b.timeoutEvent = d.timeoutEvent
          /\ b.retryReq = d.retryReq /\ b.retryResp = d.retryResp
          /\ b.accepted = d.accepted
      BY <3>1, <3>2 DEF LinkState
    <3> QED
      BY <2>1, <3>3, <3>4, <1>2
  <2> QED
    BY <2>2, <2>3
<1> HIDE DEF b
<1>6. InterfaceInv(c, max)
  BY <1>1, <1>4, FirstTransmissionKeeps
<1>7. Halfway(b)
  <2>1. b.buffer # <<>> => b.timeoutEvent \/ b.retransmit
    BY <1>5 DEF Awake, Armed
  <2>2. Reasoned(b)
    BY <1>5 DEF Awake, Reasoned, Rejects
  <2> QED
    BY <1>5, <2>1, <2>2 DEF Halfway
<1>8. CASE p # b.replayPacket
  <2>1. c = b
    BY <1>8 DEF StoreFirstTransmission
  <2> HIDE DEF c
  <2>2. Halfway(c) /\ c.accepted = s.accepted
    BY <1>5, <1>7, <2>1
  <2> QED
    BY <1>6, <2>2 DEF Grows, a, b, c, p
<1>9. CASE p = b.replayPacket
  <2> DEFINE w == Stored(b)
  <2>1. c = Retry(w)
    BY <1>9 DEF StoreFirstTransmission, Stored
  <2>2. InterfaceInv(w, max)
    BY <1>1, <1>4, <1>9, StoredKeeps
  <2>3. /\ w.replayDLLP = Null /\ w.timeoutEvent = TRUE
        /\ w.retransmit = b.retransmit /\ w.accepted = b.accepted
    BY <1>4, <1>5 DEF Stored, LinkState
  <2> HIDE DEF w, c
  <2>4. Offers(w, c) /\ Reasoned(c)
    BY <2>1, <2>2, RetryEffect
  <2>5. Halfway(c)
    BY <2>3, <2>4 DEF Halfway, Offers
  <2>6. c.retransmit => Rejects(w)
    BY <2>4 DEF Rejects, Offers
  <2>7. Grows(s, c) /\ (c.retransmit => c.accepted = s.accepted)
    BY <1>5, <2>3, <2>4, <2>6 DEF Offers, Grows
  <2> QED
    BY <1>6, <2>5, <2>7 DEF a, b, c, p
<1> QED
  BY <1>8, <1>9

\* transmit() leaves everything but packet alone, and makes the link busy.
LEMMA TransmitDuties ==
  ASSUME NEW s \in LinkState, NEW p \in Packet, p # Null
  PROVE  LET u == Transmit(s, p)
         IN  /\ u \in LinkState /\ Busy(u)
             /\ u.buffer = s.buffer /\ u.retransmit = s.retransmit
             /\ u.retransmitIdx = s.retransmitIdx
             /\ u.timeoutEvent = s.timeoutEvent
             /\ u.replayDLLP = s.replayDLLP /\ u.replayPacket = s.replayPacket
             /\ u.retryReq = s.retryReq /\ u.retryResp = s.retryResp
             /\ u.accepted = s.accepted
<1> DEFINE u == Transmit(s, p)
<1>1. /\ u \in LinkState
      /\ u = [s EXCEPT !.packet = IF Busy(s) THEN s.packet ELSE p]
  BY TransmitEffect
<1> HIDE DEF u
<1>2. /\ u.packet = IF Busy(s) THEN s.packet ELSE p
      /\ u.buffer = s.buffer /\ u.retransmit = s.retransmit
      /\ u.retransmitIdx = s.retransmitIdx
      /\ u.timeoutEvent = s.timeoutEvent
      /\ u.replayDLLP = s.replayDLLP /\ u.replayPacket = s.replayPacket
      /\ u.retryReq = s.retryReq /\ u.retryResp = s.retryResp
      /\ u.accepted = s.accepted
  BY <1>1 DEF LinkState
<1>3. Busy(u)
  BY <1>2 DEF Busy
<1> QED
  BY <1>1, <1>2, <1>3 DEF u

\* The last part of txDone serves the TLP that waits, if no replay is on.
LEMMA PendingTLPAwake ==
  ASSUME NEW max \in Nat, NEW s, InterfaceInv(s, max), Halfway(s), ~s.retransmit
  PROVE  /\ Awake(TransmitPendingTLP(s))
         /\ TransmitPendingTLP(s).accepted = s.accepted
<1> DEFINE u == TransmitPendingTLP(s)
<1>1. s \in LinkState /\ s.replayPacket \in Packet
  BY FieldTypes DEF InterfaceInv
<1>2. CASE s.replayPacket = Null
  <2>1. u = s
    BY <1>2 DEF TransmitPendingTLP
  <2> HIDE DEF u
  <2>2. Armed(u) /\ Attended(u) /\ Reasoned(u)
    BY <1>2, <2>1 DEF Halfway, Armed, Attended
  <2> QED
    BY <2>1, <2>2 DEF Awake, u
<1>3. CASE s.replayPacket # Null
  <2>1. u = Transmit(s, s.replayPacket)
    BY <1>3 DEF TransmitPendingTLP
  <2> HIDE DEF u
  <2>2. /\ Busy(u)
        /\ u.buffer = s.buffer /\ u.retransmit = s.retransmit
        /\ u.timeoutEvent = s.timeoutEvent /\ u.replayPacket = s.replayPacket
        /\ u.retryReq = s.retryReq /\ u.retryResp = s.retryResp
        /\ u.accepted = s.accepted
    BY <1>1, <1>3, <2>1, TransmitDuties
  <2>3. Armed(u)
    BY <2>2 DEF Halfway, Armed
  <2>4. Attended(u)
    BY <2>2 DEF Attended
  <2>5. Reasoned(u)
    BY <1>3, <2>2 DEF Reasoned, Rejects
  <2> QED
    BY <2>2, <2>3, <2>4, <2>5 DEF Awake, u
<1> QED
  BY <1>2, <1>3

\* The rest of txDone, with or without a replay, leaves the interface awake.
LEMMA ReplayAwake ==
  ASSUME NEW max \in Nat, NEW s, InterfaceInv(s, max), max <= IntLimit,
         Halfway(s)
  PROVE  /\ Awake(ReplayOrPending(s))
         /\ Grows(s, ReplayOrPending(s))
         /\ ~s.retransmit => ReplayOrPending(s).accepted = s.accepted
<1>1. s \in LinkState
  BY DEF InterfaceInv
<1>2. s.retransmit \in BOOLEAN /\ s.retransmitIdx \in Nat /\ Len(s.buffer) \in Nat
  BY <1>1, FieldTypes
<1>3. CASE ~s.retransmit
  BY <1>3, PendingTLPAwake DEF ReplayOrPending, Grows
<1>4. CASE s.retransmit /\ s.retransmitIdx >= Len(s.buffer)
  <2> DEFINE w == [s EXCEPT !.timeoutEvent = TRUE,
                            !.retransmitIdx = 0,
                            !.retransmit = FALSE]
             v == Retry(w)
  <2>1. ReplayOrPending(s) = TransmitPendingTLP(v)
    BY <1>2, <1>4 DEF ReplayOrPending
  <2>2. /\ w \in LinkState /\ SameData(s, w)
        /\ w.packet = s.packet /\ w.replayDLLP = s.replayDLLP
        /\ w.retryReq = s.retryReq /\ w.retryResp = s.retryResp
        /\ w.ackEvent = s.ackEvent
        /\ w.timeoutEvent = TRUE /\ w.retransmit = FALSE
    BY <1>1, ReplayIndexes, Zenon DEF LinkState, SameData
  <2> HIDE DEF w
  <2>3. InterfaceInv(w, max)
    BY <2>2, FlagsKeep
  <2>4. InterfaceInv(v, max) /\ Offers(w, v) /\ Reasoned(v)
    BY <2>3, RetriesKeep, RetryEffect
  <2> HIDE DEF v
  <2>5. Halfway(v) /\ ~v.retransmit
    BY <2>2, <2>4 DEF Halfway, Offers
  <2>6. /\ Awake(TransmitPendingTLP(v))
        /\ TransmitPendingTLP(v).accepted = v.accepted
    BY <2>4, <2>5, PendingTLPAwake
  <2>7. Grows(s, v)
    BY <2>2, <2>4 DEF SameData, Offers, Grows
  <2> QED
    BY <1>4, <2>1, <2>6, <2>7 DEF Grows
<1>5. CASE s.retransmit /\ s.retransmitIdx < Len(s.buffer)
  <2> DEFINE p == s.buffer[s.retransmitIdx + 1]
             t == Transmit(s, p)
             u == [t EXCEPT !.timeoutEvent = TRUE,
                            !.retransmitIdx = t.retransmitIdx + 1]
  <2>1. ReplayOrPending(s) = u
    BY <1>2, <1>5 DEF ReplayOrPending
  <2>2. s.retransmitIdx + 1 \in 1 .. Len(s.buffer)
    BY <1>2, <1>5
  <2>3. p \in Packet /\ OnLink(s, p)
    BY <2>2, HeldOnLink
  <2>4. p # Null
    BY <2>3 DEF OnLink, IsAck, IsCopy, TLP, Null
  <2> HIDE DEF p
  <2>5. /\ t \in LinkState /\ Busy(t) /\ t.retransmit = s.retransmit
        /\ t.accepted = s.accepted
    BY <1>1, <2>3, <2>4, TransmitDuties
  <2> HIDE DEF t
  <2>6. /\ u.packet = t.packet /\ u.retransmit = t.retransmit
        /\ u.timeoutEvent = TRUE /\ u.accepted = t.accepted
    BY <2>5 DEF LinkState
  <2> HIDE DEF u
  <2>7. Armed(u) /\ Attended(u)
    BY <2>5, <2>6 DEF Armed, Attended, Busy
  <2>8. Reasoned(u)
    BY <1>5, <2>5, <2>6 DEF Reasoned, Rejects
  <2> QED
    BY <1>5, <2>1, <2>5, <2>6, <2>7, <2>8 DEF Awake, Grows
<1> QED
  BY <1>2, <1>3, <1>4, <1>5

\* All of txDone leaves the interface awake, and accepts at most one packet: a
\* packet stored during a replay leaves the link turning packets down.
LEMMA AfterTransmissionAwake ==
  ASSUME NEW max \in Nat, NEW s, InterfaceInv(s, max), max <= IntLimit,
         Awake(s), Busy(s)
  PROVE  Awake(AfterTransmission(s)) /\ Grows(s, AfterTransmission(s))
<1> DEFINE a == [s EXCEPT !.packet = Null]
           c == StoreFirstTransmission(TransmitPendingDLLP(a), s.packet)
           u == ReplayOrPending(c)
<1>1. AfterTransmission(s) = u
  BY DEF AfterTransmission
<1>2. /\ InterfaceInv(c, max) /\ Halfway(c) /\ Grows(s, c)
      /\ c.retransmit => c.accepted = s.accepted
  BY FirstParts
<1> HIDE DEF c
<1>3. /\ Awake(u) /\ Grows(c, u)
      /\ ~c.retransmit => u.accepted = c.accepted
  BY <1>2, ReplayAwake
<1> HIDE DEF u
<1> QED
  BY <1>1, <1>2, <1>3 DEF Grows

-----------------------------------------------------------------------------
(* The timers and the propagation delay *)

\* timeoutFunc drops its own event only if nothing is stored or a replay is
\* under way, which the busy link will go on with; otherwise it begins one.
LEMMA TimeoutAwake ==
  ASSUME NEW max \in Nat, NEW s, InterfaceInv(s, max), Awake(s)
  PROVE  Awake(TimeoutFunc(s)) /\ TimeoutFunc(s).accepted = s.accepted
<1> DEFINE t == [s EXCEPT !.timeoutEvent = FALSE]
           p == Head(t.buffer)
           v == Transmit(t, p)
           u == [v EXCEPT !.retransmit = TRUE,
                          !.retransmitIdx = IF Busy(t) THEN 0 ELSE 1]
<1>1. s \in LinkState
  BY DEF InterfaceInv
<1>2. /\ t \in LinkState
      /\ t.buffer = s.buffer /\ t.packet = s.packet
      /\ t.replayPacket = s.replayPacket /\ t.replayDLLP = s.replayDLLP
      /\ t.retransmit = s.retransmit /\ t.accepted = s.accepted
      /\ t.retryReq = s.retryReq /\ t.retryResp = s.retryResp
  BY <1>1, Zenon DEF LinkState
<1>3. TimeoutFunc(s) = IF t.buffer = <<>> \/ t.retransmit THEN t ELSE u
  BY DEF TimeoutFunc
<1> HIDE DEF t
<1>4. CASE t.buffer = <<>> \/ t.retransmit
  <2>1. Attended(t)
    BY <1>2 DEF Awake, Attended, Busy
  <2>2. Armed(t)
    BY <1>4, <2>1 DEF Armed, Attended
  <2>3. Reasoned(t)
    BY <1>2 DEF Awake, Reasoned, Rejects
  <2> QED
    BY <1>2, <1>3, <1>4, <2>1, <2>2, <2>3 DEF Awake
<1>5. CASE ~(t.buffer = <<>> \/ t.retransmit)
  <2>1. s.buffer \in Seq(Packet) /\ s.buffer # <<>>
    BY <1>1, <1>2, <1>5, FieldTypes
  <2>2. 1 \in 1 .. Len(s.buffer) /\ p = s.buffer[1]
    BY <1>2, <2>1
  <2>3. p \in Packet /\ OnLink(s, p)
    BY <2>2, HeldOnLink
  <2>4. p # Null
    BY <2>3 DEF OnLink, IsAck, IsCopy, TLP, Null
  <2> HIDE DEF p
  <2>5. v \in LinkState /\ Busy(v) /\ v.accepted = t.accepted
    BY <1>2, <2>3, <2>4, TransmitDuties
  <2>6. TimeoutFunc(s) = u
    BY <1>3, <1>5
  <2> HIDE DEF v
  <2>7. u.packet = v.packet /\ u.retransmit = TRUE /\ u.accepted = v.accepted
    BY <2>5 DEF LinkState
  <2> HIDE DEF u
  <2>8. Busy(u)
    BY <2>5, <2>7 DEF Busy
  <2>9. Armed(u) /\ Attended(u) /\ Reasoned(u)
    BY <2>7, <2>8 DEF Armed, Attended, Reasoned, Rejects
  <2> QED
    BY <1>2, <2>5, <2>6, <2>7, <2>9 DEF Awake
<1> QED
  BY <1>4, <1>5

\* sendAck sends or defers an Ack and touches nothing else.
LEMMA SendAckAside ==
  ASSUME NEW s \in LinkState
  PROVE  Aside(s, SendAckFunc(s))
<1> DEFINE t == [s EXCEPT !.ackEvent = FALSE]
           u == [t EXCEPT !.lastAcked = Minus1(t.recvSeqNum), !.ackEvent = TRUE]
           v == [u EXCEPT !.replayDLLP = AckOf(t)]
           w == [u EXCEPT !.packet = AckOf(t)]
<1>1. t \in LinkState /\ Aside(s, t) /\ t.packet = s.packet
  BY Zenon DEF LinkState, Aside, Busy
<1>2. CASE t.lastAcked = Minus1(t.recvSeqNum)
  BY <1>1, <1>2 DEF SendAckFunc
<1>3. CASE t.lastAcked # Minus1(t.recvSeqNum) /\ Busy(t)
  <2>1. SendAckFunc(s) = v
    BY <1>3 DEF SendAckFunc
  <2> HIDE DEF t
  <2>2. /\ v.buffer = t.buffer /\ v.replayPacket = t.replayPacket
        /\ v.retransmit = t.retransmit /\ v.timeoutEvent = t.timeoutEvent
        /\ v.retryReq = t.retryReq /\ v.retryResp = t.retryResp
        /\ v.accepted = t.accepted /\ v.packet = t.packet
    BY <1>1 DEF LinkState
  <2> HIDE DEF v
  <2>3. Aside(t, v)
    BY <1>3, <2>2 DEF Aside, Busy
  <2> QED
    BY <1>1, <2>1, <2>3 DEF Aside
<1>4. CASE t.lastAcked # Minus1(t.recvSeqNum) /\ ~Busy(t)
  <2>1. u.packet = t.packet
    BY <1>1 DEF LinkState
  <2>2. SendAckFunc(s) = w
    BY <1>4, <2>1 DEF SendAckFunc, Transmit, Busy
  <2> HIDE DEF t
  <2>3. /\ w.buffer = t.buffer /\ w.replayPacket = t.replayPacket
        /\ w.retransmit = t.retransmit /\ w.timeoutEvent = t.timeoutEvent
        /\ w.retryReq = t.retryReq /\ w.retryResp = t.retryResp
        /\ w.accepted = t.accepted /\ w.replayDLLP = t.replayDLLP
    BY <1>1 DEF LinkState
  <2> HIDE DEF w
  <2>4. Aside(t, w)
    BY <1>4, <2>3 DEF Aside
  <2> QED
    BY <1>1, <2>2, <2>4 DEF Aside
<1> QED
  BY <1>2, <1>3, <1>4

\* Entering or leaving the propagation delay touches nothing else.
LEMMA DelayAside ==
  ASSUME NEW s \in LinkState, NEW p
  PROVE  /\ Aside(s, EnterDelay(s, p))
         /\ EnterDelay(s, p).delivered = s.delivered
         /\ Aside(s, LeaveDelay(s))
         /\ LeaveDelay(s).delivered = s.delivered
BY DEF LinkState, Aside, Busy, EnterDelay, LeaveDelay

-----------------------------------------------------------------------------
(* The steps of the link *)

\* What a step does to the interface s, facing t: it becomes u, which is awake,
\* has accepted at most one packet more and handed over at most the next one.
Serves(s, t, u) == Awake(u) /\ Grows(s, u) /\ Delivers(s, t, u)

\* An interface that no event concerns.
LEMMA Rests ==
  ASSUME NEW s, NEW t, Awake(s)
  PROVE  Serves(s, t, s)
BY DEF Serves, Grows, Delivers

\* A step gives the interfaces the states a and b.
LEMMA BothServe ==
  ASSUME IndInv, NEW l \in Links, NEW a, NEW b,
         link' = [link EXCEPT ![l] = a, ![Other(l)] = b],
         Serves(link[l], link[Other(l)], a),
         Serves(link[Other(l)], link[l], b)
  PROVE  \A k \in Links : Serves(link[k], link[Other(k)], link'[k])
<1>1. link'[l] = a /\ link'[Other(l)] = b
  BY TwoEnds DEF IndInv
<1> QED
  BY <1>1, TwoEnds, Zenon

\* A step that concerns the interface at l only.
LEMMA OneServes ==
  ASSUME WakeInv, NEW l \in Links, NEW a,
         link' = [link EXCEPT ![l] = a],
         Serves(link[l], link[Other(l)], a)
  PROVE  \A k \in Links : Serves(link[k], link[Other(k)], link'[k])
<1>1. Other(l) \in Links /\ Other(l) # l
  BY TwoEnds
<1>2. link' = [link EXCEPT ![l] = a, ![Other(l)] = link[Other(l)]]
  BY <1>1, Zenon DEF IndInv, WakeInv
<1>3. Serves(link[Other(l)], link[l], link[Other(l)])
  BY <1>1, Rests DEF WakeInv
<1> QED
  BY <1>2, <1>3, BothServe, Zenon DEF WakeInv

\* A handler that changes neither accepted nor what the device was given.
LEMMA HandlerServes ==
  ASSUME NEW s, NEW t, NEW u, Awake(u), Grows(s, u), u.delivered = s.delivered
  PROVE  Serves(s, t, u)
BY DEF Serves, Delivers

\* So does one that sends or defers an Ack.
LEMMA AsideServes ==
  ASSUME NEW s, NEW t, NEW u, Awake(s), Aside(s, u), u.delivered = s.delivered
  PROVE  Serves(s, t, u)
<1>1. Awake(u) /\ Grows(s, u)
  BY AsideAwake DEF Aside, Grows
<1> QED
  BY <1>1, HandlerServes

\* recvTimingReq and recvTimingResp.
LEMMA SendServes ==
  ASSUME WakeInv, Regular, NEW l \in Links, NEW master \in BOOLEAN,
         Send(l, master)
  PROVE  \A k \in Links : Serves(link[k], link[Other(k)], link'[k])
<1> DEFINE s == link[l]
           a == LinkTransmitInterface(s, master)
<1>1. InterfaceInv(s, MaxTLP[l]) /\ MaxTLP[l] \in Nat /\ MaxTLP[l] <= IntLimit
      /\ s \in LinkState
  BY Ends DEF Regular, WakeInv
<1>2. Offered(s) < MaxTLP[l] /\ link' = [link EXCEPT ![l] = a]
  BY DEF Send
<1>3. Awake(s)
  BY DEF WakeInv
<1> HIDE DEF s
<1>4. Offers(s, a) /\ Rejects(a)
  BY <1>1, OfferEffect
<1>5. a.delivered = s.delivered
  BY <1>1, <1>2, OfferKeeps DEF Keeps, Preserves
<1> HIDE DEF a
<1>6. Awake(a) /\ Grows(s, a)
  BY <1>3, <1>4, OffersAwake DEF Awake, Reasoned
<1>7. Serves(s, link[Other(l)], a)
  BY <1>5, <1>6, HandlerServes
<1> QED
  BY <1>2, <1>7, OneServes, Zenon DEF s

\* The replay timer.
LEMMA TimeoutServes ==
  ASSUME WakeInv, NEW l \in Links, Timeout(l)
  PROVE  \A k \in Links : Serves(link[k], link[Other(k)], link'[k])
<1> DEFINE s == link[l]
           a == TimeoutFunc(s)
<1>1. InterfaceInv(s, MaxTLP[l]) /\ MaxTLP[l] \in Nat /\ Awake(s)
  BY Ends DEF WakeInv
<1>2. link' = [link EXCEPT ![l] = a]
  BY DEF Timeout
<1> HIDE DEF s
<1>3. Awake(a) /\ Grows(s, a) /\ a.delivered = s.delivered
  BY <1>1, TimeoutAwake, TimeoutKeeps DEF Keeps, Preserves, Grows
<1> HIDE DEF a
<1>4. Serves(s, link[Other(l)], a)
  BY <1>3, HandlerServes
<1> QED
  BY <1>2, <1>4, OneServes, Zenon DEF s

\* The Ack timer.
LEMMA SendAckServes ==
  ASSUME WakeInv, Regular, NEW l \in Links, SendAck(l)
  PROVE  \A k \in Links : Serves(link[k], link[Other(k)], link'[k])
<1> DEFINE s == link[l]
           a == SendAckFunc(s)
<1>1. /\ InterfaceInv(s, MaxTLP[l]) /\ MaxTLP[l] \in Nat /\ Awake(s)
      /\ s \in LinkState
  BY Ends DEF WakeInv
<1>2. link' = [link EXCEPT ![l] = a] /\ s.ackEvent
  BY DEF SendAck
<1>3. s.recvSeqNum <= IntLimit
  BY RecvBounded DEF WakeInv
<1> HIDE DEF s
<1>4. Aside(s, a)
  BY <1>1, SendAckAside
<1>5. a.delivered = s.delivered
  BY <1>1, <1>2, <1>3, SendAckKeeps DEF Keeps, Preserves
<1> HIDE DEF a
<1>6. Serves(s, link[Other(l)], a)
  BY <1>1, <1>4, <1>5, AsideServes
<1> QED
  BY <1>2, <1>6, OneServes, Zenon DEF s

\* txDone without propagation delay, the arrival at the other end included.
LEMMA TxDoneServes ==
  ASSUME WakeInv, Regular, NEW l \in Links, NEW accept \in BOOLEAN,
         TxDone(l, accept)
  PROVE  \A k \in Links : Serves(link[k], link[Other(k)], link'[k])
<1> DEFINE s == link[l]
           t == link[Other(l)]
           p == s.packet
           a == AfterTransmission(s)
           b == LinkReceiveInterface(t, p, accept)
           m == MaxTLP[l]
           n == MaxTLP[Other(l)]
<1>1. IndInv /\ Awake(s) /\ Awake(t)
  BY TwoEnds DEF WakeInv
<1>2. /\ s \in LinkState /\ t \in LinkState
      /\ InterfaceInv(s, m) /\ InterfaceInv(t, n)
      /\ ChannelInv(s, t) /\ ChannelInv(t, s)
      /\ m \in Nat /\ n \in Nat
  BY <1>1, Ends
<1>3. m <= IntLimit /\ n <= IntLimit
  BY TwoEnds DEF Regular
<1>4. Busy(s) /\ link' = [link EXCEPT ![l] = a, ![Other(l)] = b]
  BY <1>1, TwoEnds DEF TxDone, IndInv
<1>5. p \in Packet /\ OnLink(s, p)
  BY <1>2, <1>4, FieldTypes, Zenon DEF Busy, InterfaceInv
<1> HIDE DEF s, t, m, n, p
<1>6. Awake(b) /\ Grows(t, b) /\ Delivers(t, s, b)
  BY <1>1, <1>2, <1>3, <1>5, ReceiveAwake
<1>7. Awake(a) /\ Grows(s, a) /\ a.delivered = s.delivered
  BY <1>1, <1>2, <1>3, <1>4, AfterTransmissionAwake, AfterTransmissionKeeps
     DEF Preserves
<1> HIDE DEF a, b
<1>8. Serves(s, t, a) /\ Serves(t, s, b)
  BY <1>6, <1>7, HandlerServes DEF Serves
<1> QED
  BY <1>1, <1>4, <1>8, BothServe, Zenon DEF s, t

\* txDone with propagation delay.
LEMMA TxDoneDelayedServes ==
  ASSUME WakeInv, Regular, NEW l \in Links, TxDoneDelayed(l)
  PROVE  \A k \in Links : Serves(link[k], link[Other(k)], link'[k])
<1> DEFINE s == link[l]
           w == AfterTransmission(s)
           a == EnterDelay(w, s.packet)
           m == MaxTLP[l]
<1>1. InterfaceInv(s, m) /\ m \in Nat /\ m <= IntLimit /\ Awake(s)
  BY Ends DEF Regular, WakeInv
<1>2. Busy(s) /\ link' = [link EXCEPT ![l] = a]
  BY DEF TxDoneDelayed
<1> HIDE DEF s, m
<1>3. /\ Awake(w) /\ Grows(s, w) /\ w.delivered = s.delivered
      /\ w \in LinkState
  BY <1>1, <1>2, AfterTransmissionAwake, AfterTransmissionKeeps
     DEF Preserves, InterfaceInv
<1> HIDE DEF w
<1>4. Aside(w, a) /\ a.delivered = w.delivered
  BY <1>3, DelayAside
<1> HIDE DEF a
<1>5. Awake(a) /\ Grows(s, a) /\ a.delivered = s.delivered
  BY <1>3, <1>4, AsideAwake DEF Aside, Grows
<1>6. Serves(s, link[Other(l)], a)
  BY <1>5, HandlerServes
<1> QED
  BY <1>2, <1>6, OneServes, Zenon DEF s

\* The end of the propagation delay.
LEMMA ProcessTxQueueServes ==
  ASSUME WakeInv, Regular, NEW l \in Links, NEW accept \in BOOLEAN,
         ProcessTxQueue(l, accept)
  PROVE  \A k \in Links : Serves(link[k], link[Other(k)], link'[k])
<1> DEFINE s == link[l]
           t == link[Other(l)]
           p == Head(s.txQueue)
           a == LeaveDelay(s)
           b == LinkReceiveInterface(t, p, accept)
           n == MaxTLP[Other(l)]
<1>1. IndInv /\ Awake(s) /\ Awake(t)
  BY TwoEnds DEF WakeInv
<1>2. /\ s \in LinkState /\ t \in LinkState
      /\ InterfaceInv(s, MaxTLP[l]) /\ InterfaceInv(t, n)
      /\ ChannelInv(s, t) /\ ChannelInv(t, s)
      /\ n \in Nat
  BY <1>1, Ends
<1>3. n <= IntLimit
  BY TwoEnds DEF Regular
<1>4. s.txQueue # <<>> /\ link' = [link EXCEPT ![l] = a, ![Other(l)] = b]
  BY <1>1, TwoEnds DEF ProcessTxQueue, IndInv
<1>5. p \in Packet /\ OnLink(s, p)
  <2>1. s.txQueue \in Seq(Packet)
    BY <1>2, FieldTypes
  <2>2. p \in Packet /\ p = s.txQueue[1] /\ 1 \in 1 .. Len(s.txQueue)
    BY <1>4, <2>1
  <2> QED
    BY <1>2, <2>2, Zenon DEF InterfaceInv
<1> HIDE DEF s, t, n, p
<1>6. Awake(b) /\ Grows(t, b) /\ Delivers(t, s, b)
  BY <1>1, <1>2, <1>3, <1>5, ReceiveAwake
<1>7. Aside(s, a) /\ a.delivered = s.delivered
  BY <1>2, DelayAside
<1> HIDE DEF a, b
<1>8. Serves(s, t, a) /\ Serves(t, s, b)
  BY <1>1, <1>6, <1>7, AsideServes DEF Serves
<1> QED
  BY <1>1, <1>4, <1>8, BothServe, Zenon DEF s, t

\* Every step serves both interfaces.
LEMMA StepServes ==
  ASSUME Regular, WakeInv, [Next]_vars
  PROVE  \A k \in Links : Serves(link[k], link[Other(k)], link'[k])
<1>1. ASSUME link' = link
      PROVE  \A k \in Links : Serves(link[k], link[Other(k)], link'[k])
  BY <1>1, Rests DEF WakeInv
<1>2. UNCHANGED vars => link' = link
  BY DEF vars
<1>3. \A l \in Links : ReadFreed(l) => link' = link
  BY DEF ReadFreed
<1>4. \A l \in Links : Masters[l] \subseteq BOOLEAN
  BY ConstantsAssumption
<1> QED
  BY <1>1, <1>2, <1>3, <1>4, SendServes, TxDoneServes, TxDoneDelayedServes,
     ProcessTxQueueServes, TimeoutServes, SendAckServes DEF Next

-----------------------------------------------------------------------------
(* The theorems *)

\* Both interfaces of a newly constructed link are awake.
LEMMA WakeInitially == Init => WakeInv
<1>1. Awake(InitLink)
  BY DEF Awake, Armed, Attended, Reasoned, InitLink
<1> QED
  BY <1>1, Initially DEF Init, WakeInv

\* Every step keeps them awake.
LEMMA WakeInductive == ASSUME Regular, WakeInv, [Next]_vars PROVE WakeInv'
<1>1. IndInv'
  BY Inductive DEF WakeInv
<1>2. \A l \in Links : Awake(link'[l])
  BY StepServes DEF Serves
<1> QED
  BY <1>1, <1>2 DEF WakeInv, Awake, Armed, Attended, Reasoned, Busy, Rejects

\* In every reachable state both interfaces are awake.
THEOREM StaysAwake ==
  ASSUME Regular
  PROVE  Spec => []WakeInv
<1>1. Init => WakeInv
  BY WakeInitially
<1>2. WakeInv /\ [Next]_vars => WakeInv'
  BY WakeInductive
<1> QED
  BY <1>1, <1>2, PTL DEF Spec

\* A stored packet is never forgotten: linkReceiveInterface and timeoutFunc
\* stop the replay timer only when nothing is stored or a replay is under way.
THEOREM ReplayIsArmed ==
  ASSUME Regular
  PROVE  Spec => []ReplayArmed
<1>1. WakeInv => ReplayArmed
  BY DEF WakeInv, Awake, Armed, ReplayArmed
<1> QED
  BY <1>1, StaysAwake, PTL

\* A TLP, an Ack or a replay that waits for the link waits for a packet that is
\* being transmitted: txDone leaves nothing behind on a free link.
THEOREM IdleLinkOwesNothing ==
  ASSUME Regular
  PROVE  Spec => []NothingWaitsForIdleLink
<1>1. WakeInv => NothingWaitsForIdleLink
  BY DEF WakeInv, Awake, Attended, NothingWaitsForIdleLink
<1> QED
  BY <1>1, StaysAwake, PTL

\* No retry is lost: a device that was turned down waits only while
\* linkTransmitInterface would still turn it down.
THEOREM RetriesAreNotLost ==
  ASSUME Regular
  PROVE  Spec => []NoLostRetry
<1>1. WakeInv => NoLostRetry
  BY DEF WakeInv, Awake, Reasoned, NoLostRetry
<1> QED
  BY <1>1, StaysAwake, PTL

\* A step of the reliable channel from s to t, which become a and b.
ChannelMoves(s, t, a, b) ==
  /\ \/ /\ Len(a.accepted) = Len(s.accepted) + 1
        /\ a.accepted[Len(s.accepted) + 1] \in Pkt
        /\ a.accepted = Append(s.accepted, a.accepted[Len(s.accepted) + 1])
     \/ a.accepted = s.accepted
  /\ \/ /\ Len(t.delivered) < Len(s.accepted)
        /\ b.delivered = Append(t.delivered, s.accepted[Len(t.delivered) + 1])
     \/ b.delivered = t.delivered

\* A step that serves both interfaces is a step of the reliable channel.
LEMMA ChannelStep ==
  ASSUME NEW s \in LinkState, NEW t \in LinkState, NEW a, NEW b,
         Serves(s, t, a), Serves(t, s, b)
  PROVE  ChannelMoves(s, t, a, b)
<1>1. s.accepted \in Seq(Pkt)
  BY FieldTypes
<1>2. \A pkt \in Pkt :
        /\ Len(Append(s.accepted, pkt)) = Len(s.accepted) + 1
        /\ Append(s.accepted, pkt)[Len(s.accepted) + 1] = pkt
  BY <1>1
<1> QED
  BY <1>2 DEF Serves, Grows, Delivers, ChannelMoves

\* Both directions of the link implement the reliable channel: whatever is
\* lost to a refusal, replayed or acknowledged twice, the devices see a
\* first-in first-out channel that takes one packet at a time.
THEOREM LinkImplementsChannels ==
  ASSUME Regular
  PROVE  Spec => ImplementsChannels
<1>1. "down" \in Links /\ "up" \in Links
      /\ Other("down") = "up" /\ Other("up") = "down"
  BY DEF Links, Other
<1>2. Init => DownChannel!Init /\ UpChannel!Init
  BY <1>1 DEF Init, InitLink, DownChannel!Init, UpChannel!Init
<1>3. ASSUME WakeInv, [Next]_vars
      PROVE  DownChannel!Next /\ UpChannel!Next
  <2>1. /\ Serves(link["down"], link["up"], link'["down"])
        /\ Serves(link["up"], link["down"], link'["up"])
    BY <1>1, <1>3, StepServes
  <2>2. link["down"] \in LinkState /\ link["up"] \in LinkState
    BY <1>1, <1>3 DEF WakeInv, IndInv
  <2>3. /\ ChannelMoves(link["down"], link["up"], link'["down"], link'["up"])
        /\ ChannelMoves(link["up"], link["down"], link'["up"], link'["down"])
    BY <2>1, <2>2, ChannelStep, Zenon
  <2>4. DownChannel!Next
    BY <2>3 DEF ChannelMoves, DownChannel!Next, DownChannel!Accept,
                DownChannel!Deliver
  <2>5. UpChannel!Next
    BY <2>3 DEF ChannelMoves, UpChannel!Next, UpChannel!Accept,
                UpChannel!Deliver
  <2> QED
    BY <2>4, <2>5
<1> QED
  BY <1>2, <1>3, StaysAwake, PTL
     DEF Spec, ImplementsChannels, DownChannel!Safe, UpChannel!Safe
=============================================================================
