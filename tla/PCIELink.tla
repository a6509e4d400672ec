------------------------------ MODULE PCIELink ------------------------------
(***************************************************************************)
(* The PCI Express link of dev/pcie_link.{hh,cc}: two link interfaces that *)
(* face each other.  Each interface numbers the packets (TLPs) it accepts  *)
(* from its device, keeps them in a replay buffer until the other          *)
(* interface acknowledges them, replays them when the replay timer fires,  *)
(* and acknowledges what its own device took (Ack DLLPs).                  *)
(*                                                                         *)
(* link[l] is the state of the C++ object PCIELink::Link for l = "down"    *)
(* (links[0]) and l = "up" (links[1]).  The handlers of that class are     *)
(* operators that map the state of one interface to its next state, so     *)
(* that a handler that calls another one is the composition of the two.    *)
(* The actions are the events of the simulator's queue and the calls made  *)
(* by the attached devices; each runs to its end before the next one.      *)
(* Time is abstracted: a scheduled event may fire at any moment.           *)
(***************************************************************************)
EXTENDS Integers, Sequences

CONSTANTS
  MaxQueueSize,  \* max_queue_size: entries of each replay buffer
  Delayed,       \* is the propagation delay of the link (linkDelay) positive?
  MaxInFlight,   \* bound: the packets that fit in the propagation delay
  MaxTLP,        \* bound: the packets the device at each interface offers
  Masters,       \* the ports ("master" arguments) the device offers them on
  RefuseFirst,   \* may a device refuse the very first packet it is sent?
  SeqSpace,      \* number of values of uint64_t
  IntLimit       \* smallest positive number that is not an int

Links == {"down", "up"}

ASSUME ConstantsAssumption ==
  /\ MaxQueueSize \in Nat \ {0}
  /\ Delayed \in BOOLEAN
  /\ MaxInFlight \in Nat \ {0}
  /\ MaxTLP \in [Links -> Nat]
  /\ Masters \in [Links -> SUBSET BOOLEAN]
  /\ RefuseFirst \in BOOLEAN
  /\ SeqSpace \in Nat
  /\ IntLimit \in Nat \ {0}
  /\ 2 * IntLimit <= SeqSpace

VARIABLES
  link,       \* the state of the two interfaces
  undefined   \* has freed memory been read after something overwrote it?

vars == <<link, undefined>>

\* *otherLink
Other(l) == IF l = "down" THEN "up" ELSE "down"

-----------------------------------------------------------------------------
(* Packets *)

\* A gem5 packet: a request or a response; id tells packets apart.
Pkt == [isResponse : BOOLEAN, id : Nat]

\* PCIELinkPacket.  For a DLLP, seqNum is the seqNum of its DataLinkPacket.
Packet == [isTLP : BOOLEAN, isDLLP : BOOLEAN, seqNum : Nat, pkt : Pkt]

NoPkt == [isResponse |-> FALSE, id |-> 0]

\* The packet pointer NULL
Null == [isTLP |-> FALSE, isDLLP |-> FALSE, seqNum |-> 0, pkt |-> NoPkt]

TLP(n, pkt) == [isTLP |-> TRUE, isDLLP |-> FALSE, seqNum |-> n, pkt |-> pkt]

DLLP(n) == [isTLP |-> FALSE, isDLLP |-> TRUE, seqNum |-> n, pkt |-> NoPkt]

\* n - 1 and n + 1 of a uint64_t
Minus1(n) == IF n = 0 THEN SeqSpace - 1 ELSE n - 1

Plus1(n) == IF n = SeqSpace - 1 THEN 0 ELSE n + 1

\* A uint64_t passed as the int parameter of DataLinkPacket() and stored in
\* its uint64_t field: the low half is kept, then sign-extended.
ThroughInt(n) ==
  IF n < IntLimit
  THEN n
  ELSE LET low == n % (2 * IntLimit)
       IN  IF low < IntLimit THEN low ELSE SeqSpace - 2 * IntLimit + low

\* Mutant: the Ack names the next packet instead of the last one.
AckOfNext(s) == DLLP(ThroughInt(s.recvSeqNum))

\* new DataLinkPacket(recvSeqNum - 1)
AckOf(s) == DLLP(ThroughInt(Minus1(s.recvSeqNum)))

-----------------------------------------------------------------------------
(* The state of one interface and its handlers *)

\* A place in the replay buffer, or behind its last one.
ReplayIndex == 0 .. MaxQueueSize

LinkState ==
  [packet        : Packet,       \* on the unidirectional link now
   txQueue       : Seq(Packet),  \* past it, within the propagation delay
   buffer        : Seq(Packet),  \* the replay buffer
   sendSeqNum    : Nat,
   recvSeqNum    : Nat,
   lastAcked     : Nat,
   retryReq      : BOOLEAN,
   retryResp     : BOOLEAN,
   replayPacket  : Packet,
   replayDLLP    : Packet,
   retransmit    : BOOLEAN,
   retransmitIdx : ReplayIndex,
   timeoutEvent  : BOOLEAN,      \* timeoutEvent.scheduled()
   ackEvent      : BOOLEAN,      \* ackEvent.scheduled()
   accepted      : Seq(Pkt),     \* history: packets taken from the device
   delivered     : Seq(Pkt)]     \* history: packets given to the device

InitLink ==
  [packet        |-> Null,
   txQueue       |-> <<>>,
   buffer        |-> <<>>,
   sendSeqNum    |-> 0,
   recvSeqNum    |-> 0,
   lastAcked     |-> 0,
   retryReq      |-> FALSE,
   retryResp     |-> FALSE,
   replayPacket  |-> Null,
   replayDLLP    |-> Null,
   retransmit    |-> FALSE,
   retransmitIdx |-> 0,
   timeoutEvent  |-> FALSE,
   ackEvent      |-> FALSE,
   accepted      |-> <<>>,
   delivered     |-> <<>>]

Busy(s) == s.packet # Null

\* Returns false, and does nothing, when the link is busy.  doneEvent is
\* scheduled exactly when packet is not NULL.
Transmit(s, p) == IF Busy(s) THEN s ELSE [s EXCEPT !.packet = p]

\* ReplayBuffer::pushBack drops the packet when the buffer is full.
PushBack(buffer, p) ==
  IF Len(buffer) >= MaxQueueSize THEN buffer ELSE Append(buffer, p)

\* Mutant: a full replay buffer is no reason to turn a packet down.
RejectsUnlessFull(s) == s.replayPacket # Null \/ s.retransmit

\* linkTransmitInterface turns a packet of the device down.
Rejects(s) ==
  \/ s.replayPacket # Null
  \/ Len(s.buffer) >= MaxQueueSize
  \/ s.retransmit

\* linkTransmitInterface for the next packet of the device: a response if
\* the device's request port calls (master), a request otherwise.
LinkTransmitInterface(s, master) ==
  LET pkt == [isResponse |-> master, id |-> Len(s.accepted) + 1]
      tlp == TLP(s.sendSeqNum, pkt)
  IN  IF Rejects(s)
      THEN IF master THEN [s EXCEPT !.retryResp = TRUE]
                     ELSE [s EXCEPT !.retryReq = TRUE]
      ELSE [Transmit([s EXCEPT !.replayPacket = tlp], tlp) EXCEPT
              !.sendSeqNum = Plus1(@),
              !.accepted = Append(@, pkt)]

\* sendRetryReq() and sendRetryResp() to a device that was turned down.  The
\* attached ports offer their packet again from inside that call.
RetryReq(s) ==
  IF s.retryReq
  THEN LinkTransmitInterface([s EXCEPT !.retryReq = FALSE], FALSE)
  ELSE s

RetryResp(s) ==
  IF s.retryResp
  THEN LinkTransmitInterface([s EXCEPT !.retryResp = FALSE], TRUE)
  ELSE s

\* Mutant: a device that waits to send a response is forgotten.
RetryRequestsOnly(s) == RetryReq(s)

Retry(s) == RetryResp(RetryReq(s))

\* The acknowledgement that ends linkReceiveInterface for a TLP: sent at
\* once on a free link, else kept as replayDLLP; none while the Ack timer runs.
Acknowledge(s) ==
  CASE s.ackEvent -> s
    [] ~s.ackEvent /\ ~Busy(s) -> Transmit(s, AckOf(s))
    [] ~s.ackEvent /\ Busy(s) ->
         [s EXCEPT !.replayDLLP = AckOf(s),
                   !.lastAcked = Minus1(s.recvSeqNum),
                   !.ackEvent = TRUE]

\* Mutant: the sequence number is not checked.
TakesAnyNumber(s, p, accept) ==
  IF accept
  THEN Acknowledge([s EXCEPT !.recvSeqNum = Plus1(@),
                             !.delivered = Append(@, p.pkt)])
  ELSE s

\* linkReceiveInterface for a TLP.  accept is the answer of the device, to
\* which only the packet with the expected number is offered.
ReceiveTLP(s, p, accept) ==
  CASE p.seqNum # s.recvSeqNum -> Acknowledge(s)
    [] p.seqNum = s.recvSeqNum /\ ~accept -> s
    [] p.seqNum = s.recvSeqNum /\ accept ->
         Acknowledge([s EXCEPT !.recvSeqNum = Plus1(@),
                               !.delivered = Append(@, p.pkt)])

\* Mutant: one packet too many is removed.
AckedAndOneMore(buffer, n) ==
  CHOOSE k \in 0 .. Len(buffer) :
    /\ \A i \in 1 .. k : buffer[i].seqNum <= n + 1
    /\ k < Len(buffer) => buffer[k + 1].seqNum > n + 1

\* How many packets at the front of the buffer an Ack for n removes.
Acked(buffer, n) ==
  CHOOSE k \in 0 .. Len(buffer) :
    /\ \A i \in 1 .. k : buffer[i].seqNum <= n
    /\ k < Len(buffer) => buffer[k + 1].seqNum > n

Purge(buffer, n) == SubSeq(buffer, Acked(buffer, n) + 1, Len(buffer))

\* Mutant: the replay timer is not started again.
AckStopsTimer(s, n) ==
  [s EXCEPT !.buffer = Purge(s.buffer, n), !.timeoutEvent = FALSE]

\* An Ack for n stops the replay timer, which is started again if a packet
\* remains unacknowledged.
ApplyAck(s, n) ==
  LET rest == Purge(s.buffer, n)
  IN  [s EXCEPT !.buffer = rest, !.timeoutEvent = rest # <<>>]

\* linkReceiveInterface for an Ack DLLP
ReceiveDLLP(s, p) == Retry(ApplyAck(s, p.seqNum))

LinkReceiveInterface(s, p, accept) ==
  IF p.isTLP THEN ReceiveTLP(s, p, accept) ELSE ReceiveDLLP(s, p)

\* The parts of txDone after the packet p has left the link, in their order.

TransmitPendingDLLP(s) ==
  IF s.replayDLLP # Null
  THEN [Transmit(s, s.replayDLLP) EXCEPT !.replayDLLP = Null]
  ELSE s

StoreFirstTransmission(s, p) ==
  IF p = s.replayPacket
  THEN Retry([s EXCEPT !.buffer = PushBack(@, p),
                       !.replayPacket = Null,
                       !.timeoutEvent = TRUE])
  ELSE s

TransmitPendingTLP(s) ==
  IF s.replayPacket # Null THEN Transmit(s, s.replayPacket) ELSE s

\* Mutant: the packet that waited for the end of the replay is not sent.
ReplayForgetsPending(s) ==
  CASE ~s.retransmit -> TransmitPendingTLP(s)
    [] s.retransmit /\ s.retransmitIdx >= Len(s.buffer) ->
         Retry([s EXCEPT !.timeoutEvent = TRUE,
                         !.retransmitIdx = 0,
                         !.retransmit = FALSE])
    [] s.retransmit /\ s.retransmitIdx < Len(s.buffer) ->
         [Transmit(s, s.buffer[s.retransmitIdx + 1]) EXCEPT
            !.timeoutEvent = TRUE,
            !.retransmitIdx = @ + 1]

\* Mutant: a replay does not start the replay timer again.
ReplayOnce(s) ==
  CASE ~s.retransmit -> TransmitPendingTLP(s)
    [] s.retransmit /\ s.retransmitIdx >= Len(s.buffer) ->
         TransmitPendingTLP(Retry([s EXCEPT !.retransmitIdx = 0,
                                            !.retransmit = FALSE]))
    [] s.retransmit /\ s.retransmitIdx < Len(s.buffer) ->
         [Transmit(s, s.buffer[s.retransmitIdx + 1]) EXCEPT
            !.retransmitIdx = @ + 1]

\* Mutant: the index is compared with the size of the buffer one step too late;
\* what is read behind the buffer is no packet.
ReplayPastEnd(s) ==
  CASE ~s.retransmit -> TransmitPendingTLP(s)
    [] s.retransmit /\ s.retransmitIdx > Len(s.buffer) ->
         TransmitPendingTLP(Retry([s EXCEPT !.timeoutEvent = TRUE,
                                            !.retransmitIdx = 0,
                                            !.retransmit = FALSE]))
    [] s.retransmit /\ s.retransmitIdx <= Len(s.buffer) ->
         [Transmit(s, IF s.retransmitIdx = Len(s.buffer) THEN Null
                      ELSE s.buffer[s.retransmitIdx + 1]) EXCEPT
            !.timeoutEvent = TRUE,
            !.retransmitIdx = @ + 1]

ReplayOrPending(s) ==
  CASE ~s.retransmit -> TransmitPendingTLP(s)
    [] s.retransmit /\ s.retransmitIdx >= Len(s.buffer) ->
         TransmitPendingTLP(Retry([s EXCEPT !.timeoutEvent = TRUE,
                                            !.retransmitIdx = 0,
                                            !.retransmit = FALSE]))
    [] s.retransmit /\ s.retransmitIdx < Len(s.buffer) ->
         [Transmit(s, s.buffer[s.retransmitIdx + 1]) EXCEPT
            !.timeoutEvent = TRUE,
            !.retransmitIdx = @ + 1]

AfterTransmission(s) ==
  LET p    == s.packet
      free == [s EXCEPT !.packet = Null]
  IN  ReplayOrPending(StoreFirstTransmission(TransmitPendingDLLP(free), p))

\* The packet leaves the link and enters the propagation delay.
EnterDelay(s, p) == [s EXCEPT !.txQueue = Append(@, p)]

\* The packet that has been under way the longest reaches the other end.
LeaveDelay(s) == [s EXCEPT !.txQueue = Tail(@)]

\* timeoutFunc.  The event that runs is no longer scheduled.
TimeoutFunc(s) ==
  LET t == [s EXCEPT !.timeoutEvent = FALSE]
  IN  IF t.buffer = <<>> \/ t.retransmit
      THEN t
      ELSE [Transmit(t, Head(t.buffer)) EXCEPT
              !.retransmit = TRUE,
              !.retransmitIdx = IF Busy(t) THEN 0 ELSE 1]

\* sendAck, run by ackEvent.  transmit() fails on a busy link; then the Ack
\* replaces the one that may be waiting in replayDLLP.
SendAckFunc(s) ==
  LET t == [s EXCEPT !.ackEvent = FALSE]
      u == [t EXCEPT !.lastAcked = Minus1(t.recvSeqNum), !.ackEvent = TRUE]
  IN  CASE t.lastAcked = Minus1(t.recvSeqNum) -> t
        [] t.lastAcked # Minus1(t.recvSeqNum) /\ Busy(t) ->
             [u EXCEPT !.replayDLLP = AckOf(t)]
        [] t.lastAcked # Minus1(t.recvSeqNum) /\ ~Busy(t) ->
             Transmit(u, AckOf(t))

-----------------------------------------------------------------------------
(* The actions *)

Init ==
  /\ link = [l \in Links |-> InitLink]
  /\ undefined = FALSE

\* The packets the device at l has handed over or waits to hand over.
Offered(s) ==
  Len(s.accepted) + (IF s.retryReq THEN 1 ELSE 0)
                  + (IF s.retryResp THEN 1 ELSE 0)

\* recvTimingReq (master = FALSE) or recvTimingResp (master = TRUE) of the
\* ports at l.  A device that was turned down waits for the retry.
Send(l, master) ==
  /\ ~undefined
  /\ Offered(link[l]) < MaxTLP[l]
  /\ IF master THEN ~link[l].retryResp ELSE ~link[l].retryReq
  /\ link' = [link EXCEPT ![l] = LinkTransmitInterface(@, master)]
  /\ UNCHANGED undefined

\* The answers the device behind s may give: RefuseFirst restricts the first.
MayAnswer(s, accept) == accept \/ s.recvSeqNum # 0 \/ RefuseFirst

\* txDone on a link without propagation delay: txComplete hands the packet
\* to the other interface in the same event.
TxDone(l, accept) ==
  /\ ~undefined
  /\ ~Delayed
  /\ Busy(link[l])
  /\ MayAnswer(link[Other(l)], accept)
  /\ link' = [link EXCEPT
       ![l] = AfterTransmission(@),
       ![Other(l)] = LinkReceiveInterface(@, link[l].packet, accept)]
  /\ UNCHANGED undefined

\* txDone on a link with propagation delay: the packet joins txQueue.
TxDoneDelayed(l) ==
  /\ ~undefined
  /\ Delayed
  /\ Busy(link[l])
  /\ Len(link[l].txQueue) < MaxInFlight
  /\ link' = [link EXCEPT
       ![l] = EnterDelay(AfterTransmission(@), link[l].packet)]
  /\ UNCHANGED undefined

\* processTxQueue
ProcessTxQueue(l, accept) ==
  /\ ~undefined
  /\ link[l].txQueue # <<>>
  /\ MayAnswer(link[Other(l)], accept)
  /\ link' = [link EXCEPT
       ![l] = LeaveDelay(@),
       ![Other(l)] =
          LinkReceiveInterface(@, Head(link[l].txQueue), accept)]
  /\ UNCHANGED undefined

Timeout(l) ==
  /\ ~undefined
  /\ link[l].timeoutEvent
  /\ link' = [link EXCEPT ![l] = TimeoutFunc(@)]
  /\ UNCHANGED undefined

SendAck(l) ==
  /\ ~undefined
  /\ link[l].ackEvent
  /\ link' = [link EXCEPT ![l] = SendAckFunc(@)]
  /\ UNCHANGED undefined

\* A TLP is deleted when an Ack removes it from the replay buffer; a pointer
\* to it may still be in packet or in txQueue as a replay.
Dangling(s, p) ==
  /\ p.isTLP
  /\ p # s.replayPacket
  /\ \A i \in 1 .. Len(s.buffer) : s.buffer[i] # p

InFlight(s) == {s.packet} \cup {s.txQueue[i] : i \in 1 .. Len(s.txQueue)}

\* What reading deleted memory gives is undefined.  Either the TLP is still
\* there (the actions above), or its memory was used again: no claim is made
\* about the program from then on.
ReadFreed(l) ==
  /\ ~undefined
  /\ \E p \in InFlight(link[l]) : Dangling(link[l], p)
  /\ undefined' = TRUE
  /\ UNCHANGED link

Next ==
  \E l \in Links :
    \/ \E master \in Masters[l] : Send(l, master)
    \/ \E accept \in BOOLEAN : TxDone(l, accept)
    \/ TxDoneDelayed(l)
    \/ \E accept \in BOOLEAN : ProcessTxQueue(l, accept)
    \/ Timeout(l)
    \/ SendAck(l)
    \/ ReadFreed(l)

Spec == Init /\ [][Next]_vars

-----------------------------------------------------------------------------
(* Properties *)

\* The fields of both interfaces have their types; a replay never counts beyond
\* the buffer, from which Acks remove packets while it is under way.
TypeOK ==
  /\ link \in [Links -> LinkState]
  /\ undefined \in BOOLEAN

\* Each device is given the packets the other device handed over, in the same
\* order, none twice and none made up (the sequence number check of
\* linkReceiveInterface "preserves order of packets across the link").
InOrderDelivery ==
  \A l \in Links :
    LET in == link[l].accepted
        out == link[Other(l)].delivered
    IN  Len(out) <= Len(in) /\ \A i \in 1 .. Len(out) : out[i] = in[i]

\* The packets the interface still holds: in the buffer, or in replayPacket.
Held(s) == Len(s.buffer) + (IF s.replayPacket # Null THEN 1 ELSE 0)

\* A packet the link accepted and has not delivered is still held for replay
\* by the interface that accepted it: an Ack only removes delivered packets.
NoLoss ==
  \A l \in Links :
    Len(link[l].accepted) - Held(link[l]) <= Len(link[Other(l)].delivered)

\* A stored packet is never forgotten: the replay timer runs, or a replay is
\* under way on the busy link and txDone will start the timer again.
ReplayArmed ==
  \A l \in Links :
    link[l].buffer # <<>> =>
      link[l].timeoutEvent \/ (link[l].retransmit /\ Busy(link[l]))

\* Whatever waits for the link (a TLP, an Ack, a replay) waits for a packet
\* that is being transmitted, whose txDone will serve it.
NothingWaitsForIdleLink ==
  \A l \in Links :
    (link[l].replayPacket # Null \/ link[l].replayDLLP # Null
       \/ link[l].retransmit) => Busy(link[l])

\* A device that was turned down waits only while there is a reason to turn
\* it down: no retry is lost when txDone or an Ack removes the last reason.
NoLostRetry ==
  \A l \in Links :
    link[l].retryReq \/ link[l].retryResp => Rejects(link[l])

\* pushBack never finds the buffer full, where it would drop the packet.
BufferHasRoom ==
  \A l \in Links :
    /\ Len(link[l].buffer) <= MaxQueueSize
    /\ link[l].replayPacket # Null => Len(link[l].buffer) < MaxQueueSize

\* The acknowledgements under way from s
AcksFrom(s) ==
  {p \in InFlight(s) \cup {s.replayDLLP} : p.isDLLP}

\* No Ack under way covers a packet its sender's device has not taken.
AcksAreEarned ==
  \A l \in Links : \A a \in AcksFrom(link[l]) :
    a.seqNum < link[l].recvSeqNum

\* No packet on the link has been deleted: "packet" is the "Packet currently
\* being transmitted on this unidirectional link" and txQueue is the "Queue
\* of inflight packets".
NoDanglingPacket ==
  \A l \in Links : \A p \in InFlight(link[l]) : ~Dangling(link[l], p)

-----------------------------------------------------------------------------
(* Fairness and liveness *)

\* The device behind l takes the packet that arrives.
Takes(l) ==
  /\ TxDone(Other(l), TRUE) \/ ProcessTxQueue(Other(l), TRUE)
  /\ link'[l].recvSeqNum # link[l].recvSeqNum

\* Every scheduled event runs: the event queue is served in time order and
\* time advances.  A device to which a packet is offered again and again
\* takes it at last.
Fairness ==
  \A l \in Links :
    /\ WF_vars(\E accept \in BOOLEAN : TxDone(l, accept))
    /\ WF_vars(TxDoneDelayed(l))
    /\ WF_vars(\E accept \in BOOLEAN : ProcessTxQueue(l, accept))
    /\ WF_vars(Timeout(l))
    /\ WF_vars(SendAck(l))
    /\ SF_vars(Takes(l))

FairSpec == Spec /\ Fairness

\* Every packet a device offers, even one that is turned down at first,
\* reaches the other device, unless overwritten memory is read.
EventuallyDelivered ==
  \A l \in Links : \A n \in 1 .. MaxTLP[l] :
    Offered(link[l]) >= n
      ~> (Len(link[Other(l)].delivered) >= n \/ undefined)

-----------------------------------------------------------------------------
(* Each direction of the link implements the reliable channel. *)

DownChannel ==
  INSTANCE ReliableLink WITH
    Packets <- Pkt,
    accepted <- link["down"].accepted,
    delivered <- link["up"].delivered

UpChannel ==
  INSTANCE ReliableLink WITH
    Packets <- Pkt,
    accepted <- link["up"].accepted,
    delivered <- link["down"].delivered

\* The link implements a reliable channel in both directions.
ImplementsChannels == DownChannel!Safe /\ UpChannel!Safe
=============================================================================
