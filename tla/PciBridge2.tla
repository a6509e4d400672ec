----------------------------- MODULE PciBridge2 -----------------------------
(***************************************************************************)
(* Forwarding in the PCI-PCI bridge of dev/PciBridge2.{hh,cc}, which is    *)
(* the root complex and the switch of the PCI Express systems built from   *)
(* it.  Requests enter at a response port (0 is the upstream one, 1, 2 and *)
(* 3 are the DMA ports), wait in the transmitList of a request port (1, 2  *)
(* and 3 go downstream, 0 is requestPort_DMA) and leave; responses enter   *)
(* at a request port, are routed by the bus number of the requester, wait  *)
(* in the transmitList of a response port and leave.  A response port      *)
(* accepts a request only if its response will have room                   *)
(* (outstandingResponses), and stalls its peer otherwise (retryReq).       *)
(*                                                                         *)
(* The window and bus registers are constants here: they hold what         *)
(* writeConfig stored before the traffic starts, or their reset values.    *)
(***************************************************************************)
EXTENDS Integers, Sequences, FiniteSets

CONSTANTS
  Packets,        \* the requests that may be under way at the same time
  Src,            \* the response port at which each one arrives
  Dest,           \* its address
  NeedsResponse,  \* needsResponse()
  ArrivalBus,     \* its req_bus[rcid] on arrival; -1 if not assigned yet
  Addresses,
  Window,         \* the addresses the windows of ports 1, 2 and 3 cover
  SecondaryBus, SubordinateBus, IsValid,  \* of ports 1, 2 and 3
  PciBus,         \* the bus the bridge itself is on
  ReqLimit,       \* reqQueueLimit
  RespLimit,      \* respQueueLimit
  Replays,        \* response ports whose peer is a PCIELink: its port ignores
                  \* retries, its replay timer offers the request again
  None            \* no packet

Ports == 0 .. 3
Downstream == 1 .. 3

ASSUME BridgeAssumption ==
  /\ IsFiniteSet(Packets)
  /\ None \notin Packets
  /\ Src \in [Packets -> Ports]
  /\ Dest \in [Packets -> Addresses]
  /\ NeedsResponse \in [Packets -> BOOLEAN]
  /\ ArrivalBus \in [Packets -> Int]
  /\ Window \in [Downstream -> SUBSET Addresses]
  /\ SecondaryBus \in [Downstream -> Nat]
  /\ SubordinateBus \in [Downstream -> Nat]
  /\ IsValid \in [Downstream -> BOOLEAN]
  /\ PciBus \in Nat
  /\ ReqLimit \in Nat \ {0}
  /\ RespLimit \in Nat \ {0}
  /\ Replays \subseteq Ports

VARIABLE bridge   \* the state of the bridge and of the requests its peers hold

-----------------------------------------------------------------------------
(* Routing *)

\* getRequestPort(Addr)
GetRequestPort(a) ==
  CASE a \in Window[1] -> 1
    [] a \notin Window[1] /\ a \in Window[2] -> 2
    [] a \notin Window[1] \cup Window[2] /\ a \in Window[3] -> 3
    [] OTHER -> 0

\* Mutant: the subordinate bus itself is left out.
ClaimsBelow(i, bus) ==
  /\ SecondaryBus[i] <= bus
  /\ bus < SubordinateBus[i]
  /\ IsValid[i]

\* Is bus downstream of port i, as far as the bridge knows?
Claims(i, bus) ==
  /\ SecondaryBus[i] <= bus
  /\ bus <= SubordinateBus[i]
  /\ IsValid[i]

\* getResponsePort(int bus_num)
GetResponsePort(bus) ==
  CASE Claims(1, bus) -> 1
    [] ~Claims(1, bus) /\ Claims(2, bus) -> 2
    [] ~Claims(1, bus) /\ ~Claims(2, bus) /\ Claims(3, bus) -> 3
    [] OTHER -> 0

\* The bus number a response port writes into a request that has none.
RequesterBus(r) == IF r = 0 THEN PciBus ELSE SecondaryBus[r]

-----------------------------------------------------------------------------
(* The state of the bridge and its handlers *)

Where == {"idle", "stalled", "request", "outside", "response"}

BridgeState ==
  [reqList     : [Ports -> Seq(Packets)],  \* transmitList of request ports
   respList    : [Ports -> Seq(Packets)],  \* transmitList of response ports
   reqEvent    : [Ports -> BOOLEAN],       \* sendEvent.scheduled()
   respEvent   : [Ports -> BOOLEAN],
   reqBlocked  : [Ports -> BOOLEAN],       \* the peer will call recvReqRetry
   respBlocked : [Ports -> BOOLEAN],       \* the peer will call recvRespRetry
   outstanding : [Ports -> Nat],           \* outstandingResponses
   retryReq    : [Ports -> BOOLEAN],
   stalled     : [Ports -> Packets \cup {None}], \* refused, held by the peer
   reqBus      : [Packets -> Int],         \* req_bus[rcid]
   where       : [Packets -> Where]]

InitBridge ==
  [reqList     |-> [q \in Ports |-> <<>>],
   respList    |-> [r \in Ports |-> <<>>],
   reqEvent    |-> [q \in Ports |-> FALSE],
   respEvent   |-> [r \in Ports |-> FALSE],
   reqBlocked  |-> [q \in Ports |-> FALSE],
   respBlocked |-> [r \in Ports |-> FALSE],
   outstanding |-> [r \in Ports |-> 0],
   retryReq    |-> [r \in Ports |-> FALSE],
   stalled     |-> [r \in Ports |-> None],
   reqBus      |-> ArrivalBus,
   where       |-> [p \in Packets |-> "idle"]]

ReqQueueFull(b, q) == Len(b.reqList[q]) = ReqLimit

RespQueueFull(b, r) == b.outstanding[r] = RespLimit

\* Mutant: the room for the response is not asked for.
RefusesIfQueueFull(b, r, p) ==
  b.retryReq[r] \/ ReqQueueFull(b, GetRequestPort(Dest[p]))

\* The conditions under which recvTimingReq turns p down.
Refuses(b, r, p) ==
  \/ b.retryReq[r]
  \/ ReqQueueFull(b, GetRequestPort(Dest[p]))
  \/ NeedsResponse[p] /\ RespQueueFull(b, r)

\* Mutant: the send event is scheduled for every packet.
SchedEachReq(b, q, p) ==
  [b EXCEPT !.reqEvent[q] = TRUE, !.reqList[q] = Append(@, p)]

\* schedTimingReq: the send event is scheduled for the head of the list only.
SchedTimingReq(b, q, p) ==
  [b EXCEPT !.reqEvent[q] = IF b.reqList[q] = <<>> THEN TRUE ELSE @,
            !.reqList[q] = Append(@, p)]

SchedTimingResp(b, r, p) ==
  [b EXCEPT !.respEvent[r] = IF b.respList[r] = <<>> THEN TRUE ELSE @,
            !.respList[r] = Append(@, p)]

\* Mutant: the credit is taken before the request is turned down.
ReservesFirst(b, r, p) ==
  LET c == [b EXCEPT !.reqBus[p] = IF @ = -1 THEN RequesterBus(r) ELSE @,
                     !.outstanding[r] = IF NeedsResponse[p] THEN @ + 1 ELSE @]
  IN  IF Refuses(b, r, p)
      THEN [c EXCEPT !.retryReq[r] = TRUE,
                     !.stalled[r] = p,
                     !.where[p] = "stalled"]
      ELSE SchedTimingReq([c EXCEPT !.stalled[r] = None,
                                    !.where[p] = "request"],
                          GetRequestPort(Dest[p]), p)

\* recvTimingReq of response port r.  The requester's bus number is assigned
\* whether the request is taken or not.
RecvTimingReq(b, r, p) ==
  LET c == [b EXCEPT !.reqBus[p] = IF @ = -1 THEN RequesterBus(r) ELSE @]
  IN  IF Refuses(b, r, p)
      THEN [c EXCEPT !.retryReq[r] = TRUE,
                     !.stalled[r] = p,
                     !.where[p] = "stalled"]
      ELSE SchedTimingReq(
             [c EXCEPT !.outstanding[r] = IF NeedsResponse[p] THEN @ + 1 ELSE @,
                       !.stalled[r] = None,
                       !.where[p] = "request"],
             GetRequestPort(Dest[p]), p)

\* Mutant: the flag is cleared after the peer's call, which finds it set.
ClearsAfterRetry(b, r) ==
  LET c == IF b.retryReq[r] /\ r \notin Replays
           THEN RecvTimingReq(b, r, b.stalled[r])
           ELSE b
  IN  [c EXCEPT !.retryReq[r] = FALSE]

\* retryStalledReq: a peer other than a link sends its request again from
\* inside sendRetryReq.
RetryStalledReq(b, r) ==
  LET c == [b EXCEPT !.retryReq[r] = FALSE]
  IN  IF b.retryReq[r] /\ r \notin Replays
      THEN RecvTimingReq(c, r, b.stalled[r])
      ELSE c

\* Mutant: one response port is forgotten.
RetryAllButLast(b) ==
  RetryStalledReq(RetryStalledReq(RetryStalledReq(b, 0), 1), 2)

\* The calls that end trySendTiming of a request port, in their order.
RetryAll(b) ==
  RetryStalledReq(RetryStalledReq(RetryStalledReq(RetryStalledReq(
    b, 0), 1), 2), 3)

\* trySendTiming of request port q, run by its event or by recvReqRetry;
\* accept is the answer of the peer.
TrySendReq(b, q, accept) ==
  LET p    == Head(b.reqList[q])
      rest == Tail(b.reqList[q])
  IN  IF accept
      THEN RetryAll([b EXCEPT !.reqList[q] = rest,
                              !.reqEvent[q] = rest # <<>>,
                              !.reqBlocked[q] = FALSE,
                              !.where[p] = IF NeedsResponse[p] THEN "outside"
                                                               ELSE "idle",
                              !.reqBus[p] = IF NeedsResponse[p]
                                            THEN @ ELSE ArrivalBus[p]])
      ELSE [b EXCEPT !.reqEvent[q] = FALSE, !.reqBlocked[q] = TRUE]

\* recvTimingResp of a request port always accepts: "all checks are done when
\* the request is accepted".
RecvTimingRespAt(b, p) ==
  SchedTimingResp([b EXCEPT !.where[p] = "response"],
                  GetResponsePort(b.reqBus[p]), p)

\* Mutant: the credit is given back twice.
ReturnsCreditTwice(b, r, accept) ==
  LET p    == Head(b.respList[r])
      rest == Tail(b.respList[r])
  IN  IF accept
      THEN RetryStalledReq([b EXCEPT !.respList[r] = rest,
                                     !.respEvent[r] = rest # <<>>,
                                     !.respBlocked[r] = FALSE,
                                     !.outstanding[r] = @ - 2,
                                     !.where[p] = "idle",
                                     !.reqBus[p] = ArrivalBus[p]], r)
      ELSE [b EXCEPT !.respEvent[r] = FALSE, !.respBlocked[r] = TRUE]

\* trySendTiming of response port r.  An answered request may be made anew.
TrySendResp(b, r, accept) ==
  LET p    == Head(b.respList[r])
      rest == Tail(b.respList[r])
  IN  IF accept
      THEN RetryStalledReq([b EXCEPT !.respList[r] = rest,
                                     !.respEvent[r] = rest # <<>>,
                                     !.respBlocked[r] = FALSE,
                                     !.outstanding[r] = @ - 1,
                                     !.where[p] = "idle",
                                     !.reqBus[p] = ArrivalBus[p]], r)
      ELSE [b EXCEPT !.respEvent[r] = FALSE, !.respBlocked[r] = TRUE]

-----------------------------------------------------------------------------
(* The actions *)

Init == bridge = InitBridge

\* The peer of a response port makes a request; it makes no other one while
\* one of its requests is stalled.
Offer(p) ==
  /\ bridge.where[p] = "idle"
  /\ bridge.stalled[Src[p]] = None
  /\ bridge' = RecvTimingReq(bridge, Src[p], p)

\* A link offers its stalled request again when its replay timer fires,
\* whatever the bridge is doing.
Replay(r) ==
  /\ r \in Replays
  /\ bridge.stalled[r] # None
  /\ bridge' = RecvTimingReq(bridge, r, bridge.stalled[r])

\* The send event of request port q, or recvReqRetry.
SendReq(q, accept) ==
  /\ bridge.reqEvent[q] \/ bridge.reqBlocked[q]
  /\ bridge' = TrySendReq(bridge, q, accept)

\* The response to p comes back.
RecvTimingResp(p) ==
  /\ bridge.where[p] = "outside"
  /\ bridge' = RecvTimingRespAt(bridge, p)

\* The send event of response port r, or recvRespRetry.
SendResp(r, accept) ==
  /\ bridge.respEvent[r] \/ bridge.respBlocked[r]
  /\ bridge' = TrySendResp(bridge, r, accept)

Next ==
  \/ \E p \in Packets : Offer(p) \/ RecvTimingResp(p)
  \/ \E r \in Ports : Replay(r)
  \/ \E q \in Ports, accept \in BOOLEAN : SendReq(q, accept)
  \/ \E r \in Ports, accept \in BOOLEAN : SendResp(r, accept)

Spec == Init /\ [][Next]_bridge

-----------------------------------------------------------------------------
(* Properties *)

\* Outstanding counts are natural numbers: the "assert(outstandingResponses
\* != 0)" of trySendTiming never fails.
TypeOK == bridge \in BridgeState

\* The requests port r took and whose response it has not sent yet.
Owed(b, r) ==
  {p \in Packets : /\ Src[p] = r
                   /\ NeedsResponse[p]
                   /\ b.where[p] \in {"request", "outside", "response"}}

\* outstandingResponses of a port is the number of the requests it took that
\* are not answered yet, through any mix of stalls, retries and replays: no
\* credit is lost and none is given back twice.
CreditsConserved ==
  \A r \in Ports : bridge.outstanding[r] = Cardinality(Owed(bridge, r))

\* A response port never holds more responses than it has room for ("we are
\* guaranteed to have space for the response", recvTimingResp).
RoomForResponses ==
  \A r \in Ports : /\ Len(bridge.respList[r]) <= bridge.outstanding[r]
                   /\ bridge.outstanding[r] <= RespLimit

\* A response leaves through the port its request came in at.
ResponsesReturnHome ==
  \A r \in Ports : \A i \in 1 .. Len(bridge.respList[r]) :
    Src[bridge.respList[r][i]] = r

\* A port stalls its peer only while the condition that made it refuse the
\* request lasts, and forgets no peer that waits for a retry: the calls that
\* end trySendTiming miss no wake-up.
NoLostRetry ==
  \A r \in Ports :
    LET p == bridge.stalled[r]
    IN  /\ bridge.retryReq[r] =>
             /\ p # None
             /\ \/ ReqQueueFull(bridge, GetRequestPort(Dest[p]))
                \/ NeedsResponse[p] /\ RespQueueFull(bridge, r)
        /\ p # None /\ r \notin Replays => bridge.retryReq[r]

\* A list is empty exactly when nobody will send its head; otherwise either
\* its event is scheduled or the peer owes a retry, never both (schedule()
\* would assert, trySendTiming would find an empty list).
OneWakeUp ==
  \A x \in Ports :
    /\ (bridge.reqList[x] = <<>>) = ~(bridge.reqEvent[x] \/ bridge.reqBlocked[x])
    /\ ~(bridge.reqEvent[x] /\ bridge.reqBlocked[x])
    /\ (bridge.respList[x] = <<>>) = ~(bridge.respEvent[x] \/ bridge.respBlocked[x])
    /\ ~(bridge.respEvent[x] /\ bridge.respBlocked[x])

-----------------------------------------------------------------------------
(* Fairness and liveness *)

\* A request enters, and is not refused.
Enters(r) ==
  /\ Replay(r)
  /\ bridge'.stalled[r] = None

\* Events run; peers that refuse a packet ask for it again and take it at
\* last; requests are answered; a replayed request does not always come at a
\* moment at which the bridge is full.
Fairness ==
  /\ \A x \in Ports : /\ WF_bridge(SendReq(x, TRUE))
                      /\ WF_bridge(SendResp(x, TRUE))
                      /\ SF_bridge(Enters(x))
  /\ \A p \in Packets : WF_bridge(RecvTimingResp(p))

FairSpec == Spec /\ Fairness

\* A request that was stalled is taken in the end ("to be safe and avoid a
\* request being infinitely stalled", trySendTiming), and one that was taken
\* is answered.  It takes RespLimit <= ReqLimit: a processor that may have more
\* requests outstanding than a queue takes is retried first and can fill each
\* slot that becomes free, and a link finds none.
EveryRequestCompletes ==
  \A p \in Packets : bridge.where[p] # "idle" ~> bridge.where[p] = "idle"
=============================================================================
