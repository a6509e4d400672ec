-------------------------- MODULE PciBridge2Proofs --------------------------
(***************************************************************************)
(* Proofs about PciBridge2: for any requests, limits, windows and kinds of *)
(* peers, no credit is lost or given back twice, there is room for every   *)
(* response, no peer is left waiting for a retry, and each list that holds *)
(* a packet has one event or one peer that will empty it, provided that    *)
(* the bus numbers tell the ports apart (Homing); responses then leave     *)
(* where their requests came in.                                           *)
(***************************************************************************)
EXTENDS PciBridge2Lemmas

-----------------------------------------------------------------------------
(* trySendTiming of a request port *)

\* The state in which the peers are called for, p being the head of the list.
ReqPopped(b, q, p) ==
  [b EXCEPT !.reqList[q] = Tail(b.reqList[q]),
            !.reqEvent[q] = Tail(b.reqList[q]) # <<>>,
            !.reqBlocked[q] = FALSE,
            !.where[p] = IF NeedsResponse[p] THEN "outside" ELSE "idle",
            !.reqBus[p] = IF NeedsResponse[p] THEN @ ELSE ArrivalBus[p]]

ReqGone(b, c, q, p) ==
  /\ c \in BridgeState
  /\ c.respList = b.respList /\ c.respEvent = b.respEvent
  /\ c.respBlocked = b.respBlocked /\ c.outstanding = b.outstanding
  /\ c.retryReq = b.retryReq /\ c.stalled = b.stalled
  /\ c.where = [b.where EXCEPT ![p] = IF NeedsResponse[p] THEN "outside" ELSE "idle"]
  /\ \A x \in Ports :
       /\ c.reqList[x] = IF x = q THEN Tail(b.reqList[q]) ELSE b.reqList[x]
       /\ c.reqEvent[x] = IF x = q THEN Tail(b.reqList[q]) # <<>> ELSE b.reqEvent[x]
       /\ c.reqBlocked[x] = IF x = q THEN FALSE ELSE b.reqBlocked[x]
  /\ \A x \in Packets :
       c.reqBus[x] = IF x = p /\ ~NeedsResponse[p] THEN ArrivalBus[p] ELSE b.reqBus[x]

\* ReqPopped changes the head of the list, its port and nothing else.
LEMMA ReqPoppedEffect ==
  ASSUME NEW b \in BridgeState, NEW q \in Ports, NEW p \in Packets,
         b.reqList[q] # <<>>
  PROVE  ReqGone(b, ReqPopped(b, q, p), q, p)
<1> DEFINE rest == Tail(b.reqList[q])
           more == rest # <<>>
           no == FALSE
           w == IF NeedsResponse[p] THEN "outside" ELSE "idle"
           n == IF NeedsResponse[p] THEN b.reqBus[p] ELSE ArrivalBus[p]
           L == [b.reqList EXCEPT ![q] = rest]
           E == [b.reqEvent EXCEPT ![q] = more]
           B == [b.reqBlocked EXCEPT ![q] = no]
           W == [b.where EXCEPT ![p] = w]
           N == [b.reqBus EXCEPT ![p] = n]
           c == ReqPopped(b, q, p)
<1>1. /\ b.reqList \in [Ports -> Seq(Packets)] /\ b.reqEvent \in [Ports -> BOOLEAN]
      /\ b.reqBlocked \in [Ports -> BOOLEAN] /\ b.where \in [Packets -> Where]
      /\ b.reqBus \in [Packets -> Int]
  BY DEF BridgeState
<1>2. rest \in Seq(Packets)
  BY <1>1
<1>3. more \in BOOLEAN /\ no \in BOOLEAN
  OBVIOUS
<1>4. w \in Where /\ n \in Int
  BY <1>1, BridgeAssumption DEF Where
<1>5. c = [b EXCEPT !.reqList = L, !.reqEvent = E, !.reqBlocked = B, !.where = W,
                    !.reqBus = N]
  BY DEF ReqPopped
<1> HIDE DEF rest, more, no, w, n
<1>6. /\ L \in [Ports -> Seq(Packets)] /\ E \in [Ports -> BOOLEAN]
      /\ B \in [Ports -> BOOLEAN] /\ W \in [Packets -> Where]
      /\ N \in [Packets -> Int]
  BY <1>1, <1>2, <1>3, <1>4, UpdatedType, Zenon
<1>7. /\ \A x \in Ports : /\ L[x] = IF x = q THEN rest ELSE b.reqList[x]
                          /\ E[x] = IF x = q THEN more ELSE b.reqEvent[x]
                          /\ B[x] = IF x = q THEN no ELSE b.reqBlocked[x]
      /\ \A x \in Packets : N[x] = IF x = p THEN n ELSE b.reqBus[x]
  BY <1>1, Updated, Zenon
<1>8. W = [b.where EXCEPT ![p] = w]
  OBVIOUS
<1> HIDE DEF L, E, B, W, N, c
<1>9. c \in BridgeState
  BY <1>5, <1>6, Zenon DEF BridgeState
<1>10. /\ c.respList = b.respList /\ c.respEvent = b.respEvent
       /\ c.respBlocked = b.respBlocked /\ c.outstanding = b.outstanding
       /\ c.retryReq = b.retryReq /\ c.stalled = b.stalled
       /\ c.reqList = L /\ c.reqEvent = E /\ c.reqBlocked = B
       /\ c.where = W /\ c.reqBus = N
  BY <1>5 DEF BridgeState
<1>11. \A x \in Packets :
         c.reqBus[x] = IF x = p /\ ~NeedsResponse[p] THEN ArrivalBus[p] ELSE b.reqBus[x]
  BY <1>7, <1>10, Zenon DEF n
<1>12. \A x \in Ports :
         /\ c.reqList[x] = IF x = q THEN rest ELSE b.reqList[x]
         /\ c.reqEvent[x] = IF x = q THEN more ELSE b.reqEvent[x]
         /\ c.reqBlocked[x] = IF x = q THEN no ELSE b.reqBlocked[x]
  BY <1>7, <1>10, Zenon
<1> QED
  BY <1>8, <1>9, <1>10, <1>11, <1>12, Zenon DEF ReqGone, rest, more, no, w, c

\* The packet that leaves is in no other list, and keeps its credit.
LEMMA ReqPoppedKeeps ==
  ASSUME NEW b, Core(b), NEW q \in Ports, b.reqList[q] # <<>>,
         NEW p, p = Head(b.reqList[q]), NEW c, c = ReqPopped(b, q, p)
  PROVE  Core(c) /\ \A x \in Ports : Remembered(b, x) => Remembered(c, x)
<1>1. /\ b \in BridgeState /\ RequestLists(b) /\ ResponseLists(b)
      /\ StalledOnes(b) /\ Requests(b) /\ Credits(b) /\ WakeUps(b)
  BY DEF Core
<1> DEFINE s == b.reqList[q]
           t == Tail(s)
<1>2. /\ s \in Seq(Packets) /\ s # <<>> /\ Distinct(s)
      /\ \A i \in 1 .. Len(s) : b.where[s[i]] = "request" /\ Route(s[i]) = q
  BY <1>1 DEF BridgeState, RequestLists
<1>3. p = Head(s)
  OBVIOUS
<1> HIDE DEF s
<1>4. /\ p \in Packets /\ p = s[1] /\ 1 \in 1 .. Len(s)
      /\ Distinct(t)
      /\ \A i \in 1 .. Len(t) : t[i] # p /\ \E j \in 1 .. Len(s) : t[i] = s[j]
  BY <1>2, <1>3, DistinctTail
<1>5. b.where[p] = "request" /\ Route(p) = q
  BY <1>2, <1>4
<1>6. ReqGone(b, c, q, p)
  BY <1>1, <1>4, ReqPoppedEffect
<1> DEFINE w == IF NeedsResponse[p] THEN "outside" ELSE "idle"
<1>7. /\ c \in BridgeState
      /\ c.respList = b.respList /\ c.outstanding = b.outstanding
      /\ c.retryReq = b.retryReq /\ c.stalled = b.stalled
      /\ c.where = [b.where EXCEPT ![p] = w]
  BY <1>6, Zenon DEF ReqGone
<1>8. \A x \in Ports : c.reqList[x] = IF x = q THEN t ELSE b.reqList[x]
  BY <1>6, Zenon DEF ReqGone, s
<1>9. \A x \in Packets : c.where[x] = IF x = p THEN w ELSE b.where[x]
  BY <1>1, <1>7 DEF BridgeState
<1>10. RequestLists(c)
  <2> SUFFICES ASSUME NEW x \in Ports
               PROVE  /\ Distinct(c.reqList[x])
                      /\ \A i \in 1 .. Len(c.reqList[x]) :
                           /\ c.where[c.reqList[x][i]] = "request"
                           /\ Route(c.reqList[x][i]) = x
    BY Zenon DEF RequestLists
  <2>1. CASE x = q
    <3>1. \A i \in 1 .. Len(t) : t[i] \in Packets
      BY <1>2, <1>4
    <3>2. \A i \in 1 .. Len(t) : c.where[t[i]] = "request" /\ Route(t[i]) = q
      BY <1>2, <1>4, <1>9, <3>1
    <3> QED
      BY <1>4, <1>8, <2>1, <3>2, Zenon
  <2>2. CASE x # q
    <3> DEFINE u == b.reqList[x]
    <3>1. /\ Distinct(u)
          /\ \A i \in 1 .. Len(u) : /\ u[i] \in Packets
                                    /\ b.where[u[i]] = "request"
                                    /\ Route(u[i]) = x
      BY <1>1 DEF BridgeState, RequestLists
    <3>2. c.reqList[x] = u
      BY <1>8, <2>2
    <3> HIDE DEF u
    <3>3. \A i \in 1 .. Len(u) : u[i] # p
      BY <1>5, <2>2, <3>1
    <3>4. \A i \in 1 .. Len(u) : c.where[u[i]] = "request"
      BY <1>9, <3>1, <3>3
    <3> QED
      BY <3>1, <3>2, <3>4, Zenon
  <2> QED
    BY <2>1, <2>2, Zenon
<1>11. ResponseLists(c)
  BY <1>1, <1>4, <1>5, <1>7, NotListed, Zenon
<1>12. StalledOnes(c)
  <2> SUFFICES ASSUME NEW x \in Ports, c.stalled[x] # None
               PROVE  c.where[c.stalled[x]] = "stalled" /\ Src[c.stalled[x]] = x
    BY DEF StalledOnes
  <2>1. c.stalled[x] = b.stalled[x] /\ b.stalled[x] \in Packets
    <3>1. b.stalled \in [Ports -> Packets \cup {None}]
      BY <1>1 DEF BridgeState
    <3>2. c.stalled = b.stalled
      BY <1>7
    <3> QED
      BY <3>1, <3>2
  <2>2. b.where[b.stalled[x]] = "stalled" /\ Src[b.stalled[x]] = x
    BY <1>1, <2>1 DEF StalledOnes
  <2> QED
    BY <1>5, <1>9, <2>1, <2>2
<1>13. Requests(c)
  <2>1. \A x \in Packets : c.reqBus[x] = IF x = p /\ ~NeedsResponse[p]
                                         THEN ArrivalBus[p] ELSE b.reqBus[x]
    BY <1>6, Zenon DEF ReqGone
  <2> QED
    BY <1>1, <1>5, <1>9, <2>1 DEF Requests
<1>14. Credits(c)
  <2>1. \A x \in Ports : Owed(c, x) = Owed(b, x)
    <3>1. ~NeedsResponse[p] \/ (w \in Taken /\ b.where[p] \in Taken)
      BY <1>5 DEF Taken
    <3> HIDE DEF w
    <3> QED
      BY <1>9, <3>1 DEF Owed, Taken
  <2> QED
    BY <1>1, <1>7, <2>1 DEF Credits
<1>15. WakeUps(c)
  <2> SUFFICES ASSUME NEW x \in Ports
               PROVE  /\ Driven(c.reqList[x], c.reqEvent[x], c.reqBlocked[x])
                      /\ Driven(c.respList[x], c.respEvent[x], c.respBlocked[x])
    BY DEF WakeUps
  <2>1. /\ Driven(b.reqList[x], b.reqEvent[x], b.reqBlocked[x])
        /\ Driven(c.respList[x], c.respEvent[x], c.respBlocked[x])
    BY <1>1, <1>6, Zenon DEF WakeUps, ReqGone
  <2>2. /\ c.reqEvent[x] = IF x = q THEN t # <<>> ELSE b.reqEvent[x]
        /\ c.reqBlocked[x] = IF x = q THEN FALSE ELSE b.reqBlocked[x]
    BY <1>6, Zenon DEF ReqGone, s
  <2>3. CASE x = q
    <3>1. c.reqList[x] = t /\ c.reqEvent[x] = (t # <<>>) /\ ~c.reqBlocked[x]
      BY <1>8, <2>2, <2>3, Zenon
    <3> HIDE DEF t
    <3> QED
      BY <2>1, <3>1, Zenon DEF Driven
  <2>4. CASE x # q
    BY <1>8, <2>1, <2>2, <2>4, Zenon
  <2> QED
    BY <2>3, <2>4
<1>16. \A x \in Ports : Remembered(b, x) => Remembered(c, x)
  BY <1>7 DEF Remembered
<1> QED
  BY <1>7, <1>10, <1>11, <1>12, <1>13, <1>14, <1>15, <1>16 DEF Core

\* The state of a request port whose peer turned the head of its list down.
ReqRefused(b, q) == [b EXCEPT !.reqEvent[q] = FALSE, !.reqBlocked[q] = TRUE]

\* A request port whose peer is busy waits for recvReqRetry.
LEMMA ReqRefusedKeeps ==
  ASSUME NEW b, Core(b), NEW q \in Ports, b.reqList[q] # <<>>,
         NEW c, c = ReqRefused(b, q)
  PROVE  /\ Core(c)
         /\ \A x \in Ports : /\ Remembered(b, x) => Remembered(c, x)
                             /\ Justified(b, x) => Justified(c, x)
<1> DEFINE no == FALSE
           yes == TRUE
           E == [b.reqEvent EXCEPT ![q] = no]
           B == [b.reqBlocked EXCEPT ![q] = yes]
<1>1. /\ b \in BridgeState /\ WakeUps(b)
      /\ b.reqEvent \in [Ports -> BOOLEAN] /\ b.reqBlocked \in [Ports -> BOOLEAN]
  BY DEF Core, BridgeState
<1>2. no \in BOOLEAN /\ yes \in BOOLEAN
  OBVIOUS
<1>3. c = [b EXCEPT !.reqEvent = E, !.reqBlocked = B]
  BY DEF ReqRefused
<1> HIDE DEF no, yes
<1>4. E \in [Ports -> BOOLEAN] /\ B \in [Ports -> BOOLEAN]
  BY <1>1, <1>2, UpdatedType, Zenon
<1>5. \A x \in Ports : /\ E[x] = IF x = q THEN no ELSE b.reqEvent[x]
                       /\ B[x] = IF x = q THEN yes ELSE b.reqBlocked[x]
  BY <1>1, Updated, Zenon
<1> HIDE DEF E, B
<1>6. c \in BridgeState
  BY <1>1, <1>3, <1>4, Zenon DEF BridgeState
<1>7. /\ c.reqList = b.reqList /\ c.respList = b.respList
      /\ c.respEvent = b.respEvent /\ c.respBlocked = b.respBlocked
      /\ c.outstanding = b.outstanding /\ c.retryReq = b.retryReq
      /\ c.stalled = b.stalled /\ c.reqBus = b.reqBus /\ c.where = b.where
      /\ c.reqEvent = E /\ c.reqBlocked = B
  BY <1>1, <1>3 DEF BridgeState
<1>8. WakeUps(c)
  <2> SUFFICES ASSUME NEW x \in Ports
               PROVE  /\ Driven(c.reqList[x], c.reqEvent[x], c.reqBlocked[x])
                      /\ Driven(c.respList[x], c.respEvent[x], c.respBlocked[x])
    BY DEF WakeUps
  <2>1. /\ Driven(b.reqList[x], b.reqEvent[x], b.reqBlocked[x])
        /\ Driven(c.respList[x], c.respEvent[x], c.respBlocked[x])
    BY <1>1, <1>7 DEF WakeUps
  <2>2. CASE x = q
    <3>1. c.reqList[x] # <<>> /\ ~c.reqEvent[x] /\ c.reqBlocked[x]
      BY <1>5, <1>7, <2>2, Zenon DEF no, yes
    <3> QED
      BY <2>1, <3>1 DEF Driven
  <2>3. CASE x # q
    BY <1>5, <1>7, <2>1, <2>3
  <2> QED
    BY <2>2, <2>3
<1>9. Core(c)
  <2>1. /\ RequestLists(b) /\ ResponseLists(b) /\ StalledOnes(b)
        /\ Requests(b) /\ Credits(b)
    BY DEF Core
  <2>2. RequestLists(c)
    BY <1>7, <2>1 DEF RequestLists
  <2>3. ResponseLists(c)
    BY <1>7, <2>1 DEF ResponseLists
  <2>4. StalledOnes(c) /\ Requests(c)
    BY <1>7, <2>1 DEF StalledOnes, Requests
  <2>5. Credits(c)
    BY <1>7, <2>1 DEF Credits, Owed
  <2> QED
    BY <1>6, <1>8, <2>2, <2>3, <2>4, <2>5 DEF Core
<1>10. \A x \in Ports : /\ Remembered(b, x) => Remembered(c, x)
                        /\ Justified(b, x) => Justified(c, x)
  BY <1>7 DEF Remembered, Justified, ReqQueueFull, RespQueueFull
<1> QED
  BY <1>9, <1>10

\* A request that leaves makes room that any stalled peer may be waiting for.
LEMMA TrySendReqKeeps ==
  ASSUME NEW b, Good(b), NEW q \in Ports, b.reqEvent[q] \/ b.reqBlocked[q],
         NEW accept \in BOOLEAN
  PROVE  Good(TrySendReq(b, q, accept))
<1>1. Core(b) /\ \A x \in Ports : Remembered(b, x) /\ Justified(b, x)
  BY DEF Good
<1>2. b.reqList[q] # <<>>
  BY <1>1 DEF Core, WakeUps, Driven
<1>3. CASE accept
  <2> DEFINE p == Head(b.reqList[q])
             c == ReqPopped(b, q, p)
  <2>1. TrySendReq(b, q, accept) = RetryAll(c)
    BY <1>3 DEF TrySendReq, ReqPopped
  <2>2. Core(c) /\ \A x \in Ports : Remembered(c, x)
    BY <1>1, <1>2, ReqPoppedKeeps
  <2> HIDE DEF c
  <2> QED
    BY <2>1, <2>2, RetryAllKeeps DEF Good
<1>4. CASE ~accept
  <2>1. TrySendReq(b, q, accept) = ReqRefused(b, q)
    BY <1>4 DEF TrySendReq, ReqRefused
  <2> QED
    BY <1>1, <1>2, <2>1, ReqRefusedKeeps DEF Good
<1> QED
  BY <1>3, <1>4

-----------------------------------------------------------------------------
(* recvTimingResp *)

\* schedTimingResp returns a state of the bridge.
LEMMA SchedRespIsState ==
  ASSUME NEW b \in BridgeState, NEW r \in Ports, NEW p \in Packets
  PROVE  SchedTimingResp(b, r, p) \in BridgeState
<1>1. Append(b.respList[r], p) \in Seq(Packets)
  BY DEF BridgeState
<1> QED
  BY <1>1, Zenon DEF SchedTimingResp, BridgeState

\* d is b after the response p has joined the list of port r.
RespQueued(b, d, r, p) ==
  /\ d \in BridgeState
  /\ d.reqList = b.reqList /\ d.reqEvent = b.reqEvent
  /\ d.reqBlocked = b.reqBlocked /\ d.respBlocked = b.respBlocked
  /\ d.retryReq = b.retryReq /\ d.stalled = b.stalled
  /\ d.outstanding = b.outstanding /\ d.reqBus = b.reqBus
  /\ d.where = [b.where EXCEPT ![p] = "response"]
  /\ \A x \in Ports :
       /\ d.respList[x] = IF x = r THEN Append(b.respList[r], p) ELSE b.respList[x]
       /\ d.respEvent[x] = IF x = r /\ b.respList[r] = <<>> THEN TRUE
                                                            ELSE b.respEvent[x]

\* recvTimingResp changes the response, its port and nothing else.
LEMMA RespQueuedEffect ==
  ASSUME NEW b \in BridgeState, NEW r \in Ports, NEW p \in Packets, NEW d,
         d = SchedTimingResp([b EXCEPT !.where[p] = "response"], r, p)
  PROVE  RespQueued(b, d, r, p)
<1> DEFINE c == [b EXCEPT !.where[p] = "response"]
           y == IF b.respList[r] = <<>> THEN TRUE ELSE b.respEvent[r]
<1>1. "response" \in Where
  BY DEF Where
<1>2. c \in BridgeState
  BY <1>1, WhereSet, Zenon
<1>3. d \in BridgeState
  <2>1. d = SchedTimingResp(c, r, p)
    OBVIOUS
  <2> HIDE DEF c
  <2> QED
    BY <1>2, <2>1, SchedRespIsState
<1>4. /\ d.reqList = b.reqList /\ d.reqEvent = b.reqEvent
      /\ d.reqBlocked = b.reqBlocked /\ d.respBlocked = b.respBlocked
      /\ d.retryReq = b.retryReq /\ d.stalled = b.stalled
      /\ d.outstanding = b.outstanding /\ d.reqBus = b.reqBus
      /\ d.where = [b.where EXCEPT ![p] = "response"]
      /\ d.respList = [b.respList EXCEPT ![r] = Append(b.respList[r], p)]
      /\ d.respEvent = [b.respEvent EXCEPT ![r] = y]
  BY DEF SchedTimingResp, BridgeState
<1>5. b.respList \in [Ports -> Seq(Packets)] /\ b.respEvent \in [Ports -> BOOLEAN]
  BY DEF BridgeState
<1> HIDE DEF y
<1>6. \A x \in Ports :
        /\ d.respList[x] = IF x = r THEN Append(b.respList[r], p) ELSE b.respList[x]
        /\ d.respEvent[x] = IF x = r THEN y ELSE b.respEvent[x]
  <2>1. \A x \in Ports : [b.respList EXCEPT ![r] = Append(b.respList[r], p)][x]
                          = IF x = r THEN Append(b.respList[r], p) ELSE b.respList[x]
    BY <1>5, Updated
  <2>2. \A x \in Ports : [b.respEvent EXCEPT ![r] = y][x]
                          = IF x = r THEN y ELSE b.respEvent[x]
    BY <1>5, Updated
  <2>3. /\ d.respList = [b.respList EXCEPT ![r] = Append(b.respList[r], p)]
        /\ d.respEvent = [b.respEvent EXCEPT ![r] = y]
    BY <1>4
  <2> QED
    BY <2>1, <2>2, <2>3, Zenon
<1>7. \A x \in Ports : d.respEvent[x] = IF x = r /\ b.respList[r] = <<>>
                                        THEN TRUE ELSE b.respEvent[x]
  BY <1>6, Zenon DEF y
<1> QED
  BY <1>3, <1>4, <1>6, <1>7, Zenon DEF RespQueued

\* The response finds its way back by the bus number that its request took
\* along, where the bus numbers tell the ports apart.
LEMMA RecvRespKeeps ==
  ASSUME Homing, NEW b, Good(b), NEW p \in Packets, b.where[p] = "outside"
  PROVE  Good(RecvTimingRespAt(b, p))
<1> DEFINE r == Src[p]
           d == RecvTimingRespAt(b, p)
<1>1. /\ b \in BridgeState /\ RequestLists(b) /\ ResponseLists(b)
      /\ StalledOnes(b) /\ Requests(b) /\ Credits(b) /\ WakeUps(b)
      /\ \A x \in Ports : Remembered(b, x) /\ Justified(b, x)
  BY DEF Core, Good
<1>2. r \in Ports
  BY BridgeAssumption
<1>3. NeedsResponse[p] /\ b.reqBus[p] = FinalBus(p)
  BY <1>1 DEF Requests
<1>4. GetResponsePort(b.reqBus[p]) = r
  BY <1>3 DEF Homing
<1>5. d = SchedTimingResp([b EXCEPT !.where[p] = "response"], r, p)
  BY <1>4 DEF RecvTimingRespAt
<1> HIDE DEF d
<1>6. RespQueued(b, d, r, p)
  BY <1>1, <1>2, <1>5, RespQueuedEffect
<1>7. /\ d \in BridgeState
      /\ d.reqList = b.reqList /\ d.retryReq = b.retryReq
      /\ d.stalled = b.stalled /\ d.outstanding = b.outstanding
      /\ d.reqBus = b.reqBus
      /\ d.where = [b.where EXCEPT ![p] = "response"]
  BY <1>6 DEF RespQueued
<1>8. \A x \in Ports :
        d.respList[x] = IF x = r THEN Append(b.respList[r], p) ELSE b.respList[x]
  BY <1>6, Zenon DEF RespQueued
<1>9. \A x \in Packets : d.where[x] = IF x = p THEN "response" ELSE b.where[x]
  BY <1>1, <1>7 DEF BridgeState
<1>10. RequestLists(d)
  BY <1>1, <1>7, NotListed
<1>11. ResponseLists(d)
  <2> SUFFICES ASSUME NEW x \in Ports
               PROVE  /\ Distinct(d.respList[x])
                      /\ \A i \in 1 .. Len(d.respList[x]) :
                           /\ d.where[d.respList[x][i]] = "response"
                           /\ Src[d.respList[x][i]] = x
    BY DEF ResponseLists
  <2> DEFINE s == b.respList[x]
  <2>1. /\ s \in Seq(Packets) /\ Distinct(s)
        /\ \A i \in 1 .. Len(s) : /\ s[i] \in Packets
                                  /\ b.where[s[i]] = "response"
                                  /\ Src[s[i]] = x
    <3>1. s \in Seq(Packets)
      BY <1>1 DEF BridgeState
    <3>2. \A i \in 1 .. Len(s) : s[i] \in Packets
      BY <3>1
    <3>3. /\ Distinct(s)
          /\ \A i \in 1 .. Len(s) : b.where[s[i]] = "response" /\ Src[s[i]] = x
      BY <1>1 DEF ResponseLists
    <3> QED
      BY <3>1, <3>2, <3>3
  <2>2. \A i \in 1 .. Len(s) : s[i] # p /\ d.where[s[i]] = "response"
    BY <1>9, <2>1
  <2>3. CASE x = r
    <3>1. d.respList[x] = Append(s, p)
      BY <1>8, <2>3, Zenon
    <3> HIDE DEF s
    <3>2. /\ Distinct(Append(s, p))
          /\ \A i \in 1 .. Len(Append(s, p)) :
               Append(s, p)[i] = p \/ \E j \in 1 .. Len(s) : Append(s, p)[i] = s[j]
      BY <2>1, <2>2, DistinctAppend
    <3>3. d.where[p] = "response"
      BY <1>9
    <3>4. \A i \in 1 .. Len(Append(s, p)) : /\ d.where[Append(s, p)[i]] = "response"
                                            /\ Src[Append(s, p)[i]] = x
      BY <2>1, <2>2, <2>3, <3>2, <3>3
    <3> QED
      BY <3>1, <3>2, <3>4
  <2>4. CASE x # r
    BY <1>8, <2>1, <2>2, <2>4
  <2> QED
    BY <2>3, <2>4
<1>12. StalledOnes(d)
  <2> SUFFICES ASSUME NEW x \in Ports, d.stalled[x] # None
               PROVE  d.where[d.stalled[x]] = "stalled" /\ Src[d.stalled[x]] = x
    BY DEF StalledOnes
  <2>1. d.stalled[x] = b.stalled[x] /\ b.stalled[x] \in Packets
    <3>1. b.stalled \in [Ports -> Packets \cup {None}]
      BY <1>1 DEF BridgeState
    <3>2. d.stalled = b.stalled
      BY <1>7
    <3> QED
      BY <3>1, <3>2
  <2>2. b.where[b.stalled[x]] = "stalled" /\ Src[b.stalled[x]] = x
    BY <1>1, <2>1 DEF StalledOnes
  <2> QED
    BY <1>9, <2>1, <2>2
<1>13. Requests(d)
  <2>1. d.reqBus = b.reqBus
    BY <1>7
  <2>2. Requests(b)
    BY <1>1
  <2> QED
    BY <1>3, <1>9, <2>1, <2>2 DEF Requests
<1>14. Credits(d)
  <2>1. \A x \in Packets : d.where[x] \in Taken <=> b.where[x] \in Taken
    BY <1>9 DEF Taken
  <2>2. \A x \in Ports : Owed(d, x) = Owed(b, x)
    BY <2>1 DEF Owed, Taken
  <2> QED
    BY <1>1, <1>7, <2>2 DEF Credits
<1>15. WakeUps(d)
  <2> SUFFICES ASSUME NEW x \in Ports
               PROVE  /\ Driven(d.reqList[x], d.reqEvent[x], d.reqBlocked[x])
                      /\ Driven(d.respList[x], d.respEvent[x], d.respBlocked[x])
    BY DEF WakeUps
  <2>1. /\ Driven(d.reqList[x], d.reqEvent[x], d.reqBlocked[x])
        /\ Driven(b.respList[x], b.respEvent[x], b.respBlocked[x])
    BY <1>1, <1>6 DEF WakeUps, RespQueued
  <2>2. /\ d.respBlocked[x] = b.respBlocked[x]
        /\ d.respEvent[x] = IF x = r /\ b.respList[r] = <<>>
                            THEN TRUE ELSE b.respEvent[x]
    BY <1>6, Zenon DEF RespQueued
  <2>3. CASE x = r
    <3>1. b.respList[x] \in Seq(Packets) /\ d.respList[x] = Append(b.respList[x], p)
      BY <1>1, <1>8, <2>3, Zenon DEF BridgeState
    <3>2. d.respList[x] # <<>>
      BY <3>1, AppendProperties
    <3> QED
      BY <2>1, <2>2, <2>3, <3>2 DEF Driven
  <2>4. CASE x # r
    BY <1>8, <2>1, <2>2, <2>4
  <2> QED
    BY <2>3, <2>4
<1>16. \A x \in Ports : Remembered(d, x) /\ Justified(d, x)
  BY <1>1, <1>7 DEF Remembered, Justified, ReqQueueFull, RespQueueFull
<1>17. Core(d)
  BY <1>7, <1>10, <1>11, <1>12, <1>13, <1>14, <1>15 DEF Core
<1> QED
  BY <1>16, <1>17 DEF Good, d

-----------------------------------------------------------------------------
(* trySendTiming of a response port *)

\* The state in which the port calls for its peer, p being the head of the list.
RespPopped(b, r, p) ==
  [b EXCEPT !.respList[r] = Tail(b.respList[r]),
            !.respEvent[r] = Tail(b.respList[r]) # <<>>,
            !.respBlocked[r] = FALSE,
            !.outstanding[r] = @ - 1,
            !.where[p] = "idle",
            !.reqBus[p] = ArrivalBus[p]]

RespGone(b, c, r, p) ==
  /\ c \in BridgeState
  /\ c.reqList = b.reqList /\ c.reqEvent = b.reqEvent
  /\ c.reqBlocked = b.reqBlocked
  /\ c.retryReq = b.retryReq /\ c.stalled = b.stalled
  /\ c.where = [b.where EXCEPT ![p] = "idle"]
  /\ \A x \in Ports :
       /\ c.respList[x] = IF x = r THEN Tail(b.respList[r]) ELSE b.respList[x]
       /\ c.respEvent[x] = IF x = r THEN Tail(b.respList[r]) # <<>> ELSE b.respEvent[x]
       /\ c.respBlocked[x] = IF x = r THEN FALSE ELSE b.respBlocked[x]
       /\ c.outstanding[x] = IF x = r THEN b.outstanding[r] - 1 ELSE b.outstanding[x]
  /\ \A x \in Packets :
       c.reqBus[x] = IF x = p THEN ArrivalBus[p] ELSE b.reqBus[x]

\* RespPopped changes the head of the list, its port and nothing else.
LEMMA RespPoppedEffect ==
  ASSUME NEW b \in BridgeState, NEW r \in Ports, NEW p \in Packets,
         b.respList[r] # <<>>, b.outstanding[r] # 0
  PROVE  RespGone(b, RespPopped(b, r, p), r, p)
<1> DEFINE rest == Tail(b.respList[r])
           more == rest # <<>>
           no == FALSE
           w == "idle"
           n == ArrivalBus[p]
           o == b.outstanding[r] - 1
           L == [b.respList EXCEPT ![r] = rest]
           E == [b.respEvent EXCEPT ![r] = more]
           B == [b.respBlocked EXCEPT ![r] = no]
           O == [b.outstanding EXCEPT ![r] = o]
           W == [b.where EXCEPT ![p] = w]
           N == [b.reqBus EXCEPT ![p] = n]
           c == RespPopped(b, r, p)
<1>1. /\ b.respList \in [Ports -> Seq(Packets)] /\ b.respEvent \in [Ports -> BOOLEAN]
      /\ b.respBlocked \in [Ports -> BOOLEAN] /\ b.where \in [Packets -> Where]
      /\ b.reqBus \in [Packets -> Int] /\ b.outstanding \in [Ports -> Nat]
  BY DEF BridgeState
<1>2. rest \in Seq(Packets)
  BY <1>1
<1>3. more \in BOOLEAN /\ no \in BOOLEAN
  OBVIOUS
<1>4. w \in Where /\ n \in Int
  BY <1>1, BridgeAssumption DEF Where
<1>5. o \in Nat
  BY <1>1
<1>6. c = [b EXCEPT !.respList = L, !.respEvent = E, !.respBlocked = B,
                    !.outstanding = O, !.where = W, !.reqBus = N]
  BY DEF RespPopped
<1> HIDE DEF rest, more, no, w, n, o
<1>7. /\ L \in [Ports -> Seq(Packets)] /\ E \in [Ports -> BOOLEAN]
      /\ B \in [Ports -> BOOLEAN] /\ W \in [Packets -> Where]
      /\ N \in [Packets -> Int] /\ O \in [Ports -> Nat]
  BY <1>1, <1>2, <1>3, <1>4, <1>5, UpdatedType, Zenon
<1>8. /\ \A x \in Ports : /\ L[x] = IF x = r THEN rest ELSE b.respList[x]
                          /\ E[x] = IF x = r THEN more ELSE b.respEvent[x]
                          /\ B[x] = IF x = r THEN no ELSE b.respBlocked[x]
                          /\ O[x] = IF x = r THEN o ELSE b.outstanding[x]
      /\ \A x \in Packets : N[x] = IF x = p THEN n ELSE b.reqBus[x]
  BY <1>1, Updated, Zenon
<1>9. W = [b.where EXCEPT ![p] = w]
  OBVIOUS
<1> HIDE DEF L, E, B, W, N, O, c
<1>10. c \in BridgeState
  BY <1>6, <1>7, Zenon DEF BridgeState
<1>11. /\ c.reqList = b.reqList /\ c.reqEvent = b.reqEvent
       /\ c.reqBlocked = b.reqBlocked
       /\ c.retryReq = b.retryReq /\ c.stalled = b.stalled
       /\ c.respList = L /\ c.respEvent = E /\ c.respBlocked = B
       /\ c.outstanding = O /\ c.where = W /\ c.reqBus = N
  BY <1>6 DEF BridgeState
<1>12. \A x \in Packets : c.reqBus[x] = IF x = p THEN n ELSE b.reqBus[x]
  BY <1>8, <1>11, Zenon
<1>13. \A x \in Ports :
         /\ c.respList[x] = IF x = r THEN rest ELSE b.respList[x]
         /\ c.respEvent[x] = IF x = r THEN more ELSE b.respEvent[x]
         /\ c.respBlocked[x] = IF x = r THEN no ELSE b.respBlocked[x]
         /\ c.outstanding[x] = IF x = r THEN o ELSE b.outstanding[x]
  BY <1>8, <1>11, Zenon
<1> QED
  BY <1>9, <1>10, <1>11, <1>12, <1>13, Zenon DEF RespGone, rest, more, no, w, n, o, c

\* p of port r is answered in the step from b to c.
Answered(b, c, r, p) ==
  /\ b \in BridgeState
  /\ p \in Packets
  /\ Src[p] = r
  /\ NeedsResponse[p]
  /\ b.where[p] \in Taken
  /\ c.where = [b.where EXCEPT ![p] = "idle"]

\* A port owes one response less after it has sent one.
LEMMA CreditReturned ==
  ASSUME NEW b, NEW c, NEW p, NEW r, Answered(b, c, r, p)
  PROVE  Cardinality(Owed(c, r)) = Cardinality(Owed(b, r)) - 1
BY OwedOneLess DEF Answered

\* The response that leaves gives the credit of its request back.
LEMMA RespPoppedKeeps ==
  ASSUME NEW b, Core(b), NEW r \in Ports, b.respList[r] # <<>>,
         NEW p, p = Head(b.respList[r]), NEW c, c = RespPopped(b, r, p)
  PROVE  /\ Core(c)
         /\ Remembered(b, r) => Remembered(c, r)
         /\ OthersKept(b, c, r)
<1>1. /\ b \in BridgeState /\ RequestLists(b) /\ ResponseLists(b)
      /\ StalledOnes(b) /\ Requests(b) /\ Credits(b) /\ WakeUps(b)
  BY DEF Core
<1> DEFINE s == b.respList[r]
           t == Tail(s)
<1>2. /\ s \in Seq(Packets) /\ s # <<>> /\ Distinct(s)
      /\ \A i \in 1 .. Len(s) : b.where[s[i]] = "response" /\ Src[s[i]] = r
  BY <1>1 DEF BridgeState, ResponseLists
<1>3. p = Head(s)
  OBVIOUS
<1> HIDE DEF s
<1>4. /\ p \in Packets /\ p = s[1] /\ 1 \in 1 .. Len(s)
      /\ Distinct(t)
      /\ \A i \in 1 .. Len(t) : t[i] # p /\ \E j \in 1 .. Len(s) : t[i] = s[j]
  BY <1>2, <1>3, DistinctTail
<1>5. b.where[p] = "response" /\ Src[p] = r
  BY <1>2, <1>4
<1>6. NeedsResponse[p] /\ b.where[p] \in Taken
  BY <1>1, <1>4, <1>5 DEF Requests, Taken
<1>7. b.outstanding[r] # 0
  <2>1. p \in Owed(b, r)
    BY <1>4, <1>5, <1>6 DEF Owed
  <2>2. b.outstanding[r] = Cardinality(Owed(b, r))
    BY <1>1 DEF Credits
  <2> DEFINE S == Owed(b, r)
  <2>3. IsFiniteSet(S)
    BY OwedIsFinite
  <2> HIDE DEF S
  <2>4. p \in S => Cardinality(S) # 0
    BY <2>3, FS_EmptySet
  <2> QED
    BY <2>1, <2>2, <2>4 DEF S
<1>8. RespGone(b, c, r, p)
  BY <1>1, <1>4, <1>7, RespPoppedEffect
<1>9. /\ c \in BridgeState
      /\ c.reqList = b.reqList
      /\ c.retryReq = b.retryReq /\ c.stalled = b.stalled
      /\ c.where = [b.where EXCEPT ![p] = "idle"]
  BY <1>8 DEF RespGone
<1>10. \A x \in Ports :
         /\ c.respList[x] = IF x = r THEN t ELSE b.respList[x]
         /\ c.outstanding[x] = IF x = r THEN b.outstanding[r] - 1 ELSE b.outstanding[x]
  BY <1>8, Zenon DEF RespGone, s
<1>11. \A x \in Packets : c.where[x] = IF x = p THEN "idle" ELSE b.where[x]
  BY <1>1, <1>9 DEF BridgeState
<1>12. RequestLists(c)
  BY <1>1, <1>4, <1>5, <1>9, NotListed, Zenon
<1>13. ResponseLists(c)
  <2> SUFFICES ASSUME NEW x \in Ports
               PROVE  /\ Distinct(c.respList[x])
                      /\ \A i \in 1 .. Len(c.respList[x]) :
                           /\ c.where[c.respList[x][i]] = "response"
                           /\ Src[c.respList[x][i]] = x
    BY Zenon DEF ResponseLists
  <2>1. CASE x = r
    <3>1. \A i \in 1 .. Len(t) : t[i] \in Packets
      BY <1>2, <1>4
    <3>2. \A i \in 1 .. Len(t) : c.where[t[i]] = "response" /\ Src[t[i]] = r
      BY <1>2, <1>4, <1>11, <3>1
    <3> QED
      BY <1>4, <1>10, <2>1, <3>2, Zenon
  <2>2. CASE x # r
    <3> DEFINE u == b.respList[x]
    <3>1. /\ Distinct(u)
          /\ \A i \in 1 .. Len(u) : /\ u[i] \in Packets
                                    /\ b.where[u[i]] = "response"
                                    /\ Src[u[i]] = x
      BY <1>1 DEF BridgeState, ResponseLists
    <3>2. c.respList[x] = u
      BY <1>10, <2>2
    <3> HIDE DEF u
    <3>3. \A i \in 1 .. Len(u) : u[i] # p
      BY <1>5, <2>2, <3>1
    <3>4. \A i \in 1 .. Len(u) : c.where[u[i]] = "response"
      BY <1>11, <3>1, <3>3
    <3> QED
      BY <3>1, <3>2, <3>4, Zenon
  <2> QED
    BY <2>1, <2>2, Zenon
<1>14. StalledOnes(c)
  <2> SUFFICES ASSUME NEW x \in Ports, c.stalled[x] # None
               PROVE  c.where[c.stalled[x]] = "stalled" /\ Src[c.stalled[x]] = x
    BY Zenon DEF StalledOnes
  <2>1. c.stalled[x] = b.stalled[x] /\ b.stalled[x] \in Packets
    <3>1. b.stalled \in [Ports -> Packets \cup {None}]
      BY <1>1 DEF BridgeState
    <3>2. c.stalled = b.stalled
      BY <1>9
    <3> QED
      BY <3>1, <3>2
  <2>2. b.where[b.stalled[x]] = "stalled" /\ Src[b.stalled[x]] = x
    BY <1>1, <2>1 DEF StalledOnes
  <2> QED
    BY <1>5, <1>11, <2>1, <2>2
<1>15. Requests(c)
  <2>1. \A x \in Packets : c.reqBus[x] = IF x = p THEN ArrivalBus[p] ELSE b.reqBus[x]
    BY <1>8 DEF RespGone
  <2> QED
    BY <1>1, <1>11, <2>1 DEF Requests
<1>16. Credits(c)
  <2> SUFFICES ASSUME NEW x \in Ports
               PROVE  /\ c.outstanding[x] = Cardinality(Owed(c, x))
                      /\ c.outstanding[x] <= RespLimit
    BY DEF Credits
  <2>1. /\ b.outstanding[x] = Cardinality(Owed(b, x))
        /\ b.outstanding[x] <= RespLimit /\ b.outstanding[x] \in Nat
    BY <1>1 DEF Credits, BridgeState
  <2>2. CASE x = r
    <3>1. Answered(b, c, r, p)
      BY <1>1, <1>4, <1>5, <1>6, <1>9 DEF Answered
    <3>2. Cardinality(Owed(c, r)) = Cardinality(Owed(b, r)) - 1
      BY <3>1, CreditReturned, Zenon
    <3>3. c.outstanding[r] = b.outstanding[r] - 1
      BY <1>10
    <3>4. RespLimit \in Nat
      BY BridgeAssumption
    <3>5. /\ b.outstanding[r] = Cardinality(Owed(b, r))
          /\ b.outstanding[r] <= RespLimit /\ b.outstanding[r] \in Nat
      BY <2>1, <2>2
    <3>6. c.outstanding[r] = Cardinality(Owed(c, r))
      BY <3>2, <3>3, <3>5
    <3>7. c.outstanding[r] <= RespLimit
      BY <3>3, <3>4, <3>5
    <3> QED
      BY <2>2, <3>6, <3>7
  <2>3. CASE x # r
    <3>1. Owed(c, x) = Owed(b, x)
      BY <1>5, <1>11, <2>3 DEF Owed
    <3> QED
      BY <1>10, <2>1, <2>3, <3>1
  <2> QED
    BY <2>2, <2>3
<1>17. WakeUps(c)
  <2> SUFFICES ASSUME NEW x \in Ports
               PROVE  /\ Driven(c.reqList[x], c.reqEvent[x], c.reqBlocked[x])
                      /\ Driven(c.respList[x], c.respEvent[x], c.respBlocked[x])
    BY DEF WakeUps
  <2>1. /\ Driven(c.reqList[x], c.reqEvent[x], c.reqBlocked[x])
        /\ Driven(b.respList[x], b.respEvent[x], b.respBlocked[x])
    BY <1>1, <1>8, Zenon DEF WakeUps, RespGone
  <2>2. /\ c.respEvent[x] = IF x = r THEN t # <<>> ELSE b.respEvent[x]
        /\ c.respBlocked[x] = IF x = r THEN FALSE ELSE b.respBlocked[x]
    BY <1>8, Zenon DEF RespGone, s
  <2>3. CASE x = r
    <3>1. c.respList[x] = t /\ c.respEvent[x] = (t # <<>>) /\ ~c.respBlocked[x]
      BY <1>10, <2>2, <2>3, Zenon
    <3> HIDE DEF t
    <3> QED
      BY <2>1, <3>1, Zenon DEF Driven
  <2>4. CASE x # r
    BY <1>10, <2>1, <2>2, <2>4, Zenon
  <2> QED
    BY <2>3, <2>4
<1>18. Core(c)
  BY <1>9, <1>12, <1>13, <1>14, <1>15, <1>16, <1>17 DEF Core
<1>19. (Remembered(b, r) => Remembered(c, r)) /\ OthersKept(b, c, r)
  BY <1>9, <1>10, Zenon
     DEF OthersKept, Remembered, Justified, ReqQueueFull, RespQueueFull
<1> QED
  BY <1>18, <1>19

\* The state of a response port whose peer turned the head of its list down.
RespRefused(b, r) == [b EXCEPT !.respEvent[r] = FALSE, !.respBlocked[r] = TRUE]

\* A response port whose peer is busy waits for recvRespRetry.
LEMMA RespRefusedKeeps ==
  ASSUME NEW b, Core(b), NEW r \in Ports, b.respList[r] # <<>>,
         NEW c, c = RespRefused(b, r)
  PROVE  /\ Core(c)
         /\ \A x \in Ports : /\ Remembered(b, x) => Remembered(c, x)
                             /\ Justified(b, x) => Justified(c, x)
<1> DEFINE no == FALSE
           yes == TRUE
           E == [b.respEvent EXCEPT ![r] = no]
           B == [b.respBlocked EXCEPT ![r] = yes]
<1>1. /\ b \in BridgeState /\ WakeUps(b)
      /\ b.respEvent \in [Ports -> BOOLEAN] /\ b.respBlocked \in [Ports -> BOOLEAN]
  BY DEF Core, BridgeState
<1>2. no \in BOOLEAN /\ yes \in BOOLEAN
  OBVIOUS
<1>3. c = [b EXCEPT !.respEvent = E, !.respBlocked = B]
  BY DEF RespRefused
<1> HIDE DEF no, yes
<1>4. E \in [Ports -> BOOLEAN] /\ B \in [Ports -> BOOLEAN]
  BY <1>1, <1>2, UpdatedType, Zenon
<1>5. \A x \in Ports : /\ E[x] = IF x = r THEN no ELSE b.respEvent[x]
                       /\ B[x] = IF x = r THEN yes ELSE b.respBlocked[x]
  BY <1>1, Updated, Zenon
<1> HIDE DEF E, B
<1>6. c \in BridgeState
  BY <1>1, <1>3, <1>4, Zenon DEF BridgeState
<1>7. /\ c.reqList = b.reqList /\ c.respList = b.respList
      /\ c.reqEvent = b.reqEvent /\ c.reqBlocked = b.reqBlocked
      /\ c.outstanding = b.outstanding /\ c.retryReq = b.retryReq
      /\ c.stalled = b.stalled /\ c.reqBus = b.reqBus /\ c.where = b.where
      /\ c.respEvent = E /\ c.respBlocked = B
  BY <1>1, <1>3 DEF BridgeState
<1>8. WakeUps(c)
  <2> SUFFICES ASSUME NEW x \in Ports
               PROVE  /\ Driven(c.reqList[x], c.reqEvent[x], c.reqBlocked[x])
                      /\ Driven(c.respList[x], c.respEvent[x], c.respBlocked[x])
    BY DEF WakeUps
  <2>1. /\ Driven(c.reqList[x], c.reqEvent[x], c.reqBlocked[x])
        /\ Driven(b.respList[x], b.respEvent[x], b.respBlocked[x])
    BY <1>1, <1>7 DEF WakeUps
  <2>2. CASE x = r
    <3>1. c.respList[x] # <<>> /\ ~c.respEvent[x] /\ c.respBlocked[x]
      BY <1>5, <1>7, <2>2, Zenon DEF no, yes
    <3> QED
      BY <2>1, <3>1 DEF Driven
  <2>3. CASE x # r
    BY <1>5, <1>7, <2>1, <2>3
  <2> QED
    BY <2>2, <2>3
<1>9. Core(c)
  <2>1. /\ RequestLists(b) /\ ResponseLists(b) /\ StalledOnes(b)
        /\ Requests(b) /\ Credits(b)
    BY DEF Core
  <2>2. RequestLists(c)
    BY <1>7, <2>1 DEF RequestLists
  <2>3. ResponseLists(c)
    BY <1>7, <2>1 DEF ResponseLists
  <2>4. StalledOnes(c) /\ Requests(c)
    BY <1>7, <2>1 DEF StalledOnes, Requests
  <2>5. Credits(c)
    BY <1>7, <2>1 DEF Credits, Owed
  <2> QED
    BY <1>6, <1>8, <2>2, <2>3, <2>4, <2>5 DEF Core
<1>10. \A x \in Ports : /\ Remembered(b, x) => Remembered(c, x)
                        /\ Justified(b, x) => Justified(c, x)
  BY <1>7 DEF Remembered, Justified, ReqQueueFull, RespQueueFull
<1> QED
  BY <1>9, <1>10

\* A response that leaves ends the wait of its port's own peer only.
LEMMA TrySendRespKeeps ==
  ASSUME NEW b, Good(b), NEW r \in Ports, b.respEvent[r] \/ b.respBlocked[r],
         NEW accept \in BOOLEAN
  PROVE  Good(TrySendResp(b, r, accept))
<1>1. Core(b) /\ \A x \in Ports : Remembered(b, x) /\ Justified(b, x)
  BY DEF Good
<1>2. b.respList[r] # <<>>
  BY <1>1 DEF Core, WakeUps, Driven
<1>3. CASE accept
  <2> DEFINE p == Head(b.respList[r])
             c == RespPopped(b, r, p)
             d == RetryStalledReq(c, r)
  <2>1. TrySendResp(b, r, accept) = d
    BY <1>3 DEF TrySendResp, RespPopped
  <2>2. Core(c) /\ Remembered(c, r) /\ OthersKept(b, c, r)
    BY <1>1, <1>2, RespPoppedKeeps
  <2> HIDE DEF c
  <2>3. Core(d) /\ Remembered(d, r) /\ Justified(d, r) /\ OthersKept(c, d, r)
    BY <2>2, RetryKeeps
  <2> HIDE DEF d
  <2>4. \A x \in Ports : Remembered(d, x) /\ Justified(d, x)
    BY <1>1, <2>2, <2>3 DEF OthersKept
  <2> QED
    BY <2>1, <2>3, <2>4 DEF Good
<1>4. CASE ~accept
  <2>1. TrySendResp(b, r, accept) = RespRefused(b, r)
    BY <1>4 DEF TrySendResp, RespRefused
  <2> QED
    BY <1>1, <1>2, <2>1, RespRefusedKeeps DEF Good
<1> QED
  BY <1>3, <1>4

-----------------------------------------------------------------------------
(* The invariant and the theorems *)

\* recvTimingReq keeps the invariant.
LEMMA RecvGood ==
  ASSUME NEW b, Good(b), NEW r \in Ports, NEW p \in Packets, Offered(b, r, p)
  PROVE  Good(RecvTimingReq(b, r, p))
<1> DEFINE d == RecvTimingReq(b, r, p)
<1>1. Core(b) /\ \A x \in Ports : Remembered(b, x) /\ Justified(b, x)
  BY DEF Good
<1>2. b.retryReq[r] => b.stalled[r] = p
  BY <1>1 DEF Remembered, Offered
<1>3. Core(d) /\ Remembered(d, r) /\ Justified(d, r) /\ OthersKept(b, d, r)
  BY <1>1, <1>2, RecvKeeps
<1> HIDE DEF d
<1>4. \A x \in Ports : Remembered(d, x) /\ Justified(d, x)
  BY <1>1, <1>3 DEF OthersKept
<1> QED
  BY <1>3, <1>4 DEF Good, d

\* The bridge starts with empty lists, all credits and nobody waiting.
LEMMA InitGood == Init => IndInv
<1> SUFFICES ASSUME Init PROVE Good(InitBridge)
  BY DEF Init, IndInv
<1> DEFINE b == InitBridge
<1>1. /\ \A x \in Ports :
           /\ b.reqList[x] = <<>> /\ b.respList[x] = <<>>
           /\ ~b.reqEvent[x] /\ ~b.respEvent[x]
           /\ ~b.reqBlocked[x] /\ ~b.respBlocked[x]
           /\ b.outstanding[x] = 0 /\ ~b.retryReq[x] /\ b.stalled[x] = None
      /\ \A p \in Packets : b.where[p] = "idle" /\ b.reqBus[p] = ArrivalBus[p]
  BY DEF InitBridge
<1>2. b \in BridgeState
  <2>1. [q \in Ports |-> <<>>] \in [Ports -> Seq(Packets)]
    OBVIOUS
  <2>2. [q \in Ports |-> FALSE] \in [Ports -> BOOLEAN]
    OBVIOUS
  <2>3. [r \in Ports |-> 0] \in [Ports -> Nat]
    OBVIOUS
  <2>4. [r \in Ports |-> None] \in [Ports -> Packets \cup {None}]
    OBVIOUS
  <2>5. ArrivalBus \in [Packets -> Int]
    BY BridgeAssumption
  <2>6. [p \in Packets |-> "idle"] \in [Packets -> Where]
    BY DEF Where
  <2> QED
    BY <2>1, <2>2, <2>3, <2>4, <2>5, <2>6 DEF InitBridge, BridgeState
<1> HIDE DEF b
<1>3. RequestLists(b) /\ ResponseLists(b)
  <2>1. Len(<<>>) = 0 /\ 1 .. 0 = {}
    OBVIOUS
  <2>2. \A x \in Ports : Len(b.reqList[x]) = 0 /\ Len(b.respList[x]) = 0
    BY <1>1, <2>1
  <2>3. RequestLists(b)
    BY <2>1, <2>2 DEF RequestLists, Distinct
  <2>4. ResponseLists(b)
    BY <2>1, <2>2 DEF ResponseLists, Distinct
  <2> QED
    BY <2>3, <2>4
<1>4. StalledOnes(b) /\ Requests(b)
  BY <1>1 DEF StalledOnes, Requests
<1>5. Credits(b)
  <2>1. \A x \in Ports : Owed(b, x) = {}
    BY <1>1 DEF Owed
  <2> QED
    <3>1. Cardinality({}) = 0 /\ RespLimit \in Nat
      BY FS_EmptySet, BridgeAssumption
    <3>2. \A x \in Ports : b.outstanding[x] = 0
      BY <1>1
    <3> QED
      BY <2>1, <3>1, <3>2 DEF Credits
<1>6. WakeUps(b)
  BY <1>1 DEF WakeUps, Driven
<1>7. \A x \in Ports : Remembered(b, x) /\ Justified(b, x)
  BY <1>1 DEF Remembered, Justified
<1> QED
  BY <1>2, <1>3, <1>4, <1>5, <1>6, <1>7 DEF Good, Core, b

\* Every handler keeps the invariant.
LEMMA NextGood ==
  ASSUME Homing, IndInv, [Next]_bridge
  PROVE  IndInv'
<1>1. Good(bridge)
  BY DEF IndInv
<1> SUFFICES Good(bridge')
  BY Zenon DEF IndInv, Good, Core, BridgeState, RequestLists, ResponseLists, StalledOnes,
         Requests, Credits, Owed, WakeUps, Remembered, Justified, ReqQueueFull,
         RespQueueFull
<1>2. ASSUME NEW p \in Packets, Offer(p)
      PROVE  Good(bridge')
  <2>1. Src[p] \in Ports
    BY BridgeAssumption
  <2>2. Offered(bridge, Src[p], p) /\ bridge' = RecvTimingReq(bridge, Src[p], p)
    BY <1>2 DEF Offer, Offered
  <2>3. Good(RecvTimingReq(bridge, Src[p], p))
    BY <1>1, <2>1, <2>2, RecvGood
  <2> QED
    BY <2>2, <2>3
<1>3. ASSUME NEW p \in Packets, RecvTimingResp(p)
      PROVE  Good(bridge')
  <2>1. bridge.where[p] = "outside" /\ bridge' = RecvTimingRespAt(bridge, p)
    BY <1>3 DEF RecvTimingResp
  <2>2. Good(RecvTimingRespAt(bridge, p))
    BY <1>1, <2>1, RecvRespKeeps
  <2> QED
    BY <2>1, <2>2
<1>4. ASSUME NEW r \in Ports, Replay(r)
      PROVE  Good(bridge')
  <2> DEFINE p == bridge.stalled[r]
  <2>1. p # None /\ bridge' = RecvTimingReq(bridge, r, p)
    BY <1>4 DEF Replay
  <2>2. p \in Packets /\ Offered(bridge, r, p)
    BY <1>1, <2>1 DEF Good, Core, BridgeState, StalledOnes, Offered
  <2> HIDE DEF p
  <2>3. Good(RecvTimingReq(bridge, r, p))
    BY <1>1, <2>2, RecvGood
  <2> QED
    BY <2>1, <2>3
<1>5. ASSUME NEW q \in Ports, NEW accept \in BOOLEAN, SendReq(q, accept)
      PROVE  Good(bridge')
  <2>1. /\ bridge.reqEvent[q] \/ bridge.reqBlocked[q]
        /\ bridge' = TrySendReq(bridge, q, accept)
    BY <1>5 DEF SendReq
  <2>2. Good(TrySendReq(bridge, q, accept))
    BY <1>1, <2>1, TrySendReqKeeps
  <2> QED
    BY <2>1, <2>2
<1>6. ASSUME NEW r \in Ports, NEW accept \in BOOLEAN, SendResp(r, accept)
      PROVE  Good(bridge')
  <2>1. /\ bridge.respEvent[r] \/ bridge.respBlocked[r]
        /\ bridge' = TrySendResp(bridge, r, accept)
    BY <1>6 DEF SendResp
  <2>2. Good(TrySendResp(bridge, r, accept))
    BY <1>1, <2>1, TrySendRespKeeps
  <2> QED
    BY <2>1, <2>2
<1>7. CASE UNCHANGED bridge
  BY <1>1, <1>7
<1> QED
  BY <1>2, <1>3, <1>4, <1>5, <1>6, <1>7 DEF Next

\* A list without repetitions is no longer than a set of its elements.
LEMMA DistinctFits ==
  ASSUME NEW S, IsFiniteSet(S), NEW s \in Seq(Packets), Distinct(s),
         \A i \in 1 .. Len(s) : s[i] \in S
  PROVE  Len(s) <= Cardinality(S)
<1> DEFINE f == [i \in 1 .. Len(s) |-> s[i]]
<1>1. f \in Injection(1 .. Len(s), S)
  BY DEF Distinct, Injection, IsInjective
<1>2. Len(s) \in Nat
  OBVIOUS
<1> HIDE DEF f
<1>3. Cardinality(1 .. Len(s)) <= Cardinality(S)
  BY <1>1, FS_Injection
<1>4. Cardinality(1 .. Len(s)) = Len(s)
  BY <1>2, FS_Interval
<1> QED
  BY <1>3, <1>4

\* The invariant holds in every reachable state.
LEMMA Invariance == ASSUME Homing PROVE Spec => []IndInv
BY InitGood, NextGood, PTL DEF Spec

\* The assertions on outstandingResponses never fail, and every variable keeps
\* its type, for any traffic through the bridge.
THEOREM TypeTheorem == ASSUME Homing PROVE Spec => []TypeOK
<1>1. IndInv => TypeOK
  BY DEF IndInv, Good, Core, TypeOK
<1> QED
  BY <1>1, Invariance, PTL

\* No credit of a response port is lost, and none is given back twice.
THEOREM CreditsTheorem == ASSUME Homing PROVE Spec => []CreditsConserved
<1>1. IndInv => CreditsConserved
  BY DEF IndInv, Good, Core, Credits, CreditsConserved
<1> QED
  BY <1>1, Invariance, PTL

\* There is room for every response, which is what recvTimingResp relies on
\* when it accepts without asking.
THEOREM RoomTheorem == ASSUME Homing PROVE Spec => []RoomForResponses
<1>1. ASSUME IndInv
      PROVE  RoomForResponses
  <2> SUFFICES ASSUME NEW r \in Ports
               PROVE  /\ Len(bridge.respList[r]) <= bridge.outstanding[r]
                      /\ bridge.outstanding[r] <= RespLimit
    BY DEF RoomForResponses
  <2> DEFINE s == bridge.respList[r]
             S == Owed(bridge, r)
  <2>1. /\ bridge.outstanding[r] = Cardinality(S)
        /\ bridge.outstanding[r] <= RespLimit
    BY <1>1 DEF IndInv, Good, Core, Credits
  <2>2. s \in Seq(Packets) /\ Distinct(s)
    BY <1>1 DEF IndInv, Good, Core, BridgeState, ResponseLists
  <2>3. \A i \in 1 .. Len(s) : s[i] \in S
    <3>1. \A i \in 1 .. Len(s) : s[i] \in Packets
      BY <2>2
    <3>2. \A i \in 1 .. Len(s) : bridge.where[s[i]] = "response" /\ Src[s[i]] = r
      BY <1>1, Zenon DEF IndInv, Good, Core, ResponseLists
    <3>3. \A p \in Packets : bridge.where[p] = "response" => NeedsResponse[p]
      BY <1>1 DEF IndInv, Good, Core, Requests
    <3> HIDE DEF s
    <3> QED
      BY <3>1, <3>2, <3>3 DEF Owed
  <2>4. IsFiniteSet(S)
    BY OwedIsFinite
  <2> HIDE DEF s, S
  <2>5. Len(s) <= Cardinality(S)
    BY <2>2, <2>3, <2>4, DistinctFits
  <2> QED
    BY <2>1, <2>5 DEF s
<1> QED
  BY <1>1, Invariance, PTL

\* Responses leave through the port their requests came in at.
THEOREM HomeTheorem == ASSUME Homing PROVE Spec => []ResponsesReturnHome
<1>1. IndInv => ResponsesReturnHome
  BY DEF IndInv, Good, Core, ResponseLists, ResponsesReturnHome
<1> QED
  BY <1>1, Invariance, PTL

\* No peer waits for a retry that trySendTiming forgets to send.
THEOREM NoLostRetryTheorem == ASSUME Homing PROVE Spec => []NoLostRetry
<1>1. IndInv => NoLostRetry
  BY DEF IndInv, Good, Remembered, Justified, NoLostRetry, Route
<1> QED
  BY <1>1, Invariance, PTL

\* A list that is not empty has one event or one peer that will empty it.
THEOREM WakeUpTheorem == ASSUME Homing PROVE Spec => []OneWakeUp
<1>1. IndInv => OneWakeUp
  BY DEF IndInv, Good, Core, WakeUps, Driven, OneWakeUp
<1> QED
  BY <1>1, Invariance, PTL
=============================================================================
