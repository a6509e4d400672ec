-------------------------- MODULE PciBridge2Lemmas --------------------------
(***************************************************************************)
(* The inductive invariant of PciBridge2, and that recvTimingReq and       *)
(* retryStalledReq keep it.                                                *)
(*                                                                         *)
(* The invariants of PciBridge2 are not inductive.  Core adds which        *)
(* packets the lists hold, once each, and what bus number they carry.      *)
(* A handler calls others, so that the lemmas are about the state b that a *)
(* handler is called in and the state it returns; within trySendTiming of  *)
(* a request port only the response ports that had their turn are known to *)
(* have a reason to stall their peer (Justified).                          *)
(***************************************************************************)
EXTENDS PciBridge2, FiniteSetTheorems, SequenceTheorems, TLAPS

-----------------------------------------------------------------------------
(* The inductive invariant *)

\* The request port p is sent through.
Route(p) == GetRequestPort(Dest[p])

\* The bus number p carries after recvTimingReq.
FinalBus(p) == IF ArrivalBus[p] = -1 THEN RequesterBus(Src[p]) ELSE ArrivalBus[p]

\* Bus numbers lead responses back, as enumeration by software ensures.
Homing ==
  \A p \in Packets : NeedsResponse[p] => GetResponsePort(FinalBus(p)) = Src[p]

Distinct(s) == \A i, j \in 1 .. Len(s) : s[i] = s[j] => i = j

\* The transmitLists of the request ports.
RequestLists(b) ==
  \A q \in Ports :
    /\ Distinct(b.reqList[q])
    /\ \A i \in 1 .. Len(b.reqList[q]) :
         /\ b.where[b.reqList[q][i]] = "request"
         /\ Route(b.reqList[q][i]) = q

\* The transmitLists of the response ports.
ResponseLists(b) ==
  \A r \in Ports :
    /\ Distinct(b.respList[r])
    /\ \A i \in 1 .. Len(b.respList[r]) :
         /\ b.where[b.respList[r][i]] = "response"
         /\ Src[b.respList[r][i]] = r

\* The requests that the peers hold.
StalledOnes(b) ==
  \A r \in Ports : b.stalled[r] # None => /\ b.where[b.stalled[r]] = "stalled"
                                          /\ Src[b.stalled[r]] = r

\* What is said of each request.
Requests(b) ==
  \A p \in Packets :
    /\ b.where[p] \in {"outside", "response"} => NeedsResponse[p]
    /\ b.reqBus[p] = IF b.where[p] = "idle" THEN ArrivalBus[p] ELSE FinalBus(p)

Credits(b) ==
  \A r \in Ports : /\ b.outstanding[r] = Cardinality(Owed(b, r))
                   /\ b.outstanding[r] <= RespLimit

\* One event, or one peer, for a list that is not empty, and none otherwise.
Driven(list, event, blocked) ==
  /\ (list = <<>>) = ~(event \/ blocked)
  /\ ~(event /\ blocked)

WakeUps(b) ==
  \A x \in Ports : /\ Driven(b.reqList[x], b.reqEvent[x], b.reqBlocked[x])
                   /\ Driven(b.respList[x], b.respEvent[x], b.respBlocked[x])

Core(b) ==
  /\ b \in BridgeState
  /\ RequestLists(b)
  /\ ResponseLists(b)
  /\ StalledOnes(b)
  /\ Requests(b)
  /\ Credits(b)
  /\ WakeUps(b)

\* retryReq of port r and the request its peer holds.
Remembered(b, r) ==
  /\ b.retryReq[r] => b.stalled[r] # None
  /\ b.stalled[r] # None /\ r \notin Replays => b.retryReq[r]

\* Port r has a reason not to wake its peer.
Justified(b, r) ==
  b.retryReq[r] => \/ ReqQueueFull(b, Route(b.stalled[r]))
                   \/ NeedsResponse[b.stalled[r]] /\ RespQueueFull(b, r)

Good(b) == Core(b) /\ \A r \in Ports : Remembered(b, r) /\ Justified(b, r)

IndInv == Good(bridge)

-----------------------------------------------------------------------------
(* Routes, credits and lists *)

\* getRequestPort finds a port for every address.
LEMMA RouteIsPort ==
  ASSUME NEW p
  PROVE  Route(p) \in Ports
BY DEF Route, GetRequestPort, Ports

\* A request that has passed recvTimingReq carries a bus number.
LEMMA BusNumbers ==
  ASSUME NEW p \in Packets
  PROVE  /\ RequesterBus(Src[p]) \in Nat
         /\ FinalBus(p) \in Int
         /\ FinalBus(p) # -1
BY BridgeAssumption DEF RequesterBus, FinalBus, Ports, Downstream

\* The states of a request for which its port owes a response.
Taken == {"request", "outside", "response"}

\* A port owes finitely many responses.
LEMMA OwedIsFinite ==
  ASSUME NEW b, NEW r
  PROVE  IsFiniteSet(Owed(b, r)) /\ Cardinality(Owed(b, r)) \in Nat
<1>1. Owed(b, r) \subseteq Packets
  BY DEF Owed
<1>2. IsFiniteSet(Owed(b, r))
  BY <1>1, BridgeAssumption, FS_Subset
<1> QED
  BY <1>2, FS_CardinalityType

\* A port that takes a request owes one response more.
LEMMA OwedOneMore ==
  ASSUME NEW b \in BridgeState, NEW d, NEW p \in Packets, NeedsResponse[p],
         NEW w \in Taken, b.where[p] \notin Taken,
         d.where = [b.where EXCEPT ![p] = w]
  PROVE  Cardinality(Owed(d, Src[p])) = Cardinality(Owed(b, Src[p])) + 1
<1>1. Owed(d, Src[p]) = Owed(b, Src[p]) \cup {p}
  BY DEF Owed, Taken, BridgeState
<1> DEFINE S == Owed(b, Src[p])
<1>2. p \notin S
  BY DEF Owed, Taken
<1>3. IsFiniteSet(S)
  BY OwedIsFinite
<1> HIDE DEF S
<1>4. Cardinality(S \cup {p}) = Cardinality(S) + 1
  BY <1>2, <1>3, FS_AddElement, Zenon
<1> QED
  BY <1>1, <1>4 DEF S

\* A port that sends a response owes one less.
LEMMA OwedOneLess ==
  ASSUME NEW b \in BridgeState, NEW d, NEW p \in Packets, NeedsResponse[p],
         b.where[p] \in Taken, d.where = [b.where EXCEPT ![p] = "idle"]
  PROVE  Cardinality(Owed(d, Src[p])) = Cardinality(Owed(b, Src[p])) - 1
<1>1. Owed(d, Src[p]) = Owed(b, Src[p]) \ {p}
  BY DEF Owed, Taken, BridgeState
<1> DEFINE S == Owed(b, Src[p])
<1>2. p \in S
  BY DEF Owed, Taken
<1>3. IsFiniteSet(S)
  BY OwedIsFinite
<1> HIDE DEF S
<1>4. Cardinality(S \ {p}) = Cardinality(S) - 1
  BY <1>2, <1>3, FS_RemoveElement, Zenon
<1> QED
  BY <1>1, <1>4 DEF S

\* Other ports, posted requests and moves inside the bridge change no debt.
LEMMA OwedSame ==
  ASSUME NEW b \in BridgeState, NEW d, NEW p \in Packets, NEW w, NEW r,
         d.where = [b.where EXCEPT ![p] = w],
         r # Src[p] \/ ~NeedsResponse[p] \/ (w \in Taken <=> b.where[p] \in Taken)
  PROVE  Owed(d, r) = Owed(b, r)
BY DEF Owed, Taken, BridgeState

\* A list stays without repetitions when a new packet joins it.
LEMMA DistinctAppend ==
  ASSUME NEW s \in Seq(Packets), NEW p \in Packets, Distinct(s),
         \A i \in 1 .. Len(s) : s[i] # p
  PROVE  /\ Append(s, p) \in Seq(Packets)
         /\ Append(s, p) # <<>>
         /\ Len(Append(s, p)) = Len(s) + 1
         /\ Distinct(Append(s, p))
         /\ \A i \in 1 .. Len(Append(s, p)) :
              Append(s, p)[i] = p \/ \E j \in 1 .. Len(s) : Append(s, p)[i] = s[j]
<1> DEFINE t == Append(s, p)
<1>1. /\ t \in Seq(Packets)
      /\ Len(t) = Len(s) + 1
      /\ \A i \in 1 .. Len(s) : t[i] = s[i]
      /\ t[Len(s) + 1] = p
      /\ t # <<>>
  BY AppendProperties
<1>2. Len(s) \in Nat
  OBVIOUS
<1> HIDE DEF t
<1>3. \A i \in 1 .. Len(t) : i \in 1 .. Len(s) \/ i = Len(s) + 1
  BY <1>1, <1>2
<1>4. Distinct(t)
  BY <1>1, <1>2, <1>3 DEF Distinct
<1>5. \A i \in 1 .. Len(t) : t[i] = p \/ \E j \in 1 .. Len(s) : t[i] = s[j]
  BY <1>1, <1>3
<1> QED
  BY <1>1, <1>4, <1>5 DEF t

\* A list stays without repetitions, and without its head, when that leaves.
LEMMA DistinctTail ==
  ASSUME NEW s \in Seq(Packets), s # <<>>, Distinct(s)
  PROVE  /\ Head(s) \in Packets
         /\ Head(s) = s[1]
         /\ 1 \in 1 .. Len(s)
         /\ Tail(s) \in Seq(Packets)
         /\ Len(Tail(s)) = Len(s) - 1
         /\ Distinct(Tail(s))
         /\ \A i \in 1 .. Len(Tail(s)) :
              /\ Tail(s)[i] # Head(s)
              /\ \E j \in 1 .. Len(s) : Tail(s)[i] = s[j]
<1> DEFINE t == Tail(s)
<1>1. /\ Head(s) = s[1]
      /\ t \in Seq(Packets)
      /\ Len(t) = Len(s) - 1
      /\ \A i \in 1 .. Len(t) : t[i] = s[i + 1]
  BY HeadTailProperties
<1>2. Len(s) \in Nat /\ Len(s) > 0
  BY EmptySeq
<1>3. s[1] \in Packets /\ 1 \in 1 .. Len(s)
  BY <1>2
<1> HIDE DEF t
<1>4. \A i \in 1 .. Len(t) : i + 1 \in 1 .. Len(s) /\ i + 1 # 1
  BY <1>1, <1>2
<1>5. Distinct(t)
  BY <1>1, <1>2, <1>4 DEF Distinct
<1>6. \A i \in 1 .. Len(t) : t[i] # s[1] /\ \E j \in 1 .. Len(s) : t[i] = s[j]
  BY <1>1, <1>3, <1>4 DEF Distinct
<1> QED
  BY <1>1, <1>3, <1>5, <1>6 DEF t

-----------------------------------------------------------------------------
(* recvTimingReq *)

\* p is offered at response port r for the first time, or again.
Offered(b, r, p) ==
  /\ r = Src[p]
  /\ \/ b.where[p] = "idle" /\ b.stalled[r] = None
     \/ b.where[p] = "stalled" /\ b.stalled[r] = p

\* A step of port r leaves the other response ports' stalls as good as before.
OthersKept(b, d, r) ==
  \A x \in Ports \ {r} : /\ Remembered(b, x) => Remembered(d, x)
                         /\ Justified(b, x) => Justified(d, x)

\* recvTimingReq assigns a bus number once, however often it is called.
LEMMA Numbering ==
  ASSUME NEW b, b \in BridgeState, Requests(b), NEW p \in Packets,
         b.where[p] \in {"idle", "stalled"}, NEW r, r = Src[p]
  PROVE  (IF b.reqBus[p] = -1 THEN RequesterBus(r) ELSE b.reqBus[p]) = FinalBus(p)
<1>1. CASE b.where[p] = "idle"
  BY <1>1 DEF Requests, FinalBus
<1>2. CASE b.where[p] = "stalled"
  BY <1>2, BusNumbers DEF Requests
<1> QED
  BY <1>1, <1>2

\* A function changed at one place.
LEMMA Updated ==
  ASSUME NEW S, NEW T, NEW f \in [S -> T], NEW r \in S, NEW v, NEW x \in S
  PROVE  [f EXCEPT ![r] = v][x] = IF x = r THEN v ELSE f[x]
OBVIOUS

\* A function changed at one place keeps its type.
LEMMA UpdatedType ==
  ASSUME NEW S, NEW T, NEW f \in [S -> T], NEW r, NEW v \in T
  PROVE  [f EXCEPT ![r] = v] \in [S -> T]
BY Zenon

\* retryReq of a port may take any value.
LEMMA RetryReqSet ==
  ASSUME NEW b \in BridgeState, NEW r, NEW y \in BOOLEAN
  PROVE  [b EXCEPT !.retryReq[r] = y] \in BridgeState
<1> DEFINE f == [b.retryReq EXCEPT ![r] = y]
<1>1. f \in [Ports -> BOOLEAN]
  BY UpdatedType, Zenon DEF BridgeState
<1>2. [b EXCEPT !.retryReq[r] = y] = [b EXCEPT !.retryReq = f]
  OBVIOUS
<1> HIDE DEF f
<1> QED
  BY <1>1, <1>2, Zenon DEF BridgeState

\* A packet may be anywhere.
LEMMA WhereSet ==
  ASSUME NEW b \in BridgeState, NEW p, NEW w \in Where
  PROVE  [b EXCEPT !.where[p] = w] \in BridgeState
BY Zenon DEF BridgeState

\* d is b after port r has turned p down.
TurnedDown(b, d, r, p) ==
  /\ d \in BridgeState
  /\ d.reqList = b.reqList /\ d.respList = b.respList
  /\ d.reqEvent = b.reqEvent /\ d.respEvent = b.respEvent
  /\ d.reqBlocked = b.reqBlocked /\ d.respBlocked = b.respBlocked
  /\ d.outstanding = b.outstanding
  /\ d.where = [b.where EXCEPT ![p] = "stalled"]
  /\ \A x \in Ports : /\ d.stalled[x] = IF x = r THEN p ELSE b.stalled[x]
                      /\ d.retryReq[x] = IF x = r THEN TRUE ELSE b.retryReq[x]
  /\ \A x \in Packets :
       d.reqBus[x] = IF x = p THEN FinalBus(p) ELSE b.reqBus[x]

\* A request turned down changes its own record, its port and nothing else.
LEMMA RefusedEffect ==
  ASSUME NEW b \in BridgeState, Requests(b), NEW p \in Packets,
         b.where[p] \in {"idle", "stalled"}, NEW r \in Ports, r = Src[p],
         Refuses(b, r, p), NEW d, d = RecvTimingReq(b, r, p)
  PROVE  TurnedDown(b, d, r, p)
<1> DEFINE n == IF b.reqBus[p] = -1 THEN RequesterBus(r) ELSE b.reqBus[p]
<1>1. n = FinalBus(p)
  BY Numbering
<1>2. n \in Int
  BY <1>1, BusNumbers
<1> DEFINE y == TRUE
<1>3. d = [b EXCEPT !.reqBus[p] = n, !.retryReq[r] = y, !.stalled[r] = p,
                    !.where[p] = "stalled"]
  BY DEF RecvTimingReq
<1>4. y \in BOOLEAN
  OBVIOUS
<1> HIDE DEF n, y
<1>5. d \in BridgeState
  <2> DEFINE c == [b EXCEPT !.reqBus[p] = n]
             e == [c EXCEPT !.retryReq[r] = y]
  <2>1. c \in BridgeState
    BY <1>2, Zenon DEF BridgeState
  <2> DEFINE g == [e EXCEPT !.stalled[r] = p]
  <2>2. d = [g EXCEPT !.where[p] = "stalled"]
    BY <1>3
  <2> HIDE DEF c
  <2>3. e \in BridgeState
    BY <1>4, <2>1, RetryReqSet, Zenon
  <2> HIDE DEF e
  <2>4. g \in BridgeState
    <3>1. [e.stalled EXCEPT ![r] = p] \in [Ports -> Packets \cup {None}]
      BY <2>3 DEF BridgeState
    <3> QED
      BY <2>3, <3>1, Zenon DEF BridgeState
  <2> HIDE DEF g
  <2>5. "stalled" \in Where
    BY DEF Where
  <2>6. [g EXCEPT !.where[p] = "stalled"] \in BridgeState
    BY <2>4, <2>5, WhereSet, Zenon
  <2> QED
    BY <2>2, <2>6
<1>6. /\ d.reqList = b.reqList /\ d.respList = b.respList
      /\ d.reqEvent = b.reqEvent /\ d.respEvent = b.respEvent
      /\ d.reqBlocked = b.reqBlocked /\ d.respBlocked = b.respBlocked
      /\ d.outstanding = b.outstanding
      /\ d.where = [b.where EXCEPT ![p] = "stalled"]
      /\ d.stalled = [b.stalled EXCEPT ![r] = p]
      /\ d.retryReq = [b.retryReq EXCEPT ![r] = y]
  BY <1>3 DEF BridgeState
<1>7. b.retryReq \in [Ports -> BOOLEAN] /\ b.stalled \in [Ports -> Packets \cup {None}]
  BY DEF BridgeState
<1>8. \A x \in Ports : /\ d.stalled[x] = IF x = r THEN p ELSE b.stalled[x]
                       /\ d.retryReq[x] = IF x = r THEN y ELSE b.retryReq[x]
  BY <1>6, <1>7, Updated, Zenon
<1>9. \A x \in Packets : d.reqBus[x] = IF x = p THEN n ELSE b.reqBus[x]
  BY <1>3 DEF BridgeState
<1> QED
  BY <1>1, <1>5, <1>6, <1>8, <1>9, Zenon DEF TurnedDown, y

\* schedTimingReq returns a state of the bridge.
LEMMA SchedReqIsState ==
  ASSUME NEW b \in BridgeState, NEW q \in Ports, NEW p \in Packets
  PROVE  SchedTimingReq(b, q, p) \in BridgeState
<1>1. Append(b.reqList[q], p) \in Seq(Packets)
  BY DEF BridgeState
<1> QED
  BY <1>1, Zenon DEF SchedTimingReq, BridgeState

\* d is b after port r has taken p.
TakenIn(b, d, r, p) ==
  /\ d \in BridgeState
  /\ d.respList = b.respList /\ d.respEvent = b.respEvent
  /\ d.reqBlocked = b.reqBlocked /\ d.respBlocked = b.respBlocked
  /\ d.retryReq = b.retryReq
  /\ d.where = [b.where EXCEPT ![p] = "request"]
  /\ \A x \in Ports :
       /\ d.stalled[x] = IF x = r THEN None ELSE b.stalled[x]
       /\ d.outstanding[x] = IF x = r /\ NeedsResponse[p]
                             THEN b.outstanding[x] + 1 ELSE b.outstanding[x]
       /\ d.reqList[x] = IF x = Route(p) THEN Append(b.reqList[x], p)
                                         ELSE b.reqList[x]
       /\ d.reqEvent[x] = IF x = Route(p) /\ b.reqList[x] = <<>> THEN TRUE
                                                                 ELSE b.reqEvent[x]
  /\ \A x \in Packets :
       d.reqBus[x] = IF x = p THEN FinalBus(p) ELSE b.reqBus[x]

\* A request taken changes its own record, the two ports and nothing else.
LEMMA TakenEffect ==
  ASSUME NEW b \in BridgeState, Requests(b), NEW p \in Packets,
         b.where[p] \in {"idle", "stalled"}, NEW r \in Ports, r = Src[p],
         ~Refuses(b, r, p), NEW d, d = RecvTimingReq(b, r, p)
  PROVE  TakenIn(b, d, r, p)
<1> DEFINE n == IF b.reqBus[p] = -1 THEN RequesterBus(r) ELSE b.reqBus[p]
           o == IF NeedsResponse[p] THEN b.outstanding[r] + 1
                                    ELSE b.outstanding[r]
           q == Route(p)
           c == [b EXCEPT !.reqBus[p] = n, !.outstanding[r] = o,
                          !.stalled[r] = None, !.where[p] = "request"]
<1>1. n = FinalBus(p)
  BY Numbering
<1>2. n \in Int /\ o \in Nat /\ q \in Ports
  <2>1. n \in Int
    BY <1>1, BusNumbers
  <2>2. b.outstanding[r] \in Nat
    BY DEF BridgeState
  <2>3. o \in Nat
    BY <2>2
  <2>4. q \in Ports
    BY RouteIsPort
  <2> QED
    BY <2>1, <2>3, <2>4
<1>3. d = SchedTimingReq(c, q, p)
  BY DEF RecvTimingReq, Route, BridgeState
<1> HIDE DEF n, o, q
<1>4. c \in BridgeState
  BY <1>2, Zenon DEF BridgeState, Where
<1>5. d \in BridgeState
  <2> HIDE DEF c
  <2> QED
    BY <1>2, <1>3, <1>4, SchedReqIsState
<1>6. /\ d.respList = b.respList /\ d.respEvent = b.respEvent
      /\ d.reqBlocked = b.reqBlocked /\ d.respBlocked = b.respBlocked
      /\ d.retryReq = b.retryReq
      /\ d.where = [b.where EXCEPT ![p] = "request"]
      /\ d.stalled = [b.stalled EXCEPT ![r] = None]
      /\ d.outstanding = [b.outstanding EXCEPT ![r] = o]
      /\ d.reqList = [b.reqList EXCEPT ![q] = Append(b.reqList[q], p)]
      /\ d.reqEvent = [b.reqEvent EXCEPT
                         ![q] = IF b.reqList[q] = <<>> THEN TRUE ELSE b.reqEvent[q]]
      /\ d.reqBus = [b.reqBus EXCEPT ![p] = n]
  BY <1>3 DEF SchedTimingReq, BridgeState
<1>7. \A x \in Ports :
        /\ d.stalled[x] = IF x = r THEN None ELSE b.stalled[x]
        /\ d.outstanding[x] = IF x = r /\ NeedsResponse[p]
                              THEN b.outstanding[x] + 1 ELSE b.outstanding[x]
  BY <1>6 DEF o, BridgeState
<1>8. \A x \in Ports :
        /\ d.reqList[x] = IF x = q THEN Append(b.reqList[x], p) ELSE b.reqList[x]
        /\ d.reqEvent[x] = IF x = q /\ b.reqList[x] = <<>> THEN TRUE
                                                           ELSE b.reqEvent[x]
  <2> DEFINE y == IF b.reqList[q] = <<>> THEN TRUE ELSE b.reqEvent[q]
  <2>1. b.reqEvent \in [Ports -> BOOLEAN] /\ b.reqList \in [Ports -> Seq(Packets)]
    BY DEF BridgeState
  <2>2. d.reqEvent = [b.reqEvent EXCEPT ![q] = y]
    BY <1>6
  <2> HIDE DEF y
  <2>3. \A x \in Ports : d.reqEvent[x] = IF x = q THEN y ELSE b.reqEvent[x]
    BY <1>2, <2>1, <2>2, Updated, Zenon
  <2>4. \A x \in Ports : d.reqList[x] = IF x = q THEN Append(b.reqList[q], p)
                                                 ELSE b.reqList[x]
    <3>1. \A x \in Ports : [b.reqList EXCEPT ![q] = Append(b.reqList[q], p)][x]
                            = IF x = q THEN Append(b.reqList[q], p) ELSE b.reqList[x]
      BY <1>2, <2>1, Updated, Zenon
    <3>2. d.reqList = [b.reqList EXCEPT ![q] = Append(b.reqList[q], p)]
      BY <1>6
    <3> QED
      BY <3>1, <3>2
  <2>5. \A x \in Ports : d.reqEvent[x] = IF x = q /\ b.reqList[x] = <<>>
                                         THEN TRUE ELSE b.reqEvent[x]
    BY <2>3, Zenon DEF y
  <2> QED
    BY <2>4, <2>5, Zenon
<1>9. \A x \in Packets : d.reqBus[x] = IF x = p THEN n ELSE b.reqBus[x]
  BY <1>6 DEF BridgeState
<1> QED
  BY <1>1, <1>5, <1>6, <1>7, <1>8, <1>9, Zenon DEF TakenIn, q

\* The lists do not notice what happens to a packet that is in none of them.
LEMMA NotListed ==
  ASSUME NEW b \in BridgeState, NEW d, NEW p \in Packets, NEW w,
         d.where = [b.where EXCEPT ![p] = w]
  PROVE  /\ /\ RequestLists(b) /\ b.where[p] # "request"
            /\ d.reqList = b.reqList
            => RequestLists(d)
         /\ /\ ResponseLists(b) /\ b.where[p] # "response"
            /\ d.respList = b.respList
            => ResponseLists(d)
<1>1. \A x \in Packets : x # p => d.where[x] = b.where[x]
  BY DEF BridgeState
<1>2. \A q \in Ports : \A i \in 1 .. Len(b.reqList[q]) : b.reqList[q][i] \in Packets
  BY DEF BridgeState
<1>3. \A q \in Ports : \A i \in 1 .. Len(b.respList[q]) : b.respList[q][i] \in Packets
  BY DEF BridgeState
<1>4. ASSUME RequestLists(b), b.where[p] # "request", d.reqList = b.reqList
      PROVE  RequestLists(d)
  BY <1>1, <1>2, <1>4 DEF RequestLists
<1>5. ASSUME ResponseLists(b), b.where[p] # "response", d.respList = b.respList
      PROVE  ResponseLists(d)
  BY <1>1, <1>3, <1>5 DEF ResponseLists
<1> QED
  BY <1>4, <1>5

\* A request that is turned down: nothing but its own record changes.
LEMMA RefusedKeeps ==
  ASSUME NEW b, Core(b), NEW r \in Ports, NEW p \in Packets, Offered(b, r, p),
         Refuses(b, r, p), NEW d, d = RecvTimingReq(b, r, p)
  PROVE  /\ Core(d)
         /\ Remembered(d, r)
         /\ Justified(b, r) /\ (b.retryReq[r] => b.stalled[r] = p)
            => Justified(d, r)
         /\ OthersKept(b, d, r)
<1>1. /\ b \in BridgeState /\ RequestLists(b) /\ ResponseLists(b)
      /\ StalledOnes(b) /\ Requests(b) /\ Credits(b) /\ WakeUps(b)
  BY DEF Core
<1>2. r = Src[p] /\ b.where[p] \in {"idle", "stalled"}
  BY DEF Offered
<1>3. TurnedDown(b, d, r, p)
  BY <1>1, <1>2, RefusedEffect, Zenon
<1>4. /\ d \in BridgeState
      /\ d.reqList = b.reqList /\ d.respList = b.respList
      /\ d.outstanding = b.outstanding
      /\ d.where = [b.where EXCEPT ![p] = "stalled"]
  BY <1>3 DEF TurnedDown
<1>5. \A x \in Packets : d.where[x] = IF x = p THEN "stalled" ELSE b.where[x]
  BY <1>1, <1>4 DEF BridgeState
<1>6. \A x \in Ports : /\ d.stalled[x] = IF x = r THEN p ELSE b.stalled[x]
                       /\ d.retryReq[x] = IF x = r THEN TRUE ELSE b.retryReq[x]
  BY <1>3, Zenon DEF TurnedDown
<1>7. RequestLists(d) /\ ResponseLists(d)
  BY <1>1, <1>4, <1>2, NotListed
<1>8. StalledOnes(d)
  <2> SUFFICES ASSUME NEW x \in Ports, d.stalled[x] # None
               PROVE  d.where[d.stalled[x]] = "stalled" /\ Src[d.stalled[x]] = x
    BY DEF StalledOnes
  <2>1. CASE x = r
    BY <1>2, <1>5, <1>6, <2>1, Zenon
  <2>2. CASE x # r
    <3>1. d.stalled[x] = b.stalled[x] /\ b.stalled[x] \in Packets
      BY <1>1, <1>6, <2>2, Zenon DEF BridgeState
    <3>2. b.where[b.stalled[x]] = "stalled" /\ Src[b.stalled[x]] = x
      BY <1>1, <3>1 DEF StalledOnes
    <3> QED
      BY <1>2, <1>5, <2>2, <3>1, <3>2
  <2> QED
    BY <2>1, <2>2
<1>9. Requests(d)
  BY <1>1, <1>3, <1>5 DEF Requests, TurnedDown
<1>10. Credits(d)
  <2>1. \A x \in Ports : Owed(d, x) = Owed(b, x)
    BY <1>1, <1>4, <1>2, OwedSame DEF Taken
  <2> QED
    BY <1>1, <1>4, <2>1 DEF Credits
<1>11. WakeUps(d)
  BY <1>1, <1>3 DEF WakeUps, TurnedDown
<1>12. Core(d)
  BY <1>4, <1>7, <1>8, <1>9, <1>10, <1>11 DEF Core
<1>13. d.retryReq[r] /\ d.stalled[r] = p /\ p # None
  BY <1>6, BridgeAssumption, Zenon
<1>14. Remembered(d, r)
  BY <1>13 DEF Remembered
<1>15. OthersKept(b, d, r)
  BY <1>4, <1>6, Zenon
     DEF OthersKept, Remembered, Justified, ReqQueueFull, RespQueueFull
<1>16. ASSUME Justified(b, r), b.retryReq[r] => b.stalled[r] = p
       PROVE  Justified(d, r)
  <2>1. CASE b.retryReq[r]
    BY <1>4, <1>13, <1>16, <2>1 DEF Justified, ReqQueueFull, RespQueueFull
  <2>2. CASE ~b.retryReq[r]
    BY <1>4, <1>13, <2>2 DEF Justified, Refuses, ReqQueueFull, RespQueueFull, Route
  <2> QED
    BY <2>1, <2>2
<1> QED
  BY <1>12, <1>14, <1>15, <1>16

\* A request that is taken: its credit is counted, and it is the last of the
\* list it waits in.
LEMMA TakenKeeps ==
  ASSUME NEW b, Core(b), NEW r \in Ports, NEW p \in Packets, Offered(b, r, p),
         ~Refuses(b, r, p), NEW d, d = RecvTimingReq(b, r, p)
  PROVE  Core(d) /\ Remembered(d, r) /\ Justified(d, r) /\ OthersKept(b, d, r)
<1>1. /\ b \in BridgeState /\ RequestLists(b) /\ ResponseLists(b)
      /\ StalledOnes(b) /\ Requests(b) /\ Credits(b) /\ WakeUps(b)
  BY DEF Core
<1>2. r = Src[p] /\ b.where[p] \in {"idle", "stalled"}
  BY DEF Offered
<1>3. TakenIn(b, d, r, p)
  BY <1>1, <1>2, TakenEffect, Zenon
<1>4. /\ d \in BridgeState
      /\ d.respList = b.respList
      /\ d.retryReq = b.retryReq
      /\ d.where = [b.where EXCEPT ![p] = "request"]
  BY <1>3 DEF TakenIn
<1>5. \A x \in Packets : d.where[x] = IF x = p THEN "request" ELSE b.where[x]
  BY <1>1, <1>4 DEF BridgeState
<1>6. \A x \in Ports :
        /\ d.stalled[x] = IF x = r THEN None ELSE b.stalled[x]
        /\ d.outstanding[x] = IF x = r /\ NeedsResponse[p]
                              THEN b.outstanding[x] + 1 ELSE b.outstanding[x]
        /\ d.reqList[x] = IF x = Route(p) THEN Append(b.reqList[x], p)
                                          ELSE b.reqList[x]
  BY <1>3, Zenon DEF TakenIn
<1>7. /\ ~b.retryReq[r]
      /\ ~ReqQueueFull(b, Route(p))
      /\ NeedsResponse[p] => ~RespQueueFull(b, r)
  BY DEF Refuses, Route
<1>8. RequestLists(d)
  <2> SUFFICES ASSUME NEW q \in Ports
               PROVE  /\ Distinct(d.reqList[q])
                      /\ \A i \in 1 .. Len(d.reqList[q]) :
                           /\ d.where[d.reqList[q][i]] = "request"
                           /\ Route(d.reqList[q][i]) = q
    BY DEF RequestLists
  <2> DEFINE s == b.reqList[q]
  <2>1. /\ s \in Seq(Packets) /\ Distinct(s)
        /\ \A i \in 1 .. Len(s) : /\ s[i] \in Packets
                                  /\ b.where[s[i]] = "request"
                                  /\ Route(s[i]) = q
    BY <1>1 DEF BridgeState, RequestLists
  <2>2. \A i \in 1 .. Len(s) : s[i] # p /\ d.where[s[i]] = "request"
    BY <1>2, <1>5, <2>1
  <2>3. CASE q = Route(p)
    <3>1. d.reqList[q] = Append(s, p)
      BY <1>6, <2>3, Zenon
    <3> HIDE DEF s
    <3>2. /\ Distinct(Append(s, p))
          /\ \A i \in 1 .. Len(Append(s, p)) :
               Append(s, p)[i] = p \/ \E j \in 1 .. Len(s) : Append(s, p)[i] = s[j]
      BY <2>1, <2>2, DistinctAppend
    <3>3. d.where[p] = "request"
      BY <1>5
    <3>4. \A i \in 1 .. Len(Append(s, p)) : /\ d.where[Append(s, p)[i]] = "request"
                                            /\ Route(Append(s, p)[i]) = q
      BY <2>1, <2>2, <2>3, <3>2, <3>3
    <3> QED
      BY <3>1, <3>2, <3>4
  <2>4. CASE q # Route(p)
    BY <1>6, <2>1, <2>2, <2>4
  <2> QED
    BY <2>3, <2>4
<1>9. ResponseLists(d)
  BY <1>1, <1>2, <1>4, NotListed
<1>10. StalledOnes(d)
  <2> SUFFICES ASSUME NEW x \in Ports, d.stalled[x] # None
               PROVE  d.where[d.stalled[x]] = "stalled" /\ Src[d.stalled[x]] = x
    BY DEF StalledOnes
  <2>1. x # r /\ d.stalled[x] = b.stalled[x] /\ b.stalled[x] \in Packets
    BY <1>1, <1>6 DEF BridgeState
  <2>2. b.where[b.stalled[x]] = "stalled" /\ Src[b.stalled[x]] = x
    BY <1>1, <2>1 DEF StalledOnes
  <2> QED
    BY <1>2, <1>5, <2>1, <2>2
<1>11. Requests(d)
  BY <1>1, <1>3, <1>5 DEF Requests, TakenIn
<1>12. Credits(d)
  <2> SUFFICES ASSUME NEW x \in Ports
               PROVE  /\ d.outstanding[x] = Cardinality(Owed(d, x))
                      /\ d.outstanding[x] <= RespLimit
    BY DEF Credits
  <2>1. /\ b.outstanding[x] = Cardinality(Owed(b, x))
        /\ b.outstanding[x] <= RespLimit /\ b.outstanding[x] \in Nat
    BY <1>1 DEF Credits, BridgeState
  <2>2. CASE x = r /\ NeedsResponse[p]
    <3>1. Cardinality(Owed(d, r)) = Cardinality(Owed(b, r)) + 1
      <4>1. "request" \in Taken /\ b.where[p] \notin Taken
        BY <1>2 DEF Taken
      <4> QED
        BY <1>1, <1>2, <1>4, <2>2, <4>1, OwedOneMore
    <3>2. d.outstanding[x] = b.outstanding[x] + 1 /\ b.outstanding[x] # RespLimit
      BY <1>6, <1>7, <2>2 DEF RespQueueFull
    <3> QED
      BY <2>1, <2>2, <3>1, <3>2, BridgeAssumption
  <2>3. CASE ~(x = r /\ NeedsResponse[p])
    <3>1. Owed(d, x) = Owed(b, x)
      BY <1>1, <1>2, <1>4, <2>3, OwedSame
    <3>2. d.outstanding[x] = b.outstanding[x]
      BY <1>6, <2>3
    <3> QED
      BY <2>1, <3>1, <3>2
  <2> QED
    BY <2>2, <2>3
<1>13. WakeUps(d)
  <2> SUFFICES ASSUME NEW x \in Ports
               PROVE  /\ Driven(d.reqList[x], d.reqEvent[x], d.reqBlocked[x])
                      /\ Driven(d.respList[x], d.respEvent[x], d.respBlocked[x])
    BY DEF WakeUps
  <2>1. Driven(d.respList[x], d.respEvent[x], d.respBlocked[x])
    BY <1>1, <1>3 DEF WakeUps, TakenIn
  <2>2. Driven(b.reqList[x], b.reqEvent[x], b.reqBlocked[x])
    BY <1>1 DEF WakeUps
  <2>3. /\ d.reqBlocked[x] = b.reqBlocked[x]
        /\ d.reqEvent[x] = IF x = Route(p) /\ b.reqList[x] = <<>>
                           THEN TRUE ELSE b.reqEvent[x]
    BY <1>3, Zenon DEF TakenIn
  <2>4. CASE x = Route(p)
    <3>1. b.reqList[x] \in Seq(Packets) /\ d.reqList[x] = Append(b.reqList[x], p)
      BY <1>1, <1>6, <2>4, Zenon DEF BridgeState
    <3>2. d.reqList[x] # <<>>
      BY <3>1, AppendProperties
    <3> QED
      BY <2>1, <2>2, <2>3, <2>4, <3>2 DEF Driven
  <2>5. CASE x # Route(p)
    BY <1>6, <2>1, <2>2, <2>3, <2>5
  <2> QED
    BY <2>4, <2>5
<1>14. Core(d)
  BY <1>4, <1>8, <1>9, <1>10, <1>11, <1>12, <1>13 DEF Core
<1>15. Remembered(d, r) /\ Justified(d, r)
  BY <1>4, <1>6, <1>7 DEF Remembered, Justified
<1>16. OthersKept(b, d, r)
  <2> SUFFICES ASSUME NEW x \in Ports \ {r}
               PROVE  /\ Remembered(b, x) => Remembered(d, x)
                      /\ Justified(b, x) => Justified(d, x)
    BY DEF OthersKept
  <2>1. d.retryReq[x] = b.retryReq[x] /\ d.stalled[x] = b.stalled[x]
    BY <1>4, <1>6
  <2>2. RespQueueFull(b, x) => RespQueueFull(d, x)
    BY <1>6 DEF RespQueueFull
  <2>3. \A y \in Ports : ReqQueueFull(b, y) => ReqQueueFull(d, y)
    BY <1>6, <1>7 DEF ReqQueueFull
  <2>4. Route(b.stalled[x]) \in Ports
    BY RouteIsPort
  <2> QED
    BY <2>1, <2>2, <2>3, <2>4 DEF Remembered, Justified
<1> QED
  BY <1>14, <1>15, <1>16

\* recvTimingReq keeps the invariant, whatever it answers.
LEMMA RecvKeeps ==
  ASSUME NEW b, Core(b), NEW r \in Ports, NEW p \in Packets, Offered(b, r, p),
         NEW d, d = RecvTimingReq(b, r, p)
  PROVE  /\ Core(d)
         /\ Remembered(d, r)
         /\ Justified(b, r) /\ (b.retryReq[r] => b.stalled[r] = p)
            => Justified(d, r)
         /\ OthersKept(b, d, r)
<1>1. CASE Refuses(b, r, p)
  BY <1>1, RefusedKeeps, Zenon
<1>2. CASE ~Refuses(b, r, p)
  BY <1>2, TakenKeeps, Zenon
<1> QED
  BY <1>1, <1>2

-----------------------------------------------------------------------------
(* retryStalledReq *)

\* The state in which a port calls for its peer.
Cleared(b, r) == [b EXCEPT !.retryReq[r] = FALSE]

\* Core does not depend on retryReq.
LEMMA CoreWithoutRetry ==
  ASSUME NEW b, Core(b), NEW r \in Ports
  PROVE  /\ Core(Cleared(b, r))
         /\ ~Cleared(b, r).retryReq[r]
         /\ Cleared(b, r).stalled = b.stalled
         /\ Cleared(b, r).where = b.where
         /\ OthersKept(b, Cleared(b, r), r)
<1> DEFINE n == FALSE
           c == Cleared(b, r)
<1>1. b \in BridgeState
  BY DEF Core
<1>2. c = [b EXCEPT !.retryReq[r] = n] /\ n \in BOOLEAN
  BY DEF Cleared
<1> HIDE DEF n, c
<1>3. [b EXCEPT !.retryReq[r] = n] \in BridgeState
  BY <1>1, <1>2, RetryReqSet
<1>4. /\ c.reqList = b.reqList /\ c.respList = b.respList
      /\ c.reqEvent = b.reqEvent /\ c.respEvent = b.respEvent
      /\ c.reqBlocked = b.reqBlocked /\ c.respBlocked = b.respBlocked
      /\ c.outstanding = b.outstanding /\ c.stalled = b.stalled
      /\ c.reqBus = b.reqBus /\ c.where = b.where
      /\ c.retryReq = [b.retryReq EXCEPT ![r] = n]
  BY <1>1, <1>2 DEF BridgeState
<1>5. b.retryReq \in [Ports -> BOOLEAN]
  BY <1>1 DEF BridgeState
<1>6. \A x \in Ports : c.retryReq[x] = IF x = r THEN n ELSE b.retryReq[x]
  BY <1>4, <1>5, Updated, Zenon
<1>7. Core(c)
  BY <1>2, <1>3, <1>4
     DEF Core, RequestLists, ResponseLists, StalledOnes, Requests, Credits, Owed,
         WakeUps
<1>8. ~c.retryReq[r]
  BY <1>6, Zenon DEF n
<1>9. OthersKept(b, c, r)
  BY <1>4, <1>6
     DEF OthersKept, Remembered, Justified, ReqQueueFull, RespQueueFull
<1> QED
  BY <1>4, <1>7, <1>8, <1>9 DEF c

\* A port that had its turn has a reason to stall its peer; the others keep
\* theirs.
LEMMA RetryKeeps ==
  ASSUME NEW b, Core(b), NEW r \in Ports, Remembered(b, r),
         NEW d, d = RetryStalledReq(b, r)
  PROVE  Core(d) /\ Remembered(d, r) /\ Justified(d, r) /\ OthersKept(b, d, r)
<1> DEFINE c == Cleared(b, r)
<1>1. /\ Core(c) /\ ~c.retryReq[r] /\ OthersKept(b, c, r)
      /\ c.stalled = b.stalled /\ c.where = b.where
  BY CoreWithoutRetry
<1>2. CASE b.retryReq[r] /\ r \notin Replays
  <2> DEFINE p == b.stalled[r]
  <2>1. d = RecvTimingReq(c, r, p)
    BY <1>2 DEF RetryStalledReq, Cleared
  <2>2. p # None
    BY <1>2 DEF Remembered
  <2>3. p \in Packets
    BY <2>2 DEF Core, BridgeState
  <2>4. Offered(c, r, p)
    BY <1>1, <2>2 DEF Core, StalledOnes, Offered
  <2>5. Justified(c, r)
    BY <1>1 DEF Justified
  <2> HIDE DEF c, p
  <2>6. Core(d) /\ Remembered(d, r) /\ Justified(d, r) /\ OthersKept(c, d, r)
    BY <1>1, <2>1, <2>3, <2>4, <2>5, RecvKeeps, Zenon
  <2>7. OthersKept(b, d, r)
    BY <1>1, <2>6 DEF OthersKept
  <2> QED
    BY <2>6, <2>7
<1>3. CASE ~(b.retryReq[r] /\ r \notin Replays)
  <2>1. d = c
    BY <1>3 DEF RetryStalledReq, Cleared
  <2> HIDE DEF c
  <2>2. Remembered(c, r) /\ Justified(c, r)
    BY <1>1, <1>3 DEF Remembered, Justified
  <2> QED
    BY <1>1, <2>1, <2>2
<1> QED
  BY <1>2, <1>3

\* All of them have their turn at the end of trySendTiming.
LEMMA RetryAllKeeps ==
  ASSUME NEW b, Core(b), \A x \in Ports : Remembered(b, x), NEW d, d = RetryAll(b)
  PROVE  Core(d) /\ \A x \in Ports : Remembered(d, x) /\ Justified(d, x)
<1> DEFINE c == RetryStalledReq(b, 0)
           e == RetryStalledReq(c, 1)
           f == RetryStalledReq(e, 2)
<1>1. d = RetryStalledReq(f, 3)
  BY DEF RetryAll
<1>2. 0 \in Ports /\ 1 \in Ports /\ 2 \in Ports /\ 3 \in Ports
  BY DEF Ports
<1>3. Core(c) /\ Remembered(c, 0) /\ Justified(c, 0) /\ OthersKept(b, c, 0)
  BY <1>2, RetryKeeps, Zenon
<1>4. \A x \in Ports : Remembered(c, x)
  BY <1>3 DEF OthersKept
<1> HIDE DEF c
<1>5. Core(e) /\ Remembered(e, 1) /\ Justified(e, 1) /\ OthersKept(c, e, 1)
  BY <1>2, <1>3, <1>4, RetryKeeps, Zenon
<1>6. /\ \A x \in Ports : Remembered(e, x)
      /\ Justified(e, 0)
  BY <1>2, <1>3, <1>4, <1>5 DEF OthersKept
<1> HIDE DEF e
<1>7. Core(f) /\ Remembered(f, 2) /\ Justified(f, 2) /\ OthersKept(e, f, 2)
  BY <1>2, <1>5, <1>6, RetryKeeps, Zenon
<1>8. /\ \A x \in Ports : Remembered(f, x)
      /\ Justified(f, 0) /\ Justified(f, 1)
  BY <1>2, <1>5, <1>6, <1>7 DEF OthersKept
<1> HIDE DEF f
<1>9. Core(d) /\ Remembered(d, 3) /\ Justified(d, 3) /\ OthersKept(f, d, 3)
  BY <1>1, <1>2, <1>7, <1>8, RetryKeeps, Zenon
<1>10. /\ \A x \in Ports : Remembered(d, x)
       /\ Justified(d, 0) /\ Justified(d, 1) /\ Justified(d, 2)
  BY <1>2, <1>7, <1>8, <1>9 DEF OthersKept
<1>11. \A x \in Ports : x = 0 \/ x = 1 \/ x = 2 \/ x = 3
  BY DEF Ports
<1> QED
  BY <1>9, <1>10, <1>11, Zenon
=============================================================================
