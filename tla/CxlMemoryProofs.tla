-------------------------- MODULE CxlMemoryProofs --------------------------
(***************************************************************************)
(* Proofs about the memory expander, for every width of the registers,     *)
(* every size of the BAR, every number of requests and every latency.      *)
(*                                                                         *)
(* The invariant, ExpanderInv, says that the registers determine where the *)
(* BAR is, that a request under way is for a cell of some place the BAR    *)
(* was moved to, and that the queue of responses is in order and has one   *)
(* thing that will send its first entry.  While a response is being sent   *)
(* it has none (Sending), and a request that arrives then must not leave   *)
(* two.  All places of the BAR are multiples of its size apart, so a       *)
(* request that is inside the BAR when it arrives is for a cell of it,     *)
(* wherever the BAR was when it was routed.                                *)
(*                                                                         *)
(* With it every step is one of the abstract memory, or none: the answers  *)
(* that are owed are the entries of the queue, in whatever order they      *)
(* leave it.                                                               *)
(***************************************************************************)
EXTENDS CxlMemory, PciDeviceProofs, PacketQueueProofs

-----------------------------------------------------------------------------
(* The addresses the device answers to *)

\* An address the neighbour routes is that of a cell of the BAR.
LEMMA RoutedIsCell ==
  ASSUME IsDevice(dev), announced = AddrRanges(dev),
         NEW a \in Addresses, \E r \in announced : Covers(r, a)
  PROVE  /\ a \in Nat /\ Covers(BarRange(dev.bar), a)
         /\ Offset(a) \in Cells(dev.bar.size)
<1> DEFINE x == dev.bar.addr
           s == dev.bar.size
           r == BarRange(dev.bar)
<1>1. /\ x \in Nat /\ s \in Nat \ {0} /\ r.start = x /\ r.end \in Nat
      /\ r.end = x + s \/ r.end <= x
  BY BarRangeEnds
<1>2. announced \subseteq {r}
  BY DEF AddrRanges
<1>3. Covers(r, a) /\ a \in {r.start, r.end - 1}
  BY <1>2 DEF Addresses
<1>4. Offset(a) = a - x
  BY DEF Offset
<1> HIDE DEF x, s, r
<1>5. a \in Nat /\ a - x \in {0, s - 1}
  BY <1>1, <1>3 DEF Covers
<1> QED
  BY <1>3, <1>4, <1>5 DEF Cells, r, s

\* The first and the last cell, wherever a BAR of size s may be
CellAddress(a, s) ==
  \E k \in Int : a = MemBase + s * k \/ a = MemBase + s * k + (s - 1)

\* The cells of the BAR have such addresses ...
LEMMA CellIsAligned ==
  ASSUME IsDevice(dev), NEW a \in Nat, Offset(a) \in Cells(dev.bar.size)
  PROVE  CellAddress(a, dev.bar.size)
<1> DEFINE x == dev.bar.addr
           s == dev.bar.size
<1>1. PICK k \in Int : x = MemBase + s * k
  BY DeviceIsAligned
<1>2. x \in Nat /\ s \in Nat \ {0}
  BY BarRangeEnds
<1>3. a - x \in {0, s - 1}
  BY DEF Offset, Cells
<1> HIDE DEF x, s
<1>4. s * k \in Int /\ MemBase \in Nat
  BY <1>2, WordAssumption
<1>5. a = MemBase + s * k \/ a = MemBase + s * k + (s - 1)
  BY <1>1, <1>2, <1>3, <1>4
<1> QED
  BY <1>5 DEF CellAddress, s

\* ... and of those, only the cells of the BAR are inside it.
LEMMA AlignedIsCell ==
  ASSUME IsDevice(dev), NEW a \in Nat, CellAddress(a, dev.bar.size),
         Covers(BarRange(dev.bar), a)
  PROVE  Offset(a) \in Cells(dev.bar.size)
<1> DEFINE x == dev.bar.addr
           s == dev.bar.size
<1>1. PICK j \in Int : x = MemBase + s * j
  BY DeviceIsAligned
<1>2. PICK k \in Int : a = MemBase + s * k \/ a = MemBase + s * k + (s - 1)
  BY DEF CellAddress
<1>3. x \in Nat /\ s \in Nat \ {0} /\ x <= a /\ a < x + s
  BY BarRangeEnds DEF Covers
<1>4. Offset(a) = a - x
  BY DEF Offset
<1> HIDE DEF x, s
<1>5. s * j \in Int /\ s * k \in Int /\ MemBase \in Nat
  BY <1>3, WordAssumption
<1>6. ~(j < k)
  <2> SUFFICES ASSUME j < k PROVE FALSE
    OBVIOUS
  <2>1. s * j + s <= s * k
    BY <1>3, MultiplesApart
  <2> QED
    BY <2>1, <1>1, <1>2, <1>3, <1>5
<1>7. ~(k < j)
  <2> SUFFICES ASSUME k < j PROVE FALSE
    OBVIOUS
  <2>1. s * k + s <= s * j
    BY <1>3, MultiplesApart
  <2> QED
    BY <2>1, <1>1, <1>2, <1>3, <1>5
<1>8. j = k
  BY <1>6, <1>7
<1>9. a - x \in {0, s - 1}
  BY <1>1, <1>2, <1>3, <1>5, <1>8
<1> QED
  BY <1>4, <1>9 DEF Cells, s

-----------------------------------------------------------------------------
(* The invariant *)

Pkt == [id : Ids, o : Operations, addr : Nat, data : Values \cup {NoData}]

\* The registers, what the neighbour knows of them, and the memory
DeviceInv ==
  /\ IsDevice(dev) /\ dev.bar.size \in Sizes
  /\ announced = AddrRanges(dev)
  /\ mem \in [Cells(dev.bar.size) -> Values]

\* A request in flight has no data yet, and is for a cell of the BAR at the place
\* where it was when the request was routed.
Routed(p) ==
  p \in Pkt /\ p.data = NoData /\ CellAddress(p.addr, dev.bar.size)

InflightInv == \A p \in inflight : Routed(p)

\* One that Memory::access finds inside the BAR
InBar(p) ==
  /\ p \in Pkt /\ p.data = NoData
  /\ Offset(p.addr) \in Cells(dev.bar.size)

GoodQueue(q) == q \in Queue(Pkt) /\ InOrder(q.list) /\ Unrepeated(q.list)

QueueInv == GoodQueue(respQueue) /\ Attended(respQueue)

\* Requests that are outstanding have different ids.
Apart(reqs, list) ==
  /\ \A p, r \in reqs : p.id = r.id => p = r
  /\ \A p \in reqs : \A e \in Range(list) : e.pkt.id # p.id

RestartInv == restarts \in 0 .. MaxRestarts /\ aborted \in BOOLEAN

ExpanderInv ==
  /\ DeviceInv /\ InflightInv /\ QueueInv /\ Apart(inflight, respQueue.list)
  /\ RestartInv

\* A request under way that is inside the BAR is for a cell.
LEMMA MappedIsCell ==
  ASSUME DeviceInv, NEW p, Routed(p), Mapped(p)
  PROVE  InBar(p)
<1>1. p \in Pkt /\ p.data = NoData /\ p.addr \in Nat /\ CellAddress(p.addr, dev.bar.size)
  BY DEF Routed, Pkt
<1>2. IsDevice(dev) /\ Covers(BarRange(dev.bar), p.addr)
  BY DEF DeviceInv, Mapped
<1>3. Offset(p.addr) \in Cells(dev.bar.size)
  BY <1>1, <1>2, AlignedIsCell
<1> QED
  BY <1>1, <1>3 DEF InBar

\* What a request leaves in a cell is a value.
LEMMA StoredIsValue ==
  ASSUME NEW p \in Pkt, NEW v \in Values
  PROVE  Stored(p, v) \in Values
<1>1. p.o \in Operations
  BY DEF Pkt
<1>2. /\ p.o.op \in {"read", "clean", "write", "swap", "condswap", "atomic"}
      /\ p.o.val \in Values
      /\ p.o.op = "atomic" => (v + p.o.val) % (1 + p.o.cond) \in Values
  BY <1>1, OperationAssumption
<1> DEFINE w == (v + p.o.val) % (1 + p.o.cond)
<1>3. p.o.op = "atomic" => w \in Values
  BY <1>2
<1>4. Stored(p, v) = CASE p.o.op = "atomic" -> w
                       [] p.o.op = "swap" -> p.o.val
                       [] p.o.op = "condswap" -> IF v = p.o.cond THEN p.o.val ELSE v
                       [] p.o.op \in {"read", "clean"} -> v
                       [] p.o.op = "write" -> p.o.val
  BY DEF Stored
<1> HIDE DEF w
<1> QED
  BY <1>2, <1>3, <1>4

\* A response is the request with the data it loaded.
LEMMA LoadedIsPacket ==
  ASSUME NEW p \in Pkt, NEW v \in Values
  PROVE  /\ Loaded(p, v) \in Pkt
         /\ Loaded(p, v).id = p.id /\ Loaded(p, v).addr = p.addr
         /\ Loaded(p, v).data = IF p.o.op \in {"atomic", "swap", "condswap", "read"}
                                THEN v ELSE p.data
BY DEF Pkt, Loaded

\* The entry of the response to p, of a cell that held v
Response(p, v, delay) == [tick |-> Latency + delay, pkt |-> Loaded(p, v)]

\* The entry e joins the queue q, and makes r of it.
Joins(q, e, r) ==
  /\ GoodQueue(r)
  /\ Range(r.list) = Range(q.list) \cup {e}
  /\ Attended(q) => Attended(r)
  /\ ~q.waiting /\ q.event = Unscheduled => Between(r)

\* serving a request: its response joins a queue that has no packet of its id.
LEMMA ServedIsGood ==
  ASSUME NEW q, GoodQueue(q), NEW p \in Pkt, NEW v \in Values, NEW delay \in Delays,
         \A e \in Range(q.list) : e.pkt.id # p.id
  PROVE  Joins(q, Response(p, v, delay),
               SchedSendTiming(q, Loaded(p, v), Latency + delay))
<1> DEFINE when == Latency + delay
           x == Loaded(p, v)
           e == [tick |-> when, pkt |-> x]
           r == SchedSendTiming(q, x, when)
           place == Place(q.list, when)
<1>1. when \in Nat
  BY EndpointAssumption
<1>2. x \in Pkt /\ x.id = p.id
  BY LoadedIsPacket
<1> HIDE DEF when, x
<1>3. q \in Queue(Pkt) /\ InOrder(q.list) /\ Unrepeated(q.list)
  BY DEF GoodQueue
<1>4. /\ r \in Queue(Pkt) /\ InOrder(r.list)
      /\ Inserted(r.list, q.list, place, e)
  BY <1>1, <1>2, <1>3, TimingEffect
<1>5. q.list \in Seq(Entry(Pkt)) /\ r.list \in Seq(Entry(Pkt))
  BY <1>3, <1>4 DEF Queue
<1>6. place \in 1 .. Len(q.list) + 1
  BY <1>1, <1>3, <1>5, PlaceSeparates
<1>7. e.pkt.id = p.id /\ \A i \in DOMAIN q.list : q.list[i].pkt.id # p.id
  BY <1>2 DEF Range
<1>8. Attended(q) => Attended(r)
  BY <1>1, <1>2, <1>3, TimingAttended
<1>9. ~q.waiting /\ q.event = Unscheduled => Between(r)
  BY <1>1, <1>2, <1>3, TimingBetween
<1> HIDE DEF r, place, e
<1>10. Unrepeated(r.list)
  <2>1. \A i \in DOMAIN q.list : q.list[i].pkt.id # e.pkt.id
    BY <1>7
  <2> QED
    BY <2>1, <1>3, <1>4, <1>5, <1>6, InsertedUnrepeated, Zenon
<1>11. Range(r.list) = Range(q.list) \cup {e}
  BY <1>4, <1>5, <1>6, InsertedEntries
<1>12. GoodQueue(r)
  BY <1>4, <1>10 DEF GoodQueue
<1> QED
  BY <1>8, <1>9, <1>11, <1>12 DEF Joins, Response, r, e, x, when

\* The invariant holds of a device just built.
LEMMA InitInv == Init => ExpanderInv
<1> SUFFICES ASSUME Init PROVE ExpanderInv
  OBVIOUS
<1>1. PICK s \in Sizes : /\ dev = NewDevice(s) /\ announced = AddrRanges(NewDevice(s))
                         /\ mem \in [Cells(s) -> Values]
                         /\ inflight = {} /\ respQueue = EmptyQueue
                         /\ restarts = 0 /\ aborted = FALSE
  BY DEF Init
<1>2. dev = Device(s, FALSE, 0, 0) /\ Placed(s, 0, 0)
  <2>1. s \in Nat /\ BarSize(s)
    BY EndpointAssumption DEF BarSize
  <2> QED
    BY <2>1, <1>1, NewDeviceIsDevice, Zenon
<1>3. IsDevice(dev)
  <2>1. s \in Nat /\ BarSize(s)
    BY EndpointAssumption DEF BarSize
  <2> QED
    BY <2>1, <1>2, Zenon DEF IsDevice, Placed
<1>4. dev.bar.size = s
  BY <1>2 DEF Device, MemBar
<1>5. DeviceInv
  BY <1>1, <1>3, <1>4 DEF DeviceInv
<1>6. respQueue.list = <<>> /\ respQueue.event = Unscheduled /\ ~respQueue.waiting
  BY <1>1 DEF EmptyQueue
<1>7. respQueue \in Queue(Pkt)
  BY <1>1 DEF EmptyQueue, Queue
<1>8. QueueInv
  BY <1>6, <1>7 DEF QueueInv, GoodQueue, InOrder, Unrepeated, Attended
<1>9. InflightInv /\ Apart(inflight, respQueue.list)
  BY <1>1 DEF InflightInv, Apart
<1>10. RestartInv
  <2>1. restarts \in 0 .. MaxRestarts
    BY <1>1, EndpointAssumption
  <2>2. aborted \in BOOLEAN
    BY <1>1, Zenon
  <2> QED
    BY <2>1, <2>2, Zenon DEF RestartInv
<1> QED
  BY <1>5, <1>8, <1>9, <1>10 DEF ExpanderInv

\* A write of a register, or a restart from a checkpoint
LEMMA ConfigStep ==
  ASSUME ExpanderInv, NEW d, IsDevice(d), d.bar.size = dev.bar.size,
         Announce(d), mem' \in [Cells(dev.bar.size) -> Values],
         UNCHANGED <<inflight, respQueue>>, RestartInv'
  PROVE  ExpanderInv'
<1>1. DeviceInv'
  BY DEF ExpanderInv, DeviceInv, Announce
<1>2. dev'.bar.size = dev.bar.size
  BY DEF Announce
<1>3. \A p : Routed(p) => Routed(p)'
  BY <1>2 DEF Routed
<1>4. InflightInv' /\ Apart(inflight, respQueue.list)'
  BY <1>3 DEF ExpanderInv, InflightInv
<1>5. QueueInv'
  BY DEF ExpanderInv, QueueInv
<1> QED
  BY <1>1, <1>4, <1>5 DEF ExpanderInv

\* The neighbour routes a request.
LEMMA RequestStep ==
  ASSUME ExpanderInv, NEW id \in Ids, NEW o \in Operations, NEW a \in Addresses,
         Request(id, o, a)
  PROVE  ExpanderInv'
<1> DEFINE new == [id |-> id, o |-> o, addr |-> a, data |-> NoData]
<1>1. /\ id \notin {p.id : p \in Packets}
      /\ \E r \in announced : Covers(r, a)
      /\ inflight' = inflight \cup {new}
      /\ dev' = dev /\ announced' = announced /\ mem' = mem /\ respQueue' = respQueue
      /\ restarts' = restarts /\ aborted' = aborted
  BY DEF Request
<1>2. DeviceInv' /\ QueueInv' /\ RestartInv'
  BY <1>1 DEF ExpanderInv, DeviceInv, QueueInv, RestartInv
<1>3. a \in Nat /\ CellAddress(a, dev.bar.size)
  BY <1>1, RoutedIsCell, CellIsAligned DEF ExpanderInv, DeviceInv
<1>4. new \in Pkt /\ new.id = id /\ new.addr = a /\ new.data = NoData
  BY <1>3 DEF Pkt
<1> HIDE DEF new
<1>5. Routed(new)
  BY <1>3, <1>4 DEF Routed
<1>6. \A p : Routed(p) => Routed(p)'
  BY <1>1 DEF Routed
<1>7. InflightInv'
  BY <1>1, <1>5, <1>6 DEF ExpanderInv, InflightInv
<1>8. /\ \A p \in inflight : p.id # id
      /\ \A e \in Range(respQueue.list) : e.pkt.id # id
  BY <1>1 DEF Packets, Range
<1>9. Apart(inflight, respQueue.list)'
  BY <1>1, <1>4, <1>8 DEF ExpanderInv, Apart
<1> QED
  BY <1>2, <1>7, <1>9 DEF ExpanderInv

\* Memory::access of a request leaves values in the cells.
LEMMA AccessKeeps ==
  ASSUME DeviceInv, NEW p, InBar(p), Access(p), UNCHANGED <<dev, announced>>
  PROVE  DeviceInv' /\ mem[Offset(p.addr)] \in Values
<1> DEFINE off == Offset(p.addr)
<1>1. off \in Cells(dev.bar.size) /\ p \in Pkt
  BY DEF InBar
<1> HIDE DEF off
<1>2. mem \in [Cells(dev.bar.size) -> Values] /\ mem[off] \in Values
  BY <1>1 DEF DeviceInv
<1>3. Stored(p, mem[off]) \in Values
  BY <1>1, <1>2, StoredIsValue
<1>4. mem' = [mem EXCEPT ![off] = Stored(p, mem[off])]
  BY DEF Access, off
<1>5. mem' \in [Cells(dev.bar.size) -> Values]
  BY <1>2, <1>3, <1>4, Zenon
<1> QED
  BY <1>2, <1>5 DEF DeviceInv, off

\* Serving a request that arrives: from a queue without its id
LEMMA ServeKeeps ==
  ASSUME DeviceInv, InflightInv, NEW q, GoodQueue(q), Apart(inflight, q.list),
         NEW p \in inflight, NEW delay \in Delays, Mapped(p), Access(p),
         inflight' = inflight \ {p}, UNCHANGED <<dev, announced>>
  PROVE  /\ DeviceInv' /\ InflightInv'
         /\ GoodQueue(Served(q, p, delay))
         /\ Apart(inflight \ {p}, Served(q, p, delay).list)
         /\ Attended(q) => Attended(Served(q, p, delay))
         /\ ~q.waiting /\ q.event = Unscheduled => Between(Served(q, p, delay))
<1> DEFINE v == mem[Offset(p.addr)]
           r == Served(q, p, delay)
           e == Response(p, v, delay)
<1>1. InBar(p) /\ p \in Pkt
  BY MappedIsCell DEF InflightInv, InBar
<1>2. DeviceInv' /\ v \in Values
  BY <1>1, AccessKeeps
<1>3. \A x : Routed(x) => Routed(x)'
  BY DEF Routed
<1>4. InflightInv'
  BY <1>3 DEF InflightInv
<1>5. \A x \in Range(q.list) : x.pkt.id # p.id
  BY DEF Apart
<1>6. r = SchedSendTiming(q, Loaded(p, v), Latency + delay)
  BY DEF Served
<1>7. e.pkt.id = p.id
  BY <1>1, <1>2, LoadedIsPacket DEF Response
<1> HIDE DEF v, r
<1>8. /\ GoodQueue(r)
      /\ Range(r.list) = Range(q.list) \cup {e}
      /\ Attended(q) => Attended(r)
      /\ ~q.waiting /\ q.event = Unscheduled => Between(r)
  <2>1. Joins(q, e, r)
    BY <1>1, <1>2, <1>5, <1>6, ServedIsGood, Zenon
  <2> QED
    BY <2>1 DEF Joins
<1> HIDE DEF e
<1>9. Apart(inflight \ {p}, r.list)
  BY <1>7, <1>8 DEF Apart
<1> QED
  BY <1>2, <1>4, <1>8, <1>9 DEF r

\* recvTimingReq
LEMMA RecvStep ==
  ASSUME ExpanderInv, NEW p \in inflight, NEW delay \in Delays, RecvTimingReq(p, delay)
  PROVE  ExpanderInv'
<1>1. /\ inflight' = inflight \ {p} /\ Mapped(p) /\ Access(p)
      /\ respQueue' = Served(respQueue, p, delay)
      /\ UNCHANGED <<dev, announced, restarts, aborted>>
  BY DEF RecvTimingReq
<1>2. /\ DeviceInv /\ InflightInv /\ GoodQueue(respQueue) /\ Attended(respQueue)
      /\ Apart(inflight, respQueue.list)
  BY DEF ExpanderInv, QueueInv
<1>3. /\ DeviceInv' /\ InflightInv'
      /\ GoodQueue(Served(respQueue, p, delay))
      /\ Apart(inflight \ {p}, Served(respQueue, p, delay).list)
      /\ Attended(Served(respQueue, p, delay))
  BY <1>1, <1>2, ServeKeeps
<1>4. GoodQueue(respQueue)' /\ Attended(respQueue)' /\ Apart(inflight, respQueue.list)'
  BY <1>1, <1>3
<1>5. RestartInv'
  BY <1>1 DEF ExpanderInv, RestartInv
<1> QED
  BY <1>3, <1>4, <1>5 DEF ExpanderInv, QueueInv

\* The fields of the queue that an event or a retry starts with
LEMMA QueueFields ==
  ASSUME NEW q \in Queue(Pkt)
  PROVE  /\ LET r == [q EXCEPT !.event = Unscheduled]
            IN  /\ r \in Queue(Pkt) /\ r.list = q.list
                /\ r.event = Unscheduled /\ r.waiting = q.waiting
         /\ LET r == [q EXCEPT !.waiting = FALSE]
            IN  /\ r \in Queue(Pkt) /\ r.list = q.list
                /\ r.event = q.event /\ ~r.waiting
         /\ LET r == [q EXCEPT !.waiting = TRUE]
            IN  /\ r \in Queue(Pkt) /\ r.list = q.list
                /\ r.event = q.event /\ r.waiting
BY Zenon DEF Queue

\* ... and a queue with another list
LEMMA QueueList ==
  ASSUME NEW q \in Queue(Pkt), NEW list \in Seq(Entry(Pkt))
  PROVE  LET r == [q EXCEPT !.list = list]
         IN  /\ r \in Queue(Pkt) /\ r.list = list
             /\ r.event = q.event /\ r.waiting = q.waiting
BY DEF Queue

\* The queue of a port that sends its first response: neither event nor retry
Sending(q) ==
  /\ GoodQueue(q) /\ q.list = respQueue.list /\ Ready(q)
  /\ ~q.waiting /\ q.event = Unscheduled

\* The queue without the response that is being sent
Popped(q) == [q EXCEPT !.list = Tail(q.list)]

\* ... is in order, and has one packet less.
LEMMA PoppedQueue ==
  ASSUME NEW q, Sending(q)
  PROVE  /\ GoodQueue(Popped(q)) /\ Popped(q).list = Tail(q.list)
         /\ ~Popped(q).waiting /\ Popped(q).event = Unscheduled
         /\ Range(q.list) = Range(Popped(q).list) \cup {Head(q.list)}
         /\ \A e \in Range(Popped(q).list) : e.pkt.id # Head(q.list).pkt.id
<1> DEFINE r == Popped(q)
<1>1. /\ q \in Queue(Pkt) /\ InOrder(q.list) /\ Unrepeated(q.list)
      /\ q.list # <<>> /\ ~q.waiting /\ q.event = Unscheduled
  BY DEF Sending, GoodQueue, Ready
<1>2. q.list \in Seq(Entry(Pkt))
  BY <1>1 DEF Queue
<1>3. Tail(q.list) \in Seq(Entry(Pkt))
  BY <1>1, <1>2, TailEffect
<1>4. /\ InOrder(Tail(q.list)) /\ Unrepeated(Tail(q.list))
      /\ Range(q.list) = Range(Tail(q.list)) \cup {Head(q.list)}
      /\ \A e \in Range(Tail(q.list)) : e.pkt.id # Head(q.list).pkt.id
  BY <1>1, <1>2, TailKeeps
<1>5. /\ r \in Queue(Pkt) /\ r.list = Tail(q.list)
      /\ r.event = q.event /\ r.waiting = q.waiting
  BY <1>1, <1>3, QueueList, Zenon DEF Popped
<1> HIDE DEF r
<1>6. /\ GoodQueue(r) /\ r.list = Tail(q.list)
      /\ ~r.waiting /\ r.event = Unscheduled
      /\ Range(q.list) = Range(r.list) \cup {Head(q.list)}
      /\ \A e \in Range(r.list) : e.pkt.id # Head(q.list).pkt.id
  BY <1>1, <1>4, <1>5 DEF GoodQueue
<1> QED
  BY <1>6 DEF r

\* The peer takes the response, and perhaps sends a request meanwhile.
LEMMA SendTakenStep ==
  ASSUME ExpanderInv, NEW q, Sending(q), SendTaken(q),
         UNCHANGED <<dev, announced>>, RestartInv'
  PROVE  ExpanderInv'
<1> DEFINE popped == Popped(q)
<1>1. /\ GoodQueue(popped) /\ ~popped.waiting /\ popped.event = Unscheduled
      /\ Range(popped.list) \subseteq Range(q.list)
  BY PoppedQueue, Zenon
<1>2. \/ /\ respQueue' = Taken(popped)
         /\ mem' = mem /\ inflight' = inflight
      \/ \E p \in inflight, delay \in Delays :
           /\ Mapped(p)
           /\ inflight' = inflight \ {p}
           /\ Access(p)
           /\ respQueue' = Taken(Served(popped, p, delay))
  BY Zenon DEF SendTaken, Popped
<1> HIDE DEF popped
<1>3. /\ DeviceInv /\ InflightInv /\ Apart(inflight, popped.list)
  <2>1. DeviceInv /\ InflightInv /\ Apart(inflight, respQueue.list) /\ q.list = respQueue.list
    BY DEF ExpanderInv, Sending
  <2> QED
    BY <2>1, <1>1 DEF Apart
<1>4. ASSUME NEW r, GoodQueue(r), Between(r), respQueue' = Taken(r), Apart(inflight', r.list)
      PROVE  QueueInv' /\ Apart(inflight, respQueue.list)'
  <2>1. r \in Queue(Pkt)
    BY <1>4 DEF GoodQueue
  <2>2. Taken(r) \in Queue(Pkt) /\ Taken(r).list = r.list /\ Attended(Taken(r))
    BY <2>1, <1>4, TakenAttended
  <2>3. GoodQueue(Taken(r))
    BY <2>2, <1>4 DEF GoodQueue
  <2>4. Apart(inflight', Taken(r).list)
    BY <2>2, <1>4
  <2> QED
    BY <2>2, <2>3, <2>4, <1>4 DEF QueueInv
<1>5. CASE respQueue' = Taken(popped) /\ mem' = mem /\ inflight' = inflight
  <2>1. Between(popped)
    BY <1>1 DEF Between
  <2>2. QueueInv' /\ Apart(inflight, respQueue.list)'
    BY <2>1, <1>1, <1>3, <1>4, <1>5
  <2>3. DeviceInv'
    BY <1>3, <1>5 DEF DeviceInv
  <2>4. InflightInv'
    BY <1>3, <1>5 DEF InflightInv, Routed
  <2> QED
    BY <2>2, <2>3, <2>4 DEF ExpanderInv
<1>6. CASE \E p \in inflight, delay \in Delays :
             /\ Mapped(p)
             /\ inflight' = inflight \ {p}
             /\ Access(p)
             /\ respQueue' = Taken(Served(popped, p, delay))
  <2>1. PICK p \in inflight, delay \in Delays :
               /\ Mapped(p)
               /\ inflight' = inflight \ {p}
               /\ Access(p)
               /\ respQueue' = Taken(Served(popped, p, delay))
    BY <1>6
  <2>2. /\ DeviceInv' /\ InflightInv'
        /\ GoodQueue(Served(popped, p, delay))
        /\ Apart(inflight \ {p}, Served(popped, p, delay).list)
        /\ Between(Served(popped, p, delay))
    BY <2>1, <1>1, <1>3, ServeKeeps, Zenon
  <2>3. QueueInv' /\ Apart(inflight, respQueue.list)'
    BY <2>1, <2>2, <1>4
  <2> QED
    BY <2>2, <2>3 DEF ExpanderInv
<1> QED
  BY <1>2, <1>5, <1>6

\* The peer refuses the response: it waits for the retry.
LEMMA SendRefusedStep ==
  ASSUME ExpanderInv, NEW q, Sending(q), SendRefused(q),
         UNCHANGED <<dev, announced>>, RestartInv'
  PROVE  ExpanderInv'
<1>1. /\ respQueue' = [q EXCEPT !.waiting = TRUE] /\ mem' = mem /\ inflight' = inflight
      /\ dev' = dev /\ announced' = announced
  BY DEF SendRefused, Refused
<1>2. /\ q \in Queue(Pkt) /\ InOrder(q.list) /\ Unrepeated(q.list) /\ q.list # <<>>
      /\ q.list = respQueue.list /\ q.event = Unscheduled /\ Head(q.list).tick = 0
  BY DEF Sending, GoodQueue, Ready
<1>3. /\ respQueue' \in Queue(Pkt) /\ respQueue'.list = q.list
      /\ respQueue'.event = Unscheduled /\ respQueue'.waiting
  BY <1>1, <1>2, QueueFields, Zenon
<1>4. Head(q.list) = q.list[1]
  BY <1>2 DEF Queue
<1>5. QueueInv'
  BY <1>2, <1>3, <1>4 DEF QueueInv, GoodQueue, Attended
<1>6. DeviceInv' /\ InflightInv'
  BY <1>1 DEF ExpanderInv, DeviceInv, InflightInv, Routed
<1>7. Apart(inflight, respQueue.list)'
  BY <1>1, <1>2, <1>3 DEF ExpanderInv, Apart
<1> QED
  BY <1>5, <1>6, <1>7 DEF ExpanderInv

\* A queue whose entries changed, but not their ids
LEMMA SameIds ==
  ASSUME NEW list \in Seq(Entry(Pkt)), NEW new \in Seq(Entry(Pkt)),
         DOMAIN new = DOMAIN list,
         \A i \in DOMAIN list : new[i].pkt.id = list[i].pkt.id,
         NEW reqs
  PROVE  /\ Unrepeated(list) => Unrepeated(new)
         /\ Apart(reqs, list) => Apart(reqs, new)
<1>1. Unrepeated(list) => Unrepeated(new)
  BY DEF Unrepeated
<1>2. ASSUME Apart(reqs, list), NEW p \in reqs, NEW i \in DOMAIN new
      PROVE  new[i].pkt.id # p.id
  <2>1. list[i] \in Range(list)
    BY DEF Range
  <2>2. list[i].pkt.id # p.id
    BY <2>1, <1>2 DEF Apart
  <2> QED
    BY <2>2
<1>3. ASSUME Apart(reqs, list)
      PROVE  Apart(reqs, new)
  <2>1. \A p \in reqs : \A e \in Range(new) : e.pkt.id # p.id
    BY <1>2, <1>3 DEF Range
  <2> QED
    BY <2>1, <1>3 DEF Apart
<1> QED
  BY <1>1, <1>3

\* A tick passes.
LEMMA ElapseStep ==
  ASSUME ExpanderInv, Elapse
  PROVE  ExpanderInv'
<1> DEFINE q == respQueue
           r == Elapsed(q)
<1>1. /\ q.event # 0 /\ respQueue' = r
      /\ dev' = dev /\ announced' = announced /\ mem' = mem /\ inflight' = inflight
      /\ restarts' = restarts /\ aborted' = aborted
  BY DEF Elapse
<1>2. /\ q \in Queue(Pkt) /\ InOrder(q.list) /\ Unrepeated(q.list) /\ Attended(q)
      /\ Apart(inflight, q.list)
  BY DEF ExpanderInv, QueueInv, GoodQueue
<1>3. /\ r \in Queue(Pkt)
      /\ DOMAIN r.list = DOMAIN q.list
      /\ \A i \in DOMAIN q.list : r.list[i].pkt = q.list[i].pkt
      /\ InOrder(r.list) /\ Attended(r)
  BY <1>1, <1>2, ElapsedEffect
<1> HIDE DEF r
<1>4. q.list \in Seq(Entry(Pkt)) /\ r.list \in Seq(Entry(Pkt))
  BY <1>2, <1>3 DEF Queue
<1>5. \A i \in DOMAIN q.list : r.list[i].pkt.id = q.list[i].pkt.id
  BY <1>3
<1>6. Unrepeated(r.list) /\ Apart(inflight, r.list)
  BY <1>2, <1>3, <1>4, <1>5, SameIds
<1>7. QueueInv' /\ Apart(inflight, respQueue.list)'
  BY <1>1, <1>3, <1>6 DEF QueueInv, GoodQueue
<1>8. DeviceInv' /\ InflightInv'
  BY <1>1 DEF ExpanderInv, DeviceInv, InflightInv, Routed
<1>9. RestartInv'
  BY <1>1 DEF ExpanderInv, RestartInv
<1> QED
  BY <1>7, <1>8, <1>9 DEF ExpanderInv

\* A functional write changes at most the data of a queued response.
LEMMA OverwrittenEffect ==
  ASSUME NEW e \in Entry(Pkt), NEW a, NEW v \in Values
  PROVE  /\ Overwritten(e, a, v) \in Entry(Pkt)
         /\ Overwritten(e, a, v).tick = e.tick
         /\ Overwritten(e, a, v).pkt.id = e.pkt.id
         /\ Overwritten(e, a, v).pkt.addr = e.pkt.addr
         /\ Overwritten(e, a, v).pkt.data =
              IF e.pkt.addr = a /\ e.pkt.data # NoData THEN v ELSE e.pkt.data
<1>1. CASE e.pkt.addr = a /\ e.pkt.data # NoData
  <2> DEFINE p == [e.pkt EXCEPT !.data = v]
  <2>1. Overwritten(e, a, v) = [e EXCEPT !.pkt.data = v]
    BY <1>1 DEF Overwritten
  <2>2. e = [tick |-> e.tick, pkt |-> e.pkt] /\ e.tick \in Nat /\ e.pkt \in Pkt
    BY DEF Entry
  <2>3. p \in Pkt /\ p.id = e.pkt.id /\ p.addr = e.pkt.addr /\ p.data = v
    BY <2>2 DEF Pkt
  <2>4. [e EXCEPT !.pkt.data = v] = [tick |-> e.tick, pkt |-> p]
    BY <2>2
  <2> HIDE DEF p
  <2>5. Overwritten(e, a, v) = [tick |-> e.tick, pkt |-> p]
    BY <2>1, <2>4
  <2> QED
    BY <2>2, <2>3, <2>5, <1>1 DEF Entry
<1>2. CASE ~(e.pkt.addr = a /\ e.pkt.data # NoData)
  BY <1>2 DEF Overwritten
<1> QED
  BY <1>1, <1>2

\* The queue after a functional write ...
OverwrittenList(list, a, v) == [i \in DOMAIN list |-> Overwritten(list[i], a, v)]

SameButData(new, list) ==
  /\ new \in Seq(Entry(Pkt)) /\ DOMAIN new = DOMAIN list
  /\ \A i \in DOMAIN list : /\ new[i].tick = list[i].tick
                            /\ new[i].pkt.id = list[i].pkt.id
  /\ new = <<>> <=> list = <<>>

\* ... is the same but for the data.
LEMMA OverwrittenQueue ==
  ASSUME NEW q \in Queue(Pkt), NEW a, NEW v \in Values
  PROVE  SameButData(OverwrittenList(q.list, a, v), q.list)
<1> DEFINE new == OverwrittenList(q.list, a, v)
<1>1. q.list \in Seq(Entry(Pkt))
  BY DEF Queue
<1>2. /\ DOMAIN new = DOMAIN q.list
      /\ \A i \in DOMAIN q.list : new[i] = Overwritten(q.list[i], a, v)
      /\ new = [i \in DOMAIN q.list |-> new[i]]
  BY DEF OverwrittenList
<1> SUFFICES SameButData(new, q.list)
  OBVIOUS
<1> HIDE DEF new
<1>3. /\ DOMAIN q.list = 1 .. Len(q.list) /\ Len(q.list) \in Nat
      /\ \A i \in DOMAIN q.list : q.list[i] \in Entry(Pkt)
  BY <1>1
<1>4. \A i \in DOMAIN q.list :
        /\ new[i] \in Entry(Pkt)
        /\ new[i].tick = q.list[i].tick /\ new[i].pkt.id = q.list[i].pkt.id
  <2> TAKE i \in DOMAIN q.list
  <2> DEFINE e == q.list[i]
             w == Overwritten(q.list[i], a, v)
  <2>1. e \in Entry(Pkt)
    BY <1>3
  <2>2. w \in Entry(Pkt) /\ w.tick = e.tick /\ w.pkt.id = e.pkt.id
    BY <2>1, OverwrittenEffect
  <2>3. new[i] = w
    BY <1>2
  <2> HIDE DEF w
  <2> QED
    BY <2>2, <2>3
<1>5. new \in [1 .. Len(q.list) -> Entry(Pkt)]
  BY <1>2, <1>3, <1>4
<1>6. new \in Seq(Entry(Pkt)) /\ Len(new) = Len(q.list)
  BY <1>3, <1>5
<1>7. new = <<>> <=> q.list = <<>>
  BY <1>1, <1>6
<1> QED
  BY <1>2, <1>4, <1>6, <1>7 DEF SameButData

\* recvFunctional of a write
LEMMA FunctionalStep ==
  ASSUME ExpanderInv, NEW a \in Addresses, NEW v \in Values, FunctionalWrite(a, v)
  PROVE  ExpanderInv'
<1> DEFINE q == respQueue
           new == OverwrittenList(q.list, a, v)
<1>1. /\ \E r \in announced : Covers(r, a)
      /\ respQueue' = [q EXCEPT !.list = new]
      /\ mem' = [mem EXCEPT ![Offset(a)] = v]
      /\ dev' = dev /\ announced' = announced /\ inflight' = inflight
  BY DEF FunctionalWrite, OverwrittenList
<1>2. /\ q \in Queue(Pkt) /\ InOrder(q.list) /\ Unrepeated(q.list) /\ Attended(q)
      /\ Apart(inflight, q.list) /\ q.list \in Seq(Entry(Pkt))
  BY DEF ExpanderInv, QueueInv, GoodQueue, Queue
<1>3. /\ new \in Seq(Entry(Pkt)) /\ DOMAIN new = DOMAIN q.list
      /\ \A i \in DOMAIN q.list : /\ new[i].tick = q.list[i].tick
                                  /\ new[i].pkt.id = q.list[i].pkt.id
      /\ new = <<>> <=> q.list = <<>>
  <2>1. SameButData(new, q.list)
    BY <1>2, OverwrittenQueue, Zenon
  <2> QED
    BY <2>1, Zenon DEF SameButData
<1> HIDE DEF new
<1>4. /\ respQueue' \in Queue(Pkt) /\ respQueue'.list = new
      /\ respQueue'.event = q.event /\ respQueue'.waiting = q.waiting
  BY <1>1, <1>2, <1>3 DEF Queue
<1>5. InOrder(new)
  BY <1>2, <1>3 DEF InOrder
<1>6. Unrepeated(new) /\ Apart(inflight, new)
  BY <1>2, <1>3, SameIds
<1>7. q.list # <<>> => new[1].tick = q.list[1].tick
  BY <1>2, <1>3
<1>8. Attended(respQueue)'
  BY <1>2, <1>3, <1>4, <1>7 DEF Attended
<1>9. QueueInv' /\ Apart(inflight, respQueue.list)'
  BY <1>1, <1>4, <1>5, <1>6, <1>8 DEF QueueInv, GoodQueue
<1>10. InflightInv' /\ RestartInv'
  <2>1. restarts' = restarts /\ aborted' = aborted
    BY DEF FunctionalWrite
  <2> QED
    BY <2>1, <1>1 DEF ExpanderInv, InflightInv, Routed, RestartInv
<1>11. DeviceInv'
  <2>1. Offset(a) \in Cells(dev.bar.size)
    BY <1>1, RoutedIsCell DEF ExpanderInv, DeviceInv
  <2>2. mem' \in [Cells(dev.bar.size) -> Values]
    BY <2>1, <1>1 DEF ExpanderInv, DeviceInv
  <2> QED
    BY <2>2, <1>1 DEF ExpanderInv, DeviceInv
<1> QED
  BY <1>9, <1>10, <1>11 DEF ExpanderInv

\* The queue that the event or the retry finds
LEMMA SendsFromInv ==
  ASSUME ExpanderInv
  PROVE  /\ respQueue.event = 0 => Ready(respQueue) /\ Sending([respQueue EXCEPT !.event = Unscheduled])
         /\ respQueue.waiting => Ready(respQueue) /\ Sending([respQueue EXCEPT !.waiting = FALSE])
<1> DEFINE q == respQueue
           e == [q EXCEPT !.event = Unscheduled]
           w == [q EXCEPT !.waiting = FALSE]
<1>1. /\ q \in Queue(Pkt) /\ InOrder(q.list) /\ Unrepeated(q.list) /\ Attended(q)
      /\ q.list \in Seq(Entry(Pkt)) /\ q.waiting \in BOOLEAN
  BY DEF ExpanderInv, QueueInv, GoodQueue, Queue
<1>2. /\ e \in Queue(Pkt) /\ e.list = q.list /\ e.event = Unscheduled /\ e.waiting = q.waiting
      /\ w \in Queue(Pkt) /\ w.list = q.list /\ w.event = q.event /\ ~w.waiting
  BY <1>1, QueueFields, Zenon
<1>3. 0 # Unscheduled
  BY DEF Unscheduled
<1> HIDE DEF e, w
<1>4. q.list # <<>> => q.list[1] = Head(q.list) /\ q.list[1].tick \in Nat
  <2>1. q.list # <<>> => q.list[1] = Head(q.list) /\ q.list[1] \in Entry(Pkt)
    BY <1>1
  <2> QED
    BY <2>1 DEF Entry
<1>5. CASE q.event = 0
  <2>1. q.list # <<>> /\ ~q.waiting /\ q.list[1].tick <= 0
    BY <1>1, <1>3, <1>5 DEF Attended
  <2>2. Ready(q) /\ Ready(e)
    BY <2>1, <1>2, <1>4 DEF Ready
  <2>3. Sending(e)
    BY <2>1, <2>2, <1>1, <1>2 DEF Sending, GoodQueue
  <2> QED
    BY <2>1, <2>2, <2>3 DEF e
<1>6. CASE q.waiting
  <2>1. q.list # <<>> /\ q.event = Unscheduled /\ q.list[1].tick = 0
    BY <1>1, <1>6 DEF Attended
  <2>2. Ready(q) /\ Ready(w)
    BY <2>1, <1>2, <1>4 DEF Ready
  <2>3. Sending(w)
    BY <2>1, <2>2, <1>1, <1>2 DEF Sending, GoodQueue
  <2> QED
    BY <2>1, <2>2, <2>3, <1>3 DEF w
<1> QED
  BY <1>5, <1>6, <1>1 DEF e, w

\* Every step keeps the invariant.
LEMMA StepInv == ExpanderInv /\ [Next]_vars => ExpanderInv'
<1> SUFFICES ASSUME ExpanderInv, [Next]_vars
             PROVE  ExpanderInv'
  OBVIOUS
<1>1. IsDevice(dev) /\ mem \in [Cells(dev.bar.size) -> Values] /\ RestartInv
  BY DEF ExpanderInv, DeviceInv
<1>2. ASSUME NEW i \in {1, 2}, NEW v \in Words, ConfigBar(i, v)
      PROVE  ExpanderInv'
  <2> DEFINE d == WriteBaseAddr(dev, i, v)
  <2>1. IsDevice(d) /\ d.bar.size = dev.bar.size
    BY <1>1, WritesKeepDevice
  <2>2. /\ Announce(d) /\ mem' = mem
        /\ inflight' = inflight /\ respQueue' = respQueue
        /\ restarts' = restarts /\ aborted' = aborted
    BY <1>2 DEF ConfigBar
  <2> HIDE DEF d
  <2>3. RestartInv'
    BY <1>1, <2>2 DEF RestartInv
  <2> QED
    BY <1>1, <2>1, <2>2, <2>3, ConfigStep
<1>3. CASE \E v \in LowerValues : ConfigBar(1, v)
  BY <1>2, <1>3, EndpointAssumption
<1>4. CASE \E v \in UpperValues : ConfigBar(2, v)
  BY <1>2, <1>4, EndpointAssumption
<1>5. CASE \E on \in BOOLEAN : ConfigCommand(on)
  <2>1. PICK on \in BOOLEAN : ConfigCommand(on)
    BY <1>5
  <2> DEFINE d == WriteCommand(dev, on)
  <2>2. IsDevice(d) /\ d.bar.size = dev.bar.size
    BY <1>1, WritesKeepDevice
  <2>3. /\ Announce(d) /\ mem' = mem
        /\ inflight' = inflight /\ respQueue' = respQueue
        /\ restarts' = restarts /\ aborted' = aborted
    BY <2>1 DEF ConfigCommand
  <2> HIDE DEF d
  <2>4. RestartInv'
    BY <1>1, <2>3 DEF RestartInv
  <2> QED
    BY <1>1, <2>2, <2>3, <2>4, ConfigStep
<1>6. CASE Restore
  <2>1. Restored(dev.bar.size, Saved(dev)) = dev
    BY <1>1, DeviceTypes
  <2>2. /\ Announce(dev) /\ mem' \in [Cells(dev.bar.size) -> Values]
        /\ inflight' = inflight /\ respQueue' = respQueue
        /\ restarts < MaxRestarts /\ restarts' = restarts + 1 /\ aborted' = aborted
    BY <1>1, <1>6, <2>1 DEF Restore
  <2>3. RestartInv'
    BY <1>1, <2>2, EndpointAssumption DEF RestartInv
  <2> QED
    BY <1>1, <2>2, <2>3, ConfigStep
<1>7. CASE \E id \in Ids, o \in Operations, a \in Addresses : Request(id, o, a)
  BY <1>7, RequestStep
<1>8. CASE \E p \in inflight, delay \in Delays : RecvTimingReq(p, delay)
  BY <1>8, RecvStep
<1>9. CASE ProcessSendEvent
  <2> DEFINE q == [respQueue EXCEPT !.event = Unscheduled]
  <2>1. /\ respQueue.event = 0 /\ UNCHANGED <<dev, announced, restarts, aborted>>
        /\ SendTaken(q) \/ SendRefused(q)
    BY <1>9 DEF ProcessSendEvent
  <2>2. Sending(q) /\ RestartInv'
    BY <2>1, <1>1, SendsFromInv DEF RestartInv
  <2> HIDE DEF q
  <2> QED
    BY <2>1, <2>2, SendTakenStep, SendRefusedStep
<1>10. CASE RetryTaken
  <2> DEFINE q == [respQueue EXCEPT !.waiting = FALSE]
  <2>1. respQueue.waiting /\ UNCHANGED <<dev, announced, restarts, aborted>> /\ SendTaken(q)
    BY <1>10 DEF RetryTaken
  <2>2. Sending(q) /\ RestartInv'
    BY <2>1, <1>1, SendsFromInv DEF RestartInv
  <2> HIDE DEF q
  <2> QED
    BY <2>1, <2>2, SendTakenStep
<1>11. CASE RetryRefused
  <2> DEFINE q == [respQueue EXCEPT !.waiting = FALSE]
  <2>1. respQueue.waiting /\ UNCHANGED <<dev, announced, restarts, aborted>> /\ SendRefused(q)
    BY <1>11 DEF RetryRefused
  <2>2. Sending(q) /\ RestartInv'
    BY <2>1, <1>1, SendsFromInv DEF RestartInv
  <2> HIDE DEF q
  <2> QED
    BY <2>1, <2>2, SendRefusedStep
<1>12. CASE Elapse
  BY <1>12, ElapseStep
<1>13. CASE \E a \in Addresses, v \in Values : FunctionalWrite(a, v)
  BY <1>13, FunctionalStep
<1>14. CASE UNCHANGED vars \/ Stopped
  BY <1>14 DEF Stopped, vars, ExpanderInv, DeviceInv, InflightInv, Routed, QueueInv, RestartInv
<1>15. CASE \E p \in inflight : AssertFails(p)
  BY <1>15 DEF AssertFails, ExpanderInv, DeviceInv, InflightInv, Routed, QueueInv, RestartInv
<1> QED
  BY <1>3, <1>4, <1>5, <1>6, <1>7, <1>8, <1>9, <1>10, <1>11, <1>12, <1>13, <1>14,
     <1>15 DEF Next

\* For every width of the registers, size of the BAR, number of requests and
\* latency: the inductive invariant of the device, its queue and its neighbour.
THEOREM ExpanderInvariant == Spec => []ExpanderInv
BY InitInv, StepInv, PTL DEF Spec

-----------------------------------------------------------------------------
(* What the invariant gives *)

\* Registers, BAR, ranges, packets and queue keep their types, and a request that
\* is inside the BAR when it arrives is for a cell, although the BAR may have
\* been moved since the request was routed.
THEOREM TypeTheorem == Spec => []TypeOK
<1>1. ExpanderInv => TypeOK
  <2> SUFFICES ASSUME ExpanderInv PROVE TypeOK
    OBVIOUS
  <2>1. /\ IsDevice(dev) /\ dev.bar.size \in Sizes
        /\ mem \in [Cells(dev.bar.size) -> Values]
        /\ \A p \in inflight : p \in Pkt
        /\ respQueue \in Queue(Pkt)
        /\ restarts \in 0 .. MaxRestarts /\ aborted \in BOOLEAN
    BY DEF ExpanderInv, DeviceInv, InflightInv, Routed, QueueInv, GoodQueue, RestartInv
  <2>2. /\ dev.bar.lower \in Words /\ dev.bar.upper \in Words
        /\ dev.bar.addr \in 0 .. Top - 1
        /\ dev.memorySpace \in BOOLEAN /\ dev.baseAddr \in Words \X Words
    BY <2>1, DeviceTypes
  <2>3. /\ respQueue.list \in Seq(Entry(Pkt))
        /\ respQueue.event \in Nat \cup {Unscheduled} /\ respQueue.waiting \in BOOLEAN
    BY <2>1 DEF Queue
  <2>4. \A i \in DOMAIN respQueue.list : respQueue.list[i] \in Entry(Pkt)
    BY <2>3
  <2>5. \A i \in DOMAIN respQueue.list :
          respQueue.list[i].tick \in Nat /\ respQueue.list[i].pkt \in Pkt
    BY <2>4 DEF Entry
  <2>6. \A p \in Packets : p \in Pkt
    BY <2>1, <2>5 DEF Packets
  <2>7. \A p \in Packets : /\ p.id \in Ids /\ p.o \in Operations
                           /\ p.data \in Values \cup {NoData}
    BY <2>6 DEF Pkt
  <2>8. \A p \in inflight : Mapped(p) => Offset(p.addr) \in Cells(dev.bar.size)
    BY MappedIsCell DEF ExpanderInv, InflightInv, InBar
  <2> QED
    BY <2>1, <2>2, <2>3, <2>5, <2>7, <2>8, Zenon DEF TypeOK
<1> QED
  BY <1>1, ExpanderInvariant, PTL

\* A device unserialized from the registers has its BAR where it was.
THEOREM RestoreTheorem == Spec => []RestoreIsFaithful
<1>1. ExpanderInv => RestoreIsFaithful
  BY DeviceTypes DEF ExpanderInv, DeviceInv, RestoreIsFaithful
<1> QED
  BY <1>1, ExpanderInvariant, PTL

\* Sizing a BAR shows its size and can be undone, in either order of the halves.
THEOREM SizingTheorem == Spec => []SizingWorks
<1>1. ExpanderInv => SizingWorks
  BY DeviceIsSized, Zenon DEF ExpanderInv, DeviceInv, SizingWorks
<1> QED
  BY <1>1, ExpanderInvariant, PTL

\* "assert(deferredPacketReady())" of sendDeferredPacket never fails, and a
\* response that waits is always attended by either the event or the retry.
THEOREM ResponseTheorem == Spec => []FirstResponseIsSent
<1>1. ExpanderInv => FirstResponseIsSent
  <2> SUFFICES ASSUME ExpanderInv PROVE FirstResponseIsSent
    OBVIOUS
  <2> DEFINE q == respQueue
  <2>1. q \in Queue(Pkt) /\ InOrder(q.list) /\ Attended(q)
    BY DEF ExpanderInv, QueueInv, GoodQueue
  <2>2. /\ q.list \in Seq(Entry(Pkt)) /\ q.event \in Nat \cup {Unscheduled}
        /\ q.waiting \in BOOLEAN
    BY <2>1 DEF Queue
  <2>3. q.list # <<>> => Head(q.list) = q.list[1] /\ q.list[1] \in Entry(Pkt)
    BY <2>2
  <2>4. q.list # <<>> => Head(q.list).tick = q.list[1].tick /\ q.list[1].tick \in Nat
    BY <2>3 DEF Entry
  <2>5. \A h \in Nat : Max({1, h}) = Soonest(h)
    <3> TAKE h \in Nat
    <3>1. \E x \in {1, h} : \A y \in {1, h} : x >= y
      OBVIOUS
    <3>2. Max({1, h}) \in {1, h} /\ \A y \in {1, h} : Max({1, h}) >= y
      BY <3>1 DEF Max
    <3> QED
      BY <3>2 DEF Soonest
  <2>6. q.waiting => Ready(q)
    BY <2>1, <2>4 DEF Attended, Ready
  <2>7. q.event # Unscheduled => /\ Head(q.list).tick <= q.event
                                 /\ q.event <= Max({1, Head(q.list).tick})
    BY <2>1, <2>4, <2>5 DEF Attended
  <2> QED
    BY <2>1, <2>6, <2>7, Zenon DEF Attended, InOrder, FirstResponseIsSent
<1> QED
  BY <1>1, ExpanderInvariant, PTL

-----------------------------------------------------------------------------
(* The device implements a memory *)

\* The answer a queued response is, and the answers owed by a list of them
Answered(e) == [id |-> e.pkt.id, addr |-> e.pkt.addr, data |-> e.pkt.data]

Owes(list) == {Answered(e) : e \in Range(list)}

Owed == Owes(respQueue.list)

\* Memory::access stores and loads what the abstract operation does.
LEMMA SameEffect ==
  ASSUME NEW p \in Pkt, p.data = NoData, NEW v \in Values
  PROVE  /\ Stored(p, v) = Memory!Effect(p.o, v)
         /\ Loaded(p, v).data = Memory!Answer(p.o, v)
<1>1. p.o \in Operations
  BY DEF Pkt
<1>2. p.o.op \in {"read", "clean", "write", "swap", "condswap", "atomic"}
  BY <1>1, OperationAssumption
<1> DEFINE w == (v + p.o.val) % (1 + p.o.cond)
<1>3. Stored(p, v) = CASE p.o.op = "atomic" -> w
                       [] p.o.op = "swap" -> p.o.val
                       [] p.o.op = "condswap" -> IF v = p.o.cond THEN p.o.val ELSE v
                       [] p.o.op \in {"read", "clean"} -> v
                       [] p.o.op = "write" -> p.o.val
  BY DEF Stored
<1>4. Memory!Effect(p.o, v) =
        CASE p.o.op \in {"read", "clean"} -> v
          [] p.o.op \in {"write", "swap"} -> p.o.val
          [] p.o.op = "condswap" -> IF v = p.o.cond THEN p.o.val ELSE v
          [] p.o.op = "atomic" -> w
  BY DEF Memory!Effect
<1> HIDE DEF w
<1>5. Stored(p, v) = Memory!Effect(p.o, v)
  BY <1>2, <1>3, <1>4
<1>6. Loaded(p, v).data = IF p.o.op \in {"atomic", "swap", "condswap", "read"}
                          THEN v ELSE NoData
  BY LoadedIsPacket
<1>7. Memory!Answer(p.o, v) = IF p.o.op \in {"write", "clean"} THEN NoData ELSE v
  BY DEF Memory!Answer, Memory!NoData, NoData
<1>8. Loaded(p, v).data = Memory!Answer(p.o, v)
  BY <1>2, <1>6, <1>7
<1> QED
  BY <1>5, <1>8

\* A step in which an operation takes effect, with the answers it gives and owes
Performs(r, o, done) ==
  /\ r \in Owed' \ Owed
  /\ Offset(r.addr) \in DOMAIN mem
  /\ r.id \notin {x.id : x \in Owed \ done}
  /\ r.data = Memory!Answer(o, mem[Offset(r.addr)])
  /\ mem' = [mem EXCEPT ![Offset(r.addr)] = Memory!Effect(o, @)]
  /\ Owed' = (Owed \ done) \cup {r}

\* The BAR stays where it is, and the simulation goes on.
Stays == dev'.bar.addr = dev.bar.addr /\ restarts' = restarts

\* A step that is one of the memory, or changes nothing of it
MemoryMoves ==
  \/ mem' = mem /\ Owed' = Owed /\ restarts' = restarts
  \/ /\ Stays
     /\ \E r \in Owed' \ Owed, o \in Operations :
          \E done \in {{}} \cup {{x} : x \in Owed} : Performs(r, o, done)
  \/ /\ Stays
     /\ \E r \in Owed : Owed' = Owed \ {r} /\ mem' = mem
  \/ /\ Stays
     /\ \E off \in DOMAIN mem, v \in Values :
          /\ mem' = [mem EXCEPT ![off] = v]
          /\ Owed' = {IF r.addr = dev.bar.addr + off /\ r.data # NoData
                      THEN [r EXCEPT !.data = v] ELSE r : r \in Owed}
  \/ /\ Owed = {} /\ Owed' = Owed /\ DOMAIN mem' = DOMAIN mem
     /\ dev'.bar.addr = dev.bar.addr /\ restarts' = restarts + 1

\* Such a step is a step of the abstract memory.
LEMMA MovesAreSteps == MemoryMoves => [Memory!MemNext]_(Memory!memVars)
BY Zenon DEF MemoryMoves, Stays, Performs, Offset, Owed, Owes, Answered, NoData,
       Memory!NoData, Memory!MemNext, Memory!Perform, Memory!Give,
       Memory!FunctionalWrite, Memory!Move, Memory!StartAgain, Memory!memVars

\* The response of a request that is served, as an answer owed
LEMMA ServedAnswer ==
  ASSUME DeviceInv, NEW q, GoodQueue(q), NEW p, InBar(p), NEW delay \in Delays,
         \A e \in Range(q.list) : e.pkt.id # p.id, Access(p)
  PROVE  \E r : /\ r.id = p.id /\ Offset(r.addr) \in DOMAIN mem
                /\ r.data = Memory!Answer(p.o, mem[Offset(r.addr)])
                /\ mem' = [mem EXCEPT ![Offset(r.addr)] = Memory!Effect(p.o, @)]
                /\ Owes(Served(q, p, delay).list) = Owes(q.list) \cup {r}
<1> DEFINE off == Offset(p.addr)
           v == mem[off]
           x == Loaded(p, v)
           e == Response(p, v, delay)
           r == Answered(e)
<1>1. /\ off \in Cells(dev.bar.size) /\ p \in Pkt /\ p.data = NoData
      /\ mem \in [Cells(dev.bar.size) -> Values]
  BY DEF InBar, DeviceInv
<1>2. v \in Values
  BY <1>1
<1>3. x.id = p.id /\ x.addr = p.addr /\ x.data = Memory!Answer(p.o, v)
  BY <1>1, <1>2, LoadedIsPacket, SameEffect, Zenon
<1>4. Stored(p, v) = Memory!Effect(p.o, v)
  BY <1>1, <1>2, SameEffect, Zenon
<1>5. mem' = [mem EXCEPT ![off] = Memory!Effect(p.o, v)]
  BY <1>4 DEF Access
<1>6. Range(Served(q, p, delay).list) = Range(q.list) \cup {e}
  <2>1. Joins(q, e, Served(q, p, delay))
    BY <1>1, <1>2, ServedIsGood, Zenon DEF Served
  <2> QED
    BY <2>1, Zenon DEF Joins
<1> HIDE DEF x, v
<1>7. r.id = p.id /\ Offset(r.addr) = off /\ r.data = Memory!Answer(p.o, v)
  BY <1>3, Zenon DEF Answered, Response, x
<1> HIDE DEF off, r, e
<1>8. Offset(r.addr) \in DOMAIN mem /\ r.data = Memory!Answer(p.o, mem[Offset(r.addr)])
  BY <1>1, <1>7, Zenon DEF v
<1>9. mem' = [mem EXCEPT ![Offset(r.addr)] = Memory!Effect(p.o, @)]
  BY <1>5, <1>7 DEF v
<1>10. Owes(Served(q, p, delay).list) = Owes(q.list) \cup {r}
  BY <1>6 DEF Owes, r
<1> QED
  BY <1>7, <1>8, <1>9, <1>10, Zenon

\* An arriving request performs its operation, and the answers in `done' are
\* given: q is the queue it is served into.
LEMMA ServePerforms ==
  ASSUME DeviceInv, NEW q, GoodQueue(q), NEW p, InBar(p), NEW delay \in Delays,
         \A e \in Range(respQueue.list) : e.pkt.id # p.id,
         Range(q.list) \subseteq Range(respQueue.list),
         Access(p), Stays,
         NEW done \in {{}} \cup {{x} : x \in Owed}, Owes(q.list) = Owed \ done,
         respQueue'.list = Served(q, p, delay).list
  PROVE  MemoryMoves
<1>1. PICK r : /\ r.id = p.id /\ Offset(r.addr) \in DOMAIN mem
               /\ r.data = Memory!Answer(p.o, mem[Offset(r.addr)])
               /\ mem' = [mem EXCEPT ![Offset(r.addr)] = Memory!Effect(p.o, @)]
               /\ Owes(Served(q, p, delay).list) = Owes(q.list) \cup {r}
  <2>1. \A e \in Range(q.list) : e.pkt.id # p.id
    OBVIOUS
  <2> QED
    BY <2>1, ServedAnswer
<1>2. \A x \in Owed : x.id # p.id
  <2> TAKE x \in Owed
  <2>1. PICK e \in Range(respQueue.list) : x = Answered(e)
    BY DEF Owed, Owes
  <2>2. x.id = e.pkt.id
    BY <2>1, Zenon DEF Answered
  <2> QED
    BY <2>2
<1>3. Owed' = Owes(Served(q, p, delay).list)
  BY DEF Owed
<1>4. Owed' = (Owed \ done) \cup {r}
  BY <1>1, <1>3
<1>5. r \in Owed' \ Owed
  BY <1>1, <1>2, <1>4
<1>6. r.id \notin {x.id : x \in Owed \ done}
  BY <1>1, <1>2
<1>7. Performs(r, p.o, done)
  BY <1>1, <1>4, <1>5, <1>6 DEF Performs
<1>8. p.o \in Operations
  BY DEF InBar, Pkt
<1> QED
  BY <1>5, <1>7, <1>8 DEF MemoryMoves

\* The answers that remain owed while the first response is sent
LEMMA PoppedOwes ==
  ASSUME NEW q, Sending(q)
  PROVE  /\ Answered(Head(q.list)) \in Owed
         /\ Owes(Popped(q).list) = Owed \ {Answered(Head(q.list))}
         /\ Range(Popped(q).list) \subseteq Range(respQueue.list)
<1> DEFINE h == Head(q.list)
           t == Popped(q).list
<1>1. /\ Range(respQueue.list) = Range(t) \cup {h}
      /\ \A e \in Range(t) : e.pkt.id # h.pkt.id
  BY PoppedQueue DEF Sending
<1> HIDE DEF h, t
<1>2. \A e : Answered(e).id = e.pkt.id
  BY DEF Answered
<1>3. Owed = Owes(t) \cup {Answered(h)}
  BY <1>1 DEF Owed, Owes
<1>4. Answered(h) \notin Owes(t)
  BY <1>1, <1>2 DEF Owes
<1>5. Answered(h) \in Owed /\ Owes(t) = Owed \ {Answered(h)}
  BY <1>3, <1>4
<1> QED
  BY <1>1, <1>5, Zenon DEF h, t

\* Sending a response gives the answer, and may perform the next operation.
LEMMA SendTakenMoves ==
  ASSUME ExpanderInv, NEW q, Sending(q), SendTaken(q),
         UNCHANGED <<dev, announced>>, Stays
  PROVE  MemoryMoves
<1> DEFINE popped == Popped(q)
           h == Answered(Head(q.list))
<1>1. \/ /\ respQueue' = Taken(popped)
         /\ mem' = mem /\ inflight' = inflight
      \/ \E p \in inflight, delay \in Delays :
           /\ Mapped(p)
           /\ inflight' = inflight \ {p}
           /\ Access(p)
           /\ respQueue' = Taken(Served(popped, p, delay))
  BY Zenon DEF SendTaken, Popped
<1>2. /\ GoodQueue(popped) /\ ~popped.waiting /\ popped.event = Unscheduled
  BY PoppedQueue
<1>3. /\ h \in Owed /\ Owes(popped.list) = Owed \ {h}
      /\ Range(popped.list) \subseteq Range(respQueue.list)
  BY PoppedOwes
<1> HIDE DEF popped, h
<1>4. DeviceInv /\ InflightInv /\ Apart(inflight, respQueue.list)
  BY DEF ExpanderInv
<1>5. \A r : GoodQueue(r) /\ Between(r) => Taken(r).list = r.list
  BY TakenAttended DEF GoodQueue
<1>6. CASE respQueue' = Taken(popped) /\ mem' = mem /\ inflight' = inflight
  <2>1. Between(popped)
    BY <1>2 DEF Between
  <2>2. respQueue'.list = popped.list
    BY <2>1, <1>2, <1>5, <1>6
  <2>3. Owed' = Owes(popped.list)
    BY <2>2 DEF Owed
  <2> QED
    BY <2>3, <1>3, <1>6 DEF MemoryMoves
<1>7. CASE \E p \in inflight, delay \in Delays :
             /\ Mapped(p)
             /\ inflight' = inflight \ {p}
             /\ Access(p)
             /\ respQueue' = Taken(Served(popped, p, delay))
  <2>1. PICK p \in inflight, delay \in Delays :
               /\ Mapped(p)
               /\ inflight' = inflight \ {p}
               /\ Access(p)
               /\ respQueue' = Taken(Served(popped, p, delay))
    BY <1>7
  <2>2. Apart(inflight, popped.list)
    BY <1>3, <1>4 DEF Apart
  <2>3. GoodQueue(Served(popped, p, delay)) /\ Between(Served(popped, p, delay))
    BY <2>1, <2>2, <1>2, <1>4, ServeKeeps, Zenon
  <2>4. respQueue'.list = Served(popped, p, delay).list
    BY <2>1, <2>3, <1>5, Zenon
  <2>5. InBar(p) /\ \A e \in Range(respQueue.list) : e.pkt.id # p.id
    BY <2>1, <1>4, MappedIsCell DEF InflightInv, Apart
  <2>6. {h} \in {{}} \cup {{x} : x \in Owed}
    BY <1>3
  <2> QED
    BY <2>1, <2>4, <2>5, <2>6, <1>2, <1>3, <1>4, ServePerforms, Zenon
<1> QED
  BY <1>1, <1>6, <1>7

\* A list with the same packets owes the same.
LEMMA SameOwed ==
  ASSUME NEW list, NEW new, DOMAIN new = DOMAIN list,
         \A i \in DOMAIN list : new[i].pkt = list[i].pkt
  PROVE  Owes(new) = Owes(list)
<1>1. \A i \in DOMAIN list : Answered(new[i]) = Answered(list[i])
  BY DEF Answered
<1>2. Owes(new) = {Answered(new[i]) : i \in DOMAIN list}
  BY DEF Owes, Range
<1>3. Owes(list) = {Answered(list[i]) : i \in DOMAIN list}
  BY DEF Owes, Range
<1> QED
  BY <1>1, <1>2, <1>3

\* A functional write reaches the cell and the answers owed for it.
LEMMA FunctionalMoves ==
  ASSUME ExpanderInv, NEW a \in Addresses, NEW v \in Values, FunctionalWrite(a, v)
  PROVE  MemoryMoves
<1> DEFINE q == respQueue
           off == Offset(a)
           upd(r) == IF r.addr = dev.bar.addr + off /\ r.data # NoData
                     THEN [r EXCEPT !.data = v] ELSE r
<1>1. /\ \E r \in announced : Covers(r, a)
      /\ respQueue' = [q EXCEPT !.list = OverwrittenList(q.list, a, v)]
      /\ mem' = [mem EXCEPT ![off] = v]
      /\ dev' = dev /\ restarts' = restarts
  BY DEF FunctionalWrite, OverwrittenList
<1>2. q \in Queue(Pkt) /\ q.list \in Seq(Entry(Pkt))
  BY DEF ExpanderInv, QueueInv, GoodQueue, Queue
<1>3. respQueue'.list = OverwrittenList(q.list, a, v)
  BY <1>1, <1>2 DEF Queue
<1>4. a \in Nat /\ off \in DOMAIN mem
  BY <1>1, RoutedIsCell DEF ExpanderInv, DeviceInv
<1>5. dev.bar.addr + off = a
  <2>1. dev.bar.addr \in Nat
    BY BarRangeEnds DEF ExpanderInv, DeviceInv
  <2> QED
    BY <2>1, <1>4 DEF Offset
<1>6. \A i \in DOMAIN q.list : Answered(Overwritten(q.list[i], a, v)) = upd(Answered(q.list[i]))
  <2> TAKE i \in DOMAIN q.list
  <2> DEFINE e == q.list[i]
             w == Overwritten(e, a, v)
  <2>1. e \in Entry(Pkt)
    BY <1>2
  <2>2. /\ w.pkt.id = e.pkt.id /\ w.pkt.addr = e.pkt.addr
        /\ w.pkt.data = IF e.pkt.addr = a /\ e.pkt.data # NoData THEN v ELSE e.pkt.data
    BY <2>1, OverwrittenEffect
  <2> SUFFICES Answered(w) = upd(Answered(e))
    OBVIOUS
  <2> HIDE DEF e, w, off
  <2>3. CASE e.pkt.addr = a /\ e.pkt.data # NoData
    BY <2>2, <2>3, <1>5 DEF Answered
  <2>4. CASE ~(e.pkt.addr = a /\ e.pkt.data # NoData)
    BY <2>2, <2>4, <1>5 DEF Answered
  <2> QED
    BY <2>3, <2>4
<1>7. Owed = {Answered(q.list[i]) : i \in DOMAIN q.list}
  BY DEF Owed, Owes, Range
<1>8. Owed' = {Answered(Overwritten(q.list[i], a, v)) : i \in DOMAIN q.list}
  <2>1. DOMAIN OverwrittenList(q.list, a, v) = DOMAIN q.list
    BY DEF OverwrittenList
  <2>2. \A i \in DOMAIN q.list : OverwrittenList(q.list, a, v)[i] = Overwritten(q.list[i], a, v)
    BY DEF OverwrittenList
  <2> QED
    BY <2>1, <2>2, <1>3 DEF Owed, Owes, Range
<1> HIDE DEF upd
<1>9. Owed' = {upd(r) : r \in Owed}
  BY <1>6, <1>7, <1>8
<1> QED
  BY <1>1, <1>4, <1>9, Zenon DEF MemoryMoves, Stays, upd

\* A refused response is still owed.
LEMMA SendRefusedMoves ==
  ASSUME NEW q, Sending(q), SendRefused(q), Stays
  PROVE  MemoryMoves
<1>1. respQueue'.list = respQueue.list /\ mem' = mem
  BY DEF Sending, GoodQueue, Queue, SendRefused, Refused
<1>2. Owed' = Owed
  BY <1>1 DEF Owed
<1> QED
  BY <1>1, <1>2 DEF MemoryMoves, Stays

\* Every step of the device is a step of the memory, or none.
LEMMA MoveStep == ExpanderInv /\ [Next]_vars => MemoryMoves
<1> SUFFICES ASSUME ExpanderInv, [Next]_vars
             PROVE  MemoryMoves
  OBVIOUS
<1>1. /\ DeviceInv /\ InflightInv /\ GoodQueue(respQueue)
      /\ Apart(inflight, respQueue.list)
  BY DEF ExpanderInv, QueueInv
<1>2. ASSUME respQueue' = respQueue, mem' = mem, restarts' = restarts
      PROVE  MemoryMoves
  BY <1>2 DEF MemoryMoves, Owed
<1>3. CASE \E v \in LowerValues : ConfigBar(1, v)
  BY <1>2, <1>3 DEF ConfigBar
<1>4. CASE \E v \in UpperValues : ConfigBar(2, v)
  BY <1>2, <1>4 DEF ConfigBar
<1>5. CASE \E on \in BOOLEAN : ConfigCommand(on)
  BY <1>2, <1>5 DEF ConfigCommand
<1>6. CASE Restore
  <2>1. Restored(dev.bar.size, Saved(dev)) = dev /\ DOMAIN mem = Cells(dev.bar.size)
    BY <1>1, DeviceTypes DEF DeviceInv
  <2>2. /\ dev' = dev /\ restarts' = restarts + 1 /\ DOMAIN mem' = DOMAIN mem
        /\ respQueue.list = <<>> /\ respQueue' = respQueue
    BY <1>6, <2>1 DEF Restore, Announce
  <2>3. Range(respQueue.list) = {}
    BY <2>2 DEF Range
  <2>4. Owed = {} /\ Owed' = Owed
    BY <2>2, <2>3 DEF Owed, Owes
  <2> QED
    BY <2>2, <2>4 DEF MemoryMoves
<1>7. CASE \E id \in Ids, o \in Operations, a \in Addresses : Request(id, o, a)
  BY <1>2, <1>7 DEF Request
<1>8. CASE \E p \in inflight, delay \in Delays : RecvTimingReq(p, delay)
  <2>1. PICK p \in inflight, delay \in Delays : RecvTimingReq(p, delay)
    BY <1>8
  <2>2. /\ Mapped(p) /\ Access(p) /\ Stays
        /\ respQueue' = Served(respQueue, p, delay)
    BY <2>1 DEF RecvTimingReq, Stays
  <2>3. InBar(p) /\ \A e \in Range(respQueue.list) : e.pkt.id # p.id
    BY <2>2, <1>1, MappedIsCell, Zenon DEF InflightInv, Apart
  <2>4. Owes(respQueue.list) = Owed \ {}
    BY DEF Owed
  <2>5. {} \in {{}} \cup {{x} : x \in Owed}
    OBVIOUS
  <2>6. respQueue'.list = Served(respQueue, p, delay).list
    BY <2>2
  <2> QED
    BY <2>2, <2>3, <2>4, <2>5, <2>6, <1>1, ServePerforms, Zenon
<1>9. CASE ProcessSendEvent
  <2> DEFINE q == [respQueue EXCEPT !.event = Unscheduled]
  <2>1. /\ respQueue.event = 0 /\ UNCHANGED <<dev, announced>> /\ Stays
        /\ SendTaken(q) \/ SendRefused(q)
    BY <1>9 DEF ProcessSendEvent, Stays
  <2>2. Sending(q)
    BY <2>1, SendsFromInv
  <2> HIDE DEF q
  <2> QED
    BY <2>1, <2>2, SendTakenMoves, SendRefusedMoves
<1>10. CASE RetryTaken
  <2> DEFINE q == [respQueue EXCEPT !.waiting = FALSE]
  <2>1. respQueue.waiting /\ UNCHANGED <<dev, announced>> /\ Stays /\ SendTaken(q)
    BY <1>10 DEF RetryTaken, Stays
  <2>2. Sending(q)
    BY <2>1, SendsFromInv
  <2> HIDE DEF q
  <2> QED
    BY <2>1, <2>2, SendTakenMoves
<1>11. CASE RetryRefused
  <2> DEFINE q == [respQueue EXCEPT !.waiting = FALSE]
  <2>1. respQueue.waiting /\ Stays /\ SendRefused(q)
    BY <1>11 DEF RetryRefused, Stays
  <2>2. Sending(q)
    BY <2>1, SendsFromInv
  <2> HIDE DEF q
  <2> QED
    BY <2>1, <2>2, SendRefusedMoves
<1>12. CASE Elapse
  <2>1. /\ respQueue.event # 0 /\ respQueue' = Elapsed(respQueue)
        /\ restarts' = restarts /\ mem' = mem
    BY <1>12 DEF Elapse
  <2>2. /\ respQueue \in Queue(Pkt) /\ InOrder(respQueue.list) /\ Attended(respQueue)
    BY DEF ExpanderInv, QueueInv, GoodQueue
  <2>3. /\ DOMAIN Elapsed(respQueue).list = DOMAIN respQueue.list
        /\ \A i \in DOMAIN respQueue.list :
             Elapsed(respQueue).list[i].pkt = respQueue.list[i].pkt
    BY <2>1, <2>2, ElapsedEffect
  <2>4. Owes(Elapsed(respQueue).list) = Owes(respQueue.list)
    BY <2>3, SameOwed
  <2>5. Owed' = Owed
    BY <2>1, <2>4 DEF Owed
  <2> QED
    BY <2>1, <2>5 DEF MemoryMoves
<1>13. CASE \E a \in Addresses, v \in Values : FunctionalWrite(a, v)
  BY <1>13, FunctionalMoves
<1>14. CASE UNCHANGED vars \/ Stopped
  BY <1>2, <1>14 DEF vars, Stopped
<1>15. CASE \E p \in inflight : AssertFails(p)
  BY <1>2, <1>15 DEF AssertFails
<1> QED
  BY <1>3, <1>4, <1>5, <1>6, <1>7, <1>8, <1>9, <1>10, <1>11, <1>12, <1>13, <1>14,
     <1>15 DEF Next

\* Wherever the guest moves the BAR, and whenever, the memory expander behind its
\* port is one memory: every operation takes effect once, when it arrives, and
\* its response carries what the cell held then.  Only a restart from a
\* checkpoint changes cells by itself.
THEOREM ExpanderImplementsMemory == Spec => ImplementsMemory
<1>1. Init => Memory!MemInit
  <2> SUFFICES ASSUME Init PROVE Memory!MemInit
    OBVIOUS
  <2>1. respQueue.list = <<>>
    BY DEF Init, EmptyQueue
  <2>2. Range(respQueue.list) = {}
    BY <2>1 DEF Range
  <2> QED
    BY <2>2 DEF Memory!MemInit
<1>2. ExpanderInv /\ [Next]_vars => [Memory!MemNext]_(Memory!memVars)
  BY MoveStep, MovesAreSteps
<1> QED
  BY <1>1, <1>2, ExpanderInvariant, PTL DEF Spec, ImplementsMemory, Memory!MemSpec
=============================================================================
