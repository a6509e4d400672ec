----------------------------- MODULE CxlMemory -----------------------------
(***************************************************************************)
(* A CXL memory expander as an endpoint: dev/cxl_memory.{hh,cc} on top of  *)
(* PciDevice (PciDevice.tla), its pio port (dev/io_device.hh, mem/tport.cc *)
(* and PacketQueue.tla), and the host bridge dev/pci/host.cc through which *)
(* the guest reaches its configuration registers.                          *)
(*                                                                         *)
(* The neighbour routes by the ranges it fetched at the last               *)
(* sendRangeChange.  A request it routed reaches the port some time later, *)
(* when the guest may have moved the BAR: Memory::access then asserts that *)
(* the packet is inside it, and the simulator stops if it is not.          *)
(***************************************************************************)
EXTENDS PciDevice, PacketQueue

CONSTANTS
  Sizes,        \* sizes a BAR may be configured with
  LowerValues,  \* what the guest writes to the lower register
  UpperValues,  \* and to the upper one
  Ids,          \* bound on the requests that are outstanding at a time
  Operations,   \* what requests ask for: [op, val, cond]
  Values,       \* of a memory cell
  Latency,      \* latency + cxl_mem_latency
  Delays,       \* header and payload delay of a request
  MaxRestarts   \* bound on the restarts from a checkpoint

ASSUME EndpointAssumption ==
  /\ \A size \in Sizes : BarSize(size)
  /\ LowerValues \subseteq Words /\ UpperValues \subseteq Words
  /\ Latency \in Nat /\ Delays \subseteq Nat /\ MaxRestarts \in Nat

\* What an operation stores is the value of a cell again.
ASSUME OperationAssumption ==
  /\ Values \subseteq Nat
  /\ \A o \in Operations :
       /\ o.op \in {"read", "clean", "write", "swap", "condswap", "atomic"}
       /\ o.val \in Values
       /\ o.op = "atomic" => \A v \in Values : (v + o.val) % (1 + o.cond) \in Values

VARIABLES
  dev,          \* the registers and the BAR
  announced,    \* the ranges the neighbour fetched
  mem,          \* the first and the last cell of pmemAddr, by offset
  inflight,     \* requests routed to the device that have not arrived
  respQueue,    \* the queue of responses
  restarts,     \* how often the simulation was started from a checkpoint
  aborted       \* has an assertion failed?

vars == <<dev, announced, mem, inflight, respQueue, restarts, aborted>>

NoData == -1

Cells(size) == {0, size - 1}

Init ==
  \E size \in Sizes :
    /\ dev = NewDevice(size)
    /\ announced = AddrRanges(NewDevice(size))
    /\ mem \in [Cells(size) -> Values]       \* new uint8_t[]: not initialised
    /\ inflight = {}
    /\ respQueue = EmptyQueue
    /\ restarts = 0
    /\ aborted = FALSE

-----------------------------------------------------------------------------
(* The configuration registers *)

\* writeConfig ends with sendRangeChange: the neighbour asks for the ranges.
Announce(d) == dev' = d /\ announced' = AddrRanges(d)

ConfigBar(i, val) ==
  /\ ~aborted
  /\ Announce(WriteBaseAddr(dev, i, val))
  /\ UNCHANGED <<mem, inflight, respQueue, restarts, aborted>>

ConfigCommand(on) ==
  /\ ~aborted
  /\ Announce(WriteCommand(dev, on))
  /\ UNCHANGED <<mem, inflight, respQueue, restarts, aborted>>

\* A drained system is saved, and a simulation starts from the checkpoint; the
\* one that was saved goes on in another behaviour.  The contents are not part
\* of a checkpoint.
Restore ==
  /\ ~aborted
  /\ restarts < MaxRestarts
  /\ inflight = {} /\ respQueue.list = <<>>
  /\ restarts' = restarts + 1
  /\ Announce(Restored(dev.bar.size, Saved(dev)))
  /\ mem' \in [DOMAIN mem -> Values]
  /\ UNCHANGED <<inflight, respQueue, aborted>>

-----------------------------------------------------------------------------
(* Requests and responses *)

\* The request of a packet that is in flight or in the queue
Packets == inflight \cup {respQueue.list[i].pkt : i \in DOMAIN respQueue.list}

\* The neighbour routes a request.
Request(id, o, a) ==
  /\ ~aborted
  /\ id \notin {p.id : p \in Packets}
  /\ \E r \in announced : Covers(r, a)
  /\ inflight' = inflight \cup {[id |-> id, o |-> o, addr |-> a, data |-> NoData]}
  /\ UNCHANGED <<dev, announced, mem, respQueue, restarts, aborted>>

\* Memory::access takes the range from the BAR at every access: is a packet
\* inside it, and where (toHostAddr)?
Mapped(p) == Covers(BarRange(dev.bar), p.addr)

Offset(a) == a - dev.bar.addr

\* Mutant: an atomic operation overflows its cell.
StoredWide(p, v) ==
  CASE p.o.op = "atomic" -> v + p.o.val
    [] p.o.op = "swap" -> p.o.val
    [] p.o.op = "condswap" -> IF v = p.o.cond THEN p.o.val ELSE v
    [] p.o.op \in {"read", "clean"} -> v
    [] p.o.op = "write" -> p.o.val

\* Memory::access: what a packet leaves in its cell ...
Stored(p, v) ==
  CASE p.o.op = "atomic" -> (v + p.o.val) % (1 + p.o.cond)
    [] p.o.op = "swap" -> p.o.val
    [] p.o.op = "condswap" -> IF v = p.o.cond THEN p.o.val ELSE v
    [] p.o.op \in {"read", "clean"} -> v
    [] p.o.op = "write" -> p.o.val

\* Mutant: a swap or an atomic operation returns what it stored.
LoadsAfterStore(p, v) ==
  IF p.o.op \in {"atomic", "swap", "condswap", "read"}
  THEN [p EXCEPT !.data = Stored(p, v)] ELSE p

\* ... and the data it takes along.
Loaded(p, v) ==
  IF p.o.op \in {"atomic", "swap", "condswap", "read"} THEN [p EXCEPT !.data = v] ELSE p

Access(p) == mem' = [mem EXCEPT ![Offset(p.addr)] = Stored(p, @)]

\* recvTimingReq: the response waits for the latency of the device and the
\* delays of the request.
Served(q, p, delay) ==
  SchedSendTiming(q, Loaded(p, mem[Offset(p.addr)]), Latency + delay)

RecvTimingReq(p, delay) ==
  /\ ~aborted
  /\ p \in inflight
  /\ Mapped(p)
  /\ inflight' = inflight \ {p}
  /\ Access(p)
  /\ respQueue' = Served(respQueue, p, delay)
  /\ UNCHANGED <<dev, announced, restarts, aborted>>

\* "assert(pkt->getAddrRange().isSubset(range))" fails when p arrives, by itself
\* or while a response is sent: the process ends, with whatever it held.
AssertFails(p) ==
  /\ ~aborted
  /\ p \in inflight
  /\ ~Mapped(p)
  /\ aborted' = TRUE
  /\ UNCHANGED <<dev, announced, mem, inflight, respQueue, restarts>>

\* The first response is sent, from the event or at a retry: q is the queue
\* without the event or the retry.  The peer takes it, and may send a request
\* before it returns.
SendTaken(q) ==
  LET popped == [q EXCEPT !.list = Tail(@)]
  IN  \/ /\ respQueue' = Taken(popped)
         /\ UNCHANGED <<mem, inflight>>
      \/ \E p \in inflight, delay \in Delays :
           /\ Mapped(p)
           /\ inflight' = inflight \ {p}
           /\ Access(p)
           /\ respQueue' = Taken(Served(popped, p, delay))

SendRefused(q) ==
  /\ respQueue' = Refused(q)
  /\ UNCHANGED <<mem, inflight>>

\* deferredPacketReady
Ready(q) == q.list # <<>> /\ Head(q.list).tick = 0

ProcessSendEvent ==
  LET q == [respQueue EXCEPT !.event = Unscheduled]
  IN  /\ ~aborted
      /\ respQueue.event = 0
      /\ Ready(q)
      /\ SendTaken(q) \/ SendRefused(q)
      /\ UNCHANGED <<dev, announced, restarts, aborted>>

\* recvRespRetry
RetryTaken ==
  LET q == [respQueue EXCEPT !.waiting = FALSE]
  IN  /\ ~aborted
      /\ respQueue.waiting
      /\ Ready(q)
      /\ SendTaken(q)
      /\ UNCHANGED <<dev, announced, restarts, aborted>>

RetryRefused ==
  LET q == [respQueue EXCEPT !.waiting = FALSE]
  IN  /\ ~aborted
      /\ respQueue.waiting
      /\ Ready(q)
      /\ SendRefused(q)
      /\ UNCHANGED <<dev, announced, restarts, aborted>>

\* A tick passes, once what is to happen in this one has happened.
Elapse ==
  /\ ~aborted
  /\ respQueue.event # 0
  /\ respQueue' = Elapsed(respQueue)
  /\ respQueue' # respQueue
  /\ UNCHANGED <<dev, announced, mem, inflight, restarts, aborted>>

\* Packet::trySatisfyFunctional of a queued response
Overwritten(e, a, v) ==
  IF e.pkt.addr = a /\ e.pkt.data # NoData THEN [e EXCEPT !.pkt.data = v] ELSE e

\* recvFunctional of a write: the queued responses with data of that address,
\* then the memory
FunctionalWrite(a, v) ==
  /\ ~aborted
  /\ \E r \in announced : Covers(r, a)
  /\ respQueue' =
       [respQueue EXCEPT !.list =
          [i \in DOMAIN respQueue.list |-> Overwritten(respQueue.list[i], a, v)]]
  /\ mem' = [mem EXCEPT ![Offset(a)] = v]
  /\ UNCHANGED <<dev, announced, inflight, restarts, aborted>>

-----------------------------------------------------------------------------
(* The specification *)

\* The addresses of the two cells in the ranges the neighbour knows
Addresses == UNION {{r.start, r.end - 1} : r \in announced}

\* Nothing runs any more.
Stopped == aborted /\ UNCHANGED vars

Next ==
  \/ \E v \in LowerValues : ConfigBar(1, v)
  \/ \E v \in UpperValues : ConfigBar(2, v)
  \/ \E on \in BOOLEAN : ConfigCommand(on)
  \/ Restore
  \/ \E id \in Ids, o \in Operations, a \in Addresses : Request(id, o, a)
  \/ \E p \in inflight, delay \in Delays : RecvTimingReq(p, delay)
  \/ \E p \in inflight : AssertFails(p)
  \/ ProcessSendEvent
  \/ RetryTaken
  \/ RetryRefused
  \/ Elapse
  \/ \E a \in Addresses, v \in Values : FunctionalWrite(a, v)
  \/ Stopped

Spec == Init /\ [][Next]_vars

-----------------------------------------------------------------------------
(* Properties *)

\* Registers, BAR, ranges, packets and queue have their types, and a packet
\* that is inside the BAR, wherever that was moved, is for a cell.
TypeOK ==
  /\ dev.bar.size \in Sizes
  /\ dev.bar.lower \in Words /\ dev.bar.upper \in Words
  /\ dev.bar.addr \in 0 .. Top - 1
  /\ dev.memorySpace \in BOOLEAN /\ dev.baseAddr \in Words \X Words
  /\ mem \in [Cells(dev.bar.size) -> Values]
  /\ \A p \in Packets : p.id \in Ids /\ p.o \in Operations
                        /\ p.data \in Values \cup {NoData}
  /\ \A p \in inflight : Mapped(p) => Offset(p.addr) \in Cells(dev.bar.size)
  /\ \A i \in DOMAIN respQueue.list : respQueue.list[i].tick \in Nat
  /\ respQueue.event \in Nat \cup {Unscheduled}
  /\ respQueue.waiting \in BOOLEAN
  /\ restarts \in 0 .. MaxRestarts
  /\ aborted \in BOOLEAN

\* The registers alone determine where the BAR is: a device that is built and
\* unserialized from them, lower half first, is this one.
RestoreIsFaithful == Restored(dev.bar.size, Saved(dev)) = dev

\* A guest that finds the size of the BAR by writing ones to both registers
\* reads back the right size, and gets the old place by writing the registers
\* as it had read them.
SizingWorks ==
  LET ones == WriteBaseAddr(WriteBaseAddr(dev, 1, Half - 1), 2, Half - 1)
      old == dev.baseAddr
  IN  /\ Top - (ones.baseAddr[2] * Half + Masked(ones.baseAddr[1], 8)) = dev.bar.size
      /\ WriteBaseAddr(WriteBaseAddr(ones, 1, old[1]), 2, old[2]) = dev
      /\ WriteBaseAddr(WriteBaseAddr(ones, 2, old[2]), 1, old[1]) = dev

\* While responses wait, exactly one thing will send the first: the event or
\* the retry of the peer.  It finds that response ready ("assert(
\* deferredPacketReady())"), and the event comes in the tick in which the
\* response is ready, or in the next one.  Responses leave in the order of their ticks.
FirstResponseIsSent ==
  LET q == respQueue
  IN  /\ (q.list # <<>>) = (q.waiting \/ q.event # Unscheduled)
      /\ ~(q.waiting /\ q.event # Unscheduled)
      /\ q.waiting => Ready(q)
      /\ q.event # Unscheduled => /\ Head(q.list).tick <= q.event
                                 /\ q.event <= Max({1, Head(q.list).tick})
      /\ \A i, j \in DOMAIN q.list : i < j => q.list[i].tick <= q.list[j].tick

Memory ==
  INSTANCE MemoryDevice
    WITH base <- dev.bar.addr,
         cell <- mem,
         owed <- {[id |-> e.pkt.id, addr |-> e.pkt.addr, data |-> e.pkt.data] :
                    e \in Range(respQueue.list)},
         starts <- restarts

\* Wherever the guest moves the BAR, with requests and responses under way, the
\* device is one memory: a read, swap or atomic operation returns what the
\* last operation that arrived before it left at that offset, and each is
\* answered once, with that value, although responses overtake each other and
\* requests arrive while one is sent.  Contents are lost at a restart only.
ImplementsMemory == Memory!MemSpec

\* Time passes and the event queue runs events; what was routed arrives; a
\* peer that refused a response retries and in the end takes it.
Fairness ==
  /\ WF_vars(Elapse)
  /\ WF_vars(ProcessSendEvent)
  /\ WF_vars(RetryTaken)
  /\ \A id \in Ids :
       WF_vars(\E p \in inflight : /\ p.id = id
                                   /\ \/ \E delay \in Delays : RecvTimingReq(p, delay)
                                      \/ AssertFails(p))

FairSpec == Spec /\ Fairness

\* Every request is answered, unless the guest moved the BAR away from a request
\* under way and the assertion of Memory::access has stopped the simulator.
EveryRequestAnswered ==
  \A id \in Ids :
    (\E p \in Packets : p.id = id) ~> (aborted \/ \A p \in Packets : p.id # id)
=============================================================================
