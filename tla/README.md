# Verification of the PCI Express parts of gem5-for-CXL

gem5-for-CXL adds to gem5 a PCI Express fabric and a CXL memory expander that
sits behind it. This directory holds TLA+ models of that fabric and of the event
queues that drive it, the TLC instances that check them, and TLAPS proofs of what
matters most. Paths below are relative to `src/gem5/src/dev/` unless they start
with `src/`, `sim/`, `mem/` or `base/`; the last three are under `src/gem5/src/`.

## The system

```
 CPU / memory bus
      |
 RootComplex (PciBridge2) --pcie1-- switch (PciBridge2) --pcie4-- CxlMemory
      |      \--pcie2--                      |    \--pcie5--
      \--pcie3-- CxlMemory                   \--pcie6--
```

The topology is that of `src/gem5/configs/common/FSConfig.py:229`. The fabric
runs in one of the simulator's event queues: one handler at a time, each to its
end. Its concurrency is in the order of the events and in the calls that peers
make from inside a handler (retries). The event queues themselves run in threads
of their own, one for each queue, which meet at barriers.

### Inventory

| part | state | operations | what is hard about it |
|---|---|---|---|
| Link (`pcie_link.{hh,cc}`) | per interface: packet on the wire, propagation queue, replay buffer, sequence numbers, pending TLP and Ack, two timers, retry flags | `transmit`, `txDone`, `processTxQueue`, `linkReceiveInterface`, `linkTransmitInterface`, `timeoutFunc`, `sendAck` | replays race Acks; Acks delete packets; one wire for TLPs, Acks and replays; three reasons to refuse a packet; `uint64_t` and `int` sequence numbers |
| Bridge, forwarding (`PciBridge2.{hh,cc}`) | per port: `transmitList`, `sendEvent`, `outstandingResponses`, `retryReq`; per packet: requester bus | `recvTimingReq`, `recvTimingResp`, `trySendTiming`, `retryStalledReq`, `recvReqRetry`, `recvRespRetry`, `schedTiming*`, `getRequestPort`, `getResponsePort` | credits over two hops; stalls lifted by other ports' traffic; responses routed by bus number; ticks |
| Bridge, registers (`config_class`) | header and capability registers, `valid_*`, `is_valid` | `readConfig`, `writeConfig`, window getters, `getAddrRanges`, `serialize`, `unserialize` | windows programmed in several writes; widths and masks; ranges recomputed on each change |
| PCI host (`pci/host.cc`) | maps of devices and of bridges | `registerDevice`, `registerBridge`, `read`, `write`, `decodeAddress`, interrupt mapping | which map an access is looked up in |
| Endpoint (`pci/device.cc`) | config space, BARs, capabilities | `readConfig`, `writeConfig`, BAR sizing, checkpointing | 64-bit BARs in two halves, ranges |
| CXL memory (`cxl_memory.cc`) | backing store, BAR 0 | `read`, `write`, `access` | address translation while the BAR moves, conditional swap |
| Response queue (`mem/packet_queue.cc`, `mem/tport.cc`) | `transmitList`, `sendEvent`, `waitingOnRetry` | `schedSendTiming`, `sendDeferredPacket`, `retry`, `trySatisfyFunctional` | who sends the first packet; peers that send a request while they take a response |
| Event queues (`sim/eventq.cc`, `sim/global_event.cc`, `sim/simulate.cc`) | bins and stacks of events, flags, `async_queue`, barriers, threads | `insert`, `remove`, `serviceOne`, `schedule`, `handleAsyncInsertions`, `simulate`, `exitSimLoop` | stale pointers in the bins; events posted to a queue that runs ahead; global events that need the same order everywhere |
| Stub bridge (`PciBridge.cc`) | none | handlers that do nothing | not used |

## Modules

| module | models |
|---|---|
| `PCIELink` | the link: both interfaces, all handlers |
| `ReliableLink` | what one direction of a link promises: a first-in first-out channel |
| `MCPCIELink` | instances of the link for TLC |
| `PCIELinkProofs`, `PCIELinkService` | proofs about the link: its packets and Acks; what waits for it, and the channels it implements |
| `PciBridge2` | forwarding in the root complex and in the switch |
| `MCPciBridge2` | instances of the bridge for TLC |
| `PciBridge2Lemmas`, `PciBridge2Proofs` | proofs about forwarding |
| `BridgeConfig` | registers of a bridge, their windows, announced ranges and routing by address |
| `MCBridgeConfig`, `BridgeConfigProofs` | an instance for TLC, and proofs |
| `PacketQueue` | the queue of responses of a port (operators) |
| `PciDevice` | Command and a 64-bit BAR of a device (operators) |
| `CxlMemory` | the memory expander: device, port and memory together |
| `MemoryDevice` | what it promises: one array of cells, each request answered once |
| `MCCxlMemory` | an instance for TLC |
| `PciDeviceProofs`, `PacketQueueProofs`, `CxlMemoryProofs` | proofs about the registers, the queue, and the expander that uses both |
| `EventQueue` | the event queues, global events and the simulation loop, with threads |
| `EventOrder` | what the queues promise: sorted sequences |
| `MCEventQueue` | an instance for TLC |

### PCIELink

`link[l]` is one C++ object `PCIELink::Link`; its fields keep the source's names.
`doneEvent` is scheduled exactly when `packet` is not NULL, so it is no field of
its own. `accepted` and `delivered` are history: what the device handed over and
what it was given.

A handler is an operator from the state of one interface to its next state, and a
handler that calls another is the composition of the two: `Retry` in
`ReceiveDLLP` re-enters `LinkTransmitInterface`, as `sendRetryReq()` does in the
code. The actions are the events and the calls of the devices.

| action | code |
|---|---|
| `Send` | `recvTimingReq`, `recvTimingResp`, `linkTransmitInterface` |
| `TxDone` | `doneEvent`: `txDone` and, without delay, `txComplete` and `linkReceiveInterface` of the other end |
| `TxDoneDelayed`, `ProcessTxQueue` | the same with a propagation delay, through `txQueue` |
| `Timeout`, `SendAck` | `timeoutEvent`, `ackEvent` |
| `ReadFreed` | a deleted TLP that is still on the wire is read |

An Ack deletes the TLPs it covers even if a replay of one of them is on the
wire. What the next read of such a packet gives is undefined in C++. The model
has both outcomes: the memory is intact and the ordinary actions go on, or it was
reused and `undefined` becomes true, after which nothing is claimed.

`txDone` increments `retransmitIdx` also when a pending Ack has just taken the
wire, so that a replay skips that entry, although the comment at
`pcie_link.cc:360` speaks of the next packet of the buffer; Acks that remove
entries during a replay make it skip others. The model has both, and
`EventuallyDelivered` says that a later replay makes up for it.

Abstracted: durations (a scheduled event may fire at any moment, so every order
of events is covered, also orders real delays exclude) and packet contents (a kind
and an identity).

### PciBridge2

Ports 0 to 3 are the response ports (0 upstream, 1 to 3 for DMA) and the request
ports (0 is `requestPort_DMA`, 1 to 3 downstream). `Offer`, `SendReq`,
`RecvTimingResp` and `SendResp` are the calls of peers and the send events;
`Replay` is a link at a response port, which ignores retries and offers its TLP
again on a timeout. The retries at the end of `trySendTiming` re-enter
`recvTimingReq` in the same step. A packet that completed may be issued again, so
the model never stops and deadlock is checked.

The window and bus registers are constants here, and `BridgeConfig` is about the
window registers. `bridge` takes them as an enumeration would leave them,
`bridge_unenumerated` as the constructor does. In the present tree `GenericPciHost` dispatches configuration accesses to devices
only (`pci/host.cc:162`), and nothing else calls `config_class::writeConfig`: the
results of `bridge` are about the forwarding code with programmed
registers, which today's host cannot produce.

Ticks are left out: a send event that is scheduled may run at any moment. The code
computes the tick of the event from durations only (`PciBridge2.cc:836`; the
commented-out line above prints `clockEdge(delay) + receive_delay`), which the
assertion in `schedule()` (`sim/eventq.hh:759`) rejects once the simulation has run
longer than that. The model stands for a bridge whose events are accepted.

### BridgeConfig

`conf[i]` is one `config_class`: 1 to 3 for the downstream ports, 0 for the
upstream port of a switch (`storage_ptr4`). A register is held in units of its
granule, without the low four bits that no getter uses. `announced[r]` is what
the neighbour of response port r got when it last asked for ranges.

`WriteConfig` is `config_class::writeConfig` with one element of `ByteWrites`,
`WordWrites` or `LongWrites` for each branch that concerns a window: which
registers it stores, which `valid_*` flags it sets, and whether it sets `flag`,
which at the end sends range changes. Branches for other registers are
`OtherWrite`. `Restore` is a checkpoint and a new process. `GetAddrRanges`
follows `fill_ranges` and the complement for the DMA ports, address for address,
with the wrap of `RangeIn`; `GetRequestPort` follows the routing, which does not
look at the flags.

The product `stored_base * PREFETCH_BASE_SHIFT` overflows an `int` from 2 GB on.
`SignExtends` says which of the outcomes a build has.

What the model shows of the code, beyond the properties that hold:

- The ranges of a DMA port are not the complement of its windows (finding 6).
  `DmaAvoidsOwnWindows` is what remains of it: no address of the windows is
  announced, and all below them are.
- The IO registers start up as a window of 4 KB that routing takes for a
  programmed one; port 1 claims it. `OwnerGetsTheRequest` has to except it.
- A prefetchable window is the one written only for upper limits that fit in 16
  bits and lower halves below 2 GB. `WindowAsWritten` states that as its
  precondition, and says nothing about the others.
- Writes to the PCI Express capability are never stored (the condition at
  `PciBridge2.cc:668` is never true), and a 32-bit write to Command does not keep
  INTx disabled, as line 434 does. No window depends on either.

### PciDevice, PacketQueue, CxlMemory

`PciDevice` and `PacketQueue` are operators on records; `CxlMemory` holds the
state and the actions. `ConfigBar` and `ConfigCommand` are configuration writes
that end with `sendRangeChange()`; `Restore` is a checkpoint and a new process,
in which the memory, not being part of a checkpoint, has any contents. `Request`
is the neighbour, which routes by the ranges it last fetched. `RecvTimingReq`
accesses the memory at once and queues the response. `ProcessSendEvent`,
`RetryTaken` and `RetryRefused` send the first response; a peer that takes one
may send its next request from inside the call (`SendTaken`). `FunctionalWrite`
updates queued responses and the memory. `Elapse` is the clock.

A cell is a byte, or the word of an atomic operation; the first and the last
cell of the memory are modelled. Nothing in `writeConfig` keeps the guest from
moving or disabling the BAR while requests are under way, and the model does not
either: a request that is still inside the BAR when it arrives is served at the
offset it has then, and for one that is not the assertion at `cxl_memory.cc:71`
fails (`AssertFails`) and the simulator stops. `MemoryDevice` follows: the place of
the memory may change at any moment, its contents only by an operation or at a
restart.

### EventQueue

`list` holds the C++ pointers: `head`, `nextBin`, `nextInBin` and `_when`,
including the stale `nextBin` of events that are not on top of their bin.
`Contents` walks the pointers as `serviceOne` would, and `ImplementsOrder` says
that what it finds behaves as a sorted sequence (`EventOrder`).

A thread is a program counter. `SetMaxTick`, `MakeQuantumEvent`, `StartThreads`
and `LeaveLoop` are `simulate()` in the thread of Python and `thread_main` in the
others; `EnterLoop`, `ServiceOne`, `Trigger`, `Woken` and `Pass` are the loop with
the two barriers of a global event; the rest is what the `process()` of a
component's event may do: schedule, deschedule, reschedule or squash events of
its own queue, post an event to the other, ask for an exit. `asyncInsert` and the
assignment of `Scheduled` after it are two steps (`ScheduleRemote` or
`PostGlobal`, then `SetScheduled`).

`ExitSimLoop` makes a new global event, for which the thread needs `globalQMutex`
(`LockGlobal`) until the local events of all queues are posted; several exits may
be pending, asked for by both threads at once and for the same tick.

One assumption: an event for another queue is at least a quantum away, which
`sim/eventq.hh:65` requires of components. Two properties hold in the instance of
`event_queues` and not in every one, which the runs `event_limit` and `event_flag`
show (findings 4 and 5): `SameBarrier` takes a limit that does not meet a pending
exit, and `ScheduledIsQueued` an event that does not come before the end of the
quantum it is posted for.

## Runs

| run | instance | shows |
|---|---|---|
| `link_safety` | 3 and 2 packets, buffers of 2, no delay; 1.2 million states | order, no loss, no forgotten timer, waiter or retry, no buffer overflow, no unearned Ack |
| `link_live` | 2 and 1 packets, buffers of 2, delay; 129 thousand states | each direction implements `ReliableLink`; everything offered is delivered |
| `bridge` | 6 requests on 4 ports, queues of 2, 1 response owed per port; 19 thousand states | credits, routing of responses, room for responses, no lost retry, one wake-up per list; every request is taken and answered |
| `bridge_config` | 2 downstream ports, 3 writes of any kind, restarts, root complex and switch; 58 thousand states | announced ranges are never outdated; requests go to the port programmed for them; DMA requests are not for the port's own windows; windows are as written |
| `endpoint` | a BAR larger than a word that moves at any moment, 2 requests, refusals, delays, one restart; 410 thousand states | checkpoints and sizing of the BAR; the first response always has a sender; the device is one memory; every request is answered, or has stopped the simulator |
| `event_queues` | 2 threads, 5 events of components, 2 operations, 2 exits, 2 calls of `simulate()`; 82 thousand states | the lists are sorted sequences; flags agree with the lists; no event in the past; no thread left at a barrier; `simulate()` returns |
| `link_ack_underflow` | 2 and 1 packets, buffers of 2, no delay; the first packet may be refused | finding 1 |
| `link_dangling` | the same, the first packet is not refused | finding 2 |
| `bridge_unenumerated` | registers as constructed | finding 3 |
| `event_limit` | as `event_queues`, the second limit at the tick of an exit | finding 4 |
| `event_flag` | two events that the threads post to each other | finding 5 |
| `dma_complement` | as `bridge_config` | finding 6 |

Why the bounds are enough to be interesting:

- Three packets through a buffer of two entries fill the buffer, with one more
  packet to turn down; two packets the other way make Acks compete with TLPs and
  replays. The device at one end offers both requests and responses.
- With two packets one way and a buffer that holds both, `link_live` has Acks that
  remove the first entry while a replay is at the second, timeouts that race Acks,
  refused packets and devices that wait.
- Sequence numbers are modulo 32, with 8 as the first number that is not an
  `int`: no run reaches the truncation, and -1 is distinguishable from every
  number in use.
- Two requests of the processor, or of the device behind port 2, exceed the one
  response a port may owe; those of the processor and a request from device to
  device share queue 1; the devices' requests to memory exceed queue 0. `d2` is
  posted (no response), `f1` comes from a switch that has numbered it. The theorems
  lift the bounds, for the safety properties.
- `bridge_config` scales words: 2^32 is 8 and 1 MB is 2, so that an address has 64
  values and every property can look at all of them. The values written lie on
  both sides of 2 GB and of 16 bits of upper half, and a memory and an IO window
  can overlap or touch. Three writes leave windows half written, complete one, or
  change one that was announced. The theorems about this module lift the bounds.
- `endpoint` has words of 16 values and a BAR of 32, so that the upper half has a
  fixed bit too; it is moved, sized and disabled with ones written to the lower
  half and ones and zeros to the upper, while requests are under way, and two
  delays let a later response overtake an earlier one. The operations are the three
  that tell each other's results apart: write, conditional swap and an atomic
  addition. The theorems have all sizes, values and operations.
- `event_queues` has a quantum of 2 and limits of 2 and 5, so that exits, limits
  and ends of quanta fall on the same tick or on either side; both threads may ask
  for an exit at once, for the same tick, and contend for the mutex; three events
  of one queue form bins of up to three, and two operations remove and insert in
  them. The second limit is later than every exit asked for before the first, which
  is what `event_limit` changes.

The link runs do not check deadlock: the devices offer a bounded number of
packets and then the system rests.

### Fairness

Liveness of the link assumes weak fairness of each event that the code schedules
(the event queue is served in time order and time advances) and that a device to
which a packet is offered again and again takes it at last (strong fairness of
`Takes`). There is no fairness on new packets. Liveness of the bridge assumes the
same of its events, that peers take what they are offered at last, that requests
are answered, and that a link's replays do not for ever come at a moment when the
bridge is full (strong fairness of `Enters`). The last one is an assumption about
timing, not about the code, and it is not always enough: the ports are retried in
a fixed order, the processor's first and from inside `trySendTiming`. If port 0 may
owe more responses than a queue takes requests (`resp_size` above `req_size`; both
are 16 by default), a busy processor fills each slot as it becomes free, a link
never finds one, and `EveryRequestCompletes` is violated, against the comment
"avoid a request being infinitely stalled" at `PciBridge2.cc:920`. `bridge` has
`RespLimit` below `ReqLimit`; equal limits pass as well.

Liveness of the endpoint assumes that time passes and events run, that a request
which was routed arrives (and is served, or trips the assertion), and that a peer which refused a response retries and
takes it (weak fairness of each). Liveness of `simulate()` assumes that the
operating system runs every thread that can run, and that the `process()` of an
event returns: what it does to the queues is left open, and it may do nothing.

## Proofs

`PCIELinkProofs` proves, for every buffer size, with and without delay, for any
number of packets in flight:

| theorem | states |
|---|---|
| `Invariance` | `Spec => []IndInv` |
| `TypeCorrect` | `Spec => []TypeOK` |
| `DeliversInOrder` | `Spec => []InOrderDelivery` |
| `LosesNothing` | `Spec => []NoLoss` |
| `NeverOverflows` | `Spec => []BufferHasRoom` |
| `NoUnearnedAck` | `Spec => []AcksAreEarned` |

Each assumes `Regular`: a device does not refuse the very first packet of a
link, and no more packets are sent than an `int` can number. Without the first
`link_ack_underflow` shows packets being lost; without the second an Ack is
sign-extended. The other assumption is `ConstantsAssumption` of `PCIELink`.

None of the invariants is inductive. `IndInv` adds

- `InterfaceInv`, for each interface by itself: the index of a replay is within the
  buffer's size (`ReplayIndex`); the buffer and the pending TLP hold consecutive
  numbers up to the last one given out, each with the packet it was given to
  (`Numbered`); there is room for the pending TLP (`Room`); and
  whatever is on the wire is an Ack for something received or a copy of an
  accepted packet (`OnLink`), a copy that may be long since deleted;
- `ChannelInv`, for each direction: the receiver is between the oldest packet the
  sender holds and the newest it accepted, what it delivered is a prefix
  (`InOrder`), and until it has received something the first TLP to arrive is
  number 0 (`FirstIsZero`). The last part is what keeps `recvSeqNum - 1` from
  wrapping.

A lemma for each handler says what it preserves (`Keeps`, `TakesTLP`), one for
each action puts the two interfaces together, and `Inductive` collects the
actions. Handlers compose, and so do their lemmas (`KeepsTransitive`).

`PCIELinkService` proves, under the same assumptions:

| theorem | states |
|---|---|
| `StaysAwake` | `Spec => []WakeInv` |
| `ReplayIsArmed` | `Spec => []ReplayArmed` |
| `IdleLinkOwesNothing` | `Spec => []NothingWaitsForIdleLink` |
| `RetriesAreNotLost` | `Spec => []NoLostRetry` |
| `LinkImplementsChannels` | `Spec => ImplementsChannels` |

`WakeInv` is `IndInv` with the three properties for each interface (`Awake`).
They need each other: what turns a device down is a pending TLP or a full buffer,
and these wait for the wire and for a replay or its Ack. In the middle of
`txDone` the wire is free and things wait for it: there only `Halfway` holds, and
the lemmas about the parts of `txDone` say which of the duties each part takes
over. For the refinement every action is shown to be at most one acceptance and
at most one delivery in each direction, although `txDone` and an Ack may offer
the same device several retries (`Offers`: after the first packet it hands over,
the others are turned down).

`PciBridge2Proofs` proves, for every finite set of requests, every assignment of
windows and bus numbers, and all queue limits:

| theorem | states |
|---|---|
| `TypeTheorem` | `Spec => []TypeOK` |
| `CreditsTheorem` | `Spec => []CreditsConserved` |
| `RoomTheorem` | `Spec => []RoomForResponses` |
| `HomeTheorem` | `Spec => []ResponsesReturnHome` |
| `NoLostRetryTheorem` | `Spec => []NoLostRetry` |
| `WakeUpTheorem` | `Spec => []OneWakeUp` |

Each assumes `Homing`: the bus number a request carries when it has passed
`recvTimingReq` leads `getResponsePort` back to the port the request came in by.
That is what enumeration ensures; `bridge_unenumerated` shows what happens
without. The other assumption is `BridgeAssumption` of `PciBridge2`.

The inductive invariant is `Good(bridge)`, in `PciBridge2Lemmas`. Its `Core` says
which packets the lists hold, once each, with which bus number, that the credits
of a port are the number of its debts, and that a list has one thing to wake it
exactly if it is not empty. To this come, for each port, that `retryReq` and the
request its peer holds agree (`Remembered`) and that a set `retryReq` has a reason,
a full queue or no credit (`Justified`). The handlers are functions from state to state that
call each other, and so are the lemmas. In the middle of `trySendTiming` a queue
has room again while peers still wait: there `Core` and `Remembered` hold and
`Justified` only for the ports already retried, and `RetryAllKeeps` shows that
after the loop it holds for all. That step is where a port left out of the loop
would break the proof.

`BridgeConfigProofs` proves, for every number of writes, every width of the
registers and any set of the three downstream ports:

| theorem | states |
|---|---|
| `AnnouncedTheorem` | `Spec => []AnnouncedAreCurrent` |
| `NothingBouncesBackTheorem` | `Spec => []NothingBouncesBack` |
| `OwnerTheorem` | `Spec => []OwnerGetsTheRequest` |
| `TypeTheorem` | `Spec => []TypeOK` |
| `DmaAvoidsTheorem` | `Spec => []DmaAvoidsOwnWindows` |
| `WindowTheorem` | `Spec => []WindowAsWritten` |

The assumptions are `ConfigAssumption` and, for the last three,
`WidthAssumption`: what software writes has the width of the register. The first is inductive with the types
of the registers: a port that sends no range change has unchanged ranges
(`UnannouncedUnchanged`). The second follows from it and from
`AdvertisedIsClaimed`. The third needs the invariant `Untouched`, that a register
whose flag is not set still holds 0, and then arithmetic on windows that are half
written, including the wrapped ones (`HalfPrefetchable`). The last three rest on
`WidthInv`, that a register holds only what was written to it, or 0, and keeps its
width: starts and ends of windows are then addresses. `ComplementCovers` says what the loop over sorted windows covers, and
`WindowTheorem` that the truncated products are the address the registers
describe.

`CxlMemoryProofs` proves, for every width of the registers, every size of the BAR
that `PciMemBar` accepts, any number of requests, every latency and delay:

| theorem | states |
|---|---|
| `ExpanderInvariant` | `Spec => []ExpanderInv` |
| `TypeTheorem` | `Spec => []TypeOK` |
| `RestoreTheorem` | `Spec => []RestoreIsFaithful` |
| `SizingTheorem` | `Spec => []SizingWorks` |
| `ResponseTheorem` | `Spec => []FirstResponseIsSent` |
| `ExpanderImplementsMemory` | `Spec => ImplementsMemory` |

The assumptions are `WordAssumption` (a register has at least its three fixed
bits), `EndpointAssumption` (a BAR has a size that passes the test at
`pci/device.hh:192`, written as divisibility; delays are natural numbers) and
`OperationAssumption` (an operation stores what a cell can hold). The guest moves
the BAR at any moment.

`ExpanderInv` has three parts.

- The registers are a fixed point of writing them back, with the bits that the
  size fixes (`Placed`), and the BAR is where they say. `PciDeviceProofs` shows
  that every write ends in such a state; that a checkpoint restores the device
  and that sizing can be undone follow, for BARs below and above the size of a
  register.
- A request under way was routed by a range that was the BAR's at some time, and a
  BAR begins a multiple of its size above the host's base: if it is inside the BAR now, it is for the
  same cell, wherever the BAR went in between (`MappedIsCell`). Requests and queued
  responses have different identities.
- The queue is sorted and has exactly one thing that will send its first entry
  (`Attended`). `PacketQueueProofs` shows that `schedSendTiming` keeps this,
  from any place at which it inserts. While a response is being sent the queue
  has neither event nor retry, and a request that arrives in that moment may
  schedule one: `Between` is what holds then, and `TakenAttended` that the end of
  `sendDeferredPacket` restores `Attended` without a second event.

The refinement maps the queued responses to the answers that are owed. A response
that overtakes others, is refused or waits changes nothing in the abstract
memory; the step in which the peer takes a response and sends a request gives one
answer and performs one operation; a write to the BAR moves the memory and leaves
its contents, which only a restart replaces.

Only model-checked:

- all liveness properties: fairness and `ENABLED` are out of the prover's reach;
- everything about the event queues, `ImplementsOrder` included: what a walk along
  the pointers of the bins finds is defined by recursion, and induction over such
  data is out of reach as well.

## Findings

1. **An Ack for -1** (`pcie_link.cc:453`). If the device refuses the first TLP and
   a later one arrives, the interface acknowledges `recvSeqNum - 1` with
   `recvSeqNum` 0. The other end then removes every packet it holds.
2. **Deleted packets on the wire** (`pcie_link.cc:482`). An Ack deletes TLPs
   whose replay is being transmitted; `txDone` hands the freed packet over.
3. **Responses before enumeration** (`PciBridge2.cc:321`). Until bus numbers are
   set, every response goes to the upstream port, which reserved no room for the
   devices' responses.
4. **A limit at the tick of an exit** (`sim/simulate.cc:252`). `set_max_tick` puts
   the limit into the lists directly, and an exit may be in one list and in the
   `async_queue` of the other. Events of equal tick and priority run in the reverse
   order of their arrival, so that the threads wait at different barriers, for
   ever. The comment at `sim/global_event.cc:69` says that global events always go
   through the `async_queue`.
5. **A flag set too late** (`sim/eventq.hh:774`). `schedule()` sets `Scheduled`
   after `asyncInsert`; a thread that takes the event in and runs it first leaves
   the flag set of an event in no queue. The function is called "Safe to call from
   any thread" (line 752).
6. **Not the complement** (`PciBridge2.cc:1192`). The ranges of a DMA port leave
   out the address after each window, since `end()` is already past it, and
   everything above the last one, since `RangeIn(last_val, ADDR_MAX)` ends at 0. The
   comment at line 1177 asks for "the ~ of downstream ranges".

## Not modelled

- Dispatch of configuration accesses in `pci/host.cc`: a lookup in a map. Its one
  notable fact is above: bridges are registered in a map that `read` and `write`
  do not consult.
- Interrupts, capability registers, MSI tables, ROM addresses, statistics and the
  byte counters of the bridge: nothing modelled depends on them. IO and legacy
  BARs of a device, and its other BARs: they follow the pattern of the memory BAR,
  and the memory expander has only BAR 0 with its upper half in BAR 1.
- Atomic accesses, and functional ones other than writes to the endpoint: they
  keep no state in link and bridge, except that `recvFunctional` of the link uses
  the timing path (a hazard in `PROJECT.json`).
- The drain protocol of gem5. A checkpoint is taken in states in which nothing is
  under way; neither bridge nor link could restore packets.
- In the event queues: signals handled by the loop (`async_event`), migration of a
  thread to another queue, checkpoints of events, `exitSimLoopNow`, statistics
  events, exits later than the next possible tick. The mutex of a queue is taken by other
  threads only for migration.
- A bridge and a link composed. `Replay` in `PciBridge2` stands for the link at
  a response port, which offers a refused packet again, and `Takes` in `PCIELink` for
  a bridge, which refuses packets; the product of the two state spaces is out of
  TLC's reach at sizes where both do something.
- Processors, caches, Ruby and the other upstream parts of gem5.
- `PciBridge.cc`, a stub.
