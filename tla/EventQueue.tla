----------------------------- MODULE EventQueue -----------------------------
(***************************************************************************)
(* The event queues that drive every component: sim/eventq.{hh,cc}, the    *)
(* global events of sim/global_event.{hh,cc} and the simulation loop of    *)
(* sim/simulate.cc, with one thread for each queue.                        *)
(*                                                                         *)
(* A queue is a linked list of bins, one for each time and priority, and a *)
(* bin a stack of events; the nextBin pointer of an event that is not on   *)
(* top of its stack may be stale.  A thread inserts into its own queue     *)
(* directly and into another one through its async_queue, which the other  *)
(* thread empties when it enters the loop and at the synchronisation that  *)
(* ends each quantum.  A global event is one event on each queue and a     *)
(* barrier; the limit of simulate(), an exit requested by an event and     *)
(* the end of a quantum are global events.                                 *)
(***************************************************************************)
EXTENDS Integers, Sequences, SequencesExt

CONSTANTS
  N,            \* numMainEventQueues
  Local,        \* the events of components: <<name, queue>>
  By,           \* the thread that schedules each of them, by name
  Pri,          \* priorities, by name
  InitWhen,     \* the tick each is scheduled at in the beginning, by name
  Quantum,      \* simQuantum
  Limits,       \* the limits of the successive calls of simulate()
  Exits,        \* bound: the exits that may be on their way at a time, by name
  MaxDelay,     \* bound on how far ahead of itself an event schedules another
  MaxOps        \* bound on what events do to the queues in all

Queues == 0 .. N - 1
Global == {"sync", "limit"} \cup Exits
Events == Local \cup (Global \X Queues)
Null == <<"null", -1>>

Home(e) == e[2]
Priority(e) == Pri[e[1]]
BarrierEvents(g) == {g} \X Queues

ASSUME EventQueueAssumption ==
  /\ N \in Nat \ {0}
  /\ \A e \in Local : e[1] \notin Global /\ e[2] \in Queues
  /\ Quantum \in Nat \ {0}
  /\ Pri["sync"] < Pri["limit"]   \* Progress_Event_Pri < Sim_Exit_Pri
  /\ \A g \in Exits : Pri[g] = Pri["limit"]
  /\ \A e \in Local : Pri[e[1]] < Pri["sync"]

VARIABLES
  list,        \* head of each queue; nextBin, nextInBin and _when of events
  scheduled,   \* the flags Scheduled
  squashed,    \* and Squashed of each event
  curTick,     \* _curTick of each queue
  async,       \* async_queue of each queue
  thread,      \* where the thread of each queue is
  barrier,     \* the barrier of each global event
  calls,       \* how often simulate() has been called
  ops          \* what events did to the queues so far

vars == <<list, scheduled, squashed, curTick, async, thread, barrier, calls, ops>>

-----------------------------------------------------------------------------
(* The lists *)

\* operator< of events
Less(L, a, b) ==
  \/ L.when[a] < L.when[b]
  \/ L.when[a] = L.when[b] /\ Priority(a) < Priority(b)

\* Event::insertBefore
InsertBefore(L, e, curr) ==
  IF curr = Null \/ Less(L, e, curr)
  THEN [L EXCEPT !.nextBin[e] = curr, !.nextInBin[e] = Null]
  ELSE [L EXCEPT !.nextBin[e] = L.nextBin[curr], !.nextInBin[e] = curr]

\* The bin before the place of e: the loops of insert and remove.
Prev(L, q, e) ==
  LET walk[p \in Events] ==
        LET curr == L.nextBin[p]
        IN  IF curr # Null /\ Less(L, curr, e) THEN walk[curr] ELSE p
  IN  walk[L.head[q]]

\* EventQueue::insert
InsertEvent(L, q, e) ==
  IF L.head[q] = Null \/ ~Less(L, L.head[q], e)
  THEN [InsertBefore(L, e, L.head[q]) EXCEPT !.head[q] = e]
  ELSE LET prev == Prev(L, q, e)
       IN  [InsertBefore(L, e, L.nextBin[prev]) EXCEPT !.nextBin[prev] = e]

\* The events from e on along the pointers next.
Chain(next, e) ==
  LET from[x \in Events \cup {Null}] ==
        IF x = Null THEN <<>> ELSE <<x>> \o from[next[x]]
  IN  from[e]

\* Mutant: the new top of a bin keeps its stale pointer.
KeepsStaleBin(L, e, top) ==
  LET curr == CHOOSE x \in ToSet(Chain(L.nextInBin, top)) : L.nextInBin[x] = e
  IN  IF e # top THEN [L EXCEPT !.nextInBin[curr] = L.nextInBin[e]] ELSE L

\* Event::removeItem: the list without e, which is in the bin of top ...
RemoveItem(L, e, top) ==
  LET next == L.nextInBin[top]
      curr == CHOOSE x \in ToSet(Chain(L.nextInBin, top)) : L.nextInBin[x] = e
  IN  IF e # top THEN [L EXCEPT !.nextInBin[curr] = L.nextInBin[e]]
      ELSE IF next = Null THEN L
      ELSE [L EXCEPT !.nextBin[next] = L.nextBin[top]]

\* ... and the new top of the bin, or the next bin.
NewTop(L, e, top) ==
  IF e # top THEN top
  ELSE IF L.nextInBin[top] = Null THEN L.nextBin[top]
  ELSE L.nextInBin[top]

\* EventQueue::remove
RemoveEvent(L, q, e) ==
  LET head == L.head[q]
      prev == Prev(L, q, e)
      curr == L.nextBin[prev]
  IN  IF ~Less(L, head, e) /\ ~Less(L, e, head)
      THEN [RemoveItem(L, e, head) EXCEPT !.head[q] = NewTop(L, e, head)]
      ELSE [RemoveItem(L, e, curr) EXCEPT !.nextBin[prev] = NewTop(L, e, curr)]

\* Mutant: the rest of the bin is dropped with the head.
PopBin(L, q) == [L EXCEPT !.head[q] = L.nextBin[L.head[q]]]

\* serviceOne takes the head out.
Pop(L, q) ==
  LET head == L.head[q]
      next == L.nextInBin[head]
  IN  IF next = Null THEN [L EXCEPT !.head[q] = L.nextBin[head]]
      ELSE [L EXCEPT !.nextBin[next] = L.nextBin[head], !.head[q] = next]

\* setWhen, then insert
InsertAtTick(L, e, t) == InsertEvent([L EXCEPT !.when[e] = t], Home(e), e)

\* The events of queue q in the order in which serviceOne will take them.
Contents(L, q) ==
  LET tops == Chain(L.nextBin, L.head[q])
  IN  FlattenSeq([i \in DOMAIN tops |-> Chain(L.nextInBin, tops[i])])

\* handleAsyncInsertions
TakeInto(L, q, posted) ==
  FoldLeft(LAMBDA M, e : InsertEvent(M, q, e), L, posted)

-----------------------------------------------------------------------------
(* simulate(), called from Python in thread 0 *)

Init ==
  /\ list = LET empty == [head |-> [q \in Queues |-> Null],
                          nextBin |-> [e \in Events |-> Null],
                          nextInBin |-> [e \in Events |-> Null],
                          when |-> [e \in Events |-> 0]]
            IN  FoldLeft(LAMBDA L, e : InsertAtTick(L, e, InitWhen[e[1]]),
                         empty, SetToSeq(Local))
  /\ scheduled = [e \in Events |-> e \in Local]
  /\ squashed = [e \in Events |-> FALSE]
  /\ curTick = [q \in Queues |-> 0]
  /\ async = [q \in Queues |-> <<>>]
  /\ thread = [q \in Queues |->
                 [pc |-> IF q = 0 THEN "python" ELSE "idle", event |-> Null,
                  gen |-> 0]]
  /\ barrier = [g \in Global |-> [left |-> N, gen |-> 0]]
  /\ calls = 0
  /\ ops = 0

Goto(q, pc, e) == thread' = [thread EXCEPT ![q].pc = pc, ![q].event = e]

\* BaseGlobalEvent::schedule and reschedule while no other thread runs
ScheduleGlobal(L, g, t) ==
  FoldLeft(LAMBDA M, e : InsertAtTick(IF scheduled[e] THEN RemoveEvent(M, Home(e), e) ELSE M,
                                  e, t),
           L, [i \in 1 .. N |-> <<g, i - 1>>])

\* BaseGlobalEvent::deschedule
DescheduleGlobal(L, g) ==
  FoldLeft(LAMBDA M, e : IF scheduled[e] THEN RemoveEvent(M, Home(e), e) ELSE M,
           L, [i \in 1 .. N |-> <<g, i - 1>>])

\* set_max_tick: no thread but this one runs, so the limit goes into the lists
\* directly, although an exit may be in one list and on its way to another.
SetMaxTick ==
  /\ thread[0].pc = "python"
  /\ calls < Len(Limits)
  /\ curTick[0] <= Limits[calls + 1]
  /\ calls' = calls + 1
  /\ list' = ScheduleGlobal(list, "limit", Limits[calls + 1])
  /\ scheduled' = [e \in Events |-> scheduled[e] \/ e \in BarrierEvents("limit")]
  /\ Goto(0, "simulate", Null)
  /\ UNCHANGED <<squashed, curTick, async, barrier, ops>>

\* The event that ends the quanta is made.  Thread 0 reaches the barrier of
\* the threads.
MakeQuantumEvent ==
  /\ thread[0].pc = "simulate"
  /\ list' = ScheduleGlobal(list, "sync", curTick[0] + Quantum)
  /\ scheduled' = [e \in Events |-> scheduled[e] \/ e \in BarrierEvents("sync")]
  /\ Goto(0, "idle", Null)
  /\ UNCHANGED <<squashed, curTick, async, barrier, calls, ops>>

\* runUntilLocalExit, thread_main: all threads have come to the barrier and go.
StartThreads ==
  /\ \A q \in Queues : thread[q].pc = "idle"
  /\ thread' = [q \in Queues |-> [thread[q] EXCEPT !.pc = "enter"]]
  /\ UNCHANGED <<list, scheduled, squashed, curTick, async, barrier, calls, ops>>

\* doSimLoop returns.  In thread 0 simulate() returns, the quantum event is
\* descheduled and destroyed.
LeaveLoop(q) ==
  /\ thread[q].pc = "exited"
  /\ IF q = 0
     THEN /\ list' = DescheduleGlobal(list, "sync")
          /\ scheduled' = [e \in Events |->
                             scheduled[e] /\ e \notin BarrierEvents("sync")]
          /\ Goto(0, "python", Null)
     ELSE /\ Goto(q, "idle", Null)
          /\ UNCHANGED <<list, scheduled>>
  /\ UNCHANGED <<squashed, curTick, async, barrier, calls, ops>>

-----------------------------------------------------------------------------
(* doSimLoop and serviceOne *)

\* Mutant: one thread too many is waited for.
WaitForOneMore(q, e, pc, last) ==
  LET g == e[1]
      b == barrier[g]
  IN  IF b.left = 0
      THEN /\ barrier' = [barrier EXCEPT ![g] = [left |-> N, gen |-> 1 - b.gen]]
           /\ Goto(q, last, e)
      ELSE /\ barrier' = [barrier EXCEPT ![g].left = @ - 1]
           /\ thread' = [thread EXCEPT
                           ![q] = [pc |-> pc, event |-> e, gen |-> b.gen]]

\* Mutant: the generation does not change when the barrier opens.
WaitSameGeneration(q, e, pc, last) ==
  LET g == e[1]
      b == barrier[g]
  IN  IF b.left = 1
      THEN /\ barrier' = [barrier EXCEPT ![g].left = N]
           /\ Goto(q, last, e)
      ELSE /\ barrier' = [barrier EXCEPT ![g].left = @ - 1]
           /\ thread' = [thread EXCEPT
                           ![q] = [pc |-> pc, event |-> e, gen |-> b.gen]]

\* Barrier::wait for thread q at the barrier of g: it waits in pc, or is the
\* last one and goes on in last.
Wait(q, e, pc, last) ==
  LET g == e[1]
      b == barrier[g]
  IN  IF b.left = 1
      THEN /\ barrier' = [barrier EXCEPT ![g] = [left |-> N, gen |-> 1 - b.gen]]
           /\ Goto(q, last, e)
      ELSE /\ barrier' = [barrier EXCEPT ![g].left = @ - 1]
           /\ thread' = [thread EXCEPT
                           ![q] = [pc |-> pc, event |-> e, gen |-> b.gen]]

\* doSimLoop begins with handleAsyncInsertions.
EnterLoop(q) ==
  /\ thread[q].pc \in {"enter", "synced"}
  /\ list' = TakeInto(list, q, async[q])
  /\ async' = [async EXCEPT ![q] = <<>>]
  /\ Goto(q, "loop", Null)
  /\ UNCHANGED <<scheduled, squashed, curTick, barrier, calls, ops>>

\* serviceOne: an event that was squashed is dropped, the local event of a
\* global one waits for the other threads, and one of a component runs.
ServiceOne(q) ==
  LET e == list.head[q]
  IN  /\ thread[q].pc = "loop"
      /\ list' = Pop(list, q)
      /\ scheduled' = [scheduled EXCEPT ![e] = FALSE]
      /\ squashed' = [squashed EXCEPT ![e] = FALSE]
      /\ IF squashed[e]
         THEN UNCHANGED <<curTick, thread, barrier>>
         ELSE /\ curTick' = [curTick EXCEPT ![q] = list.when[e]]
              /\ IF e[1] \in Global
                 THEN Wait(q, e, "wait", "trigger")
                 ELSE Goto(q, "process", e) /\ UNCHANGED barrier
      /\ UNCHANGED <<async, calls, ops>>

\* The thread that came last runs process() of the global event: the one that
\* ends a quantum schedules itself again.
Trigger(q) ==
  LET e == thread[q].event
      t == curTick[q] + Quantum
  IN  /\ thread[q].pc = "trigger"
      /\ IF e[1] = "sync"
         THEN /\ list' = [list EXCEPT !.when =
                            [x \in Events |-> IF x[1] = "sync" THEN t ELSE @[x]]]
              /\ async' = [i \in Queues |-> Append(async[i], <<"sync", i>>)]
              /\ scheduled' = [x \in Events |-> scheduled[x] \/ x[1] = "sync"]
         ELSE UNCHANGED <<list, async, scheduled>>
      /\ Wait(q, e, "wait2", "passed")
      /\ UNCHANGED <<squashed, curTick, calls, ops>>

\* A thread is woken at the first barrier and comes to the second one.
Woken(q) ==
  /\ thread[q].pc = "wait"
  /\ barrier[thread[q].event[1]].gen # thread[q].gen
  /\ Wait(q, thread[q].event, "wait2", "passed")
  /\ UNCHANGED <<list, scheduled, squashed, curTick, async, calls, ops>>

\* Mutant: what was posted is not taken in at the end of a quantum.
PassWithoutTakingIn(q) ==
  LET e == thread[q].event
  IN  /\ \/ thread[q].pc = "passed"
         \/ thread[q].pc = "wait2" /\ barrier[e[1]].gen # thread[q].gen
      /\ Goto(q, IF e[1] = "sync" THEN "loop" ELSE "exited", Null)
      /\ UNCHANGED <<list, scheduled, squashed, curTick, async, barrier, calls, ops>>

\* All have come to the second barrier: go on, or leave the loop.
Pass(q) ==
  LET e == thread[q].event
  IN  /\ \/ thread[q].pc = "passed"
         \/ thread[q].pc = "wait2" /\ barrier[e[1]].gen # thread[q].gen
      /\ Goto(q, IF e[1] = "sync" THEN "synced" ELSE "exited", Null)
      /\ UNCHANGED <<list, scheduled, squashed, curTick, async, barrier, calls, ops>>

-----------------------------------------------------------------------------
(* What the process() of a component's event may do *)

Running(q) == thread[q].pc = "process" /\ ops < MaxOps

\* The ticks an event may be scheduled at from time t on.
Soon(t) == t .. t + MaxDelay

Mine(q) == {e \in Local : Home(e) = q /\ By[e[1]] = q}

ScheduleEvent(q, e, t) ==
  /\ Running(q)
  /\ e \in Mine(q)
  /\ ~scheduled[e]
  /\ t \in Soon(curTick[q])
  /\ list' = InsertAtTick(list, e, t)
  /\ scheduled' = [scheduled EXCEPT ![e] = TRUE]
  /\ ops' = ops + 1
  /\ UNCHANGED <<squashed, curTick, async, thread, barrier, calls>>

DescheduleEvent(q, e) ==
  /\ Running(q)
  /\ e \in Mine(q)
  /\ scheduled[e]
  /\ list' = RemoveEvent(list, q, e)
  /\ scheduled' = [scheduled EXCEPT ![e] = FALSE]
  /\ squashed' = [squashed EXCEPT ![e] = FALSE]
  /\ ops' = ops + 1
  /\ UNCHANGED <<curTick, async, thread, barrier, calls>>

RescheduleEvent(q, e, t) ==
  /\ Running(q)
  /\ e \in Mine(q)
  /\ scheduled[e]
  /\ t \in Soon(curTick[q])
  /\ list' = InsertAtTick(RemoveEvent(list, q, e), e, t)
  /\ squashed' = [squashed EXCEPT ![e] = FALSE]
  /\ ops' = ops + 1
  /\ UNCHANGED <<scheduled, curTick, async, thread, barrier, calls>>

Squash(q, e) ==
  /\ Running(q)
  /\ e \in Mine(q)
  /\ scheduled[e]
  /\ squashed' = [squashed EXCEPT ![e] = TRUE]
  /\ ops' = ops + 1
  /\ UNCHANGED <<list, scheduled, curTick, async, thread, barrier, calls>>

\* Mutant: less than a quantum away.
ScheduleRemoteSooner(q, e) ==
  /\ Running(q)
  /\ e \in Local
  /\ By[e[1]] = q /\ Home(e) # q
  /\ ~scheduled[e]
  /\ list' = [list EXCEPT !.when[e] = curTick[q] + Quantum - 1]
  /\ async' = [async EXCEPT ![Home(e)] = Append(@, e)]
  /\ ops' = ops + 1
  /\ Goto(q, "posted", e)
  /\ UNCHANGED <<scheduled, squashed, curTick, barrier, calls>>

\* An event of another queue, "at least simQuantum ticks away in future", goes
\* through asyncInsert.
ScheduleRemote(q, e) ==
  /\ Running(q)
  /\ e \in Local
  /\ By[e[1]] = q /\ Home(e) # q
  /\ ~scheduled[e]
  /\ list' = [list EXCEPT !.when[e] = curTick[q] + Quantum]
  /\ async' = [async EXCEPT ![Home(e)] = Append(@, e)]
  /\ ops' = ops + 1
  /\ Goto(q, "posted", e)
  /\ UNCHANGED <<scheduled, squashed, curTick, barrier, calls>>

\* An exit that no queue holds and no thread is about: it can be made anew.
Unused(g) ==
  \A q \in Queues : ~scheduled[<<g, q>>] /\ thread[q].event[1] # g

\* exitSimLoop makes a global event, whose schedule() begins.
ExitSimLoop(q) ==
  /\ Running(q)
  /\ \E g \in Exits : Unused(g)
  /\ ops' = ops + 1
  /\ Goto(q, "lock", <<CHOOSE g \in Exits : Unused(g), 0>>)
  /\ UNCHANGED <<list, scheduled, squashed, curTick, async, barrier, calls>>

\* Thread q has globalQMutex: it is between the lock() and the unlock().
HoldsMutex(q) ==
  \/ thread[q].pc = "global"
  \/ thread[q].pc = "posted" /\ thread[q].event[1] \in Global

\* Mutant: global events are scheduled without the mutex.
LocksNothing(q) ==
  /\ thread[q].pc = "lock"
  /\ Goto(q, "global", thread[q].event)
  /\ UNCHANGED <<list, scheduled, squashed, curTick, async, barrier, calls, ops>>

\* globalQMutex.lock()
LockGlobal(q) ==
  /\ thread[q].pc = "lock"
  /\ \A i \in Queues : ~HoldsMutex(i)
  /\ Goto(q, "global", thread[q].event)
  /\ UNCHANGED <<list, scheduled, squashed, curTick, async, barrier, calls, ops>>

\* The next local event of the global one goes through asyncInsert.
PostGlobal(q) ==
  LET e == thread[q].event
  IN  /\ thread[q].pc = "global"
      /\ list' = [list EXCEPT !.when[e] = curTick[q] + Quantum]
      /\ async' = [async EXCEPT ![Home(e)] = Append(@, e)]
      /\ Goto(q, "posted", e)
      /\ UNCHANGED <<scheduled, squashed, curTick, barrier, calls, ops>>

\* schedule() sets the flag after asyncInsert.  After the last local event of
\* a global one the mutex is free again.
SetScheduled(q) ==
  LET e == thread[q].event
  IN  /\ thread[q].pc = "posted"
      /\ scheduled' = [scheduled EXCEPT ![e] = TRUE]
      /\ IF e[1] \in Global /\ e[2] < N - 1
         THEN Goto(q, "global", <<e[1], e[2] + 1>>)
         ELSE Goto(q, "process", e)
      /\ UNCHANGED <<list, squashed, curTick, async, barrier, calls, ops>>

\* process() returns to the loop.
Return(q) ==
  /\ thread[q].pc = "process"
  /\ Goto(q, "loop", Null)
  /\ UNCHANGED <<list, scheduled, squashed, curTick, async, barrier, calls, ops>>

-----------------------------------------------------------------------------
(* The specification *)

Process(q) ==
  \/ \E e \in Local : \/ \E t \in Soon(curTick[q]) : \/ ScheduleEvent(q, e, t)
                                                     \/ RescheduleEvent(q, e, t)
                      \/ DescheduleEvent(q, e)
                      \/ Squash(q, e)
                      \/ ScheduleRemote(q, e)
  \/ ExitSimLoop(q)
  \/ LockGlobal(q)
  \/ PostGlobal(q)
  \/ SetScheduled(q)
  \/ Return(q)

Loop(q) ==
  \/ EnterLoop(q)
  \/ ServiceOne(q)
  \/ Trigger(q)
  \/ Woken(q)
  \/ Pass(q)
  \/ LeaveLoop(q)

\* Python makes no further call.
Finished ==
  /\ thread[0].pc = "python"
  /\ calls < Len(Limits) => Limits[calls + 1] < curTick[0]
  /\ \A q \in Queues \ {0} : thread[q].pc = "idle"
  /\ UNCHANGED vars

Next ==
  \/ SetMaxTick
  \/ MakeQuantumEvent
  \/ StartThreads
  \/ \E q \in Queues : Loop(q) \/ Process(q)
  \/ Finished

Spec == Init /\ [][Next]_vars

-----------------------------------------------------------------------------
(* Properties *)

PCs == {"python", "simulate", "idle", "enter", "loop", "process", "posted",
        "lock", "global", "wait", "trigger", "wait2", "passed", "synced", "exited"}

\* The pointers of a list lead to events or end, ticks are never negative, and a
\* barrier never counts below one thread: the last one to come has opened it.
TypeOK ==
  /\ list.head \in [Queues -> Events \cup {Null}]
  /\ list.nextBin \in [Events -> Events \cup {Null}]
  /\ list.nextInBin \in [Events -> Events \cup {Null}]
  /\ list.when \in [Events -> Nat]
  /\ scheduled \in [Events -> BOOLEAN]
  /\ squashed \in [Events -> BOOLEAN]
  /\ curTick \in [Queues -> Nat]
  /\ async \in [Queues -> Seq(Events)]
  /\ thread \in [Queues -> [pc : PCs, event : Events \cup {Null}, gen : 0 .. 1]]
  /\ barrier \in [Global -> [left : 1 .. N, gen : 0 .. 1]]
  /\ calls \in 0 .. Len(Limits)
  /\ ops \in 0 .. MaxOps

Order ==
  INSTANCE EventOrder
    WITH Groups <- {{e} : e \in Local} \cup {BarrierEvents(g) : g \in Global},
         queue <- [q \in Queues |-> Contents(list, q)],
         pending <- async,
         when <- list.when

\* The bins, their stacks and the stale pointers are one sorted sequence:
\* insert, remove and serviceOne do to it what they promise, whatever was
\* inserted and removed before, and events of the same tick and priority run
\* in the reverse of the order in which they came.
ImplementsOrder == Order!OrderSpec

\* An event is flagged Scheduled exactly if it is in its queue or on the way
\* to it, and it is there once, for all that threads insert, remove, squash
\* and post.  Only between asyncInsert and the assignment that follows it the
\* flag lags behind.  schedule() is "safe to call from any thread", so the
\* event must not run in between, or the flag is set of an event that is in
\* no queue: true while a poster reaches that assignment before the other
\* thread comes to the end of the quantum, and not otherwise.
ScheduledIsQueued ==
  \A q \in Queues :
    LET there == Contents(list, q) \o async[q]
    IN  /\ IsInjective(there)
        /\ \A e \in Events :
             Home(e) = q =>
               (e \in ToSet(there)) =
               (scheduled[e] \/ \E i \in Queues : /\ thread[i].pc = "posted"
                                                /\ thread[i].event = e)

\* No event of a queue, and none on the way to it, lies in the past of the
\* queue ("event scheduled in the past", doSimLoop), although the threads
\* move through a quantum at their own pace.  In the loop there is always an
\* event to run.
NoEventInThePast ==
  \A q \in Queues :
    /\ \A e \in ToSet(Contents(list, q) \o async[q]) : list.when[e] >= curTick[q]
    /\ thread[q].pc = "loop" => list.head[q] # Null

\* Does thread q wait at a barrier that has not opened?
Waiting(q) ==
  /\ thread[q].pc \in {"wait", "wait2"}
  /\ barrier[thread[q].event[1]].gen = thread[q].gen

\* Threads that wait at a barrier wait for the same global event, at the same
\* tick: global events, exits that two threads ask for at the same time
\* included, are "in a total order", or two threads would wait for each
\* other.  It takes a limit that is set farther than a quantum ahead, after
\* the exits that are still to come: one at the tick of such an exit breaks
\* the order.
SameBarrier ==
  \A i, j \in Queues :
    Waiting(i) /\ Waiting(j) =>
      thread[i].event[1] = thread[j].event[1] /\ curTick[i] = curTick[j]

\* When simulate() returns, the event that ends the quanta is in the list of
\* every queue, so that its deschedule() finds it, and no thread but the one
\* of Python is about to touch a list.
QuantumEventIsFound ==
  thread[0].pc \in {"exited", "python"} =>
    \A q \in Queues :
      /\ thread[0].pc = "exited" => <<"sync", q>> \in ToSet(Contents(list, q))
      /\ q # 0 => thread[q].pc \in {"wait2", "passed", "exited", "idle"}

\* Threads are scheduled, and the process() of an event returns.
Fairness ==
  /\ WF_vars(MakeQuantumEvent)
  /\ WF_vars(StartThreads)
  /\ \A q \in Queues :
       WF_vars(\/ Loop(q) \/ LockGlobal(q) \/ PostGlobal(q)
               \/ SetScheduled(q) \/ Return(q))

FairSpec == Spec /\ Fairness

\* simulate() returns: no thread is left behind at a barrier or at the mutex,
\* and the limit or an earlier exit is reached, whatever exits of this call,
\* exits left over from the last one, remote events and synchronisations meet
\* in a tick.  Like SameBarrier, for limits that meet no exit left over.
SimulateReturns == thread[0].pc = "simulate" ~> thread[0].pc = "python"
=============================================================================
