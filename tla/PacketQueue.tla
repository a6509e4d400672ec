---------------------------- MODULE PacketQueue ----------------------------
(***************************************************************************)
(* The queue of packets of a port, mem/packet_queue.{hh,cc}.  A queue is a *)
(* record of its transmitList, its sendEvent and waitingOnRetry.  Ticks    *)
(* are counted from now: an entry is ready at 0, and stays at 0 once its   *)
(* tick has passed.                                                        *)
(***************************************************************************)
EXTENDS Integers, Sequences, FiniteSetsExt, Functions

Unscheduled == -1

EmptyQueue == [list |-> <<>>, event |-> Unscheduled, waiting |-> FALSE]

\* Mutant: the event is scheduled only while a retry is awaited.
SchedIfWaiting(q, when) ==
  LET tick == IF when > 1 THEN when ELSE 1
  IN  IF q.waiting /\ (q.event = Unscheduled \/ tick < q.event)
      THEN [q EXCEPT !.event = tick] ELSE q

\* schedSendEvent: not while a retry is awaited, at the earliest in the next
\* tick, and never later than before.
SchedSendEvent(q, when) ==
  LET tick == IF when > 1 THEN when ELSE 1
  IN  IF ~q.waiting /\ (q.event = Unscheduled \/ tick < q.event)
      THEN [q EXCEPT !.event = tick] ELSE q

\* transmitList.emplace
Emplace(list, place, e) ==
  SubSeq(list, 1, place - 1) \o <<e>> \o SubSeq(list, place, Len(list))

\* Mutant: the event is scheduled only for the first packet of an empty queue.
SchedIfEmpty(q, pkt, when) ==
  LET ahead == {i \in DOMAIN q.list : q.list[i].tick <= when}
      place == IF ahead = {} THEN 1 ELSE Max(ahead) + 1
      added == [q EXCEPT !.list = Emplace(@, place, [tick |-> when, pkt |-> pkt])]
  IN  IF q.list = <<>> THEN SchedSendEvent(added, when) ELSE added

\* schedSendTiming: behind the last packet that is not later (forceOrder is
\* false); only a packet that comes first moves the event.
SchedSendTiming(q, pkt, when) ==
  LET ahead == {i \in DOMAIN q.list : q.list[i].tick <= when}
      place == IF ahead = {} THEN 1 ELSE Max(ahead) + 1
      added == [q EXCEPT !.list = Emplace(@, place, [tick |-> when, pkt |-> pkt])]
  IN  IF place = 1 THEN SchedSendEvent(added, when) ELSE added

\* sendDeferredPacket takes the first packet out.  The peer refused it ...
Refused(q) == [q EXCEPT !.waiting = TRUE]

\* ... or took it, and what it did meanwhile made of the queue q.
Taken(q) ==
  IF q.list = <<>> THEN q ELSE SchedSendEvent(q, Head(q.list).tick)

\* A tick passes.
Nearer(e) == [e EXCEPT !.tick = IF @ > 0 THEN @ - 1 ELSE 0]

Elapsed(q) ==
  [q EXCEPT !.list = [i \in DOMAIN q.list |-> Nearer(q.list[i])],
            !.event = IF @ = Unscheduled THEN @ ELSE @ - 1]
=============================================================================
