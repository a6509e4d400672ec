----------------------------- MODULE EventOrder -----------------------------
(***************************************************************************)
(* What the event queues of sim/eventq.{hh,cc} promise.  The events of a   *)
(* queue form one sequence, sorted by time and, within a tick, by          *)
(* priority; a new event goes in front of those that have its time and its *)
(* priority ("accessed in LIFO order"), and the first one runs next.       *)
(* Events from other threads are posted to a second, first-in first-out,   *)
(* sequence, and enter the first one all at once.                          *)
(***************************************************************************)
EXTENDS Integers, Sequences

CONSTANTS
  Queues,
  Events,
  Groups,       \* events scheduled together: one alone, or those of a global
                \* event, one of each queue
  Home(_),      \* the queue an event is scheduled on
  Priority(_)

VARIABLES
  queue,        \* the events of each queue, in the order they will run
  pending,      \* the events posted to each queue, in the order of arrival
  when          \* the tick of each event

orderVars == <<queue, pending, when>>

\* Does a run before b by its time and priority?
Precedes(w, a, b) ==
  \/ w[a] < w[b]
  \/ w[a] = w[b] /\ Priority(a) < Priority(b)

\* s with e put in its place.
With(w, s, e) ==
  SelectSeq(s, LAMBDA x : Precedes(w, x, e)) \o <<e>>
    \o SelectSeq(s, LAMBDA x : ~Precedes(w, x, e))

Without(s, e) == SelectSeq(s, LAMBDA x : x # e)

\* s with the events of new put in one after the other.
WithAll(w, s, new) ==
  LET put[i \in 0 .. Len(new)] ==
        IF i = 0 THEN s ELSE With(w, put[i - 1], new[i])
  IN  put[Len(new)]

In(s) == {s[i] : i \in 1 .. Len(s)}

\* The queues in which each event of S, at most one of a queue, was put in,
\* moved or taken out by Change(s, e).
Changed(S, Change(_, _)) ==
  [q \in Queues |->
     IF \E e \in S : Home(e) = q
     THEN Change(queue[q], CHOOSE e \in S : Home(e) = q)
     ELSE queue[q]]

OrderInit ==
  /\ \A q \in Queues : \A i, j \in 1 .. Len(queue[q]) :
       i < j => ~Precedes(when, queue[q][j], queue[q][i])
  /\ pending = [q \in Queues |-> <<>>]

\* The events of S, and no others, get the tick t.
Retimed(S, t) == when' = [e \in Events |-> IF e \in S THEN t ELSE when[e]]

\* The first event of a queue is taken out and run.
Serve ==
  /\ UNCHANGED <<pending, when>>
  /\ \E q \in Queues : /\ queue[q] # <<>>
                       /\ queue' = [queue EXCEPT ![q] = Tail(@)]

\* Events that are in no queue enter their queues.
Schedule(S, t) ==
  /\ Retimed(S, t)
  /\ UNCHANGED pending
  /\ \A e \in S : e \notin In(queue[Home(e)]) \cup In(pending[Home(e)])
  /\ queue' = Changed(S, LAMBDA s, e : With(when', s, e))

Reschedule(S, t) ==
  /\ Retimed(S, t)
  /\ UNCHANGED pending
  /\ \A e \in S : e \in In(queue[Home(e)])
  /\ queue' = Changed(S, LAMBDA s, e : With(when', Without(s, e), e))

Deschedule(S) ==
  /\ UNCHANGED <<pending, when>>
  /\ \A e \in S : e \in In(queue[Home(e)])
  /\ queue' = Changed(S, Without)

\* Events are posted to their queues.
Post(S, t) ==
  /\ Retimed(S, t)
  /\ \A e \in S : e \notin In(queue[Home(e)]) \cup In(pending[Home(e)])
  /\ pending' = [q \in Queues |->
                   IF \E e \in S : Home(e) = q
                   THEN Append(pending[q], CHOOSE e \in S : Home(e) = q)
                   ELSE pending[q]]
  /\ UNCHANGED queue

\* The events posted to q enter it.
TakeIn(q) ==
  /\ UNCHANGED when
  /\ pending[q] # <<>>
  /\ pending' = [pending EXCEPT ![q] = <<>>]
  /\ queue' = [queue EXCEPT ![q] = WithAll(when, @, pending[q])]

\* A thread does something else.
Elsewhere == UNCHANGED orderVars

OrderNext ==
  \/ Elsewhere
  \/ Serve
  \/ \E S \in Groups : \/ Deschedule(S)
                       \/ \E t \in {when'[e] : e \in S} :
                            Schedule(S, t) \/ Reschedule(S, t)
  \/ \E S \in Groups \cup {{e} : e \in Events} :
       \E t \in {when'[e] : e \in S} : Post(S, t)
  \/ \E q \in Queues : TakeIn(q)

OrderSpec == OrderInit /\ [][OrderNext]_orderVars
=============================================================================
