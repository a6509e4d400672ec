---------------------------- MODULE MCEventQueue ----------------------------
(* Instances of EventQueue for model checking *)
EXTENDS EventQueue

\* Three events of thread 0, one of thread 1, and one on queue 1 that thread 0
\* schedules.
MCLocal == {<<"a", 0>>, <<"b", 0>>, <<"d", 0>>, <<"c", 1>>, <<"x", 1>>}

MCBy == [a |-> 0, b |-> 0, d |-> 0, c |-> 1, x |-> 0]

\* Progress_Event_Pri (95) is 2 and Sim_Exit_Pri (100) is 3.
MCPri == [a |-> 0, b |-> 0, d |-> 0, c |-> 0, x |-> 0, sync |-> 2, limit |-> 3,
          exit1 |-> 3, exit2 |-> 3]

MCInitWhen == [a |-> 0, b |-> 1, d |-> 1, c |-> 0, x |-> 1]

\* The second limit is later than any exit asked for before the first ...
MCLimits == <<2, 5>>

\* ... or may be at the tick of one.
MCLimitsMeet == <<3, 5>>

\* Two threads schedule events on each other's queue: c schedules y on queue 0,
\* and y schedules x on queue 1.
MCCrossing == {<<"c", 1>>, <<"x", 1>>, <<"y", 0>>}

MCCrossingBy == [c |-> 1, x |-> 0, y |-> 1]

MCCrossingPri == [c |-> 0, x |-> 0, y |-> 0, sync |-> 2, limit |-> 3]

MCCrossingWhen == [c |-> 0, x |-> 0, y |-> 0]

MCOneLimit == <<5>>
=============================================================================
