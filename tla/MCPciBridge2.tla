---------------------------- MODULE MCPciBridge2 ----------------------------
(* Instances of PciBridge2 for model checking *)
EXTENDS PciBridge2, TLC

CONSTANTS
  c1, c2, c3,  \* requests of the processor
  d1, d2,      \* requests of the devices behind port 1; d2 is posted
  e1, e2,      \* requests of the device behind port 2
  f1,          \* a request of the device behind port 3
  Enumerated   \* has software set the bus numbers?

MCSrc ==
  [p \in Packets |-> CASE p \in {c1, c2, c3} -> 0
                       [] p \in {d1, d2} -> 1
                       [] p \in {e1, e2} -> 2
                       [] p = f1 -> 3]

\* a and b are addresses behind ports 1 and 2, m is one in memory; e2 goes
\* from device to device.
MCDest ==
  [p \in Packets |-> CASE p \in {c1, c3, e2} -> "a"
                       [] p = c2 -> "b"
                       [] p \in {d1, d2, e1, f1} -> "m"]

MCNeedsResponse == [p \in Packets |-> p # d2]

\* f1 comes through a switch, which has numbered it.
MCArrivalBus == [p \in Packets |-> IF p = f1 THEN 4 ELSE -1]

MCAddresses == {"a", "b", "m"}

\* After reset no window covers any of the addresses.
MCWindow == IF Enumerated THEN 1 :> {"a"} @@ 2 :> {"b"} @@ 3 :> {}
                          ELSE [i \in Downstream |-> {}]

\* Bus numbers as enumeration assigns them, depth first.
MCSecondaryBus == IF Enumerated THEN 1 :> 1 @@ 2 :> 2 @@ 3 :> 3
                                ELSE [i \in Downstream |-> 0]

MCSubordinateBus == IF Enumerated THEN 1 :> 1 @@ 2 :> 2 @@ 3 :> 4
                                  ELSE [i \in Downstream |-> 0]

MCIsValid == [i \in Downstream |-> Enumerated]
=============================================================================
