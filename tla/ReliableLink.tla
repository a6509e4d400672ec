---------------------------- MODULE ReliableLink ----------------------------
(***************************************************************************)
(* What one direction of a PCI Express link promises its two devices,      *)
(* whatever the protocol below: a first-in first-out channel that takes    *)
(* packets at one end and hands each of them over, once, at the other.     *)
(***************************************************************************)
EXTENDS Integers, Sequences

CONSTANT Packets       \* the packets devices exchange

VARIABLES
  accepted,   \* the packets taken from the sending device, oldest first
  delivered   \* the packets given to the receiving device, oldest first

chanVars == <<accepted, delivered>>

Init ==
  /\ accepted = <<>>
  /\ delivered = <<>>

\* The channel takes one more packet.
Accept ==
  LET n == Len(accepted) + 1
  IN  /\ Len(accepted') = n
      /\ accepted'[n] \in Packets
      /\ accepted' = Append(accepted, accepted'[n])

\* The channel hands over the oldest packet not handed over yet, if any.
Deliver ==
  /\ Len(delivered) < Len(accepted)
  /\ delivered' = Append(delivered, accepted[Len(delivered) + 1])

\* One event of the link may hand a packet over and make room for another.
Next ==
  /\ Accept \/ UNCHANGED accepted
  /\ Deliver \/ UNCHANGED delivered

Safe == Init /\ [][Next]_chanVars

=============================================================================
