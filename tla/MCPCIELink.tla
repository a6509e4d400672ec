----------------------------- MODULE MCPCIELink -----------------------------
(* Instances of PCIELink for TLC. *)
EXTENDS PCIELink

CONSTANTS
  DownTLPs, UpTLPs,    \* MaxTLP of the two interfaces
  DownPorts, UpPorts   \* Masters of the two interfaces

MCMaxTLP == [l \in Links |-> IF l = "down" THEN DownTLPs ELSE UpTLPs]

MCMasters == [l \in Links |-> IF l = "down" THEN DownPorts ELSE UpPorts]
=============================================================================
