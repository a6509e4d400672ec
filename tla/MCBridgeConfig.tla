-------------------------- MODULE MCBridgeConfig --------------------------
(* An instance of BridgeConfig for model checking *)
EXTENDS BridgeConfig

\* Lower halves on both sides of the middle of the word, upper halves that do
\* and that do not fit in the short word, a memory window that an IO window
\* overlaps or follows.
MCValues ==
  [r \in Registers |->
     CASE r \in {"preBase", "preLimit"} -> {1, 3}
       [] r \in {"preBaseUpper", "preLimitUpper"} -> {1, 3}
       [] r = "memBase" -> {1}
       [] r = "ioBase" -> {1, 2}
       [] r \in {"memLimit", "ioLimit"} -> {2}]
=============================================================================
