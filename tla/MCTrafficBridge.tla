--------------------------- MODULE MCTrafficBridge ---------------------------
(* A plugin of one or two slots and three names, under every fault or none.  *)
EXTENDS TrafficBridge, TLC

CONSTANTS i1, i2, i3, c1, c2

MCId     == {i1, i2, i3}
MCClient == {c1, c2}
MCFaults == {"bug", "http", "late", "stop"}
NoFaults == {}

Symmetry == Permutations(MCId) \cup Permutations(MCClient)
=============================================================================
