--------------------------- MODULE MCEventRouter ---------------------------
(* Two producers, a channel of three with two slots above the watermark, batches *)
(* of two, and as many objects as events: eventPool never runs short.            *)
EXTENDS EventRouter, TLC

CONSTANTS p1, p2, o1, o2, o3, o4

Symmetry == Permutations(Producers) \cup Permutations(Objects)
=============================================================================
