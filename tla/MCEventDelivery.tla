--------------------------- MODULE MCEventDelivery ---------------------------
(* Two connections, two changes and a buffer of two messages for TLC.         *)
EXTENDS EventDelivery

ConnSymmetry == Permutations(Conns)
=============================================================================
