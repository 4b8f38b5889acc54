--------------------------- MODULE MCConnections ---------------------------
(* One player's connections for TLC.  Connections are interchangeable, and   *)
(* so are instances.                                                         *)
EXTENDS Connections, TLC

ConnSymmetry == Permutations(Conns) \cup Permutations(Instances)
=============================================================================
