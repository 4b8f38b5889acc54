--------------------------- MODULE MCGameLifetime ---------------------------
(* A host and a guest, two questions and a short life for TLC.               *)
EXTENDS GameLifetime
=============================================================================
