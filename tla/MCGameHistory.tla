---------------------------- MODULE MCGameHistory ----------------------------
(* A game of two players and its history for TLC.                           *)
EXTENDS GameHistory

MCOptionsOf == [q \in Questions |-> {"a", "b"}]
MCCorrect   == [q \in Questions |-> "a"]
=============================================================================
