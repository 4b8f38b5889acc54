----------------------------- MODULE MCGameSpec -----------------------------
(* A game of three players and three questions for TLC, with its winner.    *)
(* The questions offer different options, so that an option can be one of a *)
(* question and not of another.                                             *)
EXTENDS Leader, TLC

MCOptionsOf == [q \in Questions |-> IF q = 1 THEN {"a", "b", "c"} ELSE {"a", "b"}]
MCCorrect   == [q \in Questions |-> IF q = 1 THEN "b" ELSE "a"]

GuestSymmetry == Permutations(Players \ {Owner})
=============================================================================
