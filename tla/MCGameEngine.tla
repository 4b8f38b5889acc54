---------------------------- MODULE MCGameEngine ----------------------------
(* One game for TLC.  MCOptionsOf: every question has the options "a" and    *)
(* "b" except the second, which has only the correct one, so that an option  *)
(* may be invalid.  MCOnlyCorrect: a player answers right or not at all,     *)
(* which the rules treat like a wrong answer.                                *)
EXTENDS GameEngine, TLC

MCOptionsOf == [q \in Questions |-> IF q = 1 THEN {"b"} ELSE {"a", "b"}]
MCCorrect   == [q \in Questions |-> IF q = 1 THEN "b" ELSE "a"]

MCOnlyCorrect == [q \in Questions |-> {"a"}]
MCCorrectIsA  == [q \in Questions |-> "a"]

AllEvents == {e.type : e \in Events}

WorkerSymmetry == Permutations(Workers)
=============================================================================
