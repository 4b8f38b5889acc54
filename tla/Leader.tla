------------------------------- MODULE Leader -------------------------------
(***************************************************************************)
(* The winner of a game.  When a close ends the game (module GameSpec),    *)
(* applyPenalties lists the survivors, sorted by their IDs, and State.leader *)
(* scans them once, one iteration per step: it keeps the best so far and   *)
(* whether the top is tied.  IDs are random UUIDs, so their order is any   *)
(* order.  The standings of a finished game do not change any more, so it  *)
(* makes no difference that the scan comes before the game is saved.       *)
(***************************************************************************)
EXTENDS GameSpec

\* The empty string, written "none", stands for "no leader": it is nobody's ID.
ASSUME LeaderAssumption == "none" \notin Players

VARIABLES
    n, ids,       \* the IDs to scan are ids[1] .. ids[n]
    k,            \* number of IDs scanned so far
    leader, best, tied

scan == <<n, ids, k, leader, best, tied>>

LInit ==
    /\ Init
    /\ n = 0 /\ ids = <<>> /\ k = 0
    /\ leader = "none" /\ best = -1 /\ tied = FALSE

\* s[1] .. s[m] are the members of S, each once.
Lists(s, m, S) ==
    /\ \A i, j \in 1 .. m : s[i] = s[j] => i = j
    /\ \A x \in S : \E i \in 1 .. m : s[i] = x

\* Every operation but the close leaves the scan alone.
Play ==
    /\ \/ \E x \in Players : Join(x)
       \/ Start
       \/ \E x \in Players, opt \in OptionIDs : Answer(x, opt)
       \/ Abandon
    /\ UNCHANGED scan

\* The survivors are listed when the game is over.
LClose ==
    /\ Close
    /\ IF meta'.status = "finished"
       THEN LET active == activePlayers(players') IN
            /\ n' = Cardinality(active)
            /\ ids' \in [1 .. n' -> active]
            /\ Lists(ids', n', active)
       ELSE UNCHANGED <<n, ids>>
    /\ UNCHANGED <<k, leader, best, tied>>

\* Mutant: a new best does not clear an earlier tie.
MutantScan ==
    /\ k < n
    /\ k' = k + 1
    /\ LET id == ids[k + 1]  lives == players[id].lives IN
       \/ lives > best /\ leader' = id /\ best' = lives /\ UNCHANGED tied
       \/ lives = best /\ tied' = TRUE /\ UNCHANGED <<leader, best>>
       \/ lives < best /\ UNCHANGED <<leader, best, tied>>
    /\ UNCHANGED <<vars, n, ids>>

Scan ==
    /\ k < n
    /\ k' = k + 1
    /\ LET id == ids[k + 1]  lives == players[id].lives IN
       \/ lives > best /\ leader' = id /\ best' = lives /\ tied' = FALSE
       \/ lives = best /\ tied' = TRUE /\ UNCHANGED <<leader, best>>
       \/ lives < best /\ UNCHANGED <<leader, best, tied>>
    /\ UNCHANGED <<vars, n, ids>>

LNext == Play \/ LClose \/ Scan

LSpec == LInit /\ [][LNext]_<<vars, scan>>

Winner == IF tied THEN "none" ELSE leader

---------------------------------------------------------------------------

\* x has strictly more lives than every other survivor.
Strictly(x) ==
    /\ x \in activePlayers(players)
    /\ \A y \in activePlayers(players) \ {x} : players[y].lives < players[x].lives

\* The winner of a finished game is the survivor "with strictly the most lives", and
\* there is none "if ids is empty or the top is tied", in whatever order the IDs are
\* scanned: a one-pass scan with a flag could forget a tie, or keep an old one.  So the
\* last player standing wins, and a draw has no winner.
LeaderIsStrict ==
    meta.status = "finished" /\ k = n =>
        \/ Strictly(Winner)
        \/ Winner = "none" /\ \A x \in Players : ~Strictly(x)

\* What the scan has established about the IDs seen so far.
ScanInv ==
    /\ n \in Nat /\ ids \in [1 .. n -> Players] /\ k \in 0 .. n
    /\ best \in Int /\ best >= -1
    /\ tied \in BOOLEAN
    /\ meta.status # "finished" => n = 0
    /\ meta.status = "finished" =>
          /\ Lists(ids, n, activePlayers(players))
          /\ \A i \in 1 .. n : ids[i] \in activePlayers(players) /\ players[ids[i]].lives \in Nat
    /\ \A i \in 1 .. k : players[ids[i]].lives <= best
    /\ k = 0 => leader = "none" /\ best = -1 /\ ~tied
    /\ k > 0 => \E i \in 1 .. k :
                  /\ ids[i] = leader
                  /\ players[leader].lives = best
                  /\ tied <=> \E j \in 1 .. k : j # i /\ players[ids[j]].lives = best
=============================================================================
