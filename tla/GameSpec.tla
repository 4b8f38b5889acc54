------------------------------ MODULE GameSpec ------------------------------
(***************************************************************************)
(* What the engine promises about one game: joins, question starts,        *)
(* answers and closes are atomic.  Module GameEngine, where every one of   *)
(* them is several Redis calls of several concurrent handlers, implements  *)
(* this specification.                                                     *)
(*                                                                         *)
(* A crash or a failed Redis call between the two writes of a close leaves *)
(* the question closed and its penalties unapplied: MayAbandon says        *)
(* whether that is possible.                                               *)
(***************************************************************************)
EXTENDS GameRules, FiniteSets

CONSTANT MayAbandon
ASSUME MayAbandonAssumption == MayAbandon \in BOOLEAN

VARIABLES
    meta,       \* progress fields
    players,    \* the standing of every player
    answers,    \* question index -> player -> option
    settled     \* history: questions whose penalties were applied

vars == <<meta, players, answers, settled>>

TypeOK ==
    /\ meta \in Meta
    /\ players \in [Players -> PlayerData]
    /\ answers \in [Questions -> AnswerSheet]
    /\ settled \in SUBSET Questions

Init ==
    /\ meta = NewGame
    /\ players = [x \in Players |-> IF x = Owner THEN Joined ELSE Absent]
    /\ answers = [q \in Questions |-> NoAnswers]
    /\ settled = {}

Join(x) ==
    /\ CanJoin(meta, players, x)
    /\ players' = [players EXCEPT ![x] = Joined]
    /\ UNCHANGED <<meta, answers, settled>>

Start ==
    /\ CanStart(meta)
    /\ meta' = Started(meta)
    /\ UNCHANGED <<players, answers, settled>>

\* Mutant: the last answer counts instead of the first.
MutantAnswer(x, opt) ==
    /\ meta.open
    /\ CanAnswer(meta, players, NoAnswers, x, meta.idx, opt)
    /\ answers' = [answers EXCEPT ![meta.idx][x] = opt]
    /\ UNCHANGED <<meta, players, settled>>

Answer(x, opt) ==
    /\ meta.open
    /\ CanAnswer(meta, players, answers[meta.idx], x, meta.idx, opt)
    /\ answers' = [answers EXCEPT ![meta.idx][x] = opt]
    /\ UNCHANGED <<meta, players, settled>>

Close ==
    /\ CanClose(meta, -1)
    /\ players' = Penalised(players, answers[meta.idx], meta.idx)
    /\ meta' = Closed(meta, players')
    /\ settled' = settled \cup {meta.idx}
    /\ UNCHANGED answers

Abandon ==
    /\ MayAbandon
    /\ CanClose(meta, -1)
    /\ meta' = [meta EXCEPT !.open = FALSE]
    /\ UNCHANGED <<players, answers, settled>>

Next ==
    \/ \E x \in Players : Join(x)
    \/ Start
    \/ \E x \in Players, opt \in OptionIDs : Answer(x, opt)
    \/ Close
    \/ Abandon

Spec == Init /\ [][Next]_vars

---------------------------------------------------------------------------
(* Properties *)

\* The settled questions whose answer cost player x a life, had x been active.
Missed(x) == {i \in settled : answers[i][x] # Correct[i]}

\* applyPenalties, over the whole game: the lives of a player are exactly the
\* initial ones less one per settled question it missed, down to zero, and a
\* player is active exactly while it has lives left.  An answer that was
\* recorded but not counted, counted twice, or changed after the close, would
\* show here.
LivesMatchAnswers ==
    \A x \in Players : players[x].joined =>
        LET missed == Cardinality(Missed(x)) IN
        /\ players[x].lives = IF missed > InitialLives THEN 0 ELSE InitialLives - missed
        /\ players[x].active <=> players[x].lives > 0

\* The end of a game (closeQuestion and applyPenalties): a game finishes only
\* by settling a question and for the reason that holds of its players, and
\* once a question is settled the game goes on only with two active players
\* and a question left.
EndedForItsReason ==
    LET active == activePlayers(players)
        alone  == Cardinality(active) = 1 IN
    /\ meta.status = "finished" =>
        /\ ~meta.open /\ meta.idx \in settled
        /\ meta.reason = "last_player_standing" <=> alone
        /\ meta.reason = "all_eliminated" <=> active = {}
        /\ meta.reason = "no_more_questions" =>
             meta.idx = TotalQuestions - 1 /\ Cardinality(active) > 1
    /\ (meta.status = "running" /\ ~meta.open /\ meta.idx \in settled) =>
        Cardinality(active) > 1 /\ meta.idx < TotalQuestions - 1
    /\ meta.status # "finished" <=> meta.reason = "none"

\* Everything that was decided stays decided: an answer, once recorded, is
\* never replaced or removed, and a new one is only for the question that is
\* open before and after the step, by a player still in the game
\* (recordAnswerScript and the checks of SubmitAnswer).
AnswersAreFinal ==
    [][\A i \in Questions, x \in Players : answers'[i][x] # answers[i][x] =>
          /\ answers[i][x] = NoAnswer
          /\ meta.open /\ meta'.open /\ meta.idx = i
          /\ players[x].joined /\ players[x].active]_vars

\* A game only moves forward: questions are started in order and never
\* reopened, a finished game and an eliminated player stay so, nobody joins
\* after the first question and no lives are gained.
OnlyForward ==
    [][/\ meta'.idx \in {meta.idx, meta.idx + 1}
       /\ meta'.idx = meta.idx => (meta'.open => meta.open)
       /\ meta'.idx # meta.idx => meta.status # "finished" /\ ~meta.open
       /\ meta.status = "finished" => meta' = meta
       /\ meta'.status = "waiting" => meta.status = "waiting"
       /\ \A x \in Players :
            /\ players[x].joined => /\ players'[x].joined
                                    /\ players'[x].lives <= players[x].lives
                                    /\ players'[x].active => players[x].active
            /\ players'[x].joined /\ meta.status # "waiting" => players[x].joined]_vars
=============================================================================
