----------------------------- MODULE GameRules -----------------------------
(***************************************************************************)
(* The rules of one game, as the pure parts of internal/game state them:   *)
(* what a stored game looks like, when each operation is allowed, and what *)
(* closing a question does to the players and to the game.                 *)
(*                                                                         *)
(* A question is named by its index in the game's copy of the list (IDs    *)
(* are UUIDs, hence distinct); a player and an option by their ID.         *)
(***************************************************************************)
EXTENDS Integers

CONSTANTS
    Players,          \* IDs of the players that may join
    Owner,            \* the host's own player, added when the game is created
    OptionIDs,        \* option IDs a client may send
    TotalQuestions,   \* number of questions copied into the game
    OptionsOf,        \* the option IDs of each question
    Correct,          \* the correct option ID of each question
    InitialLives      \* EngineConfig.InitialLives

Questions == 0 .. TotalQuestions - 1

\* The empty string, Go's zero value, is written "none": what Answers[pid] yields
\* for a player who did not answer, and the end reason of an unfinished game.
NoAnswer == "none"

\* CreateGame refuses an empty list; decodeQuestion generates empty option IDs
\* and requires the correct option to be one of the question's; CreateGame
\* refuses lives < 1.
ASSUME OwnerAssumption == Owner \in Players
ASSUME TotalAssumption == TotalQuestions \in Nat \ {0}
ASSUME OptionsAssumption == /\ NoAnswer \notin OptionIDs
                            /\ OptionsOf \in [Questions -> SUBSET OptionIDs]
                            /\ Correct \in [Questions -> OptionIDs]
                            /\ \A q \in Questions : Correct[q] \in OptionsOf[q]
ASSUME LivesAssumption == InitialLives \in Nat \ {0}

---------------------------------------------------------------------------
(* State.  The meta hash keeps the progress fields, the players hash one    *)
(* entry per player that joined.                                           *)

Reasons == {"last_player_standing", "all_eliminated", "no_more_questions"}

Meta == [status : {"waiting", "running", "finished"},
         idx    : -1 .. TotalQuestions - 1,
         open   : BOOLEAN,
         reason : Reasons \cup {"none"}]

PlayerData == [joined : BOOLEAN, lives : Int, active : BOOLEAN]

AnswerSheet == [Players -> OptionIDs \cup {NoAnswer}]

NewGame == [status |-> "waiting", idx |-> -1, open |-> FALSE, reason |-> "none"]
Absent  == [joined |-> FALSE, lives |-> 0, active |-> FALSE]
Joined  == [joined |-> TRUE, lives |-> InitialLives, active |-> TRUE]

NoAnswers == [x \in Players |-> NoAnswer]

---------------------------------------------------------------------------
(* When an operation is allowed.  Each conjunct is one early return.       *)

\* Mutant: a started game can be joined.
MutantCanJoin(m, ps, x) == ~ps[x].joined

CanJoin(m, ps, x) ==
    /\ m.status = "waiting"
    /\ ~ps[x].joined

\* Mutants: a question may start while one is open; or past the end of the list.
MutantCanStartPastEnd(m) == m.status # "finished" /\ ~m.open /\ m.idx + 1 <= TotalQuestions

MutantCanStart(m) == m.status # "finished" /\ m.idx + 1 < TotalQuestions

CanStart(m) ==
    /\ m.status # "finished"
    /\ ~m.open
    /\ m.idx + 1 < TotalQuestions

\* Mutant: a deadline closes whatever question is open.
MutantCanClose(m, only) == m.status = "running" /\ m.open

\* only >= 0 is the question a deadline was registered for; -1 is the host.
CanClose(m, only) ==
    /\ m.status = "running"
    /\ m.open
    /\ only >= 0 => m.idx = only

hasOption(q, opt) == opt \in OptionsOf[q]

CanAnswer(m, ps, sheet, x, q, opt) ==
    /\ m.status = "running"
    /\ ps[x].joined
    /\ ps[x].active
    /\ m.open
    /\ m.idx = q
    /\ sheet[x] = NoAnswer
    /\ hasOption(q, opt)

---------------------------------------------------------------------------
(* What an operation computes.                                             *)

Started(m) == [m EXCEPT !.status = "running", !.idx = m.idx + 1, !.open = TRUE]

activePlayers(ps) == {x \in Players : ps[x].joined /\ ps[x].active}

RemainingQuestions(m) == TotalQuestions - m.idx - 1

\* Mutant: a player who did not answer keeps its life.
MutantLifeLost(ps, sheet, i) ==
    {x \in activePlayers(ps) : sheet[x] \notin {Correct[i], NoAnswer}}

LifeLost(ps, sheet, i) == {x \in activePlayers(ps) : sheet[x] # Correct[i]}

Penalised(ps, sheet, i) ==
    [x \in Players |->
        IF x \in LifeLost(ps, sheet, i)
        THEN [ps[x] EXCEPT !.lives = ps[x].lives - 1, !.active = ps[x].lives - 1 > 0]
        ELSE ps[x]]

Eliminated(ps, sheet, i) ==
    {x \in LifeLost(ps, sheet, i) : ps[x].lives - 1 <= 0}

\* Mutant: the last question is looked for one too early.
MutantEndReason(m, ps) ==
    CASE \E x \in Players : activePlayers(ps) = {x} -> "last_player_standing"
      [] activePlayers(ps) = {}                     -> "all_eliminated"
      [] OTHER -> IF RemainingQuestions(m) = 1 THEN "no_more_questions" ELSE "none"

EndReason(m, ps) ==
    CASE \E x \in Players : activePlayers(ps) = {x} -> "last_player_standing"
      [] activePlayers(ps) = {}                     -> "all_eliminated"
      [] OTHER -> IF RemainingQuestions(m) = 0 THEN "no_more_questions" ELSE "none"

\* Mutant: the end reason is saved, the status is not.
MutantClosed(m, ps) ==
    LET reason == EndReason(m, ps)
    IN  [m EXCEPT !.open = FALSE, !.reason = reason]

\* The progress fields after a close, given the players' standing after it.
Closed(m, ps) ==
    LET reason == EndReason(m, ps)
    IN  [m EXCEPT !.open   = FALSE,
                  !.status = IF reason = "none" THEN m.status ELSE "finished",
                  !.reason = IF reason = "none" THEN m.reason ELSE reason]
=============================================================================
