---------------------------- MODULE GameHistory ----------------------------
(***************************************************************************)
(* The history of one game in Postgres.  Every transition of the game      *)
(* (module GameSpec) is followed by best-effort statements of the handler  *)
(* that made it: rows for the game and its players, lives, status.  The    *)
(* handlers run on several instances and take no lock for it, so the       *)
(* statements of one handler are executed in its order and those of        *)
(* different handlers in any.                                              *)
(*                                                                         *)
(* HistoryFaults:                                                          *)
(*   "error"  a statement, or the reload of the game after a join, fails   *)
(*            (a client that leaves cancels the context of its request)    *)
(*   "crash"  the instance of a handler stops                              *)
(***************************************************************************)
EXTENDS GameSpec

CONSTANTS
    GameRow,        \* names the row of table games
    DefaultLives,   \* GameHandler.cfg.InitialLives, of games that set none
    HistoryFaults

ASSUME GameRowAssumption      == GameRow \notin Players
ASSUME DefaultLivesAssumption == DefaultLives \in Int
ASSUME HistoryFaultsAssumption == HistoryFaults \subseteq {"error", "crash"}

VARIABLES
    gameRow,    \* games.status, "none" while there is no row
    rows,       \* player -> its row: joined says whether there is one
    todo,       \* the statements that handlers have not executed yet
    spoiled     \* history: rows with a statement that failed, or that was
                \* issued while an earlier one was still to be executed

hvars == <<gameRow, rows, todo, spoiled>>

\* A handler is named by what it did: the join of a player (the owner's is the
\* creation of the game), the start or the close of a question.
Handlers == ({"join"} \X Players) \cup ({"start", "close"} \X Questions)

Statements == [by : Handlers, op : {"insert", "update"}, row : Players \cup {GameRow},
               status : {"none", "waiting", "running", "finished"},
               lives : Int, active : BOOLEAN]

HistoryTypeOK ==
    /\ gameRow \in {"none", "waiting", "running", "finished"}
    /\ rows \in [Players -> PlayerData]
    /\ todo \in SUBSET Statements
    /\ spoiled \in SUBSET (Players \cup {GameRow})

---------------------------------------------------------------------------
(* The statements a handler has to execute                                 *)

OnGame(h, op, status) ==
    [by |-> h, op |-> op, row |-> GameRow, status |-> status, lives |-> 0, active |-> FALSE]

OnPlayer(h, op, x, lives, active) ==
    [by |-> h, op |-> op, row |-> x, status |-> "none", lives |-> lives, active |-> active]

CreateGame ==
    LET h == <<"join", Owner>> IN
    {OnGame(h, "insert", "waiting"), OnPlayer(h, "insert", Owner, InitialLives, TRUE)}

JoinGame(x, lives) == {OnPlayer(<<"join", x>>, "insert", x, lives, TRUE)}

StartGame(q) == {OnGame(<<"start", q>>, "update", "running")}

\* Mutant: every close marks the game finished.
MutantPersistClose(q, lost, ps, over) ==
    {OnPlayer(<<"close", q>>, "update", x, ps[x].lives, ps[x].active) : x \in lost}
        \cup {OnGame(<<"close", q>>, "update", "finished")}

\* persistClose: LifeDeltas, then the status if the game is over.
persistClose(q, lost, ps, over) ==
    {OnPlayer(<<"close", q>>, "update", x, ps[x].lives, ps[x].active) : x \in lost}
        \cup IF over THEN {OnGame(<<"close", q>>, "update", "finished")} ELSE {}

\* Mutant: the owner's row may come first.
MutantBefore(s, t) ==
    s.by = t.by /\ s.op = "update" /\ s.row # GameRow /\ t.row = GameRow

\* Handler order: the game's row before the owner's, lives before the status.
Before(s, t) ==
    /\ s.by = t.by
    /\ \/ s.op = "insert" /\ s.row = GameRow /\ t.row # GameRow
       \/ s.op = "update" /\ s.row # GameRow /\ t.row = GameRow

Executable(s) == s \in todo /\ \A t \in todo : ~Before(t, s)

\* The rows whose contents depend on s: a player's row needs the game's.
Affects(s) ==
    IF s.op = "insert" /\ s.row = GameRow THEN Players \cup {GameRow} ELSE {s.row}

AffectedBy(S) == UNION {Affects(s) : s \in S}

---------------------------------------------------------------------------

HInit ==
    /\ Init
    /\ gameRow = "none"
    /\ rows = [x \in Players |-> Absent]
    /\ todo = CreateGame
    /\ spoiled = {}

\* The handler of a transition has the statements S to execute.
Issue(S) ==
    /\ todo' = todo \cup S
    /\ spoiled' = spoiled \cup (AffectedBy(S) \cap AffectedBy(todo))
    /\ UNCHANGED <<gameRow, rows>>

\* The game is loaded again for the lives its players start with; if that
\* fails, the handler takes those of its own configuration.
HJoin(x) ==
    /\ Join(x)
    /\ \/ Issue(JoinGame(x, InitialLives))
       \/ /\ "error" \in HistoryFaults
          /\ todo' = todo \cup JoinGame(x, DefaultLives)
          /\ spoiled' = spoiled \cup {x}
          /\ UNCHANGED <<gameRow, rows>>

HStart == Start /\ Issue(StartGame(meta.idx + 1))

HAnswer(x, opt) == Answer(x, opt) /\ UNCHANGED hvars

\* The callback registered with OnQuestionClosed.
HClose ==
    /\ Close
    /\ Issue(persistClose(meta.idx, LifeLost(players, answers[meta.idx], meta.idx),
                          players', meta'.status = "finished"))

\* Closed without penalties: closeQuestion returns an error and nothing is saved.
HAbandon == Abandon /\ UNCHANGED hvars

\* An update of a row that does not exist changes nothing and is no error; a
\* player's row cannot be inserted before its game's (foreign key).
Effect(s) ==
    IF s.row = GameRow
    THEN /\ gameRow' = IF s.op = "insert" \/ gameRow # "none" THEN s.status ELSE gameRow
         /\ UNCHANGED rows
    ELSE /\ rows' = IF (s.op = "insert" /\ gameRow # "none") \/ (s.op = "update" /\ rows[s.row].joined)
                    THEN [rows EXCEPT ![s.row] =
                            [joined |-> TRUE, lives |-> s.lives, active |-> s.active]]
                    ELSE rows
         /\ UNCHANGED gameRow

Execute(s) ==
    /\ Executable(s)
    /\ todo' = todo \ {s}
    /\ Effect(s)
    /\ UNCHANGED <<vars, spoiled>>

\* Logged and forgotten.
FailStatement(s) ==
    /\ "error" \in HistoryFaults
    /\ Executable(s)
    /\ todo' = todo \ {s}
    /\ spoiled' = spoiled \cup Affects(s)
    /\ UNCHANGED <<vars, gameRow, rows>>

CrashHandler(h) ==
    LET left == {s \in todo : s.by = h} IN
    /\ "crash" \in HistoryFaults
    /\ left # {}
    /\ todo' = todo \ left
    /\ spoiled' = spoiled \cup AffectedBy(left)
    /\ UNCHANGED <<vars, gameRow, rows>>

HNext ==
    \/ \E x \in Players : HJoin(x)
    \/ HStart
    \/ \E x \in Players, opt \in OptionIDs : HAnswer(x, opt)
    \/ HClose
    \/ HAbandon
    \/ \E s \in todo : Execute(s) \/ FailStatement(s)
    \/ \E h \in Handlers : CrashHandler(h)

HSpec == HInit /\ [][HNext]_<<vars, hvars>>

---------------------------------------------------------------------------
(* Properties *)

\* The history never runs ahead of the game: whatever is late, lost or out of
\* order, a row never says running before the first question or finished before
\* the end, nobody is recorded who did not join, and no player is recorded with
\* fewer lives than it has left (unless it was recorded with the default number)
\* or as eliminated while it is not.
HistoryNeverAhead ==
    /\ gameRow = "running" => meta.status # "waiting"
    /\ gameRow = "finished" => meta.status = "finished"
    /\ \A x \in Players : rows[x].joined =>
        /\ players[x].joined
        /\ rows[x].lives \in (players[x].lives .. InitialLives) \cup {DefaultLives}
        /\ players[x].active => rows[x].active

\* Once the statements that concern a row are executed, the row says what the
\* game says, unless one of them failed or was issued before an earlier one was
\* executed ("Best-effort persistence": README).  So a history that is wrong for
\* good takes a failure or two handlers at once: "running" after "finished",
\* lives of an earlier question, a player before its game.
HistoryCatchesUp ==
    LET caughtUp(row) == row \notin spoiled \cup AffectedBy(todo) IN
    /\ caughtUp(GameRow) => gameRow = meta.status
    /\ \A x \in Players : caughtUp(x) => rows[x] = players[x]
=============================================================================
