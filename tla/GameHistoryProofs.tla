------------------------- MODULE GameHistoryProofs -------------------------
(***************************************************************************)
(* Proofs about GameHistory: for any number of players, questions and      *)
(* handlers, whatever statements fail or are overtaken, the history does   *)
(* not run ahead of the game, and a row that was spared both is right.     *)
(***************************************************************************)
EXTENDS GameHistory, GameSpecProofs

---------------------------------------------------------------------------
(* The game under its history.                                             *)

\* Saving the history leaves the game alone: every step is one of the game's or
\* no step of it.
LEMMA HistoryKeepsGame == [HNext]_<<vars, hvars>> => [Next]_vars
BY DEF HNext, HJoin, HStart, HAnswer, HClose, HAbandon, Execute, FailStatement,
       CrashHandler, Next, vars

\* So everything proved of the game holds of the game with a history.
THEOREM HistoryImplementsGame == HSpec => Spec
<1>1. HInit => Init
  BY DEF HInit
<1>2. QED
  BY <1>1, HistoryKeepsGame, PTL DEF HSpec, Spec

---------------------------------------------------------------------------
(* Statements.                                                             *)

\* The fields of a statement on the game.
LEMMA OnGameFields ==
    ASSUME NEW h \in Handlers, NEW op \in {"insert", "update"},
           NEW status \in {"none", "waiting", "running", "finished"}
    PROVE  /\ OnGame(h, op, status) \in Statements
           /\ OnGame(h, op, status).op = op
           /\ OnGame(h, op, status).row = GameRow
           /\ OnGame(h, op, status).status = status
           /\ OnGame(h, op, status).by = h
BY DEF OnGame, Statements

\* The fields of a statement on a player.
LEMMA OnPlayerFields ==
    ASSUME NEW h \in Handlers, NEW op \in {"insert", "update"}, NEW x \in Players,
           NEW lives \in Int, NEW active \in BOOLEAN
    PROVE  /\ OnPlayer(h, op, x, lives, active) \in Statements
           /\ OnPlayer(h, op, x, lives, active).op = op
           /\ OnPlayer(h, op, x, lives, active).row = x
           /\ OnPlayer(h, op, x, lives, active).lives = lives
           /\ OnPlayer(h, op, x, lives, active).active = active
           /\ OnPlayer(h, op, x, lives, active).by = h
BY DEF OnPlayer, Statements

\* A statement affects its own row.
LEMMA AffectsOwnRow ==
    ASSUME NEW S, S \subseteq Statements, NEW s \in S
    PROVE  s.row \in AffectedBy(S) /\ s.row \in Affects(s)
<1>1. s.row \in Affects(s)
  BY DEF Affects, Statements
<1>2. QED
  BY <1>1 DEF AffectedBy

\* The statement that creates the row of the game.
GameInsert == OnGame(<<"join", Owner>>, "insert", "waiting")

\* It is the statement of the handler that makes the owner join.
LEMMA GameInsertFields ==
    /\ GameInsert \in Statements /\ GameInsert.op = "insert" /\ GameInsert.row = GameRow
    /\ GameInsert.status = "waiting" /\ GameInsert.by = <<"join", Owner>>
<1>1. <<"join", Owner>> \in Handlers
  BY OwnerAssumption DEF Handlers
<1>2. QED
  BY <1>1, OnGameFields DEF GameInsert

\* Every row depends on it.
LEMMA GameInsertAffects ==
    ASSUME NEW S, GameInsert \in S
    PROVE  Players \cup {GameRow} \subseteq AffectedBy(S)
<1>1. Affects(GameInsert) = Players \cup {GameRow}
  BY GameInsertFields DEF Affects
<1>2. QED
  BY <1>1 DEF AffectedBy

\* What a join issues: one insert for the player.
LEMMA JoinGameFields ==
    ASSUME NEW x \in Players, NEW lives \in Int, NEW s, s \in JoinGame(x, lives)
    PROVE  /\ s \in Statements /\ s.op = "insert" /\ s.row = x /\ s.lives = lives
           /\ s.active
<1>1. <<"join", x>> \in Handlers
  BY DEF Handlers
<1>2. s = OnPlayer(<<"join", x>>, "insert", x, lives, TRUE)
  BY DEF JoinGame
<1>3. QED
  BY <1>1, <1>2 DEF OnPlayer, Statements

\* What a start issues: one update of the game.
LEMMA StartGameFields ==
    ASSUME NEW q \in Questions, NEW s \in StartGame(q)
    PROVE  /\ s \in Statements /\ s.op = "update" /\ s.row = GameRow /\ s.status = "running"
           /\ StartGame(q) = {s}
<1>1. <<"start", q>> \in Handlers
  BY DEF Handlers
<1>2. s = OnGame(<<"start", q>>, "update", "running")
  BY DEF StartGame
<1>3. QED
  BY <1>1, <1>2, OnGameFields DEF StartGame

\* What persistClose issues for the players: the standing of those who lost a life.
LEMMA persistCloseForm ==
    ASSUME NEW q \in Questions, NEW lost \in SUBSET Players,
           NEW ps \in [Players -> PlayerData], NEW over \in BOOLEAN,
           NEW s \in persistClose(q, lost, ps, over), s.row # GameRow
    PROVE  /\ s.row \in lost
           /\ s = OnPlayer(<<"close", q>>, "update", s.row, ps[s.row].lives, ps[s.row].active)
<1>1. <<"close", q>> \in Handlers
  BY DEF Handlers
<1>2. s # OnGame(<<"close", q>>, "update", "finished")
  BY <1>1, OnGameFields
<1>3. PICK x \in lost :
        s = OnPlayer(<<"close", q>>, "update", x, ps[x].lives, ps[x].active)
  BY <1>2 DEF persistClose
<1>4. ps[x].lives \in Int /\ ps[x].active \in BOOLEAN /\ x \in Players
  BY DEF PlayerData
<1>5. QED
  BY <1>1, <1>3, <1>4, OnPlayerFields

\* The same by its fields.
LEMMA persistClosePlayers ==
    ASSUME NEW q \in Questions, NEW lost \in SUBSET Players,
           NEW ps \in [Players -> PlayerData], NEW over \in BOOLEAN,
           NEW s \in persistClose(q, lost, ps, over), s.row # GameRow
    PROVE  /\ s \in Statements /\ s.op = "update" /\ s.row \in lost
           /\ s.lives = ps[s.row].lives /\ (s.active <=> ps[s.row].active)
<1>1. <<"close", q>> \in Handlers
  BY DEF Handlers
<1>2. /\ s.row \in lost
      /\ s = OnPlayer(<<"close", q>>, "update", s.row, ps[s.row].lives, ps[s.row].active)
  BY persistCloseForm
<1>3. ps[s.row].lives \in Int /\ ps[s.row].active \in BOOLEAN /\ s.row \in Players
  BY <1>2 DEF PlayerData
<1>4. QED
  BY <1>1, <1>2, <1>3, OnPlayerFields

\* What persistClose issues for the game: its end, if it is over.
LEMMA persistCloseGame ==
    ASSUME NEW q \in Questions, NEW lost \in SUBSET Players,
           NEW ps \in [Players -> PlayerData], NEW over \in BOOLEAN,
           NEW s \in persistClose(q, lost, ps, over), s.row = GameRow
    PROVE  /\ over
           /\ s \in Statements /\ s.op = "update" /\ s.status = "finished"
           /\ s = OnGame(<<"close", q>>, "update", "finished")
<1>1. <<"close", q>> \in Handlers
  BY DEF Handlers
<1>2. ASSUME NEW x \in lost
      PROVE  s # OnPlayer(<<"close", q>>, "update", x, ps[x].lives, ps[x].active)
  <2>1. ps[x].lives \in Int /\ ps[x].active \in BOOLEAN /\ x \in Players
    BY DEF PlayerData
  <2>2. OnPlayer(<<"close", q>>, "update", x, ps[x].lives, ps[x].active).row = x
    BY <1>1, <2>1, OnPlayerFields
  <2>3. QED
    BY <2>1, <2>2, GameRowAssumption
<1>3. over /\ s = OnGame(<<"close", q>>, "update", "finished")
  BY <1>2 DEF persistClose
<1>4. QED
  BY <1>1, <1>3, OnGameFields

\* Its statements for the players who lost a life and for a game that is over are
\* there, one of each.
LEMMA persistCloseCovers ==
    ASSUME NEW q \in Questions, NEW lost \in SUBSET Players,
           NEW ps \in [Players -> PlayerData], NEW over \in BOOLEAN
    PROVE  /\ \A x \in lost : \E s \in persistClose(q, lost, ps, over) : s.row = x
           /\ over => \E s \in persistClose(q, lost, ps, over) : s.row = GameRow
           /\ \A s, t \in persistClose(q, lost, ps, over) : s.row = t.row => s = t
<1>1. <<"close", q>> \in Handlers
  BY DEF Handlers
<1>2. ASSUME NEW x \in lost
      PROVE  \E s \in persistClose(q, lost, ps, over) : s.row = x
  <2>1. ps[x].lives \in Int /\ ps[x].active \in BOOLEAN /\ x \in Players
    BY DEF PlayerData
  <2> DEFINE s == OnPlayer(<<"close", q>>, "update", x, ps[x].lives, ps[x].active)
  <2>2. s.row = x
    BY <1>1, <2>1, OnPlayerFields
  <2>3. s \in persistClose(q, lost, ps, over)
    BY DEF persistClose
  <2>4. QED
    BY <2>2, <2>3
<1>3. ASSUME over PROVE \E s \in persistClose(q, lost, ps, over) : s.row = GameRow
  <2> DEFINE s == OnGame(<<"close", q>>, "update", "finished")
  <2>1. s.row = GameRow
    BY <1>1, OnGameFields
  <2>2. s \in persistClose(q, lost, ps, over)
    BY <1>3 DEF persistClose
  <2>3. QED
    BY <2>1, <2>2
<1>4. ASSUME NEW s \in persistClose(q, lost, ps, over),
             NEW t \in persistClose(q, lost, ps, over), s.row = t.row
      PROVE  s = t
  <2>1. CASE s.row = GameRow
    <3>1. s = OnGame(<<"close", q>>, "update", "finished")
      BY <2>1, persistCloseGame
    <3>2. t = OnGame(<<"close", q>>, "update", "finished")
      BY <1>4, <2>1, persistCloseGame
    <3>3. QED
      BY <3>1, <3>2
  <2>2. CASE s.row # GameRow
    <3>1. s = OnPlayer(<<"close", q>>, "update", s.row, ps[s.row].lives, ps[s.row].active)
      BY <2>2, persistCloseForm
    <3>2. t = OnPlayer(<<"close", q>>, "update", t.row, ps[t.row].lives, ps[t.row].active)
      BY <1>4, <2>2, persistCloseForm
    <3>3. QED
      BY <1>4, <3>1, <3>2
  <2>3. QED
    BY <2>1, <2>2
<1>5. QED
  BY <1>2, <1>3, <1>4

\* What the creation of the game issues.
LEMMA CreateGameFields ==
    ASSUME NEW s \in CreateGame
    PROVE  /\ s \in Statements /\ s.op = "insert"
           /\ \/ s = GameInsert
              \/ /\ s = OnPlayer(<<"join", Owner>>, "insert", Owner, InitialLives, TRUE)
                 /\ s.row = Owner /\ s.lives = InitialLives /\ s.active = TRUE
<1>1. <<"join", Owner>> \in Handlers
  BY OwnerAssumption DEF Handlers
<1>2. s = GameInsert \/ s = OnPlayer(<<"join", Owner>>, "insert", Owner, InitialLives, TRUE)
  BY DEF CreateGame, GameInsert
<1>3. CASE s = GameInsert
  BY <1>3, GameInsertFields
<1>4. CASE s = OnPlayer(<<"join", Owner>>, "insert", Owner, InitialLives, TRUE)
  BY <1>1, <1>4, OwnerAssumption, LivesAssumption DEF OnPlayer, Statements
<1>5. QED
  BY <1>2, <1>3, <1>4

---------------------------------------------------------------------------
(* What the steps have in common.                                          *)

LivesBounded == \A x \in Players : players[x].joined => players[x].lives <= InitialLives

HistoryInv == GameInv /\ HistoryTypeOK /\ LivesBounded

\* A statement says no more than has happened.
StatementAhead(s) ==
    IF s.row = GameRow
    THEN /\ s.status \in {"waiting", "running", "finished"}
         /\ s.status = "running" => meta.status # "waiting"
         /\ s.status = "finished" => meta.status = "finished"
    ELSE /\ players[s.row].joined
         /\ s.lives \in (players[s.row].lives .. InitialLives) \cup {DefaultLives}
         /\ players[s.row].active => s.active

\* S tells what the step changed: one statement for every row that is concerned,
\* with the new contents unless the row is spoiled, and none ahead of the game.
Tells(S) ==
    /\ \A s \in S : ~(s.op = "insert" /\ s.row = GameRow) /\ StatementAhead(s)'
    /\ \A s, t \in S : s.row = t.row => s = t
    /\ \A s \in S : s.row = GameRow => s.status = meta'.status
    /\ (\A s \in S : s.row # GameRow) => meta'.status = meta.status
    /\ \A x \in Players : x \notin spoiled' =>
        /\ \A s \in S : s.row = x =>
             /\ players'[x].joined
             /\ s.lives = players'[x].lives
             /\ s.active = players'[x].active
             /\ s.op = "update" => players[x].joined
        /\ (\A s \in S : s.row # x) => players'[x] = players[x]

\* A handler has the statements S to execute, and rows may be spoiled by it.
Issues(S) ==
    /\ todo' = todo \cup S
    /\ spoiled \cup (AffectedBy(S) \cap AffectedBy(todo)) \subseteq spoiled'
    /\ spoiled' \in SUBSET (Players \cup {GameRow})
    /\ UNCHANGED <<gameRow, rows>>

\* The statements L are lost.
Drops(L) ==
    /\ todo' = todo \ L
    /\ spoiled' = spoiled \cup AffectedBy(L)
    /\ UNCHANGED <<vars, gameRow, rows>>

\* Statements affect rows only.
LEMMA AffectedRows ==
    ASSUME NEW S \in SUBSET Statements
    PROVE  AffectedBy(S) \subseteq Players \cup {GameRow}
BY DEF AffectedBy, Affects, Statements

\* Issuing S has the form above.
LEMMA IssueIssues ==
    ASSUME HistoryTypeOK, NEW S \in SUBSET Statements, Issue(S)
    PROVE  Issues(S)
BY AffectedRows DEF Issue, Issues, HistoryTypeOK

\* No step lets a player have more lives than it began with.
LEMMA LivesBoundedStep == GameInv /\ LivesBounded /\ [Next]_vars => LivesBounded'
<1> SUFFICES ASSUME GameInv, LivesBounded, [Next]_vars, NEW x \in Players, players'[x].joined
             PROVE  players'[x].lives <= InitialLives
  BY DEF LivesBounded
<1>1. /\ players[x] \in PlayerData /\ players'[x] \in PlayerData
      /\ players[x].lives \in Int /\ players'[x].lives \in Int
  BY GameStep DEF GameInv, TypeOK, PlayerData
<1>2. CASE players[x].joined
  <2>1. players'[x].lives <= players[x].lives /\ players[x].lives <= InitialLives
    BY <1>2, ForwardStep DEF StandingsForward, LivesBounded
  <2>2. QED
    BY <1>1, <2>1, LivesAssumption
<1>3. CASE ~players[x].joined
  <2>1. ASSUME Close PROVE players'[x].joined = players[x].joined
    BY <2>1, CloseKeepsJoined DEF GameInv
  <2>2. PICK y \in Players : Join(y)
    BY <1>3, <2>1 DEF Next, Start, Answer, Abandon, vars
  <2>3. players'[x] = Joined
    BY <1>3, <2>2 DEF Join, GameInv, TypeOK
  <2>4. QED
    BY <2>3, LivesAssumption DEF Joined
<1>4. QED
  BY <1>2, <1>3

\* The statement of a join tells it, with the default lives for a spoiled row.
LEMMA JoinTells ==
    ASSUME HistoryInv, NEW x \in Players, HJoin(x)
    PROVE  \E S \in SUBSET Statements : Issues(S) /\ Tells(S)
<1> USE DEF HistoryInv
<1>1. /\ Join(x) /\ players'[x] = Joined /\ meta' = meta
      /\ \A y \in Players : y # x => players'[y] = players[y]
  BY DEF HJoin, Join, GameInv, TypeOK
<1>2. PICK lives \in {InitialLives, DefaultLives} :
        /\ Issues(JoinGame(x, lives))
        /\ lives = InitialLives \/ x \in spoiled'
        /\ JoinGame(x, lives) \in SUBSET Statements
  <2>1. CASE Issue(JoinGame(x, InitialLives))
    <3>1. JoinGame(x, InitialLives) \in SUBSET Statements
      BY JoinGameFields, LivesAssumption
    <3>2. QED
      BY <2>1, <3>1, IssueIssues
  <2>2. CASE /\ todo' = todo \cup JoinGame(x, DefaultLives)
             /\ spoiled' = spoiled \cup {x}
             /\ UNCHANGED <<gameRow, rows>>
    <3>1. JoinGame(x, DefaultLives) \in SUBSET Statements
      BY JoinGameFields, DefaultLivesAssumption
    <3>2. AffectedBy(JoinGame(x, DefaultLives)) \subseteq {x}
      BY JoinGameFields, DefaultLivesAssumption, GameRowAssumption DEF AffectedBy, Affects
    <3>3. QED
      BY <2>2, <3>1, <3>2 DEF Issues, HistoryTypeOK
  <2>3. QED
    BY <2>1, <2>2 DEF HJoin
<1>3. lives \in Int
  BY LivesAssumption, DefaultLivesAssumption
<1> DEFINE S == JoinGame(x, lives)
<1>4. PICK s \in S : S = {s}
  BY DEF JoinGame
<1>5. s.op = "insert" /\ s.row = x /\ s.lives = lives /\ s.active = TRUE
  BY <1>3, JoinGameFields
<1>6. x # GameRow
  BY GameRowAssumption
<1>7. players'[x].joined = TRUE /\ players'[x].lives = InitialLives /\ players'[x].active = TRUE
  BY <1>1 DEF Joined
<1>8. StatementAhead(s)'
  BY <1>2, <1>5, <1>6, <1>7, LivesAssumption DEF StatementAhead
<1> HIDE DEF S
<1>9. Tells(S)
  BY <1>1, <1>2, <1>4, <1>5, <1>6, <1>7, <1>8 DEF Tells
<1>10. QED
  BY <1>2, <1>9 DEF S

\* The statement of a start tells it.
LEMMA StartTells ==
    ASSUME HistoryInv, HStart
    PROVE  \E S \in SUBSET Statements : Issues(S) /\ Tells(S)
<1> USE DEF HistoryInv
<1> DEFINE S == StartGame(meta.idx + 1)
<1>1. meta \in Meta /\ CanStart(meta) /\ meta' = Started(meta) /\ players' = players /\ Issue(S)
  BY DEF HStart, Start, GameInv, TypeOK
<1>2. meta.idx + 1 \in Questions /\ meta'.status = "running"
  BY <1>1, StartedEffect
<1>3. PICK s \in S : /\ s.op = "update" /\ s.row = GameRow /\ s.status = "running"
                     /\ S = {s} /\ s \in Statements
  <2>1. S # {}
    BY DEF StartGame
  <2>2. QED
    BY <1>2, <2>1, StartGameFields
<1> HIDE DEF S
<1>4. Tells(S)
  BY <1>1, <1>2, <1>3, GameRowAssumption DEF Tells, StatementAhead
<1>5. QED
  BY <1>1, <1>3, <1>4, IssueIssues

\* The statements of a close tell it.
LEMMA CloseTells ==
    ASSUME HistoryInv, HClose
    PROVE  \E S \in SUBSET Statements : Issues(S) /\ Tells(S)
<1> USE DEF HistoryInv
<1> DEFINE i    == meta.idx
           lost == LifeLost(players, answers[i], i)
           over == meta'.status = "finished"
           S    == persistClose(i, lost, players', over)
<1>1. Close /\ Issue(S)
  BY DEF HClose
<1>2. /\ i \in Questions /\ lost \in SUBSET Players /\ over \in BOOLEAN
      /\ players' \in [Players -> PlayerData]
  <2>1. i \in Questions
    BY <1>1 DEF Close, CanClose, GameInv, ProgressInv, TypeOK, Meta, Questions
  <2>2. lost \in SUBSET Players
    BY DEF LifeLost, activePlayers
  <2>3. players' \in [Players -> PlayerData]
    BY <1>1, PenalisedType DEF Close, GameInv, TypeOK
  <2>4. QED
    BY <2>1, <2>2, <2>3
<1>3. meta'.status = IF over THEN "finished" ELSE meta.status
  BY <1>1, ClosedEffect DEF Close, GameInv, TypeOK
<1>4. \A x \in Players : x \notin lost => players'[x] = players[x]
  BY <1>1 DEF Close, Penalised
<1>5. ASSUME NEW x \in lost
      PROVE  players[x].joined /\ players'[x].joined
  <2>1. players[x].joined /\ x \in Players
    BY DEF LifeLost, activePlayers
  <2>2. players'[x].joined = players[x].joined
    BY <1>1, <2>1, CloseKeepsJoined DEF GameInv
  <2>3. QED
    BY <2>1, <2>2
<1>6. LivesBounded'
  <2>1. [Next]_vars
    BY <1>1 DEF Next
  <2>2. QED
    BY <2>1, LivesBoundedStep
<1> HIDE DEF i, lost, over
<1>7. /\ \A x \in lost : \E s \in S : s.row = x
      /\ over => \E s \in S : s.row = GameRow
      /\ \A s, t \in S : s.row = t.row => s = t
  BY <1>2, persistCloseCovers
<1>8. ASSUME NEW s \in S, s.row = GameRow
      PROVE  over /\ s \in Statements /\ s.op = "update" /\ s.status = "finished"
  BY <1>2, <1>8, persistCloseGame
<1>9. ASSUME NEW s \in S, s.row # GameRow
      PROVE  /\ s \in Statements /\ s.op = "update" /\ s.row \in lost /\ s.row \in Players
             /\ s.lives = players'[s.row].lives /\ s.active = players'[s.row].active
  <2>1. /\ s \in Statements /\ s.op = "update" /\ s.row \in lost
        /\ s.lives = players'[s.row].lives /\ (s.active <=> players'[s.row].active)
    BY <1>2, <1>9, persistClosePlayers
  <2>2. s.row \in Players /\ s.active \in BOOLEAN /\ players'[s.row].active \in BOOLEAN
    BY <1>2, <2>1 DEF PlayerData, Statements
  <2>3. QED
    BY <2>1, <2>2
<1> HIDE DEF S
<1>10. S \in SUBSET Statements
  BY <1>8, <1>9
<1>11. ASSUME NEW s \in S PROVE ~(s.op = "insert" /\ s.row = GameRow) /\ StatementAhead(s)'
  <2>1. CASE s.row = GameRow
    BY <1>3, <1>8, <2>1 DEF StatementAhead
  <2>2. CASE s.row # GameRow
    <3>1. players'[s.row].joined /\ players'[s.row] \in PlayerData
      BY <1>2, <1>5, <1>9, <2>2
    <3>2. players'[s.row].lives \in Int /\ players'[s.row].lives <= InitialLives
      BY <1>6, <1>9, <2>2, <3>1 DEF LivesBounded, PlayerData
    <3>3. players'[s.row].lives \in players'[s.row].lives .. InitialLives
      BY <3>2, LivesAssumption
    <3>4. QED
      BY <1>9, <2>2, <3>1, <3>3 DEF StatementAhead
  <2>3. QED
    BY <2>1, <2>2
<1>12. /\ \A s \in S : s.row = GameRow => s.status = meta'.status
       /\ (\A s \in S : s.row # GameRow) => meta'.status = meta.status
  BY <1>3, <1>7, <1>8 DEF over
<1>13. ASSUME NEW x \in Players
       PROVE  /\ \A s \in S : s.row = x =>
                   /\ players'[x].joined
                   /\ s.lives = players'[x].lives
                   /\ s.active = players'[x].active
                   /\ s.op = "update" => players[x].joined
              /\ (\A s \in S : s.row # x) => players'[x] = players[x]
  BY <1>4, <1>5, <1>7, <1>9, GameRowAssumption
<1>14. Tells(S)
  BY <1>7, <1>11, <1>12, <1>13 DEF Tells
<1>15. QED
  BY <1>1, <1>10, <1>14, IssueIssues

\* Every step issues statements that tell what it changed (none, when nothing that
\* is saved changes), executes one or loses some.
LEMMA HistoryCases ==
    ASSUME HistoryInv, [HNext]_<<vars, hvars>>
    PROVE  \/ \E S \in SUBSET Statements : Issues(S) /\ Tells(S)
           \/ \E s \in todo : Execute(s)
           \/ \E L \in SUBSET todo : Drops(L)
<1>1. CASE \E x \in Players : HJoin(x)
  BY <1>1, JoinTells
<1>2. CASE HStart
  BY <1>2, StartTells
<1>3. CASE HClose
  BY <1>3, CloseTells
<1>4. CASE (\E x \in Players, opt \in OptionIDs : HAnswer(x, opt)) \/ HAbandon \/ UNCHANGED <<vars, hvars>>
  <2>1. /\ meta'.status = meta.status /\ players' = players
        /\ UNCHANGED <<gameRow, rows, todo, spoiled>>
    BY <1>4 DEF HAnswer, Answer, HAbandon, Abandon, vars, hvars, HistoryInv, GameInv, TypeOK, Meta
  <2>2. Issues({})
    BY <2>1 DEF Issues, AffectedBy, HistoryInv, HistoryTypeOK
  <2>3. Tells({})
    BY <2>1 DEF Tells
  <2>4. QED
    BY <2>2, <2>3
<1>5. CASE \E s \in todo : FailStatement(s)
  <2>1. PICK s \in todo : FailStatement(s)
    BY <1>5
  <2>2. AffectedBy({s}) = Affects(s)
    BY DEF AffectedBy
  <2>3. Drops({s})
    BY <2>1, <2>2 DEF FailStatement, Drops
  <2>4. QED
    BY <2>3
<1>6. CASE \E h \in Handlers : CrashHandler(h)
  <2>1. PICK h \in Handlers : CrashHandler(h)
    BY <1>6
  <2>2. Drops({s \in todo : s.by = h})
    BY <2>1 DEF CrashHandler, Drops
  <2>3. QED
    BY <2>2
<1>7. QED
  BY <1>1, <1>2, <1>3, <1>4, <1>5, <1>6 DEF HNext

\* A new game has its types and its first statements.
LEMMA HistoryInit == HInit => HistoryInv
<1> SUFFICES ASSUME HInit PROVE HistoryInv
  OBVIOUS
<1>1. GameInv
  BY GameInit DEF HInit
<1>2. rows \in [Players -> PlayerData]
  BY DEF HInit, Absent, PlayerData
<1>3. HistoryTypeOK
  BY <1>2, CreateGameFields DEF HInit, HistoryTypeOK
<1>4. LivesBounded
  BY LivesAssumption DEF HInit, Init, Joined, Absent, LivesBounded
<1>5. QED
  BY <1>1, <1>3, <1>4 DEF HistoryInv

\* A statement that is executed changes one row, to what it says.
LEMMA ExecuteEffect ==
    ASSUME HistoryTypeOK, NEW s \in todo, Execute(s)
    PROVE  /\ todo' = todo \ {s} /\ spoiled' = spoiled
           /\ meta' = meta /\ players' = players
           /\ s.row = GameRow =>
                /\ rows' = rows
                /\ gameRow' = IF s.op = "insert" \/ gameRow # "none" THEN s.status ELSE gameRow
           /\ s.row # GameRow =>
                /\ gameRow' = gameRow
                /\ \A x \in Players : x # s.row => rows'[x] = rows[x]
                /\ rows'[s.row] =
                     IF (s.op = "insert" /\ gameRow # "none") \/ (s.op = "update" /\ rows[s.row].joined)
                     THEN [joined |-> TRUE, lives |-> s.lives, active |-> s.active]
                     ELSE rows[s.row]
                /\ rows' \in [Players -> PlayerData]
<1>1. /\ todo' = todo \ {s} /\ spoiled' = spoiled /\ meta' = meta /\ players' = players
  BY DEF Execute, vars
<1>2. s \in Statements /\ s.row \in Players \cup {GameRow} /\ s.lives \in Int /\ s.active \in BOOLEAN
  BY DEF HistoryTypeOK, Statements
<1>3. CASE s.row = GameRow
  BY <1>1, <1>3 DEF Execute, Effect
<1>4. CASE s.row # GameRow
  <2> DEFINE row == [joined |-> TRUE, lives |-> s.lives, active |-> s.active]
             written == (s.op = "insert" /\ gameRow # "none") \/ (s.op = "update" /\ rows[s.row].joined)
  <2>1. /\ gameRow' = gameRow
        /\ rows' = IF written THEN [rows EXCEPT ![s.row] = row] ELSE rows
    BY <1>4 DEF Execute, Effect
  <2>2. row \in PlayerData
    BY <1>2 DEF PlayerData
  <2>3. rows \in [Players -> PlayerData] /\ s.row \in Players
    BY <1>2, <1>4 DEF HistoryTypeOK
  <2> HIDE DEF row, written
  <2>4. /\ \A x \in Players : x # s.row => rows'[x] = rows[x]
        /\ rows'[s.row] = IF written THEN row ELSE rows[s.row]
        /\ rows' \in [Players -> PlayerData]
    BY <2>1, <2>2, <2>3
  <2>5. QED
    BY <1>1, <1>4, <2>1, <2>4 DEF row, written
<1>5. QED
  BY <1>3, <1>4

\* Every step keeps the types.
LEMMA HistoryStep == HistoryInv /\ [HNext]_<<vars, hvars>> => HistoryInv'
<1> SUFFICES ASSUME HistoryInv, [HNext]_<<vars, hvars>> PROVE HistoryInv'
  OBVIOUS
<1>1. [Next]_vars
  BY HistoryKeepsGame
<1>2. GameInv' /\ LivesBounded'
  BY <1>1, GameStep, LivesBoundedStep DEF HistoryInv
<1>3. HistoryTypeOK'
  <2>1. ASSUME NEW S \in SUBSET Statements, Issues(S) PROVE HistoryTypeOK'
    BY <2>1 DEF Issues, HistoryInv, HistoryTypeOK
  <2>2. ASSUME NEW s \in todo, Execute(s) PROVE HistoryTypeOK'
    <3>1. s.status \in {"none", "waiting", "running", "finished"}
      BY DEF HistoryInv, HistoryTypeOK, Statements
    <3>2. QED
      BY <2>2, <3>1, ExecuteEffect DEF HistoryInv, HistoryTypeOK
  <2>3. ASSUME NEW L \in SUBSET todo, Drops(L) PROVE HistoryTypeOK'
    BY <2>3, AffectedRows DEF Drops, HistoryInv, HistoryTypeOK
  <2>4. QED
    BY <2>1, <2>2, <2>3, HistoryCases
<1>4. QED
  BY <1>2, <1>3 DEF HistoryInv

\* The history of a game is well typed, under any faults.
THEOREM HistoryTyped == HSpec => []HistoryTypeOK
<1>1. HSpec => []HistoryInv
  BY HistoryInit, HistoryStep, PTL DEF HSpec
<1>2. HistoryInv => HistoryTypeOK
  BY DEF HistoryInv
<1>3. QED
  BY <1>1, <1>2, PTL

---------------------------------------------------------------------------
(* The history is never ahead of the game.                                 *)

NeverAheadInv ==
    /\ HistoryInv
    /\ \A s \in todo : StatementAhead(s)
    /\ HistoryNeverAhead

\* What is not ahead of the game stays so: lives only fall, players never leave
\* and the status only moves on.
LEMMA AheadForward ==
    ASSUME HistoryInv, [Next]_vars, NEW s \in Statements, StatementAhead(s)
    PROVE  StatementAhead(s)'
<1>1. ProgressForward /\ StandingsForward /\ GameInv /\ GameInv'
  BY ForwardStep, GameStep DEF HistoryInv
<1>2. CASE s.row = GameRow
  BY <1>1, <1>2 DEF StatementAhead, ProgressForward, GameInv, TypeOK, Meta
<1>3. CASE s.row # GameRow
  <2>1. s.row \in Players /\ s.lives \in Int
    BY <1>3 DEF Statements
  <2>2. players[s.row].lives \in Int /\ players'[s.row].lives \in Int
    BY <1>1, <2>1 DEF GameInv, TypeOK, PlayerData
  <2>3. /\ players'[s.row].joined
        /\ players'[s.row].lives <= players[s.row].lives
        /\ players'[s.row].active => players[s.row].active
    BY <1>1, <1>3, <2>1 DEF StatementAhead, StandingsForward
  <2>4. s.lives \in (players'[s.row].lives .. InitialLives) \cup {DefaultLives}
    BY <1>3, <2>1, <2>2, <2>3, LivesAssumption DEF StatementAhead
  <2>5. QED
    BY <1>3, <2>3, <2>4 DEF StatementAhead
<1>4. QED
  BY <1>2, <1>3

\* The same for what is in the rows already.
LEMMA RowsForward ==
    ASSUME HistoryInv, HistoryNeverAhead, [Next]_vars, UNCHANGED <<gameRow, rows>>
    PROVE  HistoryNeverAhead'
<1>1. ProgressForward /\ StandingsForward /\ GameInv /\ GameInv'
  BY ForwardStep, GameStep DEF HistoryInv
<1>2. /\ gameRow' = "running" => meta'.status # "waiting"
      /\ gameRow' = "finished" => meta'.status = "finished"
  BY <1>1 DEF HistoryNeverAhead, ProgressForward
<1>3. ASSUME NEW x \in Players, rows'[x].joined
      PROVE  /\ players'[x].joined
             /\ rows'[x].lives \in (players'[x].lives .. InitialLives) \cup {DefaultLives}
             /\ players'[x].active => rows'[x].active
  <2>1. rows'[x].lives \in Int /\ players[x].lives \in Int /\ players'[x].lives \in Int
    BY <1>1 DEF HistoryInv, HistoryTypeOK, GameInv, TypeOK, PlayerData
  <2>2. /\ players[x].joined
        /\ rows'[x].lives \in (players[x].lives .. InitialLives) \cup {DefaultLives}
        /\ players[x].active => rows'[x].active
    BY <1>3 DEF HistoryNeverAhead
  <2>3. /\ players'[x].joined
        /\ players'[x].lives <= players[x].lives
        /\ players'[x].active => players[x].active
    BY <1>1, <2>2 DEF StandingsForward
  <2>4. rows'[x].lives \in (players'[x].lives .. InitialLives) \cup {DefaultLives}
    BY <2>1, <2>2, <2>3, LivesAssumption
  <2>5. QED
    BY <2>2, <2>3, <2>4
<1>4. QED
  BY <1>2, <1>3 DEF HistoryNeverAhead

\* Every step keeps it.
LEMMA NeverAheadStep == NeverAheadInv /\ [HNext]_<<vars, hvars>> => NeverAheadInv'
<1> SUFFICES ASSUME NeverAheadInv, [HNext]_<<vars, hvars>> PROVE NeverAheadInv'
  OBVIOUS
<1> USE DEF NeverAheadInv
<1>1. HistoryInv' /\ [Next]_vars
  BY HistoryStep, HistoryKeepsGame
<1>2. \A s \in todo : StatementAhead(s)'
  BY <1>1, AheadForward DEF HistoryInv, HistoryTypeOK
<1>3. ASSUME NEW S \in SUBSET Statements, Issues(S), Tells(S) PROVE NeverAheadInv'
  <2>1. \A s \in todo' : StatementAhead(s)'
    BY <1>2, <1>3 DEF Issues, Tells
  <2>2. HistoryNeverAhead'
    BY <1>1, <1>3, RowsForward DEF Issues
  <2>3. QED
    BY <1>1, <2>1, <2>2
<1>4. ASSUME NEW L \in SUBSET todo, Drops(L) PROVE NeverAheadInv'
  <2>1. \A s \in todo' : StatementAhead(s)'
    BY <1>2, <1>4 DEF Drops
  <2>2. HistoryNeverAhead'
    BY <1>1, <1>4, RowsForward DEF Drops
  <2>3. QED
    BY <1>1, <2>1, <2>2
<1>5. ASSUME NEW s \in todo, Execute(s) PROVE NeverAheadInv'
  <2>1. \A t \in todo' : StatementAhead(t)'
    BY <1>2, <1>5 DEF Execute
  <2>2. HistoryNeverAhead'
    <3>1. meta' = meta /\ players' = players /\ HistoryTypeOK /\ StatementAhead(s)
      BY <1>5 DEF Execute, vars, HistoryInv
    <3>2. CASE s.row = GameRow
      <4>1. /\ rows' = rows
            /\ gameRow' = IF s.op = "insert" \/ gameRow # "none" THEN s.status ELSE gameRow
        BY <1>5, <3>1, <3>2, ExecuteEffect
      <4>2. /\ gameRow' = "running" => meta'.status # "waiting"
            /\ gameRow' = "finished" => meta'.status = "finished"
        BY <3>1, <3>2, <4>1 DEF StatementAhead, HistoryNeverAhead
      <4>3. QED
        BY <3>1, <4>1, <4>2 DEF HistoryNeverAhead
    <3>3. CASE s.row # GameRow
      <4>1. gameRow' = gameRow
        BY <1>5, <3>1, <3>3, ExecuteEffect
      <4>2. ASSUME NEW x \in Players, rows'[x].joined
            PROVE  /\ players'[x].joined
                   /\ rows'[x].lives \in (players'[x].lives .. InitialLives) \cup {DefaultLives}
                   /\ players'[x].active => rows'[x].active
        <5>1. CASE rows'[x] = rows[x]
          BY <3>1, <4>2, <5>1 DEF HistoryNeverAhead
        <5>2. CASE rows'[x] # rows[x]
          <6>1. x = s.row /\ rows'[x] = [joined |-> TRUE, lives |-> s.lives, active |-> s.active]
            BY <1>5, <3>1, <3>3, <5>2, ExecuteEffect
          <6>2. QED
            BY <3>1, <3>3, <6>1 DEF StatementAhead
        <5>3. QED
          BY <5>1, <5>2
      <4>3. QED
        BY <3>1, <4>1, <4>2 DEF HistoryNeverAhead
    <3>4. QED
      BY <3>2, <3>3
  <2>3. QED
    BY <1>1, <2>1, <2>2
<1>6. QED
  BY <1>3, <1>4, <1>5, HistoryCases

\* A new game: its first statements say that it waits and that the owner is in.
LEMMA NeverAheadInit == HInit => NeverAheadInv
<1> SUFFICES ASSUME HInit PROVE NeverAheadInv
  OBVIOUS
<1>1. players[Owner] = Joined /\ players[Owner].joined /\ players[Owner].lives = InitialLives
  BY OwnerAssumption DEF HInit, Init, Joined
<1>2. ASSUME NEW s \in todo PROVE StatementAhead(s)
  <2>1. s \in CreateGame
    BY DEF HInit
  <2>2. CASE s = GameInsert
    BY <2>2, GameInsertFields DEF StatementAhead
  <2>3. CASE s.row = Owner /\ s.lives = InitialLives /\ s.active = TRUE
    BY <1>1, <2>3, OwnerAssumption, GameRowAssumption, LivesAssumption DEF StatementAhead
  <2>4. QED
    BY <2>1, <2>2, <2>3, CreateGameFields
<1>3. HistoryNeverAhead
  BY DEF HInit, Absent, HistoryNeverAhead
<1>4. QED
  BY <1>2, <1>3, HistoryInit DEF NeverAheadInv

\* Whatever statements fail, are lost with their instance or overtake each other,
\* the history is never ahead of the game (persistClose, CreateGame, JoinGame,
\* StartGame): for any number of players, questions and lives.
THEOREM HistoryIsNeverAhead == HSpec => []HistoryNeverAhead
<1>1. HSpec => []NeverAheadInv
  BY NeverAheadInit, NeverAheadStep, PTL DEF HSpec
<1>2. NeverAheadInv => HistoryNeverAhead
  BY DEF NeverAheadInv
<1>3. QED
  BY <1>1, <1>2, PTL

---------------------------------------------------------------------------
(* The history catches up.                                                 *)

\* The row of the game, while it is not spoiled: at most one statement is pending
\* for it, which says what the game says, and with none pending the row does.
GameRowSound ==
    /\ \A s \in todo : s.row = GameRow =>
         s.status = meta.status /\ (s.op = "update" => gameRow # "none")
    /\ \A s, t \in todo : s.row = GameRow /\ t.row = GameRow => s = t
    /\ (\A s \in todo : s.row # GameRow) => gameRow = meta.status

\* The statement s for the row of x, while it is not spoiled.
PendingSound(s, x) ==
    /\ players[x].joined
    /\ s.lives = players[x].lives
    /\ s.active = players[x].active
    /\ s.op = "update" => rows[x].joined
    /\ s.by # <<"join", Owner>> => GameInsert \notin todo

\* The row of a player is the same, but cannot be written before the game's: that
\* one exists or is about to, and before it does only the owner's row is pending.
RowSound(x) ==
    /\ GameInsert \in todo \/ gameRow # "none"
    /\ \A s \in todo : s.row = x => PendingSound(s, x)
    /\ \A s, t \in todo : s.row = x /\ t.row = x => s = t
    /\ (\A s \in todo : s.row # x) => rows[x] = players[x]

\* The game's row is created by one statement only.
OneInsert == \A s \in todo : s.op = "insert" /\ s.row = GameRow => s = GameInsert

CatchesUpInv ==
    /\ NeverAheadInv
    /\ OneInsert
    /\ GameRow \notin spoiled => GameRowSound
    /\ \A x \in Players : x \notin spoiled => RowSound(x)

\* A handler that issues statements for a row finds none pending, or spoils it.
LEMMA IssuesSound ==
    ASSUME CatchesUpInv, NEW S \in SUBSET Statements, Issues(S), Tells(S)
    PROVE  /\ OneInsert'
           /\ GameRow \notin spoiled' => GameRowSound'
           /\ \A x \in Players : x \notin spoiled' => RowSound(x)'
<1> USE DEF CatchesUpInv
<1>1. /\ todo \in SUBSET Statements /\ meta.status # "none"
      /\ todo' = todo \cup S /\ gameRow' = gameRow /\ rows' = rows
      /\ spoiled \subseteq spoiled'
  BY DEF NeverAheadInv, HistoryInv, HistoryTypeOK, GameInv, TypeOK, Meta, Issues
<1>2. GameInsert \notin S
  BY GameInsertFields DEF Tells
<1>3. ASSUME NEW s \in S, s.row \notin spoiled'
      PROVE  GameInsert \notin todo /\ \A t \in todo : t.row # s.row
  <2>1. s.row \in AffectedBy(S) /\ s.row \in Players \cup {GameRow}
    BY AffectsOwnRow DEF Statements
  <2>2. s.row \notin AffectedBy(todo)
    BY <1>3, <2>1 DEF Issues
  <2>3. QED
    BY <1>1, <2>1, <2>2, AffectsOwnRow, GameInsertAffects
<1>4. OneInsert'
  BY <1>1 DEF OneInsert, Tells
<1>5. ASSUME GameRow \notin spoiled' PROVE GameRowSound'
  <2>1. GameRowSound
    BY <1>1, <1>5
  <2>2. CASE \A s \in S : s.row # GameRow
    BY <1>1, <2>1, <2>2 DEF Tells, GameRowSound
  <2>3. CASE \E s \in S : s.row = GameRow
    <3>1. PICK s \in S : s.row = GameRow
      BY <2>3
    <3>2. \A t \in todo : t.row # GameRow
      BY <1>3, <1>5, <3>1
    <3>3. gameRow = meta.status
      BY <2>1, <3>2 DEF GameRowSound
    <3>4. \A t \in S : t.row = GameRow => t = s
      BY <3>1 DEF Tells
    <3>5. s.status = meta'.status
      BY <3>1 DEF Tells
    <3>6. QED
      BY <1>1, <3>1, <3>2, <3>3, <3>4, <3>5 DEF GameRowSound
  <2>4. QED
    BY <2>2, <2>3
<1>6. ASSUME NEW x \in Players, x \notin spoiled' PROVE RowSound(x)'
  <2>1. RowSound(x)
    BY <1>1, <1>6
  <2>2. (GameInsert \in todo \/ gameRow # "none")'
    BY <1>1, <2>1 DEF RowSound
  <2>3. CASE \A s \in S : s.row # x
    <3>1. players'[x] = players[x]
      BY <1>6, <2>3 DEF Tells
    <3>2. \A s \in todo' : s.row = x => s \in todo
      BY <1>1, <2>3
    <3>3. ASSUME NEW s \in todo', s.row = x PROVE PendingSound(s, x)'
      <4>1. PendingSound(s, x)
        BY <2>1, <3>2, <3>3 DEF RowSound
      <4>2. QED
        BY <1>1, <1>2, <3>1, <4>1 DEF PendingSound
    <3>4. \A s, t \in todo' : s.row = x /\ t.row = x => s = t
      BY <2>1, <3>2 DEF RowSound
    <3>5. (\A s \in todo' : s.row # x) => rows'[x] = players'[x]
      BY <1>1, <2>1, <3>1 DEF RowSound
    <3>6. QED
      BY <2>2, <3>3, <3>4, <3>5 DEF RowSound
  <2>4. CASE \E s \in S : s.row = x
    <3>1. PICK s \in S : s.row = x
      BY <2>4
    <3>2. GameInsert \notin todo' /\ \A t \in todo : t.row # x
      BY <1>1, <1>2, <1>3, <1>6, <3>1
    <3>3. \A t \in todo' : t.row = x => t = s
      BY <1>1, <3>1, <3>2 DEF Tells
    <3>4. rows[x] = players[x]
      BY <2>1, <3>2 DEF RowSound
    <3>5. PendingSound(s, x)'
      BY <1>1, <1>6, <3>1, <3>2, <3>4 DEF PendingSound, Tells
    <3>6. QED
      BY <1>1, <2>2, <3>1, <3>3, <3>5 DEF RowSound
  <2>5. QED
    BY <2>3, <2>4
<1>7. QED
  BY <1>4, <1>5, <1>6

\* Statements that are lost spoil their rows, all of them with the game's insert.
LEMMA DropsSound ==
    ASSUME CatchesUpInv, NEW L \in SUBSET todo, Drops(L)
    PROVE  /\ OneInsert'
           /\ GameRow \notin spoiled' => GameRowSound'
           /\ \A x \in Players : x \notin spoiled' => RowSound(x)'
<1> USE DEF CatchesUpInv
<1>1. /\ todo' = todo \ L /\ gameRow' = gameRow /\ rows' = rows
      /\ spoiled' = spoiled \cup AffectedBy(L) /\ meta' = meta /\ players' = players
  BY DEF Drops, vars
<1>2. L \in SUBSET Statements
  BY DEF NeverAheadInv, HistoryInv, HistoryTypeOK
<1>3. ASSUME NEW row \in Players \cup {GameRow}, row \notin spoiled'
      PROVE  GameInsert \notin L /\ \A s \in L : s.row # row
  BY <1>1, <1>2, <1>3, AffectsOwnRow, GameInsertAffects
<1>4. OneInsert'
  BY <1>1 DEF OneInsert
<1>5. ASSUME GameRow \notin spoiled' PROVE GameRowSound'
  <2>1. GameRowSound /\ \A s \in L : s.row # GameRow
    BY <1>1, <1>3, <1>5
  <2>2. QED
    BY <1>1, <2>1 DEF GameRowSound
<1>6. ASSUME NEW x \in Players, x \notin spoiled' PROVE RowSound(x)'
  <2>1. RowSound(x) /\ GameInsert \notin L /\ \A s \in L : s.row # x
    BY <1>1, <1>3, <1>6
  <2>2. QED
    BY <1>1, <2>1 DEF RowSound, PendingSound
<1>7. QED
  BY <1>4, <1>5, <1>6

\* The statement of a row that is not spoiled brings it up to date: it is the only
\* one, and a player's waits for the game's row to be there.
LEMMA ExecuteSound ==
    ASSUME CatchesUpInv, NEW s \in todo, Execute(s)
    PROVE  /\ OneInsert'
           /\ GameRow \notin spoiled' => GameRowSound'
           /\ \A x \in Players : x \notin spoiled' => RowSound(x)'
<1> USE DEF CatchesUpInv
<1>1. /\ HistoryTypeOK /\ s \in Statements /\ s.op \in {"insert", "update"}
      /\ todo' = todo \ {s} /\ spoiled' = spoiled /\ meta' = meta /\ players' = players
      /\ players \in [Players -> PlayerData]
  BY ExecuteEffect DEF NeverAheadInv, HistoryInv, HistoryTypeOK, Statements, GameInv, TypeOK
<1>2. OneInsert'
  BY <1>1 DEF OneInsert
<1>3. ASSUME GameRow \notin spoiled' PROVE GameRowSound'
  <2>1. GameRowSound
    BY <1>1, <1>3
  <2>2. CASE s.row = GameRow
    <3>1. gameRow' = IF s.op = "insert" \/ gameRow # "none" THEN s.status ELSE gameRow
      BY <1>1, <2>2, ExecuteEffect
    <3>2. gameRow' = meta'.status
      BY <1>1, <2>1, <2>2, <3>1 DEF GameRowSound
    <3>3. \A t \in todo' : t.row # GameRow
      BY <1>1, <2>1, <2>2 DEF GameRowSound
    <3>4. QED
      BY <3>2, <3>3 DEF GameRowSound
  <2>3. CASE s.row # GameRow
    <3>1. gameRow' = gameRow
      BY <1>1, <2>3, ExecuteEffect
    <3>2. QED
      BY <1>1, <2>1, <2>3, <3>1 DEF GameRowSound
  <2>4. QED
    BY <2>2, <2>3
<1>4. ASSUME NEW x \in Players, x \notin spoiled' PROVE RowSound(x)'
  <2>1. RowSound(x)
    BY <1>1, <1>4
  <2>2. CASE s.row = GameRow
    <3>1. /\ rows' = rows
          /\ gameRow' = IF s.op = "insert" \/ gameRow # "none" THEN s.status ELSE gameRow
      BY <1>1, <2>2, ExecuteEffect
    <3>2. s.status # "none"
      BY <2>2 DEF NeverAheadInv, StatementAhead
    <3>3. (GameInsert \in todo \/ gameRow # "none")'
      <4>1. CASE s.op = "insert"
        BY <3>1, <3>2, <4>1
      <4>2. CASE s.op = "update"
        BY <1>1, <2>1, <3>1, <3>2, <4>2, GameInsertFields DEF RowSound
      <4>3. QED
        BY <1>1, <4>1, <4>2
    <3>4. s.row # x
      BY <2>2, GameRowAssumption
    <3>5. QED
      BY <1>1, <2>1, <3>1, <3>3, <3>4 DEF RowSound, PendingSound
  <2>3. CASE s.row = x
    <3>1. x # GameRow
      BY GameRowAssumption
    <3>2. PendingSound(s, x)
      BY <2>1, <2>3 DEF RowSound
    <3>3. GameInsert \notin todo
      <4>1. CASE s.by = <<"join", Owner>>
        <5>1. Before(GameInsert, s)
          BY <2>3, <3>1, <4>1, GameInsertFields DEF Before
        <5>2. QED
          BY <5>1 DEF Execute, Executable
      <4>2. CASE s.by # <<"join", Owner>>
        BY <3>2, <4>2 DEF PendingSound
      <4>3. QED
        BY <4>1, <4>2
    <3>4. gameRow # "none"
      BY <2>1, <3>3 DEF RowSound
    <3>5. gameRow' = gameRow /\ rows'[x] = [joined |-> TRUE, lives |-> s.lives, active |-> s.active]
      <4>1. /\ gameRow' = gameRow
            /\ rows'[s.row] =
                 IF (s.op = "insert" /\ gameRow # "none") \/ (s.op = "update" /\ rows[s.row].joined)
                 THEN [joined |-> TRUE, lives |-> s.lives, active |-> s.active]
                 ELSE rows[s.row]
        BY <1>1, <2>3, <3>1, ExecuteEffect
      <4>2. QED
        BY <1>1, <2>3, <3>2, <3>4, <4>1 DEF PendingSound
    <3>6. rows'[x] = players'[x]
      <4>1. players[x] \in PlayerData /\ players[x].joined
        BY <1>1, <3>2 DEF PendingSound
      <4>2. players[x] = [joined |-> TRUE, lives |-> players[x].lives, active |-> players[x].active]
        BY <4>1 DEF PlayerData
      <4>3. QED
        BY <1>1, <3>2, <3>5, <4>2 DEF PendingSound
    <3>7. \A t \in todo' : t.row # x
      BY <1>1, <2>1, <2>3 DEF RowSound
    <3>8. QED
      BY <3>4, <3>5, <3>6, <3>7 DEF RowSound
  <2>4. CASE s.row # GameRow /\ s.row # x
    <3>1. gameRow' = gameRow /\ rows'[x] = rows[x]
      BY <1>1, <2>4, ExecuteEffect
    <3>2. s # GameInsert
      BY <2>4, GameInsertFields
    <3>3. QED
      BY <1>1, <2>1, <2>4, <3>1, <3>2 DEF RowSound, PendingSound
  <2>5. QED
    BY <2>2, <2>3, <2>4
<1>5. QED
  BY <1>2, <1>3, <1>4

\* A new game: its row and the owner's are pending, nobody else is recorded or in.
LEMMA CatchesUpInit == HInit => CatchesUpInv
<1> SUFFICES ASSUME HInit PROVE CatchesUpInv
  OBVIOUS
<1> DEFINE own == OnPlayer(<<"join", Owner>>, "insert", Owner, InitialLives, TRUE)
<1>1. /\ todo = {GameInsert, own} /\ gameRow = "none" /\ meta.status = "waiting"
      /\ rows = [x \in Players |-> Absent]
      /\ players = [x \in Players |-> IF x = Owner THEN Joined ELSE Absent]
  BY DEF HInit, Init, CreateGame, GameInsert, NewGame
<1>2. /\ own.row = Owner /\ own.op = "insert" /\ own.lives = InitialLives /\ own.active = TRUE
      /\ own.by = <<"join", Owner>>
  BY DEF OnPlayer
<1>3. Owner # GameRow /\ Owner \in Players
  BY OwnerAssumption, GameRowAssumption
<1> HIDE DEF own
<1>4. OneInsert
  BY <1>1, <1>2, <1>3 DEF OneInsert
<1>5. GameRowSound
  BY <1>1, <1>2, <1>3, GameInsertFields DEF GameRowSound
<1>6. ASSUME NEW x \in Players PROVE RowSound(x)
  <2>1. CASE x = Owner
    <3>1. players[Owner].joined /\ players[Owner].lives = InitialLives /\ players[Owner].active = TRUE
      BY <1>1, <1>3 DEF Joined
    <3>2. PendingSound(own, Owner)
      BY <1>2, <3>1 DEF PendingSound
    <3>3. QED
      BY <1>1, <1>2, <1>3, <2>1, <3>2, GameInsertFields DEF RowSound
  <2>2. CASE x # Owner
    <3>1. \A s \in todo : s.row # x
      BY <1>1, <1>2, <2>2, GameInsertFields, GameRowAssumption
    <3>2. rows[x] = players[x]
      BY <1>1, <2>2
    <3>3. QED
      BY <1>1, <3>1, <3>2 DEF RowSound
  <2>3. QED
    BY <2>1, <2>2
<1>7. QED
  BY <1>4, <1>5, <1>6, NeverAheadInit DEF CatchesUpInv

\* A history that is wrong for good takes a failure or two handlers at once: once the
\* statements for a row are executed, one that was spared both says what the game
\* says (the handlers' best-effort persistence), for any number of players,
\* questions and handlers.
THEOREM HistoryAlwaysCatchesUp == HSpec => []HistoryCatchesUp
<1>1. CatchesUpInv /\ [HNext]_<<vars, hvars>> => CatchesUpInv'
  <2> SUFFICES ASSUME CatchesUpInv, [HNext]_<<vars, hvars>> PROVE CatchesUpInv'
    OBVIOUS
  <2>1. NeverAheadInv'
    BY NeverAheadStep DEF CatchesUpInv
  <2>2. /\ OneInsert'
        /\ GameRow \notin spoiled' => GameRowSound'
        /\ \A x \in Players : x \notin spoiled' => RowSound(x)'
    BY IssuesSound, ExecuteSound, DropsSound, HistoryCases DEF CatchesUpInv, NeverAheadInv
  <2>3. QED
    BY <2>1, <2>2 DEF CatchesUpInv
<1>2. CatchesUpInv => HistoryCatchesUp
  <2> SUFFICES ASSUME CatchesUpInv PROVE HistoryCatchesUp
    OBVIOUS
  <2>1. ASSUME NEW row, row \notin AffectedBy(todo) PROVE \A s \in todo : s.row # row
    BY <2>1, AffectsOwnRow DEF CatchesUpInv, NeverAheadInv, HistoryInv, HistoryTypeOK
  <2>2. QED
    BY <2>1 DEF CatchesUpInv, GameRowSound, RowSound, HistoryCatchesUp
<1>3. QED
  BY <1>1, <1>2, CatchesUpInit, PTL DEF HSpec
=============================================================================
