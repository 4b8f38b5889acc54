--------------------------- MODULE GameSpecProofs ---------------------------
(***************************************************************************)
(* Proofs about GameSpec, the atomic game, for any number of players,      *)
(* questions, options and lives, with and without abandoned questions.     *)
(***************************************************************************)
EXTENDS GameSpec, FiniteSetTheorems, TLAPS

---------------------------------------------------------------------------
(* What the rules compute.                                                 *)

\* applyPenalties yields a standing for every player.
LEMMA PenalisedType ==
    ASSUME NEW ps \in [Players -> PlayerData], NEW sheet, NEW i
    PROVE  Penalised(ps, sheet, i) \in [Players -> PlayerData]
<1>1. ASSUME NEW x \in Players
      PROVE  [ps[x] EXCEPT !.lives = ps[x].lives - 1, !.active = ps[x].lives - 1 > 0] \in PlayerData
  <2>1. ps[x] \in PlayerData
    OBVIOUS
  <2>2. /\ ps[x].lives - 1 \in Int
        /\ (ps[x].lives - 1 > 0) \in BOOLEAN
    BY <2>1 DEF PlayerData
  <2>3. QED
    BY <2>1, <2>2 DEF PlayerData
<1>2. QED
  BY <1>1 DEF Penalised

\* What a close does to a player: who is active and did not answer correctly (is
\* hit) loses one life and is active as long as one is left.
Penalty(before, after, hit) ==
    /\ after.joined = before.joined
    /\ hit => /\ after.lives = before.lives - 1
              /\ after.active = (before.lives - 1 > 0)
    /\ ~hit => after = before

\* Nothing else changes for any player (applyPenalties).
LEMMA PenalisedEffect ==
    ASSUME NEW ps \in [Players -> PlayerData], NEW sheet, NEW i, NEW x \in Players
    PROVE  Penalty(ps[x], Penalised(ps, sheet, i)[x],
                   ps[x].joined /\ ps[x].active /\ sheet[x] # Correct[i])
<1>1. ps[x] \in PlayerData
  OBVIOUS
<1>2. x \in LifeLost(ps, sheet, i) <=> ps[x].joined /\ ps[x].active /\ sheet[x] # Correct[i]
  BY DEF LifeLost, activePlayers
<1>3. Penalised(ps, sheet, i)[x] =
        IF x \in LifeLost(ps, sheet, i)
        THEN [ps[x] EXCEPT !.lives = ps[x].lives - 1, !.active = ps[x].lives - 1 > 0]
        ELSE ps[x]
  BY DEF Penalised
<1>4. QED
  BY <1>1, <1>2, <1>3 DEF PlayerData, Penalty

\* Nobody joins or leaves by a close.
LEMMA CloseKeepsJoined ==
    ASSUME TypeOK, Close
    PROVE  \A x \in Players : players'[x].joined = players[x].joined
BY PenalisedEffect DEF Close, TypeOK, Penalty

\* A close changes neither the question nor, if it does not end the game, the
\* status and the reason.
LEMMA ClosedEffect ==
    ASSUME NEW m \in Meta, NEW ps
    PROVE  LET reason == EndReason(m, ps) IN
           /\ reason \in Reasons \cup {"none"}
           /\ Closed(m, ps) \in Meta
           /\ Closed(m, ps).idx = m.idx
           /\ Closed(m, ps).open = FALSE
           /\ Closed(m, ps).status = IF reason = "none" THEN m.status ELSE "finished"
           /\ Closed(m, ps).reason = IF reason = "none" THEN m.reason ELSE reason
<1>1. EndReason(m, ps) \in Reasons \cup {"none"}
  BY DEF EndReason, Reasons
<1>2. QED
  BY <1>1 DEF Closed, Meta

\* Starting the next question stays within the list.
LEMMA StartedEffect ==
    ASSUME NEW m \in Meta, CanStart(m)
    PROVE  /\ Started(m) \in Meta
           /\ Started(m).idx = m.idx + 1
           /\ Started(m).status = "running"
           /\ Started(m).open = TRUE
           /\ Started(m).reason = m.reason
           /\ m.idx + 1 \in Questions
<1>1. m.idx \in -1 .. TotalQuestions - 1 /\ m.idx + 1 < TotalQuestions
  BY DEF Meta, CanStart
<1>2. m.idx + 1 \in -1 .. TotalQuestions - 1 /\ m.idx + 1 \in Questions
  BY <1>1, TotalAssumption DEF Questions
<1>3. QED
  BY <1>2 DEF Started, Meta

---------------------------------------------------------------------------
(* Types and progress.                                                     *)

\* Only a running game has an open question, which is not settled; a game that
\* has begun has a question and nothing is settled beyond it.
ProgressInv ==
    /\ meta.open => meta.status = "running" /\ meta.idx \notin settled
    /\ meta.status = "waiting" <=> meta.idx = -1
    /\ \A i \in settled : i <= meta.idx

GameInv == TypeOK /\ ProgressInv

\* A created game has its type and waits.
LEMMA GameInit == Init => GameInv
<1> SUFFICES ASSUME Init PROVE GameInv
  OBVIOUS
<1>1. NewGame \in Meta
  BY TotalAssumption DEF NewGame, Meta
<1>2. players \in [Players -> PlayerData]
  BY LivesAssumption DEF Init, Joined, Absent, PlayerData
<1>3. TypeOK
  BY <1>1, <1>2 DEF Init, TypeOK, NoAnswers, AnswerSheet
<1>4. ProgressInv
  BY DEF Init, NewGame, ProgressInv
<1>5. QED
  BY <1>3, <1>4 DEF GameInv

\* Every operation keeps the types and the progress.
LEMMA GameStep == GameInv /\ [Next]_vars => GameInv'
<1> SUFFICES ASSUME GameInv, [Next]_vars PROVE GameInv'
  OBVIOUS
<1> USE DEF GameInv
<1>0. meta \in Meta /\ meta.idx \in -1 .. TotalQuestions - 1 /\ TotalQuestions \in Nat
  BY TotalAssumption DEF TypeOK, Meta
<1>1. ASSUME NEW x \in Players, Join(x) PROVE GameInv'
  <2>1. players' \in [Players -> PlayerData]
    BY <1>1, LivesAssumption DEF Join, TypeOK, Joined, PlayerData
  <2>2. QED
    BY <1>1, <2>1 DEF Join, TypeOK, ProgressInv
<1>2. ASSUME Start PROVE GameInv'
  <2>1. CanStart(meta) /\ meta' = Started(meta)
    BY <1>2 DEF Start
  <2>2. /\ meta' \in Meta /\ meta'.idx = meta.idx + 1 /\ meta'.status = "running"
        /\ meta'.open = TRUE
    BY <1>0, <2>1, StartedEffect
  <2>3. TypeOK'
    BY <1>2, <2>2 DEF Start, TypeOK
  <2>4. \A i \in settled : i \in Int /\ i <= meta.idx
    BY DEF TypeOK, ProgressInv, Questions
  <2>5. ProgressInv'
    BY <1>0, <1>2, <2>2, <2>4 DEF Start, ProgressInv
  <2>6. QED
    BY <2>3, <2>5
<1>3. ASSUME NEW x \in Players, NEW opt \in OptionIDs, Answer(x, opt) PROVE GameInv'
  <2>1. meta.idx \in Questions
    BY <1>0, <1>3 DEF Answer, ProgressInv, Questions
  <2>2. answers[meta.idx] \in AnswerSheet
    BY <2>1 DEF TypeOK
  <2>3. [answers[meta.idx] EXCEPT ![x] = opt] \in AnswerSheet
    BY <2>2 DEF AnswerSheet
  <2>4. answers' \in [Questions -> AnswerSheet]
    BY <1>3, <2>1, <2>3 DEF Answer, TypeOK
  <2>5. QED
    BY <1>3, <2>4 DEF Answer, TypeOK, ProgressInv
<1>4. ASSUME Close PROVE GameInv'
  <2>1. meta.status = "running" /\ meta.idx \in Questions
    BY <1>0, <1>4 DEF Close, CanClose, ProgressInv, Questions
  <2>2. /\ meta' \in Meta /\ meta'.idx = meta.idx /\ meta'.open = FALSE
        /\ meta'.status \in {"running", "finished"}
    BY <1>0, <1>4, <2>1, ClosedEffect DEF Close
  <2>3. players' \in [Players -> PlayerData]
    BY <1>4, PenalisedType DEF Close, TypeOK
  <2>4. TypeOK'
    BY <1>4, <2>1, <2>2, <2>3 DEF Close, TypeOK
  <2>5. ProgressInv'
    BY <1>0, <1>4, <2>1, <2>2 DEF Close, ProgressInv
  <2>6. QED
    BY <2>4, <2>5
<1>5. ASSUME Abandon PROVE GameInv'
  <2>1. /\ meta' \in Meta /\ meta'.idx = meta.idx /\ meta'.status = meta.status
        /\ meta'.open = FALSE
    BY <1>0, <1>5 DEF Abandon, Meta
  <2>2. QED
    BY <1>5, <2>1 DEF Abandon, TypeOK, ProgressInv
<1>6. CASE UNCHANGED vars
  BY <1>6 DEF vars, TypeOK, ProgressInv
<1>7. QED
  BY <1>1, <1>2, <1>3, <1>4, <1>5, <1>6 DEF Next

\* The atomic game is well typed: in particular no question past the end of the
\* list is ever started (StartNextQuestion).
THEOREM GameTypeOK == Spec => []TypeOK
<1>1. Spec => []GameInv
  BY GameInit, GameStep, PTL DEF Spec
<1>2. GameInv => TypeOK
  BY DEF GameInv
<1>3. QED
  BY <1>1, <1>2, PTL

---------------------------------------------------------------------------
(* Lives.                                                                  *)

\* The standing of one player, for n questions missed.
Standing(p, n) ==
    /\ p.lives = IF n > InitialLives THEN 0 ELSE InitialLives - n
    /\ p.active <=> p.lives > 0

\* LivesMatchAnswers, player by player.
LEMMA LivesByPlayer ==
    LivesMatchAnswers <=>
        \A x \in Players : players[x].joined => Standing(players[x], Cardinality(Missed(x)))
BY DEF LivesMatchAnswers, Standing

\* A player missed finitely many questions.
LEMMA MissedFinite ==
    ASSUME TypeOK, NEW x
    PROVE  IsFiniteSet(Missed(x)) /\ Cardinality(Missed(x)) \in Nat
<1>1. IsFiniteSet(Questions)
  BY TotalAssumption, FS_Interval DEF Questions
<1>2. Missed(x) \in SUBSET Questions
  BY DEF Missed, TypeOK
<1>3. IsFiniteSet(Missed(x))
  BY <1>1, <1>2, FS_Subset
<1>4. QED
  BY <1>3, FS_CardinalityType

\* One more question is missed by an active player: a life less.
LEMMA StandingLoses ==
    ASSUME NEW p \in PlayerData, NEW after \in PlayerData, NEW n \in Nat,
           Standing(p, n), p.active,
           after.lives = p.lives - 1, after.active = (p.lives - 1 > 0)
    PROVE  Standing(after, n + 1)
<1>1. p.lives > 0 /\ p.lives \in Int
  BY DEF Standing, PlayerData
<1>2. p.lives = InitialLives - n
  BY <1>1, LivesAssumption DEF Standing
<1>3. after.lives = IF n + 1 > InitialLives THEN 0 ELSE InitialLives - (n + 1)
  BY <1>1, <1>2, LivesAssumption
<1>4. after.active <=> after.lives > 0
  BY DEF PlayerData
<1>5. QED
  BY <1>3, <1>4 DEF Standing

\* A player who is out stays at zero, however many questions follow.
LEMMA StandingOut ==
    ASSUME NEW p \in PlayerData, NEW n \in Nat, Standing(p, n), ~p.active
    PROVE  Standing(p, n + 1)
<1>1. ~(p.lives > 0) /\ p.lives \in Int
  BY DEF Standing, PlayerData
<1>2. n + 1 > InitialLives /\ p.lives = 0
  BY <1>1, LivesAssumption DEF Standing
<1>3. QED
  BY <1>1, <1>2 DEF Standing

\* Whoever joins has all lives.
LEMMA StandingFresh == Standing(Joined, 0)
BY LivesAssumption DEF Standing, Joined

LivesInv == GameInv /\ LivesMatchAnswers

\* What a step leaves alone of a player keeps the player's standing.
LEMMA LivesFrame ==
    ASSUME LivesMatchAnswers, NEW x \in Players, players'[x] = players[x],
           Missed(x)' = Missed(x), players'[x].joined
    PROVE  Standing(players[x], Cardinality(Missed(x)))'
BY LivesByPlayer DEF Standing

\* Every operation keeps lives and answers in step.
LEMMA LivesStep == LivesInv /\ [Next]_vars => LivesMatchAnswers'
<1> SUFFICES ASSUME LivesInv, [Next]_vars,
                    NEW y \in Players, players'[y].joined
             PROVE  Standing(players[y], Cardinality(Missed(y)))'
  BY DEF LivesMatchAnswers, Standing
<1> USE DEF LivesInv, GameInv
<1>0. GameInv'
  BY GameStep
<1>1. ASSUME NEW x \in Players, Join(x)
      PROVE  Standing(players[y], Cardinality(Missed(y)))'
  <2>1. Missed(y)' = Missed(y)
    BY <1>1 DEF Join, Missed
  <2>2. CASE y = x
    <3>1. meta.status = "waiting" /\ settled = {}
      <4>1. meta.status = "waiting" /\ meta.idx = -1
        BY <1>1 DEF Join, CanJoin, ProgressInv
      <4>2. ASSUME NEW i \in settled PROVE FALSE
        BY <4>1, <4>2 DEF TypeOK, ProgressInv, Questions
      <4>3. QED
        BY <4>1, <4>2
    <3>2. Missed(y) = {}
      BY <3>1 DEF Missed
    <3>3. Cardinality(Missed(y)') = 0
      BY <2>1, <3>2, FS_EmptySet
    <3>4. players'[y] = Joined
      BY <1>1, <2>2 DEF Join, TypeOK
    <3>5. QED
      BY <3>3, <3>4, StandingFresh DEF Standing
  <2>3. CASE y # x
    <3>1. players'[y] = players[y]
      BY <1>1, <2>3 DEF Join, TypeOK
    <3>2. QED
      BY <2>1, <3>1, LivesFrame
  <2>4. QED
    BY <2>2, <2>3
<1>2. ASSUME Start \/ Abandon \/ UNCHANGED vars
      PROVE  Standing(players[y], Cardinality(Missed(y)))'
  <2>1. Missed(y)' = Missed(y) /\ players' = players
    BY <1>2 DEF Start, Abandon, vars, Missed
  <2>2. QED
    BY <2>1, LivesFrame
<1>3. ASSUME NEW x \in Players, NEW opt \in OptionIDs, Answer(x, opt)
      PROVE  Standing(players[y], Cardinality(Missed(y)))'
  <2>1. meta.idx \notin settled
    BY <1>3 DEF Answer, ProgressInv
  <2>2. \A i \in settled : answers'[i] = answers[i]
    BY <1>3, <2>1 DEF Answer, TypeOK
  <2>3. Missed(y)' = Missed(y)
    BY <1>3, <2>2 DEF Answer, Missed
  <2>4. QED
    BY <1>3, <2>3, LivesFrame DEF Answer
<1>4. ASSUME Close
      PROVE  Standing(players[y], Cardinality(Missed(y)))'
  <2> DEFINE i == meta.idx
             n == Cardinality(Missed(y))
             wrong == answers[i][y] # Correct[i]
  <2>1. /\ i \notin settled /\ i \in Questions
    BY <1>4 DEF Close, CanClose, ProgressInv, TypeOK, Meta, Questions
  <2>2. Missed(y)' = IF wrong THEN Missed(y) \cup {i} ELSE Missed(y)
    BY <1>4 DEF Close, Missed
  <2>3. i \notin Missed(y)
    BY <2>1 DEF Missed
  <2>4. IsFiniteSet(Missed(y)) /\ n \in Nat
    BY MissedFinite
  <2>5. Cardinality(Missed(y)') = IF wrong THEN n + 1 ELSE n
    BY <2>2, <2>3, <2>4, FS_AddElement
  <2>6. players[y] \in PlayerData /\ players'[y] \in PlayerData
    BY <1>0 DEF TypeOK
  <2>7. Penalty(players[y], players'[y], players[y].joined /\ players[y].active /\ wrong)
    BY <1>4, PenalisedEffect DEF Close, TypeOK
  <2>8. players[y].joined /\ Standing(players[y], n)
    BY <2>7, LivesByPlayer DEF Penalty
  <2> HIDE DEF i, n, wrong
  <2>9. CASE ~wrong
    BY <2>5, <2>7, <2>8, <2>9 DEF Standing, Penalty
  <2>10. CASE wrong /\ players[y].active
    <3>1. Standing(players'[y], n + 1)
      BY <2>4, <2>6, <2>7, <2>8, <2>10, StandingLoses DEF Penalty
    <3>2. QED
      BY <2>5, <2>10, <3>1 DEF Standing
  <2>11. CASE wrong /\ ~players[y].active
    <3>1. Standing(players[y], n + 1) /\ players'[y] = players[y]
      BY <2>4, <2>6, <2>7, <2>8, <2>11, StandingOut DEF Penalty
    <3>2. QED
      BY <2>5, <2>11, <3>1 DEF Standing
  <2>12. QED
    BY <2>9, <2>10, <2>11
<1>5. QED
  BY <1>1, <1>2, <1>3, <1>4 DEF Next

\* The lives of every player account for exactly the settled questions it missed
\* (applyPenalties), for any number of players, questions and lives.
THEOREM GameLivesMatchAnswers == Spec => []LivesMatchAnswers
<1>1. Init => LivesInv
  <2> SUFFICES ASSUME Init, NEW x \in Players, players[x].joined
               PROVE  Standing(players[x], Cardinality(Missed(x)))
    BY GameInit, LivesByPlayer DEF LivesInv
  <2>1. players[x] = Joined
    BY DEF Init, Absent
  <2>2. Missed(x) = {}
    BY DEF Init, Missed
  <2>3. QED
    BY <2>1, <2>2, FS_EmptySet, StandingFresh
<1>2. LivesInv /\ [Next]_vars => LivesInv'
  BY GameStep, LivesStep DEF LivesInv
<1>3. LivesInv => LivesMatchAnswers
  BY DEF LivesInv
<1>4. QED
  BY <1>1, <1>2, <1>3, PTL DEF Spec

---------------------------------------------------------------------------
(* The end of the game.                                                    *)

\* Only finitely many players have joined, whoever may join.
FiniteInv == IsFiniteSet({x \in Players : players[x].joined})

EndInv == GameInv /\ FiniteInv /\ EndedForItsReason

\* The active players are some of those who joined.
LEMMA ActiveFinite ==
    ASSUME NEW ps, IsFiniteSet({x \in Players : ps[x].joined})
    PROVE  IsFiniteSet(activePlayers(ps))
<1>1. activePlayers(ps) \in SUBSET {x \in Players : ps[x].joined}
  BY DEF activePlayers
<1>2. QED
  BY <1>1, FS_Subset

\* EndReason decides by the number of active players, then by the questions left.
LEMMA EndReasonMeaning ==
    ASSUME NEW m, NEW ps, IsFiniteSet(activePlayers(ps))
    PROVE  LET active == activePlayers(ps)
               reason == EndReason(m, ps) IN
           /\ reason = "last_player_standing" <=> Cardinality(active) = 1
           /\ reason = "all_eliminated" <=> active = {}
           /\ reason = "no_more_questions" =>
                RemainingQuestions(m) = 0 /\ Cardinality(active) > 1
           /\ reason = "none" =>
                RemainingQuestions(m) # 0 /\ Cardinality(active) > 1
<1> DEFINE active == activePlayers(ps)
           one == \E x \in Players : active = {x}
<1>1. active \subseteq Players
  BY DEF activePlayers
<1>2. one <=> Cardinality(active) = 1
  BY <1>1, FS_Singleton
<1>3. Cardinality(active) \in Nat
  BY FS_CardinalityType
<1>4. Cardinality(active) = 0 <=> active = {}
  BY FS_EmptySet
<1>5. EndReason(m, ps) =
        CASE one -> "last_player_standing"
          [] active = {} -> "all_eliminated"
          [] OTHER -> IF RemainingQuestions(m) = 0 THEN "no_more_questions" ELSE "none"
  BY DEF EndReason
<1>6. ~(one /\ active = {})
  OBVIOUS
<1> HIDE DEF active, one
<1>7. CASE one
  <2>1. EndReason(m, ps) = "last_player_standing"
    BY <1>5, <1>6, <1>7
  <2>2. QED
    BY <1>2, <1>6, <1>7, <2>1 DEF active
<1>8. CASE active = {}
  <2>1. EndReason(m, ps) = "all_eliminated"
    BY <1>5, <1>6, <1>8
  <2>2. QED
    BY <1>2, <1>6, <1>8, <2>1 DEF active
<1>9. CASE ~one /\ active # {}
  <2>1. EndReason(m, ps) = IF RemainingQuestions(m) = 0 THEN "no_more_questions" ELSE "none"
    BY <1>5, <1>9
  <2>2. Cardinality(active) # 1 /\ Cardinality(active) > 1
    BY <1>2, <1>3, <1>4, <1>9
  <2>3. QED
    BY <1>9, <2>1, <2>2 DEF active
<1>10. QED
  BY <1>7, <1>8, <1>9

\* Every operation keeps the set of those who joined finite.
LEMMA FiniteStep == GameInv /\ FiniteInv /\ [Next]_vars => FiniteInv'
<1> SUFFICES ASSUME GameInv, FiniteInv, [Next]_vars PROVE FiniteInv'
  OBVIOUS
<1> USE DEF GameInv
<1> DEFINE in == {x \in Players : players[x].joined}
<1>1. ASSUME NEW x \in Players, Join(x) PROVE FiniteInv'
  <2>1. in' = in \cup {x}
    BY <1>1 DEF Join, TypeOK, Joined
  <2>2. QED
    BY <2>1, FS_AddElement DEF FiniteInv
<1>2. ASSUME Close PROVE FiniteInv'
  <2>1. \A x \in Players : players'[x].joined = players[x].joined
    BY <1>2, CloseKeepsJoined
  <2>2. in' = in
    BY <2>1
  <2>3. QED
    BY <2>2 DEF FiniteInv
<1>3. CASE players' = players
  BY <1>3 DEF FiniteInv
<1>4. QED
  BY <1>1, <1>2, <1>3 DEF Next, Start, Answer, Abandon, vars

\* Every operation keeps the end of the game and its reason true.
LEMMA EndStep == EndInv /\ [Next]_vars => EndedForItsReason'
<1> SUFFICES ASSUME EndInv, [Next]_vars PROVE EndedForItsReason'
  OBVIOUS
<1> USE DEF EndInv, GameInv
<1> DEFINE active == activePlayers(players)
<1>0. meta \in Meta /\ meta.idx \in -1 .. TotalQuestions - 1 /\ TotalQuestions \in Nat
  BY TotalAssumption DEF TypeOK, Meta
<1>1. ASSUME NEW x \in Players, Join(x) PROVE EndedForItsReason'
  BY <1>1 DEF Join, CanJoin, EndedForItsReason
<1>2. ASSUME Start PROVE EndedForItsReason'
  <2>1. CanStart(meta) /\ meta' = Started(meta)
    BY <1>2 DEF Start
  <2>2. /\ meta'.status = "running" /\ meta'.open = TRUE /\ meta'.reason = meta.reason
    BY <1>0, <2>1, StartedEffect
  <2>3. meta.reason = "none"
    BY <2>1 DEF CanStart, EndedForItsReason
  <2>4. QED
    BY <2>2, <2>3 DEF EndedForItsReason
<1>3. ASSUME NEW x \in Players, NEW opt \in OptionIDs, Answer(x, opt) PROVE EndedForItsReason'
  BY <1>3 DEF Answer, EndedForItsReason
<1>4. ASSUME Close PROVE EndedForItsReason'
  <2> DEFINE reason == EndReason(meta, players')
  <2>1. meta.status = "running" /\ meta.reason = "none"
    BY <1>4 DEF Close, CanClose, EndedForItsReason
  <2>2. /\ reason \in Reasons \cup {"none"}
        /\ meta'.idx = meta.idx /\ meta'.open = FALSE
        /\ meta'.status = IF reason = "none" THEN "running" ELSE "finished"
        /\ meta'.reason = reason
    BY <1>0, <1>4, <2>1, ClosedEffect DEF Close
  <2>3. IsFiniteSet(active')
    <3>1. IsFiniteSet({x \in Players : players'[x].joined})
      BY FiniteStep DEF FiniteInv
    <3>2. QED
      BY <3>1, ActiveFinite DEF activePlayers
  <2>4. /\ reason = "last_player_standing" <=> Cardinality(active') = 1
        /\ reason = "all_eliminated" <=> active' = {}
        /\ reason = "no_more_questions" =>
                RemainingQuestions(meta) = 0 /\ Cardinality(active') > 1
        /\ reason = "none" =>
                RemainingQuestions(meta) # 0 /\ Cardinality(active') > 1
    BY <2>3, EndReasonMeaning DEF activePlayers
  <2>5. meta.idx \in settled'
    BY <1>4 DEF Close
  <2>6. /\ RemainingQuestions(meta) = 0 => meta.idx = TotalQuestions - 1
        /\ RemainingQuestions(meta) # 0 => meta.idx < TotalQuestions - 1
    BY <1>0 DEF RemainingQuestions
  <2> HIDE DEF reason, active
  <2>7. EndedForItsReason' <=>
          /\ meta'.status = "finished" =>
              /\ ~meta'.open /\ meta'.idx \in settled'
              /\ meta'.reason = "last_player_standing" <=> Cardinality(active') = 1
              /\ meta'.reason = "all_eliminated" <=> active' = {}
              /\ meta'.reason = "no_more_questions" =>
                   meta'.idx = TotalQuestions - 1 /\ Cardinality(active') > 1
          /\ (meta'.status = "running" /\ ~meta'.open /\ meta'.idx \in settled') =>
              Cardinality(active') > 1 /\ meta'.idx < TotalQuestions - 1
          /\ meta'.status # "finished" <=> meta'.reason = "none"
    BY DEF EndedForItsReason, active
  <2>8. QED
    BY <2>2, <2>4, <2>5, <2>6, <2>7
<1>5. ASSUME Abandon PROVE EndedForItsReason'
  <2>1. /\ meta'.idx = meta.idx /\ meta'.status = "running" /\ meta'.open = FALSE
        /\ meta'.reason = meta.reason /\ meta.status = "running" /\ meta.idx \notin settled'
    BY <1>0, <1>5 DEF Abandon, CanClose, Meta, ProgressInv
  <2>2. QED
    BY <2>1 DEF EndedForItsReason
<1>6. CASE UNCHANGED vars
  BY <1>6 DEF vars, EndedForItsReason
<1>7. QED
  BY <1>1, <1>2, <1>3, <1>4, <1>5, <1>6 DEF Next

\* A game ends exactly when and for the reason that its rules say (closeQuestion
\* and applyPenalties), for any number of players and questions.
THEOREM GameEndedForItsReason == Spec => []EndedForItsReason
<1>1. Init => EndInv
  <2> SUFFICES ASSUME Init PROVE EndInv
    OBVIOUS
  <2>1. {x \in Players : players[x].joined} = {Owner}
    BY OwnerAssumption DEF Init, Joined, Absent
  <2>2. FiniteInv
    BY <2>1, FS_Singleton DEF FiniteInv
  <2>3. EndedForItsReason
    BY DEF Init, NewGame, EndedForItsReason
  <2>4. QED
    BY <2>2, <2>3, GameInit DEF EndInv
<1>2. EndInv /\ [Next]_vars => EndInv'
  BY GameStep, FiniteStep, EndStep DEF EndInv
<1>3. EndInv => EndedForItsReason
  BY DEF EndInv
<1>4. QED
  BY <1>1, <1>2, <1>3, PTL DEF Spec

---------------------------------------------------------------------------
(* What a step may never do.                                               *)

\* An answer is never replaced or removed, and a new one is for the open question
\* by a player still in the game (recordAnswerScript, SubmitAnswer).
THEOREM GameAnswersAreFinal == Spec => AnswersAreFinal
<1> DEFINE A == \A i \in Questions, x \in Players : answers'[i][x] # answers[i][x] =>
                    /\ answers[i][x] = NoAnswer
                    /\ meta.open /\ meta'.open /\ meta.idx = i
                    /\ players[x].joined /\ players[x].active
<1>1. GameInv /\ [Next]_vars => [A]_vars
  <2> SUFFICES ASSUME GameInv, Next, NEW i \in Questions, NEW y \in Players,
                      answers'[i][y] # answers[i][y]
               PROVE  /\ answers[i][y] = NoAnswer
                      /\ meta.open /\ meta'.open /\ meta.idx = i
                      /\ players[y].joined /\ players[y].active
    OBVIOUS
  <2>1. PICK x \in Players, opt \in OptionIDs : Answer(x, opt)
    BY DEF Next, Join, Start, Close, Abandon
  <2>2. i = meta.idx /\ y = x
    BY <2>1 DEF Answer, GameInv, TypeOK, AnswerSheet
  <2>3. QED
    BY <2>1, <2>2 DEF Answer, CanAnswer
<1>2. Spec => []GameInv
  BY GameInit, GameStep, PTL DEF Spec
<1>3. QED
  BY <1>1, <1>2, PTL DEF Spec, AnswersAreFinal

\* How the progress of the game moves.
ProgressForward ==
    /\ meta'.idx \in {meta.idx, meta.idx + 1}
    /\ meta'.idx = meta.idx => (meta'.open => meta.open)
    /\ meta'.idx # meta.idx => meta.status # "finished" /\ ~meta.open
    /\ meta.status = "finished" => meta' = meta
    /\ meta'.status = "waiting" => meta.status = "waiting"

\* How the standings of the players move.
StandingsForward ==
    \A x \in Players :
        /\ players[x].joined => /\ players'[x].joined
                                /\ players'[x].lives <= players[x].lives
                                /\ players'[x].active => players[x].active
        /\ players'[x].joined /\ meta.status # "waiting" => players[x].joined

\* Every operation moves both forward.
LEMMA ForwardStep == GameInv /\ [Next]_vars => ProgressForward /\ StandingsForward
<1> SUFFICES ASSUME GameInv, [Next]_vars PROVE ProgressForward /\ StandingsForward
  OBVIOUS
<1> USE DEF GameInv, ProgressForward, StandingsForward
<1>0. /\ meta \in Meta /\ meta.idx \in Int
      /\ \A x \in Players : players[x].lives \in Int /\ players[x] \in PlayerData
  BY DEF TypeOK, Meta, PlayerData
<1>1. ASSUME NEW x \in Players, Join(x) PROVE ProgressForward /\ StandingsForward
  <2>1. ProgressForward
    BY <1>1 DEF Join
  <2>2. StandingsForward
    BY <1>0, <1>1 DEF Join, CanJoin, TypeOK, Joined
  <2>3. QED
    BY <2>1, <2>2
<1>2. ASSUME Start PROVE ProgressForward /\ StandingsForward
  <2>1. CanStart(meta) /\ meta' = Started(meta)
    BY <1>2 DEF Start
  <2>2. ProgressForward
    <3>1. meta'.idx = meta.idx + 1 /\ meta'.status = "running"
      BY <1>0, <2>1, StartedEffect
    <3>2. meta.status # "finished" /\ ~meta.open
      BY <2>1 DEF CanStart
    <3>3. QED
      BY <1>0, <3>1, <3>2
  <2>3. StandingsForward
    BY <1>0, <1>2 DEF Start
  <2>4. QED
    BY <2>2, <2>3
<1>3. ASSUME NEW x \in Players, NEW opt \in OptionIDs, Answer(x, opt)
      PROVE  ProgressForward /\ StandingsForward
  BY <1>0, <1>3 DEF Answer
<1>4. ASSUME Close PROVE ProgressForward /\ StandingsForward
  <2>1. ProgressForward
    BY <1>0, <1>4, ClosedEffect DEF Close, CanClose
  <2>2. ASSUME NEW x \in Players
        PROVE  /\ players'[x].joined = players[x].joined
               /\ players'[x].lives <= players[x].lives
               /\ players'[x].active => players[x].active
    <3>1. PICK hit \in BOOLEAN : /\ Penalty(players[x], players'[x], hit)
                                 /\ hit => players[x].active
      BY <1>4, PenalisedEffect DEF Close, TypeOK
    <3>2. QED
      BY <1>0, <3>1 DEF Penalty
  <2>3. QED
    BY <2>1, <2>2
<1>5. ASSUME Abandon PROVE ProgressForward /\ StandingsForward
  <2>1. ProgressForward
    BY <1>0, <1>5 DEF Abandon, CanClose, Meta
  <2>2. StandingsForward
    BY <1>0, <1>5 DEF Abandon
  <2>3. QED
    BY <2>1, <2>2
<1>6. CASE UNCHANGED vars
  BY <1>0, <1>6 DEF vars
<1>7. QED
  BY <1>1, <1>2, <1>3, <1>4, <1>5, <1>6 DEF Next

\* A game only moves forward: questions in order and never reopened, no way back
\* from the end or from elimination, no late joins, no lives gained.
THEOREM GameOnlyForward == Spec => OnlyForward
<1>1. Spec => []GameInv
  BY GameInit, GameStep, PTL DEF Spec
<1>2. Spec => [][ProgressForward /\ StandingsForward]_vars
  BY <1>1, ForwardStep, PTL DEF Spec
<1>3. QED
  BY <1>2, PTL DEF OnlyForward, ProgressForward, StandingsForward
=============================================================================
