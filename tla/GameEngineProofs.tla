-------------------------- MODULE GameEngineProofs --------------------------
(***************************************************************************)
(* Proofs about GameEngine for any number of players, questions, options,  *)
(* workers and pollers: its types, that its critical sections are serial,  *)
(* that it implements GameSpec, and what that gives for its answers, its   *)
(* events and its deadlines.                                               *)
(***************************************************************************)
EXTENDS GameEngine, TLAPS

---------------------------------------------------------------------------
(* The rules keep the types of the stored game.                            *)

\* applyPenalties yields a standing for every player.
LEMMA PenalisedType ==
    ASSUME NEW ps \in [Players -> PlayerData], NEW sheet, NEW i
    PROVE  Penalised(ps, sheet, i) \in [Players -> PlayerData]
<1>1. ASSUME NEW x \in Players
      PROVE  [ps[x] EXCEPT !.lives = ps[x].lives - 1, !.active = ps[x].lives - 1 > 0] \in PlayerData
  <2>1. ps[x] \in PlayerData
    OBVIOUS
  <2>2. /\ ps[x].lives - 1 \in Int
        /\ (ps[x].lives - 1 > 0) \in BOOLEAN
    BY <2>1 DEF PlayerData
  <2>3. QED
    BY <2>1, <2>2 DEF PlayerData
<1>2. QED
  BY <1>1 DEF Penalised

\* The outcome of a close is one of the reasons, or none.
LEMMA EndReasonType ==
    ASSUME NEW m, NEW ps
    PROVE  EndReason(m, ps) \in Reasons \cup {"none"}
BY DEF EndReason, Reasons

\* A close yields progress fields again.
LEMMA ClosedType ==
    ASSUME NEW m \in Meta, NEW ps
    PROVE  /\ Closed(m, ps) \in Meta
           /\ Closed(m, ps).idx = m.idx
BY EndReasonType DEF Closed, Meta

\* Starting the next question stays within the list.
LEMMA StartedType ==
    ASSUME NEW m \in Meta, CanStart(m)
    PROVE  /\ Started(m) \in Meta
           /\ HasQuestion(Started(m))
           /\ m.idx + 1 \in Questions
<1>1. m.idx \in -1 .. TotalQuestions - 1 /\ m.idx + 1 < TotalQuestions
  BY DEF Meta, CanStart
<1>2. m.idx + 1 \in -1 .. TotalQuestions - 1 /\ m.idx + 1 \in Questions
  BY <1>1, TotalAssumption DEF Questions
<1>3. QED
  BY <1>2 DEF Started, Meta, HasQuestion

\* The events of a close are events.
LEMMA CloseEventsType ==
    ASSUME NEW s \in Snapshots, s.meta.idx \in Questions
    PROVE  CloseEvents(s) \in SUBSET Events
<1> DEFINE i == s.meta.idx
           after == Penalised(s.players, s.answers, i)
           reason == EndReason(s.meta, after)
<1>1. LifeLost(s.players, s.answers, i) \subseteq Players
  BY DEF LifeLost, activePlayers
<1>2. Eliminated(s.players, s.answers, i) \subseteq Players
  BY <1>1 DEF Eliminated
<1>3. reason \in Reasons \cup {"none"}
  BY EndReasonType
<1> HIDE DEF i, after, reason
<1>4. [type |-> "question_closed", q |-> i] \in Events
  BY DEF Events, i
<1>5. \A x \in LifeLost(s.players, s.answers, i) :
         [type |-> "life_lost", q |-> i, pl |-> x] \in Events
  BY <1>1 DEF Events, i
<1>6. \A x \in Eliminated(s.players, s.answers, i) :
         [type |-> "player_eliminated", q |-> i, pl |-> x] \in Events
  BY <1>2 DEF Events, i
<1>7. reason # "none" => [type |-> "game_over", q |-> i, reason |-> reason] \in Events
  BY <1>3 DEF Events, i
<1>8. QED
  BY <1>4, <1>5, <1>6, <1>7 DEF CloseEvents, i, after, reason

\* A process without a snapshot has a snapshot's type.
LEMMA NoSnapType == NoSnap \in Snapshots /\ HasQuestion(NoSnap.meta)
<1>1. NewGame \in Meta
  BY TotalAssumption DEF NewGame, Meta
<1>2. NoSnap \in Snapshots
  BY <1>1 DEF NoSnap, Snapshots, Absent, PlayerData, NoAnswers, AnswerSheet
<1>3. HasQuestion(NoSnap.meta)
  BY DEF NoSnap, NewGame, HasQuestion
<1>4. QED
  BY <1>2, <1>3

---------------------------------------------------------------------------
(* Type correctness.                                                       *)

TypeInv == TypeOK /\ HasQuestion(meta) /\ RequestInv

\* Only process p moves: what the others rely on is untouched.
LEMMA RequestFrame ==
    ASSUME RequestInv, NEW p \in Procs,
           \A q \in Procs \ {p} : pc'[q] = pc[q] /\ req'[q] = req[q] /\ snap'[q] = snap[q],
           ReadyFor(pc'[p], req'[p], snap'[p])
    PROVE  RequestInv'
<1>1. ASSUME NEW q \in Procs PROVE ReadyFor(pc'[q], req'[q], snap'[q])
  <2>1. CASE q = p
    BY <2>1
  <2>2. CASE q # p
    <3>1. pc'[q] = pc[q] /\ req'[q] = req[q] /\ snap'[q] = snap[q]
      BY <2>2
    <3>2. ReadyFor(pc[q], req[q], snap[q])
      BY DEF RequestInv
    <3>3. QED
      BY <3>1, <3>2
  <2>3. QED
    BY <2>1, <2>2
<1>2. QED
  BY <1>1 DEF RequestInv

\* A step that relies on nothing is always ready.
LEMMA ReadyIdle ==
    ASSUME NEW c \in {"idle", "unlock", "publish"}
    PROVE  ReadyFor(c, NoRequest, NoSnap)
BY NoSnapType DEF ReadyFor

\* Forgetting a request keeps the types of what the processes hold, and what
\* their steps rely on.
LEMMA ForgetType ==
    ASSUME TypeInv, NEW p \in Procs, NEW c \in {"idle", "unlock", "publish"},
           Goto(p, c), Forget(p)
    PROVE  /\ pc' \in [Procs -> Steps]
           /\ req' \in [Procs -> Requests \cup {NoRequest}]
           /\ snap' \in [Procs -> Snapshots]
           /\ RequestInv'
<1>1. pc' \in [Procs -> Steps] /\ req' \in [Procs -> Requests \cup {NoRequest}]
  BY DEF TypeInv, TypeOK, Goto, Forget, Steps
<1>2. snap' \in [Procs -> Snapshots]
  BY NoSnapType DEF TypeInv, TypeOK, Forget
<1>3. pc'[p] = c /\ req'[p] = NoRequest /\ snap'[p] = NoSnap
  BY DEF TypeInv, TypeOK, Goto, Forget
<1>4. \A q \in Procs \ {p} : pc'[q] = pc[q] /\ req'[q] = req[q] /\ snap'[q] = snap[q]
  BY DEF TypeInv, TypeOK, Goto, Forget
<1>5. QED
  BY <1>1, <1>2, <1>3, <1>4, ReadyIdle, RequestFrame DEF TypeInv

\* A process whose request is over keeps the types and relies on nothing.
LEMMA FinishType ==
    ASSUME TypeInv, NEW p \in Procs, Finish(p)
    PROVE  /\ pc' \in [Procs -> Steps]
           /\ req' \in [Procs -> Requests \cup {NoRequest}]
           /\ snap' \in [Procs -> Snapshots]
           /\ out' \in [Procs -> SUBSET Events]
           /\ RequestInv'
BY ForgetType DEF TypeInv, TypeOK, Finish

\* So does a process that ends a transition with events still to publish.
LEMMA LeaveType ==
    ASSUME TypeInv, NEW p \in Procs, NEW evs \in SUBSET Events, Leave(p, evs)
    PROVE  /\ pc' \in [Procs -> Steps]
           /\ req' \in [Procs -> Requests \cup {NoRequest}]
           /\ snap' \in [Procs -> Snapshots]
           /\ out' \in [Procs -> SUBSET Events]
           /\ RequestInv'
BY ForgetType DEF TypeInv, TypeOK, Leave

\* The initial state has its type.
LEMMA TypeInit == Init => TypeInv
<1> SUFFICES ASSUME Init PROVE TypeInv
  OBVIOUS
<1>1. meta \in Meta
  <2>1. NewGame \in Meta
    BY TotalAssumption DEF NewGame, Meta
  <2>2. QED
    BY <2>1 DEF Init
<1>2. players \in [Players -> PlayerData]
  BY LivesAssumption DEF Init, Joined, Absent, PlayerData
<1>3. TypeOK
  BY <1>1, <1>2, NoSnapType DEF Init, TypeOK, NoAnswers, AnswerSheet, Steps
<1>4. RequestInv
  <2>1. ASSUME NEW p \in Procs PROVE ReadyFor(pc[p], req[p], snap[p])
    BY ReadyIdle DEF Init
  <2>2. QED
    BY <2>1 DEF RequestInv
<1>5. HasQuestion(meta)
  BY DEF Init, NewGame, HasQuestion
<1>6. QED
  BY <1>3, <1>4, <1>5 DEF TypeInv

\* Every step keeps the types.
LEMMA TypeStep == TypeInv /\ [Next]_vars => TypeInv'
<1> SUFFICES ASSUME TypeInv, [Next]_vars PROVE TypeInv'
  OBVIOUS
<1> USE DEF TypeInv
<1>1. ASSUME NEW p \in Procs, ClientRequest(p) PROVE TypeInv'
  <2>1. PICK r \in Requests : Receive(p, r)
    BY <1>1, TotalAssumption DEF ClientRequest, Requests, CloseReqs
  <2>2. pc' \in [Procs -> Steps]
    BY <2>1 DEF Receive, Goto, TypeOK, Steps
  <2>3. TypeOK'
    BY <2>1, <2>2 DEF Receive, TypeOK, store
  <2>4. ReadyFor(pc'[p], req'[p], snap'[p])
    BY <2>1 DEF Receive, Goto, TypeOK, RequestInv, ReadyFor
  <2>5. RequestInv'
    BY <2>1, <2>4, RequestFrame DEF Receive, Goto, TypeOK
  <2>6. QED
    BY <2>1, <2>3, <2>5 DEF Receive, store
<1>2. ASSUME NEW p \in Procs, Acquire(p) PROVE TypeInv'
  <2>1. CASE Finish(p) /\ lock' = LostToken
    BY <1>2, <2>1, FinishType DEF Acquire, TypeOK
  <2>2. CASE lock' = p /\ Goto(p, "loadMeta") /\ UNCHANGED <<req, snap, out>>
    <3>1. TypeOK'
      BY <1>2, <2>2 DEF Acquire, Goto, TypeOK, Steps
    <3>2. ReadyFor(pc'[p], req'[p], snap'[p])
      BY <1>2, <2>2 DEF Acquire, Goto, TypeOK, RequestInv, ReadyFor
    <3>3. RequestInv'
      BY <2>2, <3>2, RequestFrame DEF Goto, TypeOK
    <3>4. QED
      BY <1>2, <3>1, <3>3 DEF Acquire
  <2>3. QED
    BY <1>2, <2>1, <2>2 DEF Acquire
<1>3. ASSUME NEW p \in Procs, Busy(p) PROVE TypeInv'
  BY <1>3, FinishType DEF Busy, TypeOK, store
<1>4. ASSUME Expire PROVE TypeInv'
  BY <1>4 DEF Expire, TypeOK, RequestInv
<1>5. ASSUME NEW p \in Procs, LoadMeta(p) PROVE TypeInv'
  <2>1. snap' \in [Procs -> Snapshots] /\ snap'[p].meta = meta
    BY <1>5 DEF LoadMeta, TypeOK, Snapshots
  <2>2. TypeOK'
    BY <1>5, <2>1 DEF LoadMeta, Goto, TypeOK, store, Steps
  <2>3. ReadyFor(pc'[p], req'[p], snap'[p])
    BY <1>5, <2>1 DEF LoadMeta, Goto, TypeOK, RequestInv, ReadyFor
  <2>4. RequestInv'
    BY <1>5, <2>3, RequestFrame DEF LoadMeta, Goto, TypeOK
  <2>5. QED
    BY <1>5, <2>2, <2>4 DEF LoadMeta, store
<1>6. ASSUME NEW p \in Procs, LoadPlayers(p) PROVE TypeInv'
  <2> DEFINE i == snap[p].meta.idx
             s == [snap[p] EXCEPT !.players = players,
                                  !.answers = IF i >= 0 THEN answers[i] ELSE NoAnswers]
             next == AfterLoad(req[p], s)
  <2>1. /\ s.meta = snap[p].meta
        /\ snap[p] \in Snapshots /\ req[p] \in Requests
        /\ snap[p].meta \in Meta /\ HasQuestion(snap[p].meta)
    BY <1>6 DEF LoadPlayers, TypeOK, RequestInv, ReadyFor, Snapshots
  <2>2. UNCHANGED <<store, claimed, published, settled>>
    BY <1>6 DEF LoadPlayers
  <2>3. CASE next = "idle" \/ next = "unlock"
    <3>1. Finish(p) \/ Leave(p, {})
      BY <1>6, <2>3 DEF LoadPlayers
    <3>2. QED
      BY <2>2, <3>1, FinishType, LeaveType DEF TypeOK, store
  <2>4. CASE next = "record"
    <3>1. Goto(p, "record") /\ UNCHANGED <<req, snap, out>>
      BY <1>6, <2>4 DEF LoadPlayers
    <3>2. req[p].op = "answer"
      BY <2>1, <2>4 DEF AfterLoad, Requests, JoinReqs, StartReqs, CloseReqs, AnswerReqs
    <3>3. req[p] \in AnswerReqs
      BY <2>1, <3>2 DEF Requests, JoinReqs, StartReqs, CloseReqs
    <3>4. CanAnswer(s.meta, s.players, s.answers, req[p].pl, req[p].q, req[p].opt)
      BY <2>4, <3>2 DEF AfterLoad
    <3>5. TypeOK'
      BY <2>2, <3>1 DEF Goto, TypeOK, store, Steps
    <3>6. ReadyFor(pc'[p], req'[p], snap'[p])
      BY <2>1, <3>1, <3>3, <3>4 DEF Goto, TypeOK, ReadyFor, CanAnswer
    <3>7. RequestInv'
      BY <3>1, <3>6, RequestFrame DEF Goto, TypeOK
    <3>8. QED
      BY <2>2, <3>5, <3>7 DEF store
  <2>5. CASE next \in {"addPlayer", "schedule", "saveStart", "closeAnswers"}
    <3>1. /\ snap' = [snap EXCEPT ![p].players = players]
          /\ Goto(p, next)
          /\ UNCHANGED <<req, out>>
      BY <1>6, <2>5 DEF LoadPlayers
    <3>2. /\ next = "addPlayer" => req[p] \in JoinReqs
          /\ next \in {"schedule", "saveStart"} => CanStart(snap[p].meta)
          /\ next = "closeAnswers" => snap[p].meta.idx \in Questions
      BY <2>1, <2>5 DEF AfterLoad, Requests, JoinReqs, StartReqs, CloseReqs, AnswerReqs,
                        CanClose, HasQuestion
    <3>3. TypeOK'
      BY <2>2, <2>5, <3>1 DEF Goto, TypeOK, store, Steps, Snapshots
    <3>4. pc'[p] = next /\ req'[p] = req[p] /\ snap'[p].meta = snap[p].meta
      BY <2>1, <3>1 DEF Goto, TypeOK, Snapshots
    <3>5. ReadyFor(pc'[p], req'[p], snap'[p])
      <4> HIDE DEF next
      <4>1. QED
        BY <2>1, <2>5, <3>2, <3>4 DEF ReadyFor
    <3>6. RequestInv'
      <4>1. \A q \in Procs \ {p} : pc'[q] = pc[q] /\ req'[q] = req[q] /\ snap'[q] = snap[q]
        BY <3>1 DEF Goto, TypeOK
      <4>2. QED
        BY <3>5, <4>1, RequestFrame
    <3>7. QED
      BY <2>2, <3>3, <3>6 DEF store
  <2>6. next \in {"idle", "unlock", "record", "addPlayer", "schedule", "saveStart", "closeAnswers"}
    BY <2>1 DEF AfterLoad, Requests, JoinReqs, StartReqs, CloseReqs, AnswerReqs
  <2>7. QED
    BY <2>3, <2>4, <2>5, <2>6
<1>7. ASSUME NEW p \in Procs, Unlock(p) PROVE TypeInv'
  <2>1. TypeOK'
    BY <1>7 DEF Unlock, Goto, TypeOK, Steps
  <2>2. ReadyFor(pc'[p], req'[p], snap'[p])
    BY <1>7 DEF Unlock, Goto, TypeOK, RequestInv, ReadyFor
  <2>3. RequestInv'
    BY <1>7, <2>2, RequestFrame DEF Unlock, Goto, TypeOK
  <2>4. QED
    BY <1>7, <2>1, <2>3 DEF Unlock
<1>8. ASSUME NEW p \in Procs, AddPlayer(p) PROVE TypeInv'
  <2>1. req[p].pl \in Players /\ Joined \in PlayerData
    BY <1>8, LivesAssumption DEF AddPlayer, RequestInv, ReadyFor, JoinReqs, Joined, PlayerData
  <2>2. PICK evs \in SUBSET Events : Leave(p, evs)
    BY <1>8, <2>1 DEF AddPlayer, Events
  <2>3. QED
    BY <1>8, <2>1, <2>2, LeaveType DEF AddPlayer, TypeOK
<1>9. ASSUME NEW p \in Procs, ScheduleClose(p) PROVE TypeInv'
  <2>1. CASE Goto(p, "saveStart") /\ UNCHANGED <<req, snap, out>>
    <3>1. TypeOK'
      BY <1>9, <2>1 DEF ScheduleClose, Goto, TypeOK, Steps
    <3>2. ReadyFor(pc'[p], req'[p], snap'[p])
      BY <1>9, <2>1 DEF ScheduleClose, Goto, TypeOK, RequestInv, ReadyFor
    <3>3. RequestInv'
      BY <2>1, <3>2, RequestFrame DEF Goto, TypeOK
    <3>4. QED
      BY <1>9, <3>1, <3>3 DEF ScheduleClose
  <2>2. CASE Leave(p, {})
    BY <1>9, <2>2, LeaveType DEF ScheduleClose, TypeOK
  <2>3. QED
    BY <1>9, <2>1, <2>2 DEF ScheduleClose
<1>10. ASSUME NEW p \in Procs, SaveStart(p) PROVE TypeInv'
  <2>1. snap[p].meta \in Meta /\ CanStart(snap[p].meta)
    BY <1>10 DEF SaveStart, TypeOK, RequestInv, ReadyFor, Snapshots
  <2>2. /\ Started(snap[p].meta) \in Meta
        /\ HasQuestion(Started(snap[p].meta))
        /\ snap[p].meta.idx + 1 \in Questions
    BY <2>1, StartedType
  <2>3. PICK evs \in SUBSET Events : Leave(p, evs)
    BY <1>10, <2>2 DEF SaveStart, Events
  <2>4. QED
    BY <1>10, <2>2, <2>3, LeaveType DEF SaveStart, TypeOK
<1>11. ASSUME NEW p \in Procs, RecordAnswer(p) PROVE TypeInv'
  <2> DEFINE i == snap[p].meta.idx
             x == req[p].pl
  <2>1. i \in Questions /\ x \in Players /\ req[p].opt \in OptionIDs
    BY <1>11 DEF RecordAnswer, RequestInv, ReadyFor, AnswerReqs
  <2>2. answers' \in [Questions -> AnswerSheet]
    <3>1. CASE UNCHANGED answers
      BY <3>1 DEF TypeOK
    <3>2. CASE answers' = [answers EXCEPT ![i][x] = req[p].opt]
      BY <2>1, <3>2 DEF TypeOK, AnswerSheet
    <3>3. QED
      BY <1>11, <3>1, <3>2 DEF RecordAnswer
  <2>3. CASE Finish(p)
    BY <1>11, <2>2, <2>3, FinishType DEF RecordAnswer, TypeOK
  <2>4. CASE /\ out' = [out EXCEPT ![p] = {[type |-> "answer_submitted", q |-> i, pl |-> x]}]
             /\ Goto(p, "publish")
             /\ Forget(p)
    <3>1. [type |-> "answer_submitted", q |-> i, pl |-> x] \in Events
      BY <2>1 DEF Events
    <3>2. out' \in [Procs -> SUBSET Events]
      BY <2>4, <3>1 DEF TypeOK
    <3>3. QED
      BY <1>11, <2>2, <2>4, <3>2, ForgetType DEF RecordAnswer, TypeOK
  <2>5. QED
    BY <1>11, <2>3, <2>4 DEF RecordAnswer
<1>12. ASSUME NEW p \in Procs, CloseAnswers(p) PROVE TypeInv'
  <2> DEFINE i == snap[p].meta.idx
  <2>1. i \in Questions
    BY <1>12 DEF CloseAnswers, RequestInv, ReadyFor
  <2>2. meta' \in Meta /\ HasQuestion(meta')
    BY <1>12 DEF CloseAnswers, TypeOK, Meta, HasQuestion
  <2>3. CASE Leave(p, {})
    BY <1>12, <2>2, <2>3, LeaveType DEF CloseAnswers, TypeOK
  <2> DEFINE m == [snap[p].meta EXCEPT !.open = FALSE]
             t == [meta |-> m, players |-> snap[p].players, answers |-> answers[i]]
  <2>4. CASE /\ snap' = [snap EXCEPT ![p] = t]
             /\ Goto(p, "saveClose")
             /\ UNCHANGED <<req, out>>
    <3>1. snap' \in [Procs -> Snapshots] /\ snap'[p].meta = m
      <4>1. snap[p] \in Snapshots /\ answers[i] \in AnswerSheet
        BY <2>1 DEF TypeOK
      <4>2. m \in Meta
        BY <4>1 DEF Snapshots, Meta
      <4>3. t \in Snapshots
        BY <4>1, <4>2 DEF Snapshots
      <4>4. QED
        BY <2>4, <4>3 DEF TypeOK
    <3>2. snap'[p].meta = m
      BY <3>1
    <3>3. TypeOK'
      BY <1>12, <2>2, <2>4, <3>1 DEF CloseAnswers, Goto, TypeOK, Steps
    <3>4. pc'[p] = "saveClose"
      BY <2>4 DEF Goto, TypeOK
    <3>5. HasQuestion(snap'[p].meta) /\ snap'[p].meta.idx \in Questions
      <4>1. snap[p].meta \in Meta /\ HasQuestion(snap[p].meta)
        BY DEF TypeOK, RequestInv, ReadyFor, Snapshots
      <4>2. QED
        BY <2>1, <3>2, <4>1 DEF HasQuestion, Meta
    <3>6. RequestInv'
      BY <2>4, <3>4, <3>5, RequestFrame DEF Goto, TypeOK, ReadyFor
    <3>7. QED
      BY <2>2, <3>3, <3>6
  <2>5. QED
    BY <1>12, <2>3, <2>4 DEF CloseAnswers
<1>13. ASSUME NEW p \in Procs, SaveClose(p) PROVE TypeInv'
  <2> DEFINE s == snap[p]
             after == Penalised(s.players, s.answers, s.meta.idx)
  <2>1. s \in Snapshots /\ s.meta.idx \in Questions
    BY <1>13 DEF SaveClose, TypeOK, RequestInv, ReadyFor
  <2>2. after \in [Players -> PlayerData]
    BY <2>1, PenalisedType DEF Snapshots
  <2>3. meta' \in Meta /\ HasQuestion(meta')
    BY <1>13, <2>1, ClosedType DEF SaveClose, Snapshots, HasQuestion
  <2>4. players' \in [Players -> PlayerData]
    BY <1>13, <2>2 DEF SaveClose, TypeOK
  <2>5. settled' \in SUBSET Questions
    BY <1>13, <2>1 DEF SaveClose, TypeOK
  <2>6. CASE Leave(p, {})
    BY <1>13, <2>3, <2>4, <2>5, <2>6, LeaveType DEF SaveClose, TypeOK
  <2>7. CASE /\ Goto(p, "cancel")
             /\ out' = [out EXCEPT ![p] = CloseEvents(s)]
             /\ UNCHANGED <<req, snap>>
    <3>1. CloseEvents(s) \in SUBSET Events
      BY <2>1, CloseEventsType
    <3>2. TypeOK'
      BY <1>13, <2>3, <2>4, <2>5, <2>7, <3>1 DEF SaveClose, Goto, TypeOK, Steps
    <3>3. ReadyFor(pc'[p], req'[p], snap'[p])
      BY <2>1, <2>7 DEF Goto, TypeOK, RequestInv, ReadyFor
    <3>4. RequestInv'
      BY <2>7, <3>3, RequestFrame DEF Goto, TypeOK
    <3>5. QED
      BY <2>3, <3>2, <3>4
  <2>8. QED
    BY <1>13, <2>6, <2>7 DEF SaveClose
<1>14. ASSUME NEW p \in Procs, CancelClose(p) PROVE TypeInv'
  <2>1. Leave(p, out[p]) /\ out[p] \in SUBSET Events
    BY <1>14 DEF CancelClose, TypeOK
  <2>2. deadlines' \in [Questions -> {"none", "pending", "due"}]
    BY <1>14 DEF CancelClose, TypeOK
  <2>3. QED
    BY <1>14, <2>1, <2>2, LeaveType DEF CancelClose, TypeOK
<1>15. ASSUME NEW p \in Procs, Publish(p) PROVE TypeInv'
  <2>1. PICK e \in out[p] :
          /\ published' = published \cup {f \in {e} : f.type \in Watched} \/ UNCHANGED published
          /\ out' = [out EXCEPT ![p] = out[p] \ {e}]
          /\ Goto(p, IF out[p] = {e} THEN "idle" ELSE "publish")
    BY <1>15 DEF Publish, FirstOf
  <2>2. out[p] \in SUBSET Events
    BY DEF TypeOK
  <2>3. published' \in SUBSET Events
    BY <2>1, <2>2 DEF TypeOK
  <2>4. out' \in [Procs -> SUBSET Events]
    BY <2>1, <2>2 DEF TypeOK
  <2>5. TypeOK'
    BY <1>15, <2>1, <2>3, <2>4 DEF Publish, Goto, TypeOK, store, Steps
  <2>6. ReadyFor(pc'[p], req'[p], snap'[p])
    BY <1>15, <2>1 DEF Publish, Goto, TypeOK, RequestInv, ReadyFor
  <2>7. RequestInv'
    BY <1>15, <2>1, <2>6, RequestFrame DEF Publish, Goto, TypeOK
  <2>8. QED
    BY <1>15, <2>5, <2>7 DEF Publish, store
<1>16. ASSUME NEW q \in Questions, Reach(q) PROVE TypeInv'
  BY <1>16 DEF Reach, TypeOK, RequestInv
<1>17. ASSUME NEW p \in Procs, ClaimDueCloses(p) PROVE TypeInv'
  <2>1. PICK due \in SUBSET DueNow :
          /\ deadlines' = [q \in Questions |-> IF q \in due THEN "none" ELSE deadlines[q]]
          /\ \E ok \in Replies : claimed' = [claimed EXCEPT ![p] = IF ok THEN due ELSE {}]
    BY <1>17 DEF ClaimDueCloses
  <2>2. deadlines' \in [Questions -> {"none", "pending", "due"}]
    BY <2>1 DEF TypeOK
  <2>3. claimed' \in [Procs -> SUBSET Questions]
    BY <2>1 DEF TypeOK, DueNow
  <2>4. QED
    BY <1>17, <2>2, <2>3 DEF ClaimDueCloses, TypeOK, RequestInv
<1>18. ASSUME NEW p \in Procs, CloseDue(p) PROVE TypeInv'
  <2>1. PICK q \in claimed[p] :
          /\ claimed' = [claimed EXCEPT ![p] = claimed[p] \ {q}]
          /\ req' = [req EXCEPT ![p] = [op |-> "close", only |-> q]]
    BY <1>18 DEF CloseDue
  <2>2. [op |-> "close", only |-> q] \in Requests
    <3>1. q \in -1 .. TotalQuestions - 1
      BY TotalAssumption DEF TypeOK, Questions
    <3>2. QED
      BY <3>1 DEF Requests, CloseReqs
  <2>3. TypeOK'
    BY <1>18, <2>1, <2>2 DEF CloseDue, Goto, TypeOK, store, Steps
  <2>4. ReadyFor(pc'[p], req'[p], snap'[p])
    BY <1>18, <2>1, <2>2 DEF CloseDue, Goto, TypeOK, RequestInv, ReadyFor
  <2>5. RequestInv'
    BY <1>18, <2>1, <2>4, RequestFrame DEF CloseDue, Goto, TypeOK
  <2>6. QED
    BY <1>18, <2>3, <2>5 DEF CloseDue, store
<1>19. ASSUME NEW p \in Procs, Fail(p) PROVE TypeInv'
  BY <1>19, FinishType, LeaveType DEF Fail, TypeOK, store
<1>20. ASSUME NEW p \in Procs, Crash(p) PROVE TypeInv'
  BY <1>20, FinishType DEF Crash, TypeOK
<1>21. CASE UNCHANGED vars
  BY <1>21 DEF vars, store, TypeOK, RequestInv
<1>22. QED
  BY <1>1, <1>2, <1>3, <1>4, <1>5, <1>6, <1>7, <1>8, <1>9, <1>10, <1>11, <1>12,
     <1>13, <1>14, <1>15, <1>16, <1>17, <1>18, <1>19, <1>20, <1>21 DEF Next, Step

\* Type correctness of the engine: every value it stores, loads, claims or
\* announces is well formed, whatever fails.
THEOREM EngineTypeOK == Spec => []TypeOK
<1>1. Spec => []TypeInv
  BY TypeInit, TypeStep, PTL DEF Spec
<1>2. TypeInv => TypeOK
  BY DEF TypeInv
<1>3. QED
  BY <1>1, <1>2, PTL

---------------------------------------------------------------------------
(* The lock, as long as no live holder outlives it.                        *)

NoSlow == "slow" \notin Faults

LockedInv == TypeInv /\ LockInv

\* Process p moves and the others keep their places.
OthersStay(p) ==
    \A q \in Procs \ {p} : pc'[q] = pc[q] /\ req'[q] = req[q] /\ snap'[q] = snap[q]

\* Every action but the passing of time belongs to one process.
LEMMA OneMoves ==
    ASSUME TypeOK, NEW p \in Procs,
           \/ ClientRequest(p) \/ Acquire(p) \/ Busy(p) \/ Step(p)
           \/ ClaimDueCloses(p) \/ CloseDue(p) \/ Fail(p) \/ Crash(p)
    PROVE  OthersStay(p)
<1> USE DEF TypeOK, OthersStay, Finish, Leave, Forget, Goto
<1>1. CASE ClientRequest(p)
  BY <1>1 DEF ClientRequest, Receive
<1>2. CASE Acquire(p)
  BY <1>2 DEF Acquire
<1>3. CASE Busy(p)
  BY <1>3 DEF Busy
<1>4. CASE LoadMeta(p)
  BY <1>4 DEF LoadMeta
<1>5. CASE LoadPlayers(p)
  BY <1>5 DEF LoadPlayers
<1>6. CASE Unlock(p)
  BY <1>6 DEF Unlock
<1>7. CASE AddPlayer(p)
  BY <1>7 DEF AddPlayer
<1>8. CASE ScheduleClose(p)
  BY <1>8 DEF ScheduleClose
<1>9. CASE SaveStart(p)
  BY <1>9 DEF SaveStart
<1>10. CASE RecordAnswer(p)
  BY <1>10 DEF RecordAnswer
<1>11. CASE CloseAnswers(p)
  BY <1>11 DEF CloseAnswers
<1>12. CASE SaveClose(p)
  BY <1>12 DEF SaveClose
<1>13. CASE CancelClose(p)
  BY <1>13 DEF CancelClose
<1>14. CASE Publish(p)
  BY <1>14 DEF Publish
<1>15. CASE ClaimDueCloses(p)
  BY <1>15 DEF ClaimDueCloses
<1>16. CASE CloseDue(p)
  BY <1>16 DEF CloseDue
<1>17. CASE Fail(p)
  BY <1>17 DEF Fail
<1>18. CASE Crash(p)
  BY <1>18 DEF Crash
<1>19. QED
  BY <1>1, <1>2, <1>3, <1>4, <1>5, <1>6, <1>7, <1>8, <1>9, <1>10, <1>11, <1>12,
     <1>13, <1>14, <1>15, <1>16, <1>17, <1>18 DEF Step

\* A process in the critical section that moves and holds the lock, or one
\* that moves and stays out of the section, breaks nobody's hold.
LEMMA LockFrame ==
    ASSUME LockInv, NEW p \in Procs, OthersStay(p),
           lock' = lock \/ lock \in {p, NoLock},
           InSection(p)' => lock' = p
    PROVE  LockInv'
<1>1. ASSUME NEW q \in Procs, InSection(q)' PROVE lock' = q
  <2>1. CASE q = p
    BY <1>1, <2>1
  <2>2. CASE q # p
    <3>1. InSection(q)
      BY <1>1, <2>2 DEF OthersStay, InSection, NeedsLock
    <3>2. lock = q
      BY <3>1 DEF LockInv
    <3>3. QED
      BY <2>2, <3>2, ProcsAssumption
  <2>3. QED
    BY <2>1, <2>2
<1>2. QED
  BY <1>1 DEF LockInv

\* Every step keeps the lock with the process in the critical section.
LEMMA LockStep == NoSlow /\ LockedInv /\ [Next]_vars => LockInv'
<1> SUFFICES ASSUME NoSlow, LockedInv, [Next]_vars PROVE LockInv'
  OBVIOUS
<1> USE DEF LockedInv, TypeInv
<1>1. ASSUME NEW p \in Procs, ClientRequest(p) PROVE LockInv'
  <2>1. OthersStay(p)
    BY <1>1, OneMoves
  <2>2. ~InSection(p)' /\ lock' = lock
    BY <1>1 DEF ClientRequest, Receive, Goto, TypeOK, InSection, NeedsLock, store
  <2>3. QED
    BY <2>1, <2>2, LockFrame
<1>2. ASSUME NEW p \in Procs, Acquire(p) PROVE LockInv'
  <2>1. OthersStay(p)
    BY <1>2, OneMoves
  <2>2. lock = NoLock /\ (InSection(p)' => lock' = p)
    BY <1>2 DEF Acquire, Finish, Goto, TypeOK, InSection
  <2>3. QED
    BY <2>1, <2>2, LockFrame
<1>3. ASSUME NEW p \in Procs, Busy(p) PROVE LockInv'
  <2>1. OthersStay(p)
    BY <1>3, OneMoves
  <2>2. ~InSection(p)' /\ lock' = lock
    BY <1>3 DEF Busy, Finish, Goto, TypeOK, InSection, store
  <2>3. QED
    BY <2>1, <2>2, LockFrame
<1>4. ASSUME Expire PROVE LockInv'
  BY <1>4, ProcsAssumption DEF Expire, NoSlow, LockInv, InSection, NeedsLock
<1>5. ASSUME NEW p \in Procs, Step(p) PROVE LockInv'
  <2>1. OthersStay(p)
    BY <1>5, OneMoves
  <2>2. CASE LoadMeta(p)
    <3>1. lock' = lock /\ (InSection(p)' => InSection(p))
      BY <2>2 DEF LoadMeta, Goto, TypeOK, InSection, NeedsLock, store
    <3>2. QED
      BY <2>1, <3>1, LockFrame DEF LockInv
  <2>3. CASE LoadPlayers(p)
    <3>1. lock' = lock
      BY <2>3 DEF LoadPlayers, store
    <3>2. InSection(p)' => InSection(p)
      <4> DEFINE s == [snap[p] EXCEPT
                          !.players = players,
                          !.answers = IF snap[p].meta.idx >= 0 THEN answers[snap[p].meta.idx]
                                                               ELSE NoAnswers]
                 next == AfterLoad(req[p], s)
      <4>1. pc'[p] = next
        BY <2>3 DEF LoadPlayers, Finish, Leave, Goto, TypeOK
      <4>2. req[p].op = "answer" => next \in {"record", "idle"}
        BY DEF AfterLoad
      <4>3. QED
        BY <2>3, <4>1, <4>2 DEF LoadPlayers, InSection, NeedsLock
    <3>3. QED
      BY <2>1, <3>1, <3>2, LockFrame DEF LockInv
  <2>4. CASE Unlock(p)
    <3>1. ~InSection(p)' /\ (lock' = lock \/ lock = p)
      BY <2>4 DEF Unlock, Goto, TypeOK, InSection
    <3>2. QED
      BY <2>1, <3>1, LockFrame
  <2>5. CASE RecordAnswer(p) \/ Publish(p)
    <3>1. lock' = lock
      BY <2>5 DEF RecordAnswer, Publish, store
    <3>2. ~InSection(p)'
      BY <2>5 DEF RecordAnswer, Publish, Finish, Goto, TypeOK, InSection
    <3>3. QED
      BY <2>1, <3>1, <3>2, LockFrame
  <2>6. CASE \/ AddPlayer(p) \/ ScheduleClose(p) \/ SaveStart(p)
             \/ CloseAnswers(p) \/ SaveClose(p) \/ CancelClose(p)
    <3>1. lock' = lock /\ InSection(p)
      BY <2>6 DEF AddPlayer, ScheduleClose, SaveStart, CloseAnswers, SaveClose, CancelClose, InSection
    <3>2. QED
      BY <2>1, <3>1, LockFrame DEF LockInv
  <2>7. QED
    BY <1>5, <2>2, <2>3, <2>4, <2>5, <2>6 DEF Step
<1>6. ASSUME NEW q \in Questions, Reach(q) PROVE LockInv'
  BY <1>6 DEF Reach, LockInv, InSection, NeedsLock
<1>7. ASSUME NEW p \in Procs, ClaimDueCloses(p) PROVE LockInv'
  BY <1>7 DEF ClaimDueCloses, LockInv, InSection, NeedsLock
<1>8. ASSUME NEW p \in Procs, CloseDue(p) PROVE LockInv'
  <2>1. OthersStay(p)
    BY <1>8, OneMoves
  <2>2. ~InSection(p)' /\ lock' = lock
    BY <1>8 DEF CloseDue, Goto, TypeOK, InSection, store
  <2>3. QED
    BY <2>1, <2>2, LockFrame
<1>9. ASSUME NEW p \in Procs, Fail(p) PROVE LockInv'
  <2>1. OthersStay(p)
    BY <1>9, OneMoves
  <2>2. lock' = lock /\ (InSection(p)' => InSection(p))
    BY <1>9 DEF Fail, Finish, Goto, TypeOK, InSection, store
  <2>3. QED
    BY <2>1, <2>2, LockFrame DEF LockInv
<1>10. ASSUME NEW p \in Procs, Crash(p) PROVE LockInv'
  <2>1. OthersStay(p)
    BY <1>10, OneMoves
  <2>2. ~InSection(p)' /\ (lock' = lock \/ lock = p)
    BY <1>10 DEF Crash, Finish, Goto, TypeOK, InSection
  <2>3. QED
    BY <2>1, <2>2, LockFrame
<1>11. CASE UNCHANGED vars
  BY <1>11 DEF vars, store, LockInv, InSection, NeedsLock
<1>12. QED
  BY <1>1, <1>2, <1>3, <1>4, <1>5, <1>6, <1>7, <1>8, <1>9, <1>10, <1>11 DEF Next

\* Two processes are never in the critical section together.
LEMMA MutualExclusion ==
    ASSUME LockInv, NEW p \in Procs, NEW q \in Procs, InSection(p), InSection(q)
    PROVE  p = q
BY DEF LockInv

---------------------------------------------------------------------------
(* What a transition has loaded stays current until it writes.             *)

\* A process that moves, and writes the game only from inside the critical
\* section, leaves what the others have loaded current.
LEMMA SerialFrame ==
    ASSUME LockInv, SerialInv, NEW p \in Procs, OthersStay(p),
           UNCHANGED <<meta, players>> \/ InSection(p),
           CurrentFor(p)'
    PROVE  SerialInv'
<1>1. ASSUME NEW q \in Procs PROVE CurrentFor(q)'
  <2>1. CASE q = p
    BY <2>1
  <2>2. CASE q # p
    <3>1. pc'[q] = pc[q] /\ req'[q] = req[q] /\ snap'[q] = snap[q]
      BY <2>2 DEF OthersStay
    <3>2. CurrentFor(q)
      BY DEF SerialInv
    <3>3. CASE UNCHANGED <<meta, players>>
      BY <3>1, <3>2, <3>3 DEF CurrentFor, AboutToWrite, Loaded, NeedsLock
    <3>4. CASE InSection(p)
      <4>1. ~InSection(q)
        BY <2>2, <3>4, MutualExclusion
      <4>2. QED
        BY <3>1, <4>1 DEF InSection, CurrentFor, AboutToWrite, NeedsLock
    <3>5. QED
      BY <3>3, <3>4
  <2>3. QED
    BY <2>1, <2>2
<1>2. QED
  BY <1>1 DEF SerialInv

\* A step that needs nothing loaded is trivially current.
LEMMA IdleCurrent ==
    ASSUME NEW p \in Procs,
           pc'[p] \in {"idle", "lock", "loadMeta", "cancel", "unlock", "record", "publish"}
    PROVE  CurrentFor(p)'
BY DEF CurrentFor, AboutToWrite

SerializedInv == LockedInv /\ SerialInv

\* Every step keeps what the others have loaded current.
LEMMA SerialStep == NoSlow /\ SerializedInv /\ [Next]_vars => SerialInv'
<1> SUFFICES ASSUME NoSlow, SerializedInv, [Next]_vars PROVE SerialInv'
  OBVIOUS
<1> USE DEF SerializedInv, LockedInv, TypeInv
<1>1. ASSUME NEW p \in Procs,
             \/ ClientRequest(p) \/ Acquire(p) \/ Busy(p) \/ Unlock(p) \/ RecordAnswer(p)
             \/ CancelClose(p) \/ Publish(p) \/ CloseDue(p) \/ Fail(p) \/ Crash(p)
      PROVE  SerialInv'
  <2>1. OthersStay(p)
    BY <1>1, OneMoves DEF Step
  <2>2. UNCHANGED <<meta, players>>
    BY <1>1 DEF ClientRequest, Receive, Acquire, Busy, Unlock, RecordAnswer, CancelClose,
                Publish, CloseDue, Fail, Crash, store
  <2>3. pc'[p] \in {"idle", "lock", "loadMeta", "cancel", "unlock", "record", "publish"}
    BY <1>1 DEF ClientRequest, Receive, Acquire, Busy, Unlock, RecordAnswer, CancelClose,
                Publish, CloseDue, Fail, Crash, Finish, Leave, Goto, TypeOK
  <2>4. QED
    BY <2>1, <2>2, <2>3, IdleCurrent, SerialFrame
<1>2. ASSUME NEW p \in Procs, LoadMeta(p) PROVE SerialInv'
  <2>1. OthersStay(p)
    BY <1>2, OneMoves DEF Step
  <2>2. UNCHANGED <<meta, players>> /\ snap'[p].meta = meta /\ pc'[p] = "loadPlayers"
    BY <1>2 DEF LoadMeta, Goto, TypeOK, Snapshots, store
  <2>3. CurrentFor(p)'
    BY <2>2 DEF CurrentFor, AboutToWrite
  <2>4. QED
    BY <2>1, <2>2, <2>3, SerialFrame
<1>3. ASSUME NEW p \in Procs, LoadPlayers(p) PROVE SerialInv'
  <2>1. OthersStay(p)
    BY <1>3, OneMoves DEF Step
  <2>2. UNCHANGED <<meta, players>>
    BY <1>3 DEF LoadPlayers, store
  <2> DEFINE s == [snap[p] EXCEPT
                      !.players = players,
                      !.answers = IF snap[p].meta.idx >= 0 THEN answers[snap[p].meta.idx]
                                                           ELSE NoAnswers]
             next == AfterLoad(req[p], s)
  <2>3. pc'[p] = next
    BY <1>3 DEF LoadPlayers, Finish, Leave, Goto, TypeOK
  <2>4. CASE next \in {"idle", "unlock", "record"}
    BY <2>1, <2>2, <2>3, <2>4, IdleCurrent, SerialFrame
  <2>5. CASE next \notin {"idle", "unlock", "record"}
    <3>1. snap' = [snap EXCEPT ![p].players = players]
      BY <1>3, <2>5 DEF LoadPlayers
    <3>2. snap'[p].players = players /\ snap'[p].meta = snap[p].meta
      BY <3>1 DEF TypeOK, Snapshots
    <3>3. NeedsLock(p)
      BY <2>5 DEF NeedsLock, AfterLoad
    <3>4. snap[p].meta = meta
      BY <1>3, <3>3 DEF LoadPlayers, SerialInv, CurrentFor
    <3>5. next # "loadPlayers"
      <4>1. req[p] \in Requests
        BY <1>3 DEF LoadPlayers, RequestInv, ReadyFor
      <4>2. QED
        BY <4>1 DEF AfterLoad, Requests, JoinReqs, StartReqs, CloseReqs, AnswerReqs
    <3>6. CurrentFor(p)'
      <4> HIDE DEF next
      <4>1. QED
        BY <2>2, <2>3, <3>2, <3>4, <3>5 DEF CurrentFor, Loaded
    <3>7. QED
      BY <2>1, <2>2, <3>6, SerialFrame
  <2>6. QED
    BY <2>4, <2>5
<1>4. ASSUME NEW p \in Procs, AddPlayer(p) \/ SaveStart(p) \/ SaveClose(p) PROVE SerialInv'
  <2>1. OthersStay(p)
    BY <1>4, OneMoves DEF Step
  <2>2. InSection(p)
    BY <1>4 DEF AddPlayer, SaveStart, SaveClose, InSection
  <2>3. pc'[p] \in {"cancel", "unlock"}
    BY <1>4 DEF AddPlayer, SaveStart, SaveClose, Leave, Goto, TypeOK
  <2>4. QED
    BY <2>1, <2>2, <2>3, IdleCurrent, SerialFrame
<1>5. ASSUME NEW p \in Procs, ScheduleClose(p) PROVE SerialInv'
  <2>1. OthersStay(p)
    BY <1>5, OneMoves DEF Step
  <2>2. UNCHANGED <<meta, players>>
    BY <1>5 DEF ScheduleClose
  <2>3. CASE pc'[p] = "unlock"
    BY <2>1, <2>2, <2>3, IdleCurrent, SerialFrame
  <2>4. CASE pc'[p] = "saveStart" /\ UNCHANGED snap
    <3>1. CurrentFor(p)'
      BY <1>5, <2>2, <2>4 DEF ScheduleClose, SerialInv, CurrentFor, AboutToWrite, Loaded
    <3>2. QED
      BY <2>1, <2>2, <3>1, SerialFrame
  <2>5. QED
    BY <1>5, <2>3, <2>4 DEF ScheduleClose, Leave, Goto, TypeOK
<1>6. ASSUME NEW p \in Procs, CloseAnswers(p) PROVE SerialInv'
  <2>1. OthersStay(p)
    BY <1>6, OneMoves DEF Step
  <2>2. InSection(p)
    BY <1>6 DEF CloseAnswers, InSection
  <2>3. CASE pc'[p] = "unlock"
    BY <2>1, <2>2, <2>3, IdleCurrent, SerialFrame
  <2>4. CASE pc'[p] # "unlock"
    <3> DEFINE m == [snap[p].meta EXCEPT !.open = FALSE]
    <3>1. /\ meta' = [meta EXCEPT !.open = FALSE]
          /\ snap'[p] = [meta |-> m, players |-> snap[p].players,
                         answers |-> answers[snap[p].meta.idx]]
          /\ pc'[p] = "saveClose" /\ players' = players
      BY <1>6, <2>4 DEF CloseAnswers, Leave, Goto, TypeOK
    <3>2. snap[p].meta = meta /\ snap[p].players = players
      BY <1>6 DEF CloseAnswers, SerialInv, CurrentFor, AboutToWrite, Loaded
    <3>3. CurrentFor(p)'
      BY <3>1, <3>2 DEF CurrentFor, AboutToWrite, Loaded
    <3>4. QED
      BY <2>1, <2>2, <3>3, SerialFrame
  <2>5. QED
    BY <2>3, <2>4
<1>7. ASSUME UNCHANGED <<meta, players, pc, req, snap>> PROVE SerialInv'
  BY <1>7 DEF SerialInv, CurrentFor, AboutToWrite, Loaded, NeedsLock
<1>8. ASSUME Expire \/ (\E q \in Questions : Reach(q)) \/ (\E p \in Procs : ClaimDueCloses(p))
             \/ UNCHANGED vars
      PROVE  SerialInv'
  BY <1>7, <1>8 DEF Expire, Reach, ClaimDueCloses, vars, store
<1>9. QED
  BY <1>1, <1>2, <1>3, <1>4, <1>5, <1>6, <1>8 DEF Next, Step

\* The lock serializes join, start and close on any number of instances,
\* whatever crashes or fails, as long as no live holder outlives its lock.
THEOREM EngineSerialized == NoSlow => (Spec => []Serialized)
<1> SUFFICES ASSUME NoSlow PROVE Spec => []Serialized
  OBVIOUS
<1>1. Init => SerializedInv
  <2>1. Init => LockInv
    BY DEF Init, LockInv, InSection
  <2>2. Init => SerialInv
    BY DEF Init, SerialInv, CurrentFor, AboutToWrite
  <2>3. QED
    BY <2>1, <2>2, TypeInit DEF SerializedInv, LockedInv
<1>2. SerializedInv /\ [Next]_vars => SerializedInv'
  BY TypeStep, LockStep, SerialStep DEF SerializedInv, LockedInv
<1>3. SerializedInv => Serialized
  BY DEF SerializedInv, SerialInv, CurrentFor, Serialized
<1>4. QED
  BY <1>1, <1>2, <1>3, PTL DEF Spec

---------------------------------------------------------------------------
(* What every step does to the stored game.                                *)

\* What step pc[p] relies on beyond ReadyFor, the game being what it is now: the
\* checks were made on what is still there, a close has every answer to its question,
\* and an answer that the script would record is that of a player still in the game.
Checked(p) ==
    /\ pc[p] = "addPlayer" => CanJoin(snap[p].meta, snap[p].players, req[p].pl)
    /\ pc[p] = "closeAnswers" => CanClose(snap[p].meta, -1)
    /\ pc[p] = "saveClose" => /\ snap[p].meta.status = "running" /\ ~snap[p].meta.open
                              /\ snap[p].answers = answers[snap[p].meta.idx]
    /\ pc[p] = "loadPlayers" => snap[p].meta.idx <= meta.idx
    /\ pc[p] = "record" =>
         /\ snap[p].meta.idx <= meta.idx
         /\ hasOption(req[p].q, req[p].opt)
         /\ meta.open /\ meta.idx = snap[p].meta.idx =>
              players[req[p].pl].joined /\ players[req[p].pl].active

CheckedInv == /\ meta.open => meta.status = "running"
              /\ \A p \in Procs : Checked(p)

EngineInv == SerializedInv /\ CheckedInv

\* The open question is marked closed and its penalties are not saved yet.
Marked == \E p \in Procs : pc[p] = "saveClose"

\* A close may stop half way.
Abandons == Faults \cap {"crash", "error"} # {}

StoreJoin(x) ==
    /\ CanJoin(meta, players, x)
    /\ players' = [players EXCEPT ![x] = Joined]
    /\ UNCHANGED <<meta, answers, settled>>
    /\ ~Marked /\ ~Marked'

StoreStart ==
    /\ CanStart(meta)
    /\ meta' = Started(meta)
    /\ UNCHANGED <<players, answers, settled>>
    /\ ~Marked /\ ~Marked'

StoreAnswer(x, opt) ==
    /\ meta.idx \in Questions
    /\ CanAnswer(meta, players, answers[meta.idx], x, meta.idx, opt)
    /\ answers' = [answers EXCEPT ![meta.idx][x] = opt]
    /\ UNCHANGED <<meta, players, settled>>
    /\ ~Marked /\ ~Marked'

StoreMark ==
    /\ CanClose(meta, -1)
    /\ meta' = [meta EXCEPT !.open = FALSE]
    /\ UNCHANGED <<players, answers, settled>>
    /\ ~Marked
    /\ Marked' \/ Abandons

\* A question that is marked closed; only its closer has not left.
Unsaved == meta.status = "running" /\ ~meta.open /\ meta.idx \in Questions /\ Marked

StoreClose ==
    /\ Unsaved /\ ~Marked'
    /\ players' = Penalised(players, answers[meta.idx], meta.idx)
    /\ meta' = Closed(meta, players')
    /\ settled' = settled \cup {meta.idx}
    /\ UNCHANGED answers

StoreAbandon ==
    /\ Unsaved /\ ~Marked' /\ Abandons
    /\ UNCHANGED <<meta, players, answers, settled>>

StoreQuiet ==
    /\ UNCHANGED <<meta, players, answers, settled>>
    /\ Marked <=> Marked'

StoreNext ==
    \/ \E x \in Players : StoreJoin(x)
    \/ StoreStart
    \/ \E x \in Players, opt \in OptionIDs : StoreAnswer(x, opt)
    \/ StoreMark \/ StoreClose \/ StoreAbandon \/ StoreQuiet

\* Whoever is in the critical section is the only one who may be closing.
LEMMA OnlyMarker ==
    ASSUME LockInv, NEW p \in Procs, InSection(p), OthersStay(p)
    PROVE  /\ Marked => pc[p] = "saveClose"
           /\ Marked' => pc'[p] = "saveClose"
<1>1. ASSUME NEW q \in Procs, q # p PROVE pc[q] # "saveClose" /\ pc'[q] # "saveClose"
  <2>1. ~InSection(q)
    BY <1>1, MutualExclusion
  <2>2. pc'[q] = pc[q]
    BY <1>1 DEF OthersStay
  <2>3. QED
    BY <2>1, <2>2 DEF InSection
<1>2. QED
  BY <1>1 DEF Marked

\* Steps elsewhere do not begin or end a close.
LEMMA SameMarker ==
    ASSUME NEW p \in Procs, OthersStay(p), pc[p] # "saveClose", pc'[p] # "saveClose"
    PROVE  Marked <=> Marked'
BY DEF Marked, OthersStay

\* The closer has loaded the game that is stored, which is not open.
LEMMA MarkerFacts ==
    ASSUME EngineInv, NEW p \in Procs, pc[p] = "saveClose"
    PROVE  /\ snap[p].meta = meta /\ snap[p].players = players
           /\ snap[p].answers = answers[meta.idx]
           /\ Unsaved
<1>1. /\ TypeOK /\ RequestInv /\ SerialInv /\ CheckedInv
  BY DEF EngineInv, SerializedInv, LockedInv, TypeInv
<1>2. snap[p].meta = meta /\ snap[p].players = players
  BY <1>1 DEF SerialInv, CurrentFor, AboutToWrite, Loaded
<1>3. snap[p].meta.idx \in Questions
  BY <1>1 DEF RequestInv, ReadyFor
<1>4. /\ snap[p].meta.status = "running" /\ ~snap[p].meta.open
      /\ snap[p].answers = answers[snap[p].meta.idx]
  BY <1>1 DEF CheckedInv, Checked
<1>5. QED
  BY <1>2, <1>3, <1>4 DEF Unsaved, Marked

\* AddPlayer adds a player who may join the game as it is stored.
LEMMA AddPlayerStores ==
    ASSUME EngineInv, NEW p \in Procs, AddPlayer(p)
    PROVE  req[p].pl \in Players /\ StoreJoin(req[p].pl) /\ pc'[p] = "unlock"
<1>1. TypeOK /\ RequestInv /\ LockInv /\ SerialInv /\ CheckedInv
  BY DEF EngineInv, SerializedInv, LockedInv, TypeInv
<1>2. pc[p] = "addPlayer"
  BY DEF AddPlayer
<1>3. snap[p].meta = meta /\ snap[p].players = players
  BY <1>1, <1>2 DEF SerialInv, CurrentFor, AboutToWrite, Loaded
<1>4. CanJoin(meta, players, req[p].pl)
  BY <1>1, <1>2, <1>3 DEF CheckedInv, Checked
<1>5. req[p].pl \in Players
  BY <1>1, <1>2 DEF RequestInv, ReadyFor, JoinReqs
<1>6. pc'[p] = "unlock"
  BY <1>1 DEF AddPlayer, Leave, Goto, TypeOK
<1>7. OthersStay(p)
  BY <1>1, OneMoves DEF Step
<1>8. ~Marked /\ ~Marked'
  BY <1>1, <1>2, <1>6, <1>7, OnlyMarker DEF InSection
<1>9. QED
  BY <1>4, <1>5, <1>6, <1>8 DEF AddPlayer, StoreJoin

\* StartNextQuestion starts the question after the one that is stored.
LEMMA SaveStartStores ==
    ASSUME EngineInv, NEW p \in Procs, SaveStart(p)
    PROVE  StoreStart /\ snap[p].meta = meta /\ pc'[p] = "unlock"
<1>1. TypeOK /\ RequestInv /\ LockInv /\ SerialInv
  BY DEF EngineInv, SerializedInv, LockedInv, TypeInv
<1>2. pc[p] = "saveStart"
  BY DEF SaveStart
<1>3. snap[p].meta = meta
  BY <1>1, <1>2 DEF SerialInv, CurrentFor, AboutToWrite, Loaded
<1>4. CanStart(meta)
  BY <1>1, <1>2, <1>3 DEF RequestInv, ReadyFor
<1>5. pc'[p] = "unlock"
  BY <1>1 DEF SaveStart, Leave, Goto, TypeOK
<1>6. OthersStay(p)
  BY <1>1, OneMoves DEF Step
<1>7. ~Marked /\ ~Marked'
  BY <1>1, <1>2, <1>5, <1>6, OnlyMarker DEF InSection
<1>8. QED
  BY <1>3, <1>4, <1>5, <1>7 DEF SaveStart, StoreStart

\* recordAnswerScript records the first answer of an active player to the question
\* that is open, although the checks were made without the lock.
LEMMA RecordStores ==
    ASSUME EngineInv, NEW p \in Procs, RecordAnswer(p)
    PROVE  /\ pc'[p] \in {"idle", "publish"}
           /\ \/ StoreQuiet /\ out'[p] = {}
              \/ /\ req[p].pl \in Players /\ req[p].opt \in OptionIDs
                 /\ snap[p].meta.idx = meta.idx
                 /\ StoreAnswer(req[p].pl, req[p].opt)
<1>1. TypeOK /\ RequestInv /\ CheckedInv
  BY DEF EngineInv, SerializedInv, LockedInv, TypeInv
<1>2. pc[p] = "record"
  BY DEF RecordAnswer
<1>3. pc'[p] \in {"idle", "publish"}
  BY <1>1 DEF RecordAnswer, Finish, Goto, TypeOK
<1>4. OthersStay(p)
  BY <1>1, OneMoves DEF Step
<1>5. Marked <=> Marked'
  BY <1>2, <1>3, <1>4, SameMarker
<1> DEFINE i == snap[p].meta.idx
           x == req[p].pl
<1>6. CASE ~(Recordable(meta, i) /\ answers[i][x] = NoAnswer)
  <2>1. Finish(p) /\ UNCHANGED <<meta, players, answers, settled>>
    BY <1>6 DEF RecordAnswer
  <2>2. out'[p] = {}
    BY <1>1, <2>1 DEF Finish, TypeOK
  <2>3. QED
    BY <1>3, <1>5, <2>1, <2>2 DEF StoreQuiet
<1>7. CASE Recordable(meta, i) /\ answers[i][x] = NoAnswer
  <2>1. req[p] \in AnswerReqs /\ i = req[p].q
    BY <1>1, <1>2 DEF RequestInv, ReadyFor
  <2>2. x \in Players /\ req[p].opt \in OptionIDs /\ i \in Questions
    BY <2>1 DEF AnswerReqs
  <2>3. meta.status = "running" /\ meta.open /\ meta.idx = i
    BY <1>7 DEF Recordable
  <2>4. hasOption(i, req[p].opt) /\ players[x].joined /\ players[x].active
    BY <1>1, <1>2, <2>1, <2>3 DEF CheckedInv, Checked
  <2>5. CanAnswer(meta, players, answers[meta.idx], x, meta.idx, req[p].opt)
    BY <1>7, <2>3, <2>4 DEF CanAnswer
  <2>6. ~Marked
    <3>1. ASSUME NEW q \in Procs, pc[q] = "saveClose" PROVE FALSE
      BY <2>3, <3>1, MarkerFacts DEF Unsaved
    <3>2. QED
      BY <3>1 DEF Marked
  <2>7. /\ answers' = [answers EXCEPT ![i][x] = req[p].opt]
        /\ UNCHANGED <<meta, players, settled>>
    BY <1>7 DEF RecordAnswer
  <2>8. StoreAnswer(x, req[p].opt)
    BY <1>5, <2>2, <2>3, <2>5, <2>6, <2>7 DEF StoreAnswer
  <2>9. QED
    BY <1>3, <2>2, <2>3, <2>8
<1>8. QED
  BY <1>6, <1>7

\* closeAnswersScript marks the open question closed.
LEMMA CloseAnswersStores ==
    ASSUME EngineInv, NEW p \in Procs, CloseAnswers(p)
    PROVE  /\ StoreMark
           /\ \/ /\ pc'[p] = "saveClose"
                 /\ snap'[p] = [meta |-> meta', players |-> players, answers |-> answers[meta.idx]]
              \/ pc'[p] = "unlock" /\ "error" \in Faults
<1>1. TypeOK /\ RequestInv /\ LockInv /\ SerialInv /\ CheckedInv
  BY DEF EngineInv, SerializedInv, LockedInv, TypeInv
<1>2. pc[p] = "closeAnswers"
  BY DEF CloseAnswers
<1>3. snap[p].meta = meta /\ snap[p].players = players
  BY <1>1, <1>2 DEF SerialInv, CurrentFor, AboutToWrite, Loaded
<1>4. CanClose(meta, -1)
  BY <1>1, <1>2, <1>3 DEF CheckedInv, Checked
<1>5. OthersStay(p)
  BY <1>1, OneMoves DEF Step
<1>6. ~Marked
  BY <1>1, <1>2, <1>5, OnlyMarker DEF InSection
<1>7. meta' = [meta EXCEPT !.open = FALSE] /\ UNCHANGED <<players, answers, settled>>
  BY <1>3, <1>4 DEF CloseAnswers, CanClose
<1>8. \/ Goto(p, "saveClose")
         /\ snap' = [snap EXCEPT ![p] = [meta |-> meta', players |-> players,
                                         answers |-> answers[meta.idx]]]
      \/ "error" \in Faults /\ Leave(p, {})
  BY <1>3, <1>4, <1>7 DEF CloseAnswers, CanClose, Replies
<1>9. \/ /\ pc'[p] = "saveClose"
         /\ snap'[p] = [meta |-> meta', players |-> players, answers |-> answers[meta.idx]]
      \/ pc'[p] = "unlock" /\ "error" \in Faults
  BY <1>1, <1>8 DEF Leave, Goto, TypeOK
<1>10. Marked' \/ Abandons
  BY <1>9 DEF Marked, Abandons
<1>11. QED
  BY <1>4, <1>6, <1>7, <1>9, <1>10 DEF StoreMark

\* Save applies to the players that are stored the penalties of the answers that are
\* stored.
LEMMA SaveCloseStores ==
    ASSUME EngineInv, NEW p \in Procs, SaveClose(p)
    PROVE  /\ StoreClose
           /\ pc'[p] = "unlock" \/ (pc'[p] = "cancel" /\ out'[p] = CloseEvents(snap[p]))
           /\ snap[p].meta = meta /\ snap[p].players = players
           /\ snap[p].answers = answers[meta.idx]
<1>1. TypeOK /\ LockInv
  BY DEF EngineInv, SerializedInv, LockedInv, TypeInv
<1>2. pc[p] = "saveClose"
  BY DEF SaveClose
<1>3. /\ snap[p].meta = meta /\ snap[p].players = players
      /\ snap[p].answers = answers[meta.idx] /\ Unsaved
  BY <1>2, MarkerFacts
<1>4. pc'[p] = "unlock" \/ (pc'[p] = "cancel" /\ out'[p] = CloseEvents(snap[p]))
  BY <1>1 DEF SaveClose, Leave, Goto, TypeOK
<1>5. OthersStay(p)
  BY <1>1, OneMoves DEF Step
<1>6. ~Marked'
  BY <1>1, <1>2, <1>4, <1>5, OnlyMarker DEF InSection
<1> DEFINE after == Penalised(players, answers[meta.idx], meta.idx)
           lost == LifeLost(players, answers[meta.idx], meta.idx)
<1>7. /\ meta' = Closed(meta, after)
      /\ players' = [x \in Players |-> IF x \in lost THEN after[x] ELSE players[x]]
      /\ settled' = settled \cup {meta.idx} /\ UNCHANGED answers
  BY <1>3 DEF SaveClose, SavedPlayers
<1>8. players' = after
  BY <1>7 DEF Penalised
<1>9. QED
  BY <1>3, <1>4, <1>6, <1>7, <1>8 DEF StoreClose

\* The steps of process p that write nothing of the game.
Quiet(p) ==
    \/ ClientRequest(p) \/ Acquire(p) \/ Busy(p) \/ LoadMeta(p) \/ LoadPlayers(p) \/ Unlock(p)
    \/ ScheduleClose(p) \/ CancelClose(p) \/ Publish(p) \/ ClaimDueCloses(p) \/ CloseDue(p)
    \/ Fail(p) \/ Crash(p)

\* They leave the game alone; a process that stops between the two writes of a close
\* leaves the question without penalties.
LEMMA QuietStores ==
    ASSUME EngineInv, NEW p \in Procs, Quiet(p)
    PROVE  /\ UNCHANGED <<meta, players, answers, settled>>
           /\ StoreQuiet \/ StoreAbandon
           /\ pc'[p] # "saveClose"
           /\ Abandons \/ StoreQuiet
<1>1. TypeOK /\ LockInv /\ RequestInv
  BY DEF EngineInv, SerializedInv, LockedInv, TypeInv
<1>2. UNCHANGED <<meta, players, answers, settled>>
  BY DEF Quiet, ClientRequest, Receive, Acquire, Busy, LoadMeta, LoadPlayers, Unlock,
         ScheduleClose, CancelClose, Publish, ClaimDueCloses, CloseDue, Fail, Crash, store
<1>3. OthersStay(p)
  BY <1>1, OneMoves DEF Quiet, Step
<1>4. CASE LoadPlayers(p)
  <2> DEFINE s == [snap[p] EXCEPT
                      !.players = players,
                      !.answers = IF snap[p].meta.idx >= 0 THEN answers[snap[p].meta.idx]
                                                           ELSE NoAnswers]
             next == AfterLoad(req[p], s)
  <2>1. pc'[p] = next /\ pc[p] = "loadPlayers"
    BY <1>1, <1>4 DEF LoadPlayers, Finish, Leave, Goto, TypeOK
  <2>2. req[p] \in Requests
    BY <1>1, <2>1 DEF RequestInv, ReadyFor
  <2>3. next # "saveClose"
    BY <2>2 DEF AfterLoad, Requests, JoinReqs, StartReqs, CloseReqs, AnswerReqs
  <2>4. QED
    BY <1>2, <1>3, <2>1, <2>3, SameMarker DEF StoreQuiet
<1>5. CASE \/ ClientRequest(p) \/ Acquire(p) \/ Busy(p) \/ LoadMeta(p) \/ Unlock(p)
           \/ ScheduleClose(p) \/ CancelClose(p) \/ Publish(p) \/ CloseDue(p)
           \/ ClaimDueCloses(p)
  <2>1. pc[p] # "saveClose" /\ pc'[p] # "saveClose"
    BY <1>1, <1>5 DEF ClientRequest, Receive, Acquire, Busy, LoadMeta, Unlock, ScheduleClose,
                      CancelClose, Publish, CloseDue, ClaimDueCloses, Finish, Leave, Goto, TypeOK
  <2>2. QED
    BY <1>2, <1>3, <2>1, SameMarker DEF StoreQuiet
<1>6. CASE Fail(p) \/ Crash(p)
  <2>1. Abandons /\ pc'[p] # "saveClose"
    BY <1>1, <1>6 DEF Fail, Crash, Finish, Leave, Goto, TypeOK, Abandons
  <2>2. CASE pc[p] # "saveClose"
    BY <1>2, <1>3, <2>1, <2>2, SameMarker DEF StoreQuiet
  <2>3. CASE pc[p] = "saveClose"
    <3>1. Unsaved
      BY <2>3, MarkerFacts
    <3>2. ~Marked'
      BY <1>1, <1>3, <2>1, <2>3, OnlyMarker DEF InSection
    <3>3. QED
      BY <1>2, <2>1, <3>1, <3>2 DEF StoreAbandon
  <2>4. QED
    BY <2>2, <2>3
<1>7. QED
  BY <1>4, <1>5, <1>6, <1>2 DEF Quiet

\* The steps of nobody, which only time takes.
Passing == Expire \/ (\E q \in Questions : Reach(q)) \/ UNCHANGED vars

\* Every step is one of those.
LEMMA EngineCases ==
    ASSUME [Next]_vars
    PROVE  \/ Passing
           \/ \E p \in Procs : \/ AddPlayer(p) \/ SaveStart(p) \/ RecordAnswer(p)
                               \/ CloseAnswers(p) \/ SaveClose(p) \/ Quiet(p)
BY DEF Next, Step, Passing, Quiet

\* Time changes nothing that a process or the game holds.
LEMMA PassingStores ==
    ASSUME Passing
    PROVE  /\ UNCHANGED <<meta, players, answers, settled, pc, req, snap, claimed, out, published>>
           /\ StoreQuiet
<1>1. UNCHANGED <<meta, players, answers, settled, pc, req, snap, claimed, out, published>>
  BY DEF Passing, Expire, Reach, vars, store
<1>2. QED
  BY <1>1 DEF StoreQuiet, Marked

\* Whatever the processes do, the stored game sees only these steps.
LEMMA StoreSteps ==
    ASSUME EngineInv, [Next]_vars
    PROVE  StoreNext
BY EngineCases, PassingStores, AddPlayerStores, SaveStartStores, RecordStores, CloseAnswersStores,
   SaveCloseStores, QuietStores DEF StoreNext

\* The stored game goes forward: what a request has read is not overtaken by the past.
Forward ==
    /\ meta.idx <= meta'.idx
    /\ meta'.open => meta'.status = "running"
    /\ meta'.open /\ meta'.idx = meta.idx =>
         /\ meta.open
         /\ \A x \in Players : players[x].joined /\ players[x].active =>
                                 players'[x].joined /\ players'[x].active
    /\ Marked => answers' = answers

\* The writes of the engine move the stored game forward.
LEMMA StoreForward ==
    ASSUME EngineInv, StoreNext
    PROVE  Forward
<1>1. /\ meta \in Meta /\ meta.idx \in Int /\ players \in [Players -> PlayerData]
      /\ meta.open => meta.status = "running"
  BY DEF EngineInv, SerializedInv, LockedInv, TypeInv, TypeOK, CheckedInv, Meta
<1>2. ASSUME NEW x \in Players, StoreJoin(x) PROVE Forward
  <2>1. players' = [players EXCEPT ![x] = Joined] /\ UNCHANGED <<meta, answers>>
    BY <1>2 DEF StoreJoin
  <2>2. \A y \in Players : players'[y] \in {players[y], Joined}
    BY <1>1, <2>1
  <2>3. Joined.joined /\ Joined.active
    BY DEF Joined
  <2>4. \A y \in Players : players[y].joined /\ players[y].active =>
                             players'[y].joined /\ players'[y].active
    BY <2>2, <2>3
  <2>5. QED
    BY <1>1, <2>1, <2>4 DEF Forward
<1>3. CASE StoreStart
  <2>1. meta'.idx = meta.idx + 1 /\ meta'.status = "running" /\ answers' = answers
    BY <1>1, <1>3 DEF StoreStart, Started, Meta
  <2>2. QED
    BY <1>1, <2>1 DEF Forward
<1>4. ASSUME NEW x \in Players, NEW opt \in OptionIDs, StoreAnswer(x, opt) PROVE Forward
  BY <1>1, <1>4 DEF StoreAnswer, Forward
<1>5. CASE StoreMark
  <2>1. meta'.idx = meta.idx /\ ~meta'.open /\ answers' = answers
    BY <1>1, <1>5 DEF StoreMark, Meta
  <2>2. QED
    BY <1>1, <2>1 DEF Forward
<1>6. CASE StoreClose
  <2>1. meta'.idx = meta.idx /\ ~meta'.open /\ answers' = answers
    BY <1>1, <1>6 DEF StoreClose, Closed, Meta
  <2>2. QED
    BY <1>1, <2>1 DEF Forward
<1>7. CASE StoreAbandon \/ StoreQuiet
  BY <1>1, <1>7 DEF StoreAbandon, StoreQuiet, Forward
<1>8. QED
  BY <1>2, <1>3, <1>4, <1>5, <1>6, <1>7 DEF StoreNext

\* What a process relies on survives the steps of the others.
LEMMA CheckedFrame ==
    ASSUME EngineInv, Forward, NEW q \in Procs, meta'.idx \in Int,
           pc'[q] = pc[q], req'[q] = req[q], snap'[q] = snap[q]
    PROVE  Checked(q)'
<1>1. /\ Checked(q) /\ meta.idx \in Int /\ snap[q].meta.idx \in Int
      /\ pc[q] = "record" => req[q].pl \in Players
  BY DEF EngineInv, SerializedInv, LockedInv, TypeInv, TypeOK, CheckedInv, Snapshots, Meta,
         RequestInv, ReadyFor, AnswerReqs
<1>2. pc[q] = "saveClose" => answers' = answers
  BY DEF Forward, Marked
<1>3. ASSUME pc[q] = "record", meta'.open, meta'.idx = snap[q].meta.idx
      PROVE  players'[req[q].pl].joined /\ players'[req[q].pl].active
  <2>1. meta'.idx = meta.idx
    BY <1>1, <1>3 DEF Forward, Checked
  <2>2. QED
    BY <1>1, <1>3, <2>1 DEF Forward, Checked
<1>4. pc[q] \in {"loadPlayers", "record"} => snap[q].meta.idx <= meta'.idx
  BY <1>1 DEF Checked, Forward
<1>5. QED
  BY <1>1, <1>2, <1>3, <1>4 DEF Checked

\* Every step keeps what the processes rely on.
LEMMA CheckedStep ==
    ASSUME EngineInv, [Next]_vars, TypeOK'
    PROVE  CheckedInv'
<1>0. /\ TypeOK /\ RequestInv /\ SerialInv /\ CheckedInv
  BY DEF EngineInv, SerializedInv, LockedInv, TypeInv
<1>1. Forward /\ meta'.idx \in Int
  BY StoreSteps, StoreForward DEF TypeOK, Meta
<1>2. CASE Passing
  BY <1>1, <1>2, PassingStores, CheckedFrame DEF CheckedInv, Forward
<1>3. ASSUME NEW p \in Procs, Checked(p)', OthersStay(p) PROVE CheckedInv'
  BY <1>1, <1>3, CheckedFrame DEF CheckedInv, Forward, OthersStay
<1>4. ASSUME NEW p \in Procs,
             pc'[p] \notin {"addPlayer", "closeAnswers", "saveClose", "loadPlayers", "record"}
      PROVE  Checked(p)'
  BY <1>4 DEF Checked
<1>5. ASSUME NEW p \in Procs, AddPlayer(p) \/ SaveStart(p) \/ RecordAnswer(p) \/ SaveClose(p)
      PROVE  CheckedInv'
  <2>1. OthersStay(p)
    BY <1>0, <1>5, OneMoves DEF Step
  <2>2. pc'[p] \in {"unlock", "idle", "publish", "cancel"}
    BY <1>5, AddPlayerStores, SaveStartStores, RecordStores, SaveCloseStores
  <2>3. QED
    BY <1>3, <1>4, <2>1, <2>2
<1>6. ASSUME NEW p \in Procs, CloseAnswers(p) PROVE CheckedInv'
  <2>1. OthersStay(p)
    BY <1>0, <1>6, OneMoves DEF Step
  <2>2. StoreMark
    BY <1>6, CloseAnswersStores
  <2>3. meta'.status = "running" /\ ~meta'.open /\ meta'.idx = meta.idx /\ answers' = answers
    BY <1>0, <2>2 DEF StoreMark, CanClose, TypeOK, Meta
  <2>4. CASE pc'[p] = "unlock"
    BY <1>3, <1>4, <2>1, <2>4
  <2>5. CASE /\ pc'[p] = "saveClose"
             /\ snap'[p] = [meta |-> meta', players |-> players, answers |-> answers[meta.idx]]
    <3>1. snap'[p].meta = meta' /\ snap'[p].answers = answers[meta.idx]
      BY <2>5
    <3>2. Checked(p)'
      BY <2>3, <2>5, <3>1 DEF Checked
    <3>3. QED
      BY <1>3, <2>1, <3>2
  <2>6. QED
    BY <1>6, <2>4, <2>5, CloseAnswersStores
<1>7. ASSUME NEW p \in Procs, Quiet(p) PROVE CheckedInv'
  <2>1. OthersStay(p)
    BY <1>0, <1>7, OneMoves DEF Quiet, Step
  <2>2. UNCHANGED <<meta, players, answers>>
    BY <1>7, QuietStores
  <2>3. CASE LoadMeta(p)
    <3>1. snap'[p].meta = meta /\ pc'[p] = "loadPlayers"
      BY <1>0, <2>3 DEF LoadMeta, Goto, TypeOK, Snapshots
    <3>2. Checked(p)'
      BY <1>1, <2>2, <3>1 DEF Checked
    <3>3. QED
      BY <1>3, <2>1, <3>2
  <2>4. CASE LoadPlayers(p)
    <3> DEFINE s == [snap[p] EXCEPT
                        !.players = players,
                        !.answers = IF snap[p].meta.idx >= 0 THEN answers[snap[p].meta.idx]
                                                             ELSE NoAnswers]
               next == AfterLoad(req[p], s)
    <3>1. pc'[p] = next /\ pc[p] = "loadPlayers"
      BY <1>0, <2>4 DEF LoadPlayers, Finish, Leave, Goto, TypeOK
    <3>2. req[p] \in Requests
      BY <1>0, <3>1 DEF RequestInv, ReadyFor
    <3>3. s.meta = snap[p].meta /\ s.players = players
      BY <1>0 DEF TypeOK, Snapshots
    <3>4. next \in {"idle", "unlock", "record", "addPlayer", "schedule", "saveStart", "closeAnswers"}
      BY <3>2 DEF AfterLoad, Requests, JoinReqs, StartReqs, CloseReqs, AnswerReqs
    <3>5. snap[p].meta.idx <= meta.idx
      BY <1>0, <3>1 DEF CheckedInv, Checked
    <3>6. CASE next = "record"
      <4>1. snap'[p] = snap[p] /\ req'[p] = req[p]
        BY <2>4, <3>6 DEF LoadPlayers
      <4>2. CanAnswer(s.meta, s.players, s.answers, req[p].pl, req[p].q, req[p].opt)
        BY <3>2, <3>6 DEF AfterLoad, Requests, JoinReqs, StartReqs, CloseReqs, AnswerReqs
      <4>3. /\ players[req[p].pl].joined /\ players[req[p].pl].active
            /\ hasOption(req[p].q, req[p].opt)
        BY <3>3, <4>2 DEF CanAnswer
      <4> HIDE DEF next, s
      <4>4. Checked(p)'
        BY <2>2, <3>1, <3>5, <3>6, <4>1, <4>3 DEF Checked
      <4>5. QED
        BY <1>3, <2>1, <4>4
    <3>7. CASE next = "addPlayer"
      <4>1. snap' = [snap EXCEPT ![p].players = players] /\ req' = req
        BY <2>4, <3>7 DEF LoadPlayers
      <4>2. snap'[p].meta = snap[p].meta /\ snap'[p].players = players
        BY <1>0, <4>1 DEF TypeOK, Snapshots
      <4>3. CanJoin(s.meta, s.players, req[p].pl)
        BY <3>2, <3>7 DEF AfterLoad, Requests, JoinReqs, StartReqs, CloseReqs, AnswerReqs
      <4>4. CanJoin(snap'[p].meta, snap'[p].players, req'[p].pl)
        BY <3>3, <4>1, <4>2, <4>3
      <4> HIDE DEF next, s
      <4>5. Checked(p)'
        BY <3>1, <3>7, <4>4 DEF Checked
      <4>6. QED
        BY <1>3, <2>1, <4>5
    <3>8. CASE next = "closeAnswers"
      <4>1. snap' = [snap EXCEPT ![p].players = players] /\ req' = req
        BY <2>4, <3>8 DEF LoadPlayers
      <4>2. snap'[p].meta = snap[p].meta
        BY <1>0, <4>1 DEF TypeOK, Snapshots
      <4>3. CanClose(s.meta, req[p].only)
        BY <3>2, <3>8 DEF AfterLoad, Requests, JoinReqs, StartReqs, CloseReqs, AnswerReqs
      <4>4. CanClose(snap'[p].meta, -1)
        BY <3>3, <4>2, <4>3 DEF CanClose
      <4> HIDE DEF next, s
      <4>5. Checked(p)'
        BY <3>1, <3>8, <4>4 DEF Checked
      <4>6. QED
        BY <1>3, <2>1, <4>5
    <3>9. CASE next \in {"idle", "unlock", "schedule", "saveStart"}
      <4> HIDE DEF next, s
      <4>1. QED
        BY <1>3, <1>4, <2>1, <3>1, <3>9
    <3>10. QED
      BY <3>4, <3>6, <3>7, <3>8, <3>9
  <2>5. CASE ClaimDueCloses(p)
    <3>1. UNCHANGED <<pc, req, snap>>
      BY <2>5 DEF ClaimDueCloses
    <3>2. QED
      BY <1>1, <1>3, <2>1, <3>1, CheckedFrame
  <2>6. CASE \/ ClientRequest(p) \/ Acquire(p) \/ Busy(p) \/ Unlock(p) \/ ScheduleClose(p)
             \/ CancelClose(p) \/ Publish(p) \/ CloseDue(p) \/ Fail(p) \/ Crash(p)
    <3>1. pc'[p] \in {"idle", "lock", "loadMeta", "unlock", "publish", "saveStart"}
      BY <1>0, <2>6 DEF ClientRequest, Receive, Acquire, Busy, Unlock, ScheduleClose, CancelClose,
                        Publish, CloseDue, Fail, Crash, Finish, Leave, Goto, TypeOK
    <3>2. QED
      BY <1>3, <1>4, <2>1, <3>1
  <2>7. QED
    BY <1>7, <2>3, <2>4, <2>5, <2>6 DEF Quiet
<1>8. QED
  BY <1>2, <1>5, <1>6, <1>7, EngineCases

\* The engine's inductive invariant.
LEMMA EngineInit == Init => EngineInv
<1>1. Init => LockInv /\ SerialInv
  BY DEF Init, LockInv, InSection, SerialInv, CurrentFor, AboutToWrite
<1>2. Init => CheckedInv
  BY DEF Init, CheckedInv, Checked, NewGame
<1>3. QED
  BY <1>1, <1>2, TypeInit DEF EngineInv, SerializedInv, LockedInv

\* EngineInv is inductive while no holder outlives the lock.
LEMMA EngineStep == NoSlow /\ EngineInv /\ [Next]_vars => EngineInv'
<1> SUFFICES ASSUME NoSlow, EngineInv, [Next]_vars PROVE EngineInv'
  OBVIOUS
<1>1. TypeInv' /\ LockInv' /\ SerialInv'
  BY TypeStep, LockStep, SerialStep DEF EngineInv, SerializedInv, LockedInv
<1>2. CheckedInv'
  BY <1>1, CheckedStep DEF TypeInv
<1>3. QED
  BY <1>1, <1>2 DEF EngineInv, SerializedInv, LockedInv

---------------------------------------------------------------------------
(* The engine implements GameSpec.                                         *)

\* The game a client sees: open until the penalties are saved.
LEMMA AbstractFacts ==
    ASSUME TypeOK
    PROVE  /\ AbstractMeta \in Meta
           /\ AbstractMeta.open <=> meta.open \/ Marked
           /\ AbstractMeta.idx = meta.idx
           /\ AbstractMeta.status = meta.status
           /\ AbstractMeta.reason = meta.reason
           /\ ~Marked => AbstractMeta = meta
           /\ Marked => AbstractMeta = [meta EXCEPT !.open = TRUE]
<1>1. meta \in Meta /\ (meta.open \/ Marked) \in BOOLEAN
  BY DEF TypeOK
<1>2. AbstractMeta = [meta EXCEPT !.open = meta.open \/ Marked]
  BY DEF AbstractMeta, Marked
<1>3. CASE Marked
  <2>1. (meta.open \/ Marked) = TRUE
    BY <1>3
  <2>2. AbstractMeta = [meta EXCEPT !.open = TRUE]
    BY <1>2, <2>1
  <2>3. QED
    BY <1>1, <1>3, <2>2 DEF Meta
<1>4. CASE ~Marked
  <2>1. (meta.open \/ Marked) = meta.open
    BY <1>1, <1>4 DEF Meta
  <2>2. AbstractMeta = [meta EXCEPT !.open = meta.open]
    BY <1>2, <2>1
  <2>3. AbstractMeta = meta
    BY <1>1, <2>2 DEF Meta
  <2>4. QED
    BY <1>1, <1>4, <2>3 DEF Meta
<1>5. QED
  BY <1>3, <1>4

\* The abstract progress, by whether a close is under way.
AbstractIs == /\ ~Marked => AbstractMeta = meta
              /\ Marked => AbstractMeta = [meta EXCEPT !.open = TRUE]

\* This holds before and after a step.
LEMMA AbstractAgain == TypeOK => AbstractIs
BY AbstractFacts DEF AbstractIs

\* Nothing but the mark tells the two apart.
AbstractSame == /\ AbstractMeta.status = meta.status /\ AbstractMeta.reason = meta.reason
                /\ AbstractMeta.idx = meta.idx

\* This, too, holds before and after a step.
LEMMA AbstractSameAlways == TypeOK => AbstractSame
BY AbstractFacts DEF AbstractSame

\* A close of a question that is marked closed and one of an open question agree.
LEMMA ClosedMarked ==
    ASSUME NEW m \in Meta, NEW ps
    PROVE  Closed([m EXCEPT !.open = TRUE], ps) = Closed(m, ps)
<1>1. EndReason([m EXCEPT !.open = TRUE], ps) = EndReason(m, ps)
  BY DEF EndReason, RemainingQuestions, Meta
<1>2. QED
  BY <1>1 DEF Closed, Meta

\* GameSpec's rules are the engine's.
LEMMA SameRules ==
    /\ \A m, ps, x : GS!CanJoin(m, ps, x) <=> CanJoin(m, ps, x)
    /\ \A m : GS!CanStart(m) <=> CanStart(m)
    /\ \A m, only : GS!CanClose(m, only) <=> CanClose(m, only)
    /\ \A m, ps, sheet, x, q, opt :
         GS!CanAnswer(m, ps, sheet, x, q, opt) <=> CanAnswer(m, ps, sheet, x, q, opt)
    /\ \A m : GS!Started(m) = Started(m)
    /\ \A ps, sheet, i : GS!Penalised(ps, sheet, i) = Penalised(ps, sheet, i)
    /\ \A m, ps : GS!Closed(m, ps) = Closed(m, ps)
    /\ GS!Joined = Joined /\ GS!Absent = Absent /\ GS!NewGame = NewGame
    /\ GS!Questions = Questions /\ GS!NoAnswers = NoAnswers
<1>1. \A ps : GS!activePlayers(ps) = activePlayers(ps)
  BY DEF GS!activePlayers, activePlayers
<1>2. \A ps, sheet, i : GS!LifeLost(ps, sheet, i) = LifeLost(ps, sheet, i)
  BY <1>1 DEF GS!LifeLost, LifeLost
<1>3. \A ps, sheet, i : GS!Penalised(ps, sheet, i) = Penalised(ps, sheet, i)
  BY <1>2 DEF GS!Penalised, Penalised
<1>4. \A m : GS!RemainingQuestions(m) = RemainingQuestions(m)
  BY DEF GS!RemainingQuestions, RemainingQuestions
<1>5. \A m, ps : GS!EndReason(m, ps) = EndReason(m, ps)
  BY <1>1, <1>4 DEF GS!EndReason, EndReason
<1>6. \A m, ps : GS!Closed(m, ps) = Closed(m, ps)
  BY <1>5 DEF GS!Closed, Closed
<1>7. /\ \A m, ps, x : GS!CanJoin(m, ps, x) <=> CanJoin(m, ps, x)
      /\ \A m : GS!CanStart(m) <=> CanStart(m)
      /\ \A m, only : GS!CanClose(m, only) <=> CanClose(m, only)
      /\ \A m, ps, sheet, x, q, opt :
           GS!CanAnswer(m, ps, sheet, x, q, opt) <=> CanAnswer(m, ps, sheet, x, q, opt)
  BY DEF GS!CanJoin, CanJoin, GS!CanStart, CanStart, GS!CanClose, CanClose, GS!CanAnswer,
         CanAnswer, GS!hasOption, hasOption, GS!NoAnswer, NoAnswer
<1>8. /\ \A m : GS!Started(m) = Started(m)
      /\ GS!Joined = Joined /\ GS!Absent = Absent /\ GS!NewGame = NewGame
      /\ GS!Questions = Questions /\ GS!NoAnswers = NoAnswers
  BY DEF GS!Started, Started, GS!Joined, Joined, GS!Absent, Absent, GS!NewGame, NewGame,
         GS!Questions, Questions, GS!NoAnswers, NoAnswers, GS!NoAnswer, NoAnswer
<1>9. QED
  BY <1>3, <1>6, <1>7, <1>8

\* Every step of the stored game is a step of GameSpec, or none.
LEMMA StoreImplements ==
    ASSUME EngineInv, StoreNext, TypeOK'
    PROVE  [GS!Next]_(GS!vars)
<1>0. /\ TypeOK /\ meta \in Meta
      /\ meta.open => meta.status = "running"
  BY DEF EngineInv, SerializedInv, LockedInv, TypeInv, TypeOK, CheckedInv
<1>1. /\ ~Marked => AbstractMeta = meta
      /\ Marked => AbstractMeta = [meta EXCEPT !.open = TRUE]
      /\ AbstractMeta.idx = meta.idx /\ AbstractMeta.status = meta.status
      /\ AbstractMeta.open <=> meta.open \/ Marked
  BY <1>0, AbstractFacts
<1>2. /\ ~Marked' => AbstractMeta' = meta'
      /\ Marked' => AbstractMeta' = [meta' EXCEPT !.open = TRUE]
  <2>1. AbstractIs'
    BY AbstractAgain, PTL
  <2>2. QED
    BY <2>1 DEF AbstractIs
<1>3. ASSUME NEW x \in Players, StoreJoin(x) PROVE GS!Join(x)
  BY <1>1, <1>2, <1>3, SameRules DEF StoreJoin, GS!Join
<1>4. CASE StoreStart
  <2>1. GS!Start
    BY <1>1, <1>2, <1>4, SameRules DEF StoreStart, GS!Start
  <2>2. QED
    BY <2>1 DEF GS!Next
<1>5. ASSUME NEW x \in Players, NEW opt \in OptionIDs, StoreAnswer(x, opt) PROVE GS!Answer(x, opt)
  BY <1>1, <1>2, <1>5, SameRules DEF StoreAnswer, CanAnswer, GS!Answer
<1>6. CASE StoreMark
  <2>1. AbstractMeta = meta /\ CanClose(meta, -1) /\ meta' = [meta EXCEPT !.open = FALSE]
    BY <1>1, <1>6 DEF StoreMark
  <2>2. CASE Marked'
    <3>1. meta.open = TRUE
      BY <1>0, <2>1 DEF CanClose, Meta
    <3>2. AbstractMeta' = meta
      BY <1>0, <1>2, <2>1, <2>2, <3>1 DEF Meta
    <3>3. QED
      BY <1>6, <2>1, <3>2 DEF StoreMark, GS!vars
  <2>3. CASE ~Marked'
    <3>1. GS!Abandon
      BY <1>2, <1>6, <2>1, <2>3, SameRules DEF StoreMark, Abandons, GS!Abandon
    <3>2. QED
      BY <3>1 DEF GS!Next
  <2>4. QED
    BY <2>2, <2>3
<1>7. ASSUME Unsaved PROVE CanClose(AbstractMeta, -1)
  BY <1>1, <1>7 DEF Unsaved, CanClose
<1>8. CASE StoreClose
  <2>1. /\ players' = Penalised(players, answers[AbstractMeta.idx], AbstractMeta.idx)
        /\ settled' = settled \cup {AbstractMeta.idx} /\ answers' = answers
        /\ CanClose(AbstractMeta, -1)
    BY <1>1, <1>7, <1>8 DEF StoreClose
  <2>2. Closed(AbstractMeta, players') = Closed(meta, players')
    BY <1>0, <1>1, <1>8, ClosedMarked DEF StoreClose, Unsaved
  <2>3. AbstractMeta' = Closed(AbstractMeta, players')
    BY <1>2, <1>8, <2>2 DEF StoreClose
  <2>4. GS!Close
    BY <2>1, <2>3, SameRules DEF GS!Close
  <2>5. QED
    BY <2>4 DEF GS!Next
<1>9. CASE StoreAbandon
  <2>1. AbstractMeta = [meta EXCEPT !.open = TRUE] /\ AbstractMeta' = meta /\ meta.open = FALSE
    BY <1>0, <1>1, <1>2, <1>9 DEF StoreAbandon, Unsaved, Meta
  <2>2. AbstractMeta' = [AbstractMeta EXCEPT !.open = FALSE]
    BY <1>0, <2>1 DEF Meta
  <2>3. CanClose(AbstractMeta, -1)
    BY <1>7, <1>9 DEF StoreAbandon
  <2>4. GS!Abandon
    BY <1>9, <2>2, <2>3, SameRules DEF StoreAbandon, Abandons, GS!Abandon
  <2>5. QED
    BY <2>4 DEF GS!Next
<1>10. CASE StoreQuiet
  <2>1. AbstractMeta' = AbstractMeta
    BY <1>1, <1>2, <1>10 DEF StoreQuiet
  <2>2. QED
    BY <1>10, <2>1 DEF StoreQuiet, GS!vars
<1>11. QED
  BY <1>3, <1>4, <1>5, <1>6, <1>8, <1>9, <1>10 DEF StoreNext, GS!Next

\* A created game is GameSpec's.
LEMMA InitImplements == Init => GS!Init
<1> SUFFICES ASSUME Init PROVE GS!Init
  OBVIOUS
<1>1. ~Marked /\ TypeOK
  BY TypeInit DEF Init, Marked, TypeInv
<1>2. AbstractMeta = meta
  BY <1>1, AbstractFacts
<1>3. QED
  BY <1>2, SameRules DEF Init, GS!Init

\* The engine implements GameSpec for any number of requests, deadlines and instances
\* at work on any game: joins, starts, answers and closes, each several Redis calls of
\* which others can see the intermediate states, behave like the atomic operations,
\* whatever crashes or fails, as long as no live holder outlives its lock.
THEOREM EngineImplementsGame == NoSlow => (Spec => ImplementsGameSpec)
<1> SUFFICES ASSUME NoSlow PROVE Spec => ImplementsGameSpec
  OBVIOUS
<1>1. EngineInv /\ [Next]_vars => EngineInv'
  BY EngineStep
<1>2. EngineInv /\ [Next]_vars => [GS!Next]_(GS!vars)
  <2> SUFFICES ASSUME EngineInv, [Next]_vars PROVE [GS!Next]_(GS!vars)
    OBVIOUS
  <2>1. TypeOK'
    BY <1>1 DEF EngineInv, SerializedInv, LockedInv, TypeInv
  <2>2. QED
    BY <2>1, StoreSteps, StoreImplements
<1>3. QED
  BY <1>1, <1>2, EngineInit, InitImplements, PTL DEF Spec, ImplementsGameSpec, GS!Spec

---------------------------------------------------------------------------
(* What is proved of GameSpec holds of the engine.                         *)

GP == INSTANCE GameSpecProofs WITH
          meta <- AbstractMeta,
          MayAbandon <- (Faults \cap {"crash", "error"} # {})

\* The engine's parameters are those GameSpec assumes.
LEMMA GameAssumptions ==
    /\ GP!OwnerAssumption /\ GP!TotalAssumption /\ GP!OptionsAssumption /\ GP!LivesAssumption
    /\ GP!MayAbandonAssumption
<1>1. (Faults \cap {"crash", "error"} # {}) \in BOOLEAN
  OBVIOUS
<1>2. QED
  BY <1>1, OwnerAssumption, TotalAssumption, OptionsAssumption, LivesAssumption
  DEF Questions, GP!Questions, NoAnswer, GP!NoAnswer

\* The game the engine implements is the one the proofs are about.
LEMMA SameGame ==
    /\ GS!Init <=> GP!Init
    /\ [GS!Next]_(GS!vars) <=> [GP!Next]_(GP!vars)
<1>1. \A ps : GS!activePlayers(ps) = GP!activePlayers(ps)
  BY DEF GS!activePlayers, GP!activePlayers
<1>2. \A ps, sheet, i : GS!LifeLost(ps, sheet, i) = GP!LifeLost(ps, sheet, i)
  BY <1>1 DEF GS!LifeLost, GP!LifeLost
<1>3. \A ps, sheet, i : GS!Penalised(ps, sheet, i) = GP!Penalised(ps, sheet, i)
  BY <1>2 DEF GS!Penalised, GP!Penalised
<1>4. \A m : GS!RemainingQuestions(m) = GP!RemainingQuestions(m)
  BY DEF GS!RemainingQuestions, GP!RemainingQuestions
<1>5. \A m, ps : GS!EndReason(m, ps) = GP!EndReason(m, ps)
  BY <1>1, <1>4 DEF GS!EndReason, GP!EndReason
<1>6. \A m, ps : GS!Closed(m, ps) = GP!Closed(m, ps)
  BY <1>5 DEF GS!Closed, GP!Closed
<1>7. GS!Close <=> GP!Close
  BY <1>3, <1>6 DEF GS!Close, GP!Close, GS!CanClose, GP!CanClose
<1>8. \A x \in Players : GS!Join(x) <=> GP!Join(x)
  BY DEF GS!Join, GP!Join, GS!CanJoin, GP!CanJoin, GS!Joined, GP!Joined
<1>9. GS!Start <=> GP!Start
  BY DEF GS!Start, GP!Start, GS!CanStart, GP!CanStart, GS!Started, GP!Started
<1>10. \A x \in Players, opt \in OptionIDs : GS!Answer(x, opt) <=> GP!Answer(x, opt)
  BY DEF GS!Answer, GP!Answer, GS!CanAnswer, GP!CanAnswer, GS!hasOption, GP!hasOption,
         GS!NoAnswer, GP!NoAnswer
<1>11. GS!Abandon <=> GP!Abandon
  BY DEF GS!Abandon, GP!Abandon, GS!CanClose, GP!CanClose
<1>12. GS!Init <=> GP!Init
  BY DEF GS!Init, GP!Init, GS!NewGame, GP!NewGame, GS!Joined, GP!Joined, GS!Absent, GP!Absent,
         GS!Questions, GP!Questions, GS!NoAnswers, GP!NoAnswers, GS!NoAnswer, GP!NoAnswer
<1>13. GS!vars = GP!vars
  BY DEF GS!vars, GP!vars
<1>14. [GS!Next]_(GS!vars) <=> [GP!Next]_(GP!vars)
  BY <1>7, <1>8, <1>9, <1>10, <1>11, <1>13 DEF GS!Next, GP!Next, GS!vars, GP!vars
<1>15. QED
  BY <1>12, <1>14

\* The engine's invariant together with the game's.
GameKept == EngineInv /\ GP!GameInv

\* It holds of a created game.
LEMMA KeptInit == Init => GameKept
BY EngineInit, InitImplements, SameGame, GameAssumptions, GP!GameInit DEF GameKept

\* Every step keeps it, and is a step of the game.
LEMMA KeptStep ==
    ASSUME NoSlow, GameKept, [Next]_vars
    PROVE  GameKept' /\ StoreNext /\ [GP!Next]_(GP!vars)
<1>1. EngineInv'
  BY EngineStep DEF GameKept
<1>2. StoreNext
  BY StoreSteps DEF GameKept
<1>3. TypeOK'
  BY <1>1 DEF EngineInv, SerializedInv, LockedInv, TypeInv
<1>4. [GP!Next]_(GP!vars)
  BY <1>2, <1>3, StoreImplements, SameGame DEF GameKept
<1>5. GP!GameInv'
  BY <1>4, GameAssumptions, GP!GameStep DEF GameKept
<1>6. QED
  BY <1>1, <1>2, <1>4, <1>5 DEF GameKept

\* The rules of the game hold of the running engine, in Redis: lives match the answers
\* recorded, the game ends for its reason, answers are final and the game only moves
\* forward, on any number of instances, under any faults but a holder that outlives
\* its lock.
THEOREM EngineKeepsTheRules ==
    NoSlow => (Spec => /\ []GP!LivesMatchAnswers
                       /\ []GP!EndedForItsReason
                       /\ GP!AnswersAreFinal
                       /\ GP!OnlyForward)
<1> SUFFICES ASSUME NoSlow
             PROVE  Spec => /\ []GP!LivesMatchAnswers
                            /\ []GP!EndedForItsReason
                            /\ GP!AnswersAreFinal
                            /\ GP!OnlyForward
  OBVIOUS
<1>1. GameKept /\ [Next]_vars => GameKept' /\ [GP!Next]_(GP!vars)
  BY KeptStep
<1>2. Init => GP!Init
  BY InitImplements, SameGame
<1>3. Spec => GP!Spec
  BY <1>1, <1>2, KeptInit, PTL DEF Spec, GP!Spec
<1>4. GP!Spec => []GP!LivesMatchAnswers
  BY GameAssumptions, GP!GameLivesMatchAnswers
<1>5. GP!Spec => []GP!EndedForItsReason
  BY GameAssumptions, GP!GameEndedForItsReason
<1>6. GP!Spec => GP!AnswersAreFinal
  BY GameAssumptions, GP!GameAnswersAreFinal
<1>7. GP!Spec => GP!OnlyForward
  BY GameAssumptions, GP!GameOnlyForward
<1>8. QED
  BY <1>3, <1>4, <1>5, <1>6, <1>7, PTL

---------------------------------------------------------------------------
(* The events.                                                             *)

\* What an event tells, whether it was sent yet or not.  (AnnouncedIsTrue, and for a
\* lost life that the player is in the game.)
IsTrue(e) ==
    /\ e.type = "player_joined"     => players[e.pl].joined
    /\ e.type = "question_started"  => meta.idx >= e.q
    /\ e.type = "answer_submitted"  => answers[e.q][e.pl] \in OptionsOf[e.q]
    /\ e.type = "question_closed"   => e.q \in settled
    /\ e.type = "life_lost"         => /\ e.q \in settled
                                       /\ answers[e.q][e.pl] # Correct[e.q]
                                       /\ players[e.pl].joined
                                       /\ players[e.pl].lives < InitialLives
    /\ e.type = "player_eliminated" => players[e.pl].joined /\ ~players[e.pl].active
    /\ e.type = "game_over"         => /\ meta.status = "finished"
                                       /\ meta.reason = e.reason
                                       /\ meta.idx = e.q

LivesBounded == \A x \in Players : players[x].joined => players[x].lives <= InitialLives

TruthInv == /\ LivesBounded
            /\ \A e \in published : IsTrue(e)
            /\ \A p \in Procs : \A e \in out[p] : IsTrue(e)

AnnounceInv == GameKept /\ TruthInv

\* How one step moves the game, in the engine's terms.
LEMMA GameForward ==
    ASSUME NoSlow, GameKept, [Next]_vars
    PROVE  /\ meta.idx \in Int /\ meta'.idx \in Int /\ meta.idx <= meta'.idx
           /\ meta.status = "finished" =>
                meta'.status = "finished" /\ meta'.reason = meta.reason /\ meta'.idx = meta.idx
           /\ \A x \in Players :
                /\ players[x].lives \in Int /\ players'[x].lives \in Int
                /\ players[x].joined => /\ players'[x].joined
                                        /\ players'[x].lives <= players[x].lives
                                        /\ players'[x].active => players[x].active
           /\ settled \subseteq settled'
           /\ \A i \in Questions, x \in Players :
                answers'[i][x] # answers[i][x] => answers[i][x] = NoAnswer /\ i \notin settled
<1>1. GameKept' /\ StoreNext /\ [GP!Next]_(GP!vars) /\ Forward
  BY KeptStep, StoreForward DEF GameKept
<1>2. TypeOK /\ TypeOK'
  BY <1>1 DEF GameKept, EngineInv, SerializedInv, LockedInv, TypeInv
<1>3. GP!ProgressForward /\ GP!StandingsForward
  BY <1>1, GameAssumptions, GP!ForwardStep DEF GameKept
<1>4. AbstractMeta.status = meta.status /\ AbstractMeta.reason = meta.reason
      /\ AbstractMeta.idx = meta.idx /\ (AbstractMeta.open <=> meta.open \/ Marked)
  BY <1>2, AbstractFacts
<1>5. AbstractSame'
  BY <1>2, AbstractSameAlways, PTL
<1>6. meta.status = "finished" =>
        meta'.status = "finished" /\ meta'.reason = meta.reason /\ meta'.idx = meta.idx
  BY <1>3, <1>4, <1>5 DEF GP!ProgressForward, AbstractSame
<1>7. meta.idx \in Int /\ meta'.idx \in Int /\ meta.idx <= meta'.idx
  BY <1>1, <1>2 DEF TypeOK, Meta, Forward
<1>8. \A x \in Players : players[x].lives \in Int /\ players'[x].lives \in Int
  BY <1>2 DEF TypeOK, PlayerData
<1>9. \A x \in Players : players[x].joined => /\ players'[x].joined
                                              /\ players'[x].lives <= players[x].lives
                                              /\ players'[x].active => players[x].active
  BY <1>3 DEF GP!StandingsForward
<1>10. settled \subseteq settled'
  BY <1>1 DEF StoreNext, StoreJoin, StoreStart, StoreAnswer, StoreMark, StoreClose, StoreAbandon,
              StoreQuiet
<1>11. ASSUME NEW i \in Questions, NEW y \in Players, answers'[i][y] # answers[i][y]
       PROVE  answers[i][y] = NoAnswer /\ i \notin settled
  <2>1. PICK x \in Players, opt \in OptionIDs : StoreAnswer(x, opt)
    BY <1>1, <1>11 DEF StoreNext, StoreJoin, StoreStart, StoreMark, StoreClose, StoreAbandon,
                       StoreQuiet
  <2>2. i = meta.idx /\ y = x
    BY <1>2, <1>11, <2>1 DEF StoreAnswer, TypeOK, AnswerSheet
  <2>3. answers[i][y] = NoAnswer /\ meta.open
    BY <2>1, <2>2 DEF StoreAnswer, CanAnswer
  <2>4. meta.idx \notin settled
    BY <1>4, <2>3 DEF GameKept, GP!GameInv, GP!ProgressInv
  <2>5. QED
    BY <2>2, <2>3, <2>4
<1>12. QED
  BY <1>6, <1>7, <1>8, <1>9, <1>10, <1>11

\* The kinds of events.
LEMMA EventTypes ==
    \A e \in Events :
        /\ e.type \in {"player_joined", "question_started", "answer_submitted", "question_closed",
                       "life_lost", "player_eliminated", "game_over"}
        /\ e.type \in {"player_joined", "answer_submitted", "life_lost", "player_eliminated"}
             => e.pl \in Players
        /\ e.type # "player_joined" => e.q \in Questions
BY DEF Events

\* A fact stays a fact.
LEMMA TruthStays ==
    ASSUME NoSlow, GameKept, [Next]_vars, NEW e \in Events, IsTrue(e)
    PROVE  IsTrue(e)'
<1>1. /\ meta.idx \in Int /\ meta'.idx \in Int /\ meta.idx <= meta'.idx
      /\ meta.status = "finished" =>
           meta'.status = "finished" /\ meta'.reason = meta.reason /\ meta'.idx = meta.idx
      /\ \A x \in Players :
           /\ players[x].lives \in Int /\ players'[x].lives \in Int
           /\ players[x].joined => /\ players'[x].joined
                                   /\ players'[x].lives <= players[x].lives
                                   /\ players'[x].active => players[x].active
      /\ settled \subseteq settled'
      /\ \A i \in Questions, x \in Players :
           answers'[i][x] # answers[i][x] => answers[i][x] = NoAnswer /\ i \notin settled
  BY GameForward
<1>2. /\ e.type \in {"player_joined", "answer_submitted", "life_lost", "player_eliminated"}
           => e.pl \in Players
      /\ e.type # "player_joined" => e.q \in Questions
  BY EventTypes
<1>3. InitialLives \in Nat /\ \A q \in Questions : q \in Int
  BY LivesAssumption DEF Questions
<1>4. \A q \in Questions : NoAnswer \notin OptionsOf[q]
  BY OptionsAssumption
<1>5. e.type = "player_joined" => players'[e.pl].joined
  BY <1>1, <1>2 DEF IsTrue
<1>6. e.type = "question_started" => meta'.idx >= e.q
  BY <1>1, <1>2, <1>3 DEF IsTrue
<1>7. e.type = "answer_submitted" => answers'[e.q][e.pl] \in OptionsOf[e.q]
  BY <1>1, <1>2, <1>4 DEF IsTrue
<1>8. e.type = "question_closed" => e.q \in settled'
  BY <1>1 DEF IsTrue
<1>9. ASSUME e.type = "life_lost"
      PROVE  /\ e.q \in settled' /\ answers'[e.q][e.pl] # Correct[e.q]
             /\ players'[e.pl].joined /\ players'[e.pl].lives < InitialLives
  <2>1. /\ e.q \in settled /\ answers[e.q][e.pl] # Correct[e.q]
        /\ players[e.pl].joined /\ players[e.pl].lives < InitialLives
    BY <1>9 DEF IsTrue
  <2>2. e.q \in Questions /\ e.pl \in Players
    BY <1>2, <1>9
  <2>3. answers'[e.q][e.pl] = answers[e.q][e.pl]
    BY <1>1, <2>1, <2>2
  <2>4. players'[e.pl].joined /\ players'[e.pl].lives < InitialLives
    BY <1>1, <1>3, <2>1, <2>2
  <2>5. QED
    BY <1>1, <2>1, <2>3, <2>4
<1>10. e.type = "player_eliminated" => players'[e.pl].joined /\ ~players'[e.pl].active
  BY <1>1, <1>2 DEF IsTrue
<1>11. e.type = "game_over" => /\ meta'.status = "finished" /\ meta'.reason = e.reason
                               /\ meta'.idx = e.q
  BY <1>1 DEF IsTrue
<1>12. QED
  BY <1>5, <1>6, <1>7, <1>8, <1>9, <1>10, <1>11 DEF IsTrue

\* Nobody has more lives than at the start.
LEMMA LivesStep ==
    ASSUME NoSlow, GameKept, LivesBounded, [Next]_vars
    PROVE  LivesBounded'
<1> SUFFICES ASSUME NEW y \in Players, players'[y].joined PROVE players'[y].lives <= InitialLives
  BY DEF LivesBounded
<1>0. /\ players \in [Players -> PlayerData] /\ InitialLives \in Nat
  BY LivesAssumption DEF GameKept, EngineInv, SerializedInv, LockedInv, TypeInv, TypeOK
<1>1. CASE players[y].joined
  <2>1. /\ players'[y].lives <= players[y].lives
        /\ players[y].lives \in Int /\ players'[y].lives \in Int
    BY <1>1, GameForward
  <2>2. QED
    BY <1>0, <1>1, <2>1 DEF LivesBounded
<1>2. CASE ~players[y].joined
  <2>1. StoreNext
    BY KeptStep
  <2>2. ASSUME NEW x \in Players, StoreJoin(x) PROVE players'[y].lives <= InitialLives
    <3>1. players'[y] \in {players[y], Joined}
      BY <1>0, <2>2 DEF StoreJoin
    <3>2. players'[y] = Joined
      BY <1>2, <3>1
    <3>3. QED
      BY <1>0, <3>2 DEF Joined
  <2>3. ASSUME StoreClose PROVE FALSE
    BY <1>0, <1>2, <2>3 DEF StoreClose, Penalised, LifeLost, activePlayers
  <2>4. CASE players' = players
    BY <1>2, <2>4
  <2>5. QED
    BY <2>1, <2>2, <2>3, <2>4 DEF StoreNext, StoreStart, StoreAnswer, StoreMark, StoreAbandon,
                                  StoreQuiet
<1>3. QED
  BY <1>1, <1>2

\* The events of a close tell what it does.
LEMMA CloseEventsTrue ==
    ASSUME GameKept, LivesBounded, NEW p \in Procs, SaveClose(p), NEW e \in CloseEvents(snap[p])
    PROVE  IsTrue(e)'
<1>1. /\ StoreClose /\ snap[p].meta = meta /\ snap[p].players = players
      /\ snap[p].answers = answers[meta.idx]
  BY SaveCloseStores DEF GameKept
<1>2. /\ meta \in Meta /\ players \in [Players -> PlayerData] /\ InitialLives \in Nat
  BY LivesAssumption DEF GameKept, EngineInv, SerializedInv, LockedInv, TypeInv, TypeOK
<1> DEFINE i == meta.idx
           lost == LifeLost(players, answers[i], i)
           after == Penalised(players, answers[i], i)
           reason == EndReason(meta, after)
<1>3. /\ players' = after /\ meta' = Closed(meta, after) /\ i \in settled' /\ answers' = answers
  BY <1>1 DEF StoreClose
<1>4. \/ e = [type |-> "question_closed", q |-> i]
      \/ \E x \in lost : e = [type |-> "life_lost", q |-> i, pl |-> x]
      \/ \E x \in Eliminated(players, answers[i], i) :
           e = [type |-> "player_eliminated", q |-> i, pl |-> x]
      \/ reason # "none" /\ e = [type |-> "game_over", q |-> i, reason |-> reason]
  BY <1>1 DEF CloseEvents
<1>5. ASSUME NEW x \in lost
      PROVE  /\ players'[x].joined /\ players'[x].lives = players[x].lives - 1
             /\ players'[x].lives < InitialLives
             /\ answers'[i][x] # Correct[i]
             /\ players[x].lives - 1 <= 0 => ~players'[x].active
  <2>1. x \in Players /\ players[x].joined /\ answers[i][x] # Correct[i]
    BY DEF LifeLost, activePlayers
  <2>2. players[x] \in PlayerData /\ players[x].lives <= InitialLives
    BY <1>2, <2>1 DEF LivesBounded
  <2>3. players'[x] = [players[x] EXCEPT !.lives = players[x].lives - 1,
                                         !.active = players[x].lives - 1 > 0]
    BY <1>3, <2>1 DEF Penalised
  <2>4. /\ players'[x].joined = players[x].joined
        /\ players'[x].lives = players[x].lives - 1
        /\ players'[x].active = (players[x].lives - 1 > 0)
    BY <2>2, <2>3 DEF PlayerData
  <2>5. players[x].lives \in Int
    BY <2>2 DEF PlayerData
  <2>6. players'[x].lives < InitialLives
    BY <1>2, <2>2, <2>4, <2>5
  <2>7. players[x].lives - 1 <= 0 => ~players'[x].active
    <3>1. players[x].lives - 1 <= 0 => ~(players[x].lives - 1 > 0)
      BY <2>5
    <3>2. players'[x].active <=> players[x].lives - 1 > 0
      BY <2>4
    <3>3. QED
      BY <3>1, <3>2, Zenon
  <2>8. QED
    BY <1>3, <2>1, <2>4, <2>6, <2>7
<1>6. CASE e = [type |-> "question_closed", q |-> i]
  BY <1>3, <1>6 DEF IsTrue
<1>7. ASSUME NEW x \in lost, e = [type |-> "life_lost", q |-> i, pl |-> x] PROVE IsTrue(e)'
  <2> HIDE DEF lost
  <2>1. e.type = "life_lost" /\ e.q = i /\ e.pl = x
    BY <1>7
  <2>2. QED
    BY <1>3, <1>5, <2>1 DEF IsTrue
<1>8. ASSUME NEW x \in Eliminated(players, answers[i], i),
             e = [type |-> "player_eliminated", q |-> i, pl |-> x]
      PROVE  IsTrue(e)'
  <2>1. x \in lost /\ players[x].lives - 1 <= 0
    BY DEF Eliminated
  <2>2. e.type = "player_eliminated" /\ e.pl = x
    BY <1>8
  <2> HIDE DEF lost
  <2>3. players'[x].joined /\ ~players'[x].active
    BY <1>5, <2>1
  <2>4. QED
    BY <2>2, <2>3 DEF IsTrue
<1>9. CASE reason # "none" /\ e = [type |-> "game_over", q |-> i, reason |-> reason]
  <2>1. meta'.status = "finished" /\ meta'.reason = reason /\ meta'.idx = i
    BY <1>2, <1>3, <1>9 DEF Closed, Meta
  <2>2. e.type = "game_over" /\ e.q = i /\ e.reason = reason
    BY <1>9
  <2> HIDE DEF reason, i
  <2>3. QED
    BY <2>1, <2>2 DEF IsTrue
<1>10. QED
  BY <1>4, <1>6, <1>7, <1>8, <1>9

\* Where events come from: a step of process p adds only these to what p has still to
\* publish, and what is published was to be published.
LEMMA EventsFrom ==
    ASSUME EngineInv, [Next]_vars, NEW p \in Procs, NEW e \in out'[p], e \notin out[p]
    PROVE  \/ AddPlayer(p) /\ e = [type |-> "player_joined", pl |-> req[p].pl]
           \/ SaveStart(p) /\ e = [type |-> "question_started", q |-> snap[p].meta.idx + 1]
           \/ /\ RecordAnswer(p)
              /\ e = [type |-> "answer_submitted", q |-> snap[p].meta.idx, pl |-> req[p].pl]
           \/ SaveClose(p) /\ e \in CloseEvents(snap[p])
<1>1. TypeOK
  BY DEF EngineInv, SerializedInv, LockedInv, TypeInv
<1>2. ASSUME Passing PROVE FALSE
  BY <1>2, PassingStores
<1>3. ASSUME NEW r \in Procs, Quiet(r) PROVE FALSE
  BY <1>1, <1>3 DEF Quiet, ClientRequest, Receive, Acquire, Busy, LoadMeta, LoadPlayers, Unlock,
         ScheduleClose, CancelClose, Publish, ClaimDueCloses, CloseDue, Fail, Crash, Finish, Leave,
         TypeOK
<1>4. ASSUME NEW r \in Procs, CloseAnswers(r) PROVE FALSE
  BY <1>1, <1>4 DEF CloseAnswers, Leave, TypeOK
<1>5. ASSUME NEW r \in Procs, AddPlayer(r)
      PROVE  p = r /\ e = [type |-> "player_joined", pl |-> req[p].pl]
  BY <1>1, <1>5 DEF AddPlayer, Leave, TypeOK
<1>6. ASSUME NEW r \in Procs, SaveStart(r)
      PROVE  p = r /\ e = [type |-> "question_started", q |-> snap[p].meta.idx + 1]
  BY <1>1, <1>6 DEF SaveStart, Leave, TypeOK
<1>7. ASSUME NEW r \in Procs, RecordAnswer(r)
      PROVE  /\ p = r
             /\ e = [type |-> "answer_submitted", q |-> snap[p].meta.idx, pl |-> req[p].pl]
  BY <1>1, <1>7 DEF RecordAnswer, Finish, TypeOK
<1>8. ASSUME NEW r \in Procs, SaveClose(r) PROVE p = r /\ e \in CloseEvents(snap[p])
  BY <1>1, <1>8 DEF SaveClose, Leave, TypeOK
<1>9. QED
  BY <1>2, <1>3, <1>4, <1>5, <1>6, <1>7, <1>8, EngineCases

\* Only Publish publishes, the first event of those that are left.
LEMMA PublishedFrom ==
    ASSUME [Next]_vars, NEW e \in published', e \notin published
    PROVE  \E p \in Procs : /\ Publish(p) /\ e \in FirstOf(out[p]) /\ e \in out[p]
                            /\ out' = [out EXCEPT ![p] = out[p] \ {e}]
<1>1. PICK p \in Procs : Publish(p)
  BY DEF Next, Step, ClientRequest, Receive, Acquire, Busy, LoadMeta, LoadPlayers, Unlock,
         AddPlayer, ScheduleClose, SaveStart, RecordAnswer, CloseAnswers, SaveClose, CancelClose,
         ClaimDueCloses, CloseDue, Fail, Crash, Expire, Reach, vars
<1>2. PICK f \in FirstOf(out[p]) :
        /\ published' \subseteq published \cup {f}
        /\ out' = [out EXCEPT ![p] = out[p] \ {f}]
  BY <1>1 DEF Publish
<1>3. e = f
  BY <1>2
<1>4. QED
  BY <1>1, <1>2, <1>3 DEF FirstOf

\* What is, or will be, announced is true.
LEMMA TruthStep ==
    ASSUME NoSlow, AnnounceInv, [Next]_vars
    PROVE  TruthInv'
<1>0. GameKept /\ EngineInv /\ TruthInv /\ TypeOK /\ StoreNext
  BY KeptStep DEF AnnounceInv, GameKept, EngineInv, SerializedInv, LockedInv, TypeInv
<1>1. LivesBounded'
  BY <1>0, LivesStep DEF TruthInv
<1>2. ASSUME NEW e \in published' PROVE IsTrue(e)'
  <2>1. IsTrue(e) /\ e \in Events
    BY <1>0, PublishedFrom DEF TruthInv, TypeOK
  <2>2. QED
    BY <1>0, <2>1, TruthStays
<1>3. ASSUME NEW p \in Procs, NEW e \in out'[p] PROVE IsTrue(e)'
  <2>1. CASE e \in out[p]
    <3>1. IsTrue(e) /\ e \in Events
      BY <1>0, <2>1 DEF TruthInv, TypeOK
    <3>2. QED
      BY <1>0, <3>1, TruthStays
  <2>2. CASE AddPlayer(p) /\ e = [type |-> "player_joined", pl |-> req[p].pl]
    <3>1. e.type = "player_joined" /\ e.pl = req[p].pl
      BY <2>2
    <3>2. req[p].pl \in Players /\ players' = [players EXCEPT ![req[p].pl] = Joined]
      BY <1>0, <2>2, AddPlayerStores DEF StoreJoin
    <3>3. players'[e.pl].joined
      BY <1>0, <3>1, <3>2 DEF Joined, TypeOK
    <3>4. QED
      BY <3>1, <3>3 DEF IsTrue
  <2>3. CASE SaveStart(p) /\ e = [type |-> "question_started", q |-> snap[p].meta.idx + 1]
    <3>1. snap[p].meta = meta /\ meta' = Started(meta) /\ meta \in Meta
      BY <1>0, <2>3, SaveStartStores DEF StoreStart, TypeOK
    <3>2. meta'.idx = meta.idx + 1 /\ meta.idx \in Int
      BY <3>1 DEF Started, Meta
    <3>3. e.type = "question_started" /\ e.q = meta.idx + 1
      BY <2>3, <3>1
    <3>4. meta'.idx >= e.q
      BY <3>2, <3>3
    <3>5. QED
      BY <3>3, <3>4 DEF IsTrue
  <2>4. CASE /\ RecordAnswer(p) /\ e \notin out[p]
             /\ e = [type |-> "answer_submitted", q |-> snap[p].meta.idx, pl |-> req[p].pl]
    <3>1. /\ req[p].pl \in Players /\ snap[p].meta.idx = meta.idx
          /\ StoreAnswer(req[p].pl, req[p].opt)
      BY <1>0, <2>4, RecordStores
    <3>2. answers'[meta.idx][req[p].pl] = req[p].opt /\ req[p].opt \in OptionsOf[meta.idx]
      BY <1>0, <3>1 DEF StoreAnswer, CanAnswer, hasOption, TypeOK, AnswerSheet
    <3>3. e.type = "answer_submitted" /\ e.q = meta.idx /\ e.pl = req[p].pl
      BY <2>4, <3>1
    <3>4. QED
      BY <3>2, <3>3 DEF IsTrue
  <2>5. CASE SaveClose(p) /\ e \in CloseEvents(snap[p])
    BY <1>0, <2>5, CloseEventsTrue DEF TruthInv
  <2>6. QED
    BY <1>0, <2>1, <2>2, <2>3, <2>4, <2>5, EventsFrom
<1>4. QED
  BY <1>1, <1>2, <1>3 DEF TruthInv

\* What the clients are told is a fact when they are told, for any number of processes
\* that publish after the lock is released and whatever was lost on the way.
THEOREM EngineAnnouncedIsTrue == NoSlow => (Spec => []AnnouncedIsTrue)
<1> SUFFICES ASSUME NoSlow PROVE Spec => []AnnouncedIsTrue
  OBVIOUS
<1>1. Init => AnnounceInv
  <2>1. Init => TruthInv
    BY LivesAssumption DEF Init, TruthInv, LivesBounded, Joined, Absent
  <2>2. QED
    BY <2>1, KeptInit DEF AnnounceInv
<1>2. AnnounceInv /\ [Next]_vars => AnnounceInv'
  BY KeptStep, TruthStep DEF AnnounceInv
<1>3. AnnounceInv => AnnouncedIsTrue
  <2> SUFFICES ASSUME AnnounceInv PROVE AnnouncedIsTrue
    OBVIOUS
  <2>1. ASSUME NEW e \in published
        PROVE  /\ IsTrue(e)
               /\ e.type \in {"player_joined", "question_started", "answer_submitted",
                              "question_closed", "life_lost", "player_eliminated", "game_over"}
    BY EventTypes DEF AnnounceInv, TruthInv, GameKept, EngineInv, SerializedInv, LockedInv, TypeInv,
                      TypeOK
  <2>2. QED
    BY <2>1 DEF AnnouncedIsTrue, IsTrue
<1>4. QED
  BY <1>1, <1>2, <1>3, PTL DEF Spec

---------------------------------------------------------------------------
(* No question is left without its penalties.                              *)

\* No close stops half way, and no live holder outlives its lock.
NoLoss == Faults \cap {"crash", "error", "slow"} = {}

\* ClosedQuestionsSettled, in terms of the stored game: only the question that is
\* marked closed may still wait for its penalties.
SettledInv ==
    \A i \in Questions :
        (i < meta.idx \/ (i = meta.idx /\ ~meta.open)) =>
            i \in settled \/ (i = meta.idx /\ Marked)

\* The steps of the stored game settle every question before the next one starts.
LEMMA SettledStep ==
    ASSUME NoLoss, EngineInv, SettledInv, StoreNext
    PROVE  SettledInv'
<1> SUFFICES ASSUME NEW i \in Questions,
                    i < meta'.idx \/ (i = meta'.idx /\ ~meta'.open),
                    i \notin settled'
             PROVE  i = meta'.idx /\ Marked'
  BY DEF SettledInv
<1>0. /\ meta \in Meta /\ meta.idx \in Int /\ i \in Int /\ ~Abandons
  BY DEF EngineInv, SerializedInv, LockedInv, TypeInv, TypeOK, Meta, Questions, NoLoss, Abandons
<1>1. ASSUME NEW x \in Players, StoreJoin(x) PROVE FALSE
  BY <1>1 DEF StoreJoin, SettledInv
<1>2. ASSUME StoreStart PROVE FALSE
  <2>1. meta'.idx = meta.idx + 1 /\ meta'.open /\ settled' = settled /\ ~Marked
    BY <1>0, <1>2 DEF StoreStart, Started, Meta
  <2>2. i <= meta.idx /\ i \notin settled
    BY <1>0, <2>1
  <2>3. ~meta.open
    BY <1>2 DEF StoreStart, CanStart
  <2>4. QED
    BY <1>0, <2>1, <2>2, <2>3 DEF SettledInv
<1>3. ASSUME NEW x \in Players, NEW opt \in OptionIDs, StoreAnswer(x, opt) PROVE FALSE
  BY <1>3 DEF StoreAnswer, SettledInv
<1>4. CASE StoreMark
  <2>1. meta'.idx = meta.idx /\ settled' = settled /\ ~Marked /\ Marked'
    BY <1>0, <1>4 DEF StoreMark, Meta
  <2>2. QED
    BY <1>0, <2>1 DEF SettledInv
<1>5. ASSUME StoreClose PROVE FALSE
  <2>1. meta'.idx = meta.idx /\ settled' = settled \cup {meta.idx}
    BY <1>0, <1>5 DEF StoreClose, Closed, Meta
  <2>2. QED
    BY <1>0, <2>1 DEF SettledInv
<1>6. CASE StoreQuiet
  BY <1>0, <1>6 DEF StoreQuiet, SettledInv
<1>7. QED
  BY <1>0, <1>1, <1>2, <1>3, <1>4, <1>5, <1>6 DEF StoreNext, StoreAbandon

\* As long as no close stops half way, every question that was started and is no longer
\* open has had its penalties saved or is being closed, whoever closes it and however the
\* host and the deadline race.  (A close that fails between its two writes leaves the
\* question without: that is the one step GameSpec allows under MayAbandon.)
THEOREM EngineClosedQuestionsSettled == NoLoss => (Spec => []ClosedQuestionsSettled)
<1> SUFFICES ASSUME NoLoss PROVE Spec => []ClosedQuestionsSettled
  OBVIOUS
<1>0. NoSlow
  BY DEF NoLoss, NoSlow
<1>1. Init => EngineInv /\ SettledInv
  <2>1. Init => SettledInv
    BY TotalAssumption DEF Init, NewGame, SettledInv, Questions
  <2>2. QED
    BY <2>1, EngineInit
<1>2. EngineInv /\ SettledInv /\ [Next]_vars => (EngineInv /\ SettledInv)'
  BY <1>0, EngineStep, StoreSteps, SettledStep
<1>3. EngineInv /\ SettledInv => ClosedQuestionsSettled
  <2> SUFFICES ASSUME EngineInv, SettledInv, NEW i \in Questions,
                      i < meta.idx \/ (i = meta.idx /\ ~meta.open), i \notin settled
               PROVE  \E p \in Procs : Closing(p, i)
    BY DEF ClosedQuestionsSettled
  <2>1. i = meta.idx /\ Marked
    BY DEF SettledInv
  <2>2. PICK p \in Procs : pc[p] = "saveClose"
    BY <2>1 DEF Marked
  <2>3. snap[p].meta = meta
    BY <2>2, MarkerFacts
  <2>4. QED
    BY <2>1, <2>2, <2>3 DEF Closing
<1>4. QED
  BY <1>1, <1>2, <1>3, PTL DEF Spec

---------------------------------------------------------------------------
(* The order of the events of a close.                                     *)

IsCloseEvent(e) == e.type \in CloseEventTypes

\* Events of a close are about a settled question, and one process has all those of a
\* question that are still to be published.
OrderInv ==
    /\ \A e \in published : IsCloseEvent(e) => e.q \in settled
    /\ \A p \in Procs : \A e \in out[p] : IsCloseEvent(e) => e.q \in settled
    /\ \A p, r \in Procs : \A e \in out[p], f \in out[r] :
         IsCloseEvent(e) /\ IsCloseEvent(f) /\ e.q = f.q => p = r

\* A close announces a question that nothing was announced about yet.
LEMMA NewCloseEvent ==
    ASSUME NoSlow, GameKept, [Next]_vars, NEW p \in Procs, NEW e \in out'[p], e \notin out[p],
           IsCloseEvent(e)
    PROVE  SaveClose(p) /\ e.q = meta.idx /\ e.q \notin settled /\ e.q \in settled'
<1>1. EngineInv /\ TypeOK
  BY DEF GameKept, EngineInv, SerializedInv, LockedInv, TypeInv
<1>2. SaveClose(p) /\ e \in CloseEvents(snap[p])
  BY <1>1, EventsFrom DEF IsCloseEvent, CloseEventTypes
<1>3. e.q = snap[p].meta.idx
  BY <1>2 DEF CloseEvents
<1>4. StoreClose /\ snap[p].meta = meta
  BY <1>1, <1>2, SaveCloseStores
<1>5. AbstractMeta.open /\ AbstractMeta.idx = meta.idx
  BY <1>1, <1>4, AbstractFacts DEF StoreClose, Unsaved
<1>6. meta.idx \notin settled
  BY <1>5 DEF GameKept, GP!GameInv, GP!ProgressInv
<1>7. QED
  BY <1>2, <1>3, <1>4, <1>6 DEF StoreClose

\* Every step keeps the order.
LEMMA OrderStep ==
    ASSUME NoSlow, GameKept, OrderInv, CloseEventsInOrder, [Next]_vars
    PROVE  OrderInv' /\ CloseEventsInOrder'
<1>0. EngineInv /\ TypeOK /\ LockInv
  BY DEF GameKept, EngineInv, SerializedInv, LockedInv, TypeInv
<1>1. settled \subseteq settled'
  BY GameForward
<1>2. ASSUME NEW e \in published', IsCloseEvent(e) PROVE e.q \in settled'
  <2>1. e \in published \/ \E p \in Procs : e \in out[p]
    BY PublishedFrom
  <2>2. QED
    BY <1>1, <1>2, <2>1 DEF OrderInv
<1>3. ASSUME NEW p \in Procs, NEW e \in out'[p], IsCloseEvent(e) PROVE e.q \in settled'
  BY <1>1, <1>3, NewCloseEvent DEF OrderInv
<1>4. ASSUME NEW p \in Procs, NEW r \in Procs, NEW e \in out'[p], NEW f \in out'[r],
             IsCloseEvent(e), IsCloseEvent(f), e.q = f.q
      PROVE  p = r
  <2>1. CASE e \in out[p] /\ f \in out[r]
    BY <1>4, <2>1 DEF OrderInv
  <2>2. CASE e \in out[p] /\ f \notin out[r]
    <3>1. f.q \notin settled
      BY <1>4, <2>2, NewCloseEvent
    <3>2. QED
      BY <1>4, <2>2, <3>1 DEF OrderInv
  <2>3. CASE e \notin out[p] /\ f \in out[r]
    <3>1. e.q \notin settled
      BY <1>4, <2>3, NewCloseEvent
    <3>2. QED
      BY <1>4, <2>3, <3>1 DEF OrderInv
  <2>4. CASE e \notin out[p] /\ f \notin out[r]
    <3>1. SaveClose(p) /\ SaveClose(r)
      BY <1>4, <2>4, NewCloseEvent
    <3>2. InSection(p) /\ InSection(r)
      BY <3>1 DEF SaveClose, InSection
    <3>3. QED
      BY <1>0, <3>2, MutualExclusion
  <2>5. QED
    BY <2>1, <2>2, <2>3, <2>4
<1>5. ASSUME NEW p \in Procs, NEW e \in out'[p], NEW f \in published',
             IsCloseEvent(e), IsCloseEvent(f), e.q = f.q
      PROVE  Rank(f) <= Rank(e) /\ e # f
  <2>1. CASE f \in published
    <3>1. f.q \in settled
      BY <1>5, <2>1 DEF OrderInv
    <3>2. e \in out[p]
      BY <1>5, <3>1, NewCloseEvent
    <3>3. QED
      BY <1>5, <2>1, <3>2 DEF CloseEventsInOrder, IsCloseEvent
  <2>2. CASE f \notin published
    <3>1. PICK r \in Procs : /\ Publish(r) /\ f \in FirstOf(out[r]) /\ f \in out[r]
                             /\ out' = [out EXCEPT ![r] = out[r] \ {f}]
      BY <2>2, PublishedFrom
    <3>2. e \in out[p]
      BY <1>0, <3>1 DEF TypeOK
    <3>3. p = r
      BY <1>5, <3>1, <3>2 DEF OrderInv
    <3>4. e # f
      BY <1>0, <3>1, <3>3 DEF TypeOK
    <3>5. Rank(f) <= Rank(e)
      BY <3>1, <3>2, <3>3 DEF FirstOf
    <3>6. QED
      BY <3>4, <3>5
  <2>3. QED
    BY <2>1, <2>2
<1>6. OrderInv'
  BY <1>2, <1>3, <1>4 DEF OrderInv
<1>7. CloseEventsInOrder'
  BY <1>5 DEF CloseEventsInOrder, IsCloseEvent
<1>8. QED
  BY <1>6, <1>7

\* The events of a close reach the clients in the documented order, although they are
\* published one by one after the lock is released, and whatever is lost on the way.
THEOREM EngineCloseEventsInOrder == NoSlow => (Spec => []CloseEventsInOrder)
<1> SUFFICES ASSUME NoSlow PROVE Spec => []CloseEventsInOrder
  OBVIOUS
<1>1. Init => GameKept /\ OrderInv /\ CloseEventsInOrder
  <2>1. Init => OrderInv /\ CloseEventsInOrder
    BY DEF Init, OrderInv, CloseEventsInOrder
  <2>2. QED
    BY <2>1, KeptInit
<1>2. GameKept /\ OrderInv /\ CloseEventsInOrder /\ [Next]_vars
        => (GameKept /\ OrderInv /\ CloseEventsInOrder)'
  BY KeptStep, OrderStep
<1>3. QED
  BY <1>1, <1>2, PTL DEF Spec

---------------------------------------------------------------------------
(* A deadline never closes a question early.                               *)

\* Process p will close question q because of its deadline.
Wanted(p, q) == q \in claimed[p] \/ (req[p].op = "close" /\ req[p].only = q)

\* A process has registered the deadline of question q, which it is about to start.
Starting(q) == \E p \in Procs : pc[p] = "saveStart" /\ snap[p].meta.idx + 1 = q

\* Only a question that was started, or is about to be, has a deadline; nobody wants to
\* close a question whose deadline is still ahead.
DeadlineInv ==
    \A q \in Questions :
        /\ (deadlines[q] # "none" \/ \E p \in Procs : Wanted(p, q)) => q <= meta.idx \/ Starting(q)
        /\ deadlines[q] = "pending" => \A p \in Procs : ~Wanted(p, q)

\* A poller closes the question its request names and no other.
PollerFor(p) ==
    /\ pc[p] \in {"lock", "loadMeta", "loadPlayers"} =>
         req[p].op = "close" /\ req[p].only \in Questions
    /\ pc[p] = "closeAnswers" => req[p].op = "close" /\ req[p].only = snap[p].meta.idx

PollerInv == \A p \in Pollers : PollerFor(p)

EarlyInv == EngineInv /\ DeadlineInv /\ PollerInv

\* A process wants to close only what it wanted before or a poller claims now.
LEMMA WantedFrom ==
    ASSUME TypeOK, [Next]_vars, NEW p \in Procs, NEW q \in Questions, Wanted(p, q)'
    PROVE  Wanted(p, q) \/ (deadlines[q] = "due" /\ deadlines'[q] = "none")
<1>0. q # -1
  BY DEF Questions
<1>1. ASSUME claimed' = claimed, req'[p] = req[p] \/ req'[p].op # "close"
      PROVE  Wanted(p, q)
  BY <1>1 DEF Wanted
<1>2. NoRequest.op # "close"
  BY DEF NoRequest
<1>3. CASE Passing
  BY <1>3, PassingStores DEF Wanted
<1>4. ASSUME NEW r \in Procs, ClientRequest(r) PROVE Wanted(p, q)
  <2>1. PICK c \in JoinReqs \cup StartReqs \cup AnswerReqs \cup {[op |-> "close", only |-> -1]} :
          Receive(r, c)
    BY <1>4 DEF ClientRequest
  <2>2. ~(c.op = "close" /\ c.only = q)
    BY <1>0 DEF JoinReqs, StartReqs, AnswerReqs
  <2>3. claimed' = claimed /\ req' = [req EXCEPT ![r] = c]
    BY <2>1 DEF Receive
  <2>4. QED
    BY <2>2, <2>3 DEF Wanted, TypeOK
<1>5. ASSUME NEW r \in Procs, CloseDue(r) PROVE Wanted(p, q)
  <2>1. PICK c \in claimed[r] : /\ claimed' = [claimed EXCEPT ![r] = claimed[r] \ {c}]
                                /\ req' = [req EXCEPT ![r] = [op |-> "close", only |-> c]]
    BY <1>5 DEF CloseDue
  <2>2. QED
    BY <2>1 DEF Wanted, TypeOK
<1>6. ASSUME NEW r \in Procs, ClaimDueCloses(r)
      PROVE  Wanted(p, q) \/ (deadlines[q] = "due" /\ deadlines'[q] = "none")
  <2>1. PICK due \in SUBSET DueNow \ {{}} :
          /\ deadlines' = [i \in Questions |-> IF i \in due THEN "none" ELSE deadlines[i]]
          /\ \E ok \in Replies : claimed' = [claimed EXCEPT ![r] = IF ok THEN due ELSE {}]
    BY <1>6 DEF ClaimDueCloses
  <2>2. req' = req
    BY <1>6 DEF ClaimDueCloses
  <2>3. CASE q \in due
    BY <2>1, <2>3 DEF DueNow
  <2>4. CASE q \notin due
    BY <2>1, <2>2, <2>4 DEF Wanted, TypeOK
  <2>5. QED
    BY <2>3, <2>4
<1>7. ASSUME NEW r \in Procs, Crash(r) PROVE Wanted(p, q)
  BY <1>2, <1>7 DEF Crash, Finish, Forget, Wanted, TypeOK
<1>8. ASSUME NEW r \in Procs,
             \/ Acquire(r) \/ Busy(r) \/ LoadMeta(r) \/ LoadPlayers(r) \/ Unlock(r)
             \/ AddPlayer(r) \/ ScheduleClose(r) \/ SaveStart(r) \/ RecordAnswer(r)
             \/ CloseAnswers(r) \/ SaveClose(r) \/ CancelClose(r) \/ Publish(r) \/ Fail(r)
      PROVE  Wanted(p, q)
  <2>1. claimed' = claimed
    BY <1>8 DEF Acquire, Busy, LoadMeta, LoadPlayers, Unlock, AddPlayer, ScheduleClose, SaveStart,
                RecordAnswer, CloseAnswers, SaveClose, CancelClose, Publish, Fail
  <2>2. req' = req \/ req' = [req EXCEPT ![r] = NoRequest]
    BY <1>8 DEF Acquire, Busy, LoadMeta, LoadPlayers, Unlock, AddPlayer, ScheduleClose, SaveStart,
                RecordAnswer, CloseAnswers, SaveClose, CancelClose, Publish, Fail, Finish, Leave,
                Forget
  <2>3. req'[p] = req[p] \/ req'[p].op # "close"
    BY <1>2, <2>2 DEF TypeOK
  <2>4. QED
    BY <1>1, <2>1, <2>3
<1>9. QED
  BY <1>3, <1>4, <1>5, <1>6, <1>7, <1>8, EngineCases DEF Quiet

\* A deadline is registered by a start, for the question after the one that is stored,
\* and is due only after it was registered.
LEMMA DeadlineFrom ==
    ASSUME NoLoss, EngineInv, [Next]_vars, NEW q \in Questions, deadlines'[q] # "none"
    PROVE  \/ deadlines[q] # "none" /\ (deadlines'[q] = "pending" => deadlines[q] = "pending")
           \/ \E p \in Procs : /\ ScheduleClose(p) /\ q = meta.idx + 1 /\ pc'[p] = "saveStart"
                               /\ snap' = snap /\ snap[p].meta = meta
<1>0. TypeOK /\ SerialInv
  BY DEF EngineInv, SerializedInv, LockedInv, TypeInv
<1>1. CASE deadlines' = deadlines
  BY <1>1
<1>2. ASSUME NEW i \in Questions, Reach(i)
      PROVE  deadlines[q] # "none" /\ (deadlines'[q] = "pending" => deadlines[q] = "pending")
  BY <1>0, <1>2 DEF Reach, TypeOK
<1>3. ASSUME NEW p \in Procs, ClaimDueCloses(p)
      PROVE  deadlines[q] # "none" /\ (deadlines'[q] = "pending" => deadlines[q] = "pending")
  BY <1>3 DEF ClaimDueCloses
<1>4. ASSUME NEW p \in Procs, CancelClose(p)
      PROVE  deadlines[q] # "none" /\ (deadlines'[q] = "pending" => deadlines[q] = "pending")
  BY <1>0, <1>4 DEF CancelClose, TypeOK
<1>5. ASSUME NEW p \in Procs, ScheduleClose(p), deadlines'[q] # deadlines[q]
      PROVE  /\ q = meta.idx + 1 /\ pc'[p] = "saveStart" /\ snap' = snap /\ snap[p].meta = meta
  <2>1. snap[p].meta = meta
    BY <1>0, <1>5 DEF ScheduleClose, SerialInv, CurrentFor, AboutToWrite, Loaded
  <2>2. deadlines' = [deadlines EXCEPT ![meta.idx + 1] = "pending"]
    BY <1>5, <2>1 DEF ScheduleClose
  <2>3. q = meta.idx + 1
    BY <1>0, <1>5, <2>2 DEF TypeOK
  <2>4. Replies = {TRUE}
    BY DEF Replies, NoLoss
  <2>5. Goto(p, "saveStart") /\ snap' = snap
    BY <1>5, <2>4 DEF ScheduleClose
  <2>6. QED
    BY <1>0, <2>1, <2>3, <2>5 DEF Goto, TypeOK
<1>6. ASSUME NEW p \in Procs,
             \/ AddPlayer(p) \/ SaveStart(p) \/ RecordAnswer(p) \/ CloseAnswers(p) \/ SaveClose(p)
             \/ ClientRequest(p) \/ Acquire(p) \/ Busy(p) \/ LoadMeta(p) \/ LoadPlayers(p)
             \/ Unlock(p) \/ Publish(p) \/ CloseDue(p) \/ Fail(p) \/ Crash(p)
      PROVE  deadlines' = deadlines
  BY <1>6 DEF AddPlayer, SaveStart, RecordAnswer, CloseAnswers, SaveClose, ClientRequest, Receive,
              Acquire, Busy, LoadMeta, LoadPlayers, Unlock, Publish, CloseDue, Fail, Crash, store
<1>7. Expire \/ UNCHANGED vars => deadlines' = deadlines
  BY DEF Expire, vars, store
<1>8. QED
  BY <1>1, <1>2, <1>3, <1>4, <1>5, <1>6, <1>7, EngineCases DEF Quiet, Passing

\* A start that has registered its deadline goes on to start its question.
LEMMA StartingStays ==
    ASSUME NoLoss, EngineInv, [Next]_vars, NEW q \in Questions, Starting(q)
    PROVE  Starting(q)' \/ q <= meta'.idx
<1>0. TypeOK /\ LockInv
  BY DEF EngineInv, SerializedInv, LockedInv, TypeInv
<1>1. PICK p \in Procs : pc[p] = "saveStart" /\ snap[p].meta.idx + 1 = q
  BY DEF Starting
<1>2. CASE pc'[p] = pc[p] /\ snap'[p] = snap[p]
  BY <1>1, <1>2 DEF Starting
<1>3. CASE Passing
  BY <1>2, <1>3, PassingStores
<1>4. CASE SaveStart(p)
  <2>1. meta' = Started(meta) /\ snap[p].meta = meta
    BY <1>4, SaveStartStores DEF StoreStart
  <2>2. meta'.idx = meta.idx + 1 /\ meta.idx \in Int
    BY <1>0, <2>1 DEF Started, TypeOK, Meta
  <2>3. QED
    BY <1>1, <2>1, <2>2
<1>5. ASSUME NEW r \in Procs, r # p, OthersStay(r) PROVE pc'[p] = pc[p] /\ snap'[p] = snap[p]
  BY <1>5 DEF OthersStay
<1>6. ASSUME NEW r \in Procs,
             \/ AddPlayer(r) \/ SaveStart(r) \/ RecordAnswer(r) \/ CloseAnswers(r) \/ SaveClose(r)
             \/ Quiet(r)
      PROVE  OthersStay(r)
  BY <1>0, <1>6, OneMoves DEF Quiet, Step
<1>7. ASSUME ClaimDueCloses(p) PROVE pc'[p] = pc[p] /\ snap'[p] = snap[p]
  BY <1>7 DEF ClaimDueCloses
<1>8. ASSUME \/ AddPlayer(p) \/ RecordAnswer(p) \/ CloseAnswers(p) \/ SaveClose(p) \/ Quiet(p)
      PROVE  ClaimDueCloses(p)
  BY <1>1, <1>8 DEF AddPlayer, RecordAnswer, CloseAnswers, SaveClose, Quiet, ClientRequest, Receive,
       Acquire, Busy, LoadMeta, LoadPlayers, Unlock, ScheduleClose, CancelClose, Publish, CloseDue,
       Fail, Crash, NoLoss
<1>9. QED
  BY <1>2, <1>3, <1>4, <1>5, <1>6, <1>7, <1>8, EngineCases

\* Every step keeps the deadlines ahead of those who act on them.
LEMMA DeadlineStep ==
    ASSUME NoLoss, EarlyInv, [Next]_vars
    PROVE  DeadlineInv'
<1> SUFFICES ASSUME NEW q \in Questions
             PROVE  /\ (deadlines'[q] # "none" \/ \E p \in Procs : Wanted(p, q)')
                         => q <= meta'.idx \/ Starting(q)'
                    /\ deadlines'[q] = "pending" => \A p \in Procs : ~Wanted(p, q)'
  BY DEF DeadlineInv
<1>0. /\ EngineInv /\ TypeOK /\ LockInv /\ DeadlineInv /\ NoSlow
      /\ q \in Int /\ meta.idx \in Int
  BY DEF EarlyInv, EngineInv, SerializedInv, LockedInv, TypeInv, TypeOK, Meta, Questions, NoLoss,
         NoSlow
<1>1. meta.idx <= meta'.idx /\ meta'.idx \in Int
  <2>1. TypeOK'
    BY <1>0, EngineStep DEF EngineInv, SerializedInv, LockedInv, TypeInv
  <2>2. QED
    BY <1>0, <2>1, StoreSteps, StoreForward DEF Forward, TypeOK, Meta
<1>2. ASSUME NEW p \in Procs, ScheduleClose(p), q = meta.idx + 1, pc'[p] = "saveStart",
             snap' = snap, snap[p].meta = meta
      PROVE  Starting(q)' /\ deadlines[q] = "none" /\ \A r \in Procs : ~Wanted(r, q)
  <2>1. InSection(p) /\ pc[p] # "saveStart"
    BY <1>2 DEF ScheduleClose, InSection
  <2>2. ~Starting(q)
    BY <1>0, <2>1, MutualExclusion DEF Starting, InSection
  <2>3. ~(q <= meta.idx)
    BY <1>0, <1>2
  <2>4. Starting(q)'
    BY <1>2 DEF Starting
  <2>5. QED
    BY <1>0, <2>2, <2>3, <2>4 DEF DeadlineInv
<1>3. ASSUME deadlines'[q] # "none" \/ \E p \in Procs : Wanted(p, q)'
      PROVE  q <= meta'.idx \/ Starting(q)'
  <2>1. \/ deadlines[q] # "none" \/ \E p \in Procs : Wanted(p, q)
        \/ Starting(q)'
    BY <1>0, <1>2, <1>3, DeadlineFrom, WantedFrom
  <2>2. q <= meta.idx \/ Starting(q) \/ Starting(q)'
    BY <1>0, <2>1 DEF DeadlineInv
  <2>3. QED
    BY <1>0, <1>1, <2>2, StartingStays
<1>4. ASSUME deadlines'[q] = "pending", NEW p \in Procs, Wanted(p, q)' PROVE FALSE
  <2>1. Wanted(p, q)
    BY <1>0, <1>4, WantedFrom
  <2>2. deadlines[q] = "pending"
    BY <1>0, <1>2, <1>4, <2>1, DeadlineFrom
  <2>3. QED
    BY <1>0, <2>1, <2>2 DEF DeadlineInv
<1>5. QED
  BY <1>3, <1>4

\* Every step keeps the pollers to the questions they were asked to close.
LEMMA PollerStep ==
    ASSUME TypeOK, PollerInv, [Next]_vars
    PROVE  PollerInv'
<1> SUFFICES ASSUME NEW p \in Pollers PROVE PollerFor(p)'
  BY DEF PollerInv
<1>0. PollerFor(p) /\ p \in Procs /\ p \notin Workers
  BY ProcsAssumption DEF PollerInv, Procs
<1>1. CASE pc'[p] = pc[p] /\ req'[p] = req[p] /\ snap'[p] = snap[p]
  BY <1>0, <1>1 DEF PollerFor
<1>2. CASE pc'[p] \notin {"lock", "loadMeta", "loadPlayers", "closeAnswers"}
  BY <1>2 DEF PollerFor
<1>3. CASE Passing
  BY <1>1, <1>3, PassingStores
<1>4. ASSUME NEW r \in Procs, r # p,
             \/ AddPlayer(r) \/ SaveStart(r) \/ RecordAnswer(r) \/ CloseAnswers(r) \/ SaveClose(r)
             \/ Quiet(r)
      PROVE  pc'[p] = pc[p] /\ req'[p] = req[p] /\ snap'[p] = snap[p]
  <2>1. OthersStay(r)
    BY <1>4, OneMoves DEF Quiet, Step
  <2>2. QED
    BY <1>0, <1>4, <2>1 DEF OthersStay
<1>5. CASE Acquire(p)
  <2>1. \/ pc'[p] = "idle"
        \/ pc[p] = "lock" /\ pc'[p] = "loadMeta" /\ req'[p] = req[p]
    BY <1>0, <1>5 DEF Acquire, Finish, Goto, TypeOK
  <2>2. QED
    BY <1>0, <1>2, <2>1 DEF PollerFor
<1>6. CASE LoadMeta(p)
  <2>1. pc[p] = "loadMeta" /\ pc'[p] = "loadPlayers" /\ req'[p] = req[p]
    BY <1>0, <1>6 DEF LoadMeta, Goto, TypeOK
  <2>2. QED
    BY <1>0, <2>1 DEF PollerFor
<1>7. CASE LoadPlayers(p)
  <2> DEFINE s == [snap[p] EXCEPT
                      !.players = players,
                      !.answers = IF snap[p].meta.idx >= 0 THEN answers[snap[p].meta.idx]
                                                           ELSE NoAnswers]
             next == AfterLoad(req[p], s)
  <2>1. pc'[p] = next /\ pc[p] = "loadPlayers"
    BY <1>0, <1>7 DEF LoadPlayers, Finish, Leave, Goto, TypeOK
  <2>2. req[p].op = "close" /\ req[p].only \in Questions /\ req[p].only >= 0
    BY <1>0, <2>1 DEF PollerFor, Questions
  <2>3. next = IF CanClose(s.meta, req[p].only) THEN "closeAnswers" ELSE "unlock"
    BY <2>2 DEF AfterLoad
  <2>4. CASE next = "unlock"
    BY <1>2, <2>1, <2>4
  <2>5. CASE next = "closeAnswers" /\ CanClose(s.meta, req[p].only)
    <3>1. snap[p] \in Snapshots
      BY <1>0 DEF TypeOK
    <3>2. s.meta = snap[p].meta
      BY <3>1 DEF Snapshots
    <3>3. snap[p].meta.idx = req[p].only
      BY <2>2, <2>5, <3>2 DEF CanClose
    <3>4. req' = req /\ snap' = [snap EXCEPT ![p].players = players]
      BY <1>7, <2>5 DEF LoadPlayers
    <3>5. snap'[p].meta = snap[p].meta
      BY <1>0, <3>1, <3>4 DEF Snapshots, TypeOK
    <3>6. QED
      <4> HIDE DEF next, s
      <4>1. QED
        BY <2>1, <2>2, <2>5, <3>3, <3>4, <3>5 DEF PollerFor
  <2>6. QED
    BY <2>3, <2>4, <2>5
<1>8. CASE CloseDue(p)
  <2>1. PICK c \in claimed[p] : req' = [req EXCEPT ![p] = [op |-> "close", only |-> c]]
    BY <1>8 DEF CloseDue
  <2>2. c \in Questions
    BY <1>0, <2>1 DEF TypeOK
  <2>3. pc'[p] = "lock" /\ req'[p] = [op |-> "close", only |-> c]
    BY <1>0, <1>8, <2>1 DEF CloseDue, Goto, TypeOK
  <2>4. req'[p].op = "close" /\ req'[p].only = c
    BY <2>3
  <2>5. QED
    BY <2>2, <2>3, <2>4 DEF PollerFor
<1>9. CASE ClaimDueCloses(p)
  BY <1>1, <1>9 DEF ClaimDueCloses
<1>10. CASE \/ AddPlayer(p) \/ SaveStart(p) \/ RecordAnswer(p) \/ CloseAnswers(p) \/ SaveClose(p)
            \/ Busy(p) \/ Unlock(p) \/ ScheduleClose(p) \/ CancelClose(p) \/ Publish(p) \/ Fail(p)
            \/ Crash(p)
  <2>1. pc'[p] \notin {"lock", "loadMeta", "loadPlayers", "closeAnswers"}
    BY <1>0, <1>10 DEF AddPlayer, SaveStart, RecordAnswer, CloseAnswers, SaveClose, Busy, Unlock,
         ScheduleClose, CancelClose, Publish, Fail, Crash, Finish, Leave, Goto, TypeOK
  <2>2. QED
    BY <1>2, <2>1
<1>11. ~ClientRequest(p)
  BY <1>0 DEF ClientRequest
<1>12. QED
  BY <1>0, <1>1, <1>3, <1>4, <1>5, <1>6, <1>7, <1>8, <1>9, <1>10, <1>11, EngineCases DEF Quiet

\* As long as no close or start stops half way, a poller never closes a question whose
\* deadline is still ahead, however long it took over an earlier deadline and whatever
\* the other instances did meanwhile.  (A start that fails after it has registered its
\* deadline breaks this: the run MCStaleDeadline shows how.)
THEOREM EngineNoEarlyClose == NoLoss => (Spec => NoEarlyClose)
<1> SUFFICES ASSUME NoLoss PROVE Spec => NoEarlyClose
  OBVIOUS
<1>0. NoSlow
  BY DEF NoLoss, NoSlow
<1>1. Init => EarlyInv
  <2>1. Init => DeadlineInv /\ PollerInv
    BY DEF Init, DeadlineInv, Wanted, PollerInv, PollerFor, NoRequest, Procs
  <2>2. QED
    BY <2>1, EngineInit DEF EarlyInv
<1>2. EarlyInv /\ [Next]_vars => EarlyInv'
  <2>1. EarlyInv => TypeOK
    BY DEF EarlyInv, EngineInv, SerializedInv, LockedInv, TypeInv
  <2>2. QED
    BY <1>0, <2>1, EngineStep, DeadlineStep, PollerStep DEF EarlyInv
<1>3. ASSUME EarlyInv, NEW p \in Pollers, CloseAnswers(p), meta.open, ~meta'.open
      PROVE  deadlines[meta.idx] # "pending"
  <2>1. p \in Procs /\ EngineInv /\ SerialInv /\ RequestInv
    BY <1>3 DEF Procs, EarlyInv, EngineInv, SerializedInv, LockedInv, TypeInv
  <2>2. pc[p] = "closeAnswers"
    BY <1>3 DEF CloseAnswers
  <2>3. snap[p].meta = meta /\ snap[p].meta.idx \in Questions
    BY <2>1, <2>2 DEF SerialInv, CurrentFor, AboutToWrite, Loaded, RequestInv, ReadyFor
  <2>4. Wanted(p, meta.idx)
    BY <1>3, <2>2, <2>3 DEF EarlyInv, PollerInv, PollerFor, Wanted
  <2>5. QED
    BY <1>3, <2>1, <2>3, <2>4 DEF EarlyInv, DeadlineInv
<1>4. EarlyInv /\ [Next]_vars =>
        [\A p \in Pollers :
            CloseAnswers(p) /\ meta.open /\ ~meta'.open => deadlines[meta.idx] # "pending"]_vars
  BY <1>3
<1>5. QED
  BY <1>1, <1>2, <1>4, PTL DEF Spec, NoEarlyClose
=============================================================================
