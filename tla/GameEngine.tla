----------------------------- MODULE GameEngine -----------------------------
(***************************************************************************)
(* The game engine over its Redis state store.                             *)
(*                                                                         *)
(* A process is a goroutine of some backend instance: a worker runs one    *)
(* request of a client at a time (AddPlayer, StartNextQuestion,            *)
(* SubmitAnswer, CloseQuestion), a poller is the RunDeadlines loop of an   *)
(* instance.  Every step of a process is one Redis command, transaction or *)
(* script; between two steps of a process every other process may run.     *)
(* The game is one game; the deadlines are its entries of the shared       *)
(* sorted set.  Whether the host is the caller is checked by the handlers  *)
(* on data that never changes and is left out.                             *)
(*                                                                         *)
(* Faults says what may go wrong:                                          *)
(*   "crash"       an instance stops in the middle of a request            *)
(*   "error"       a Redis call fails, with or without having had its      *)
(*                 effect, or the request's context is cancelled           *)
(*   "contention"  the lock is not free within lockWait (ErrBusy)          *)
(*   "slow"        a live holder keeps the lock longer than lockTTL        *)
(***************************************************************************)
EXTENDS GameRules, FiniteSets

CONSTANTS
    Workers,    \* goroutines that serve requests
    Pollers,    \* goroutines that run RunDeadlines, one per instance
    Timed,      \* EngineConfig.AnswerTimeoutSeconds > 0
    Faults,     \* what may go wrong
    Watched     \* the types of the events that published remembers

Procs == Workers \cup Pollers

\* The lock key is absent, or holds a token whose owner will never release it.
CONSTANTS NoLock, LostToken

ASSUME ProcsAssumption  == /\ Workers \cap Pollers = {}
                           /\ NoLock \notin Procs /\ LostToken \notin Procs
                           /\ NoLock # LostToken
ASSUME TimedAssumption  == Timed \in BOOLEAN
ASSUME FaultsAssumption == Faults \subseteq {"crash", "error", "contention", "slow"}

VARIABLES
    meta,       \* Redis: the game's progress fields
    players,    \* Redis: the players hash
    answers,    \* Redis: the answers hash of each question
    lock,       \* Redis: the token in the game's lock key
    deadlines,  \* Redis: the game's entries of the deadlines sorted set
    pc,         \* the next step of each process
    req,        \* the request each process is serving
    snap,       \* the State each process has loaded
    claimed,    \* deadlines a poller has claimed and not handled yet
    out,        \* events a process has still to publish
    published,  \* history: watched events published on the game's channel
    settled     \* history: questions whose penalties were saved

store == <<meta, players, answers, lock, deadlines>>
vars  == <<store, pc, req, snap, claimed, out, published, settled>>

---------------------------------------------------------------------------

NoRequest == [op |-> "none"]

JoinReqs   == [op : {"join"}, pl : Players]
StartReqs  == [op : {"start"}]
AnswerReqs == [op : {"answer"}, pl : Players, q : Questions, opt : OptionIDs]
CloseReqs  == [op : {"close"}, only : -1 .. TotalQuestions - 1]

Requests == JoinReqs \cup StartReqs \cup AnswerReqs \cup CloseReqs

Steps == {"idle", "lock", "loadMeta", "loadPlayers", "addPlayer", "schedule",
          "saveStart", "closeAnswers", "saveClose", "cancel", "unlock",
          "record", "publish"}

Snapshots == [meta : Meta, players : [Players -> PlayerData], answers : AnswerSheet]

NoSnap == [meta    |-> NewGame,
           players |-> [x \in Players |-> Absent],
           answers |-> NoAnswers]

Events == [type : {"player_joined"}, pl : Players]
     \cup [type : {"question_started", "question_closed"}, q : Questions]
     \cup [type : {"answer_submitted", "life_lost", "player_eliminated"},
           q : Questions, pl : Players]
     \cup [type : {"game_over"}, q : Questions, reason : Reasons]

TypeOK ==
    /\ meta \in Meta
    /\ players \in [Players -> PlayerData]
    /\ answers \in [Questions -> AnswerSheet]
    /\ lock \in Procs \cup {NoLock, LostToken}
    /\ deadlines \in [Questions -> {"none", "pending", "due"}]
    /\ pc \in [Procs -> Steps]
    /\ req \in [Procs -> Requests \cup {NoRequest}]
    /\ snap \in [Procs -> Snapshots]
    /\ claimed \in [Procs -> SUBSET Questions]
    /\ out \in [Procs -> SUBSET Events]
    /\ published \in SUBSET Events
    /\ settled \in SUBSET Questions

\* The game once CreateGame has answered: the host's player is in.
Init ==
    /\ meta = NewGame
    /\ players = [x \in Players |-> IF x = Owner THEN Joined ELSE Absent]
    /\ answers = [q \in Questions |-> NoAnswers]
    /\ lock = NoLock
    /\ deadlines = [q \in Questions |-> "none"]
    /\ pc = [p \in Procs |-> "idle"]
    /\ req = [p \in Procs |-> NoRequest]
    /\ snap = [p \in Procs |-> NoSnap]
    /\ claimed = [p \in Procs |-> {}]
    /\ out = [p \in Procs |-> {}]
    /\ published = {}
    /\ settled = {}

---------------------------------------------------------------------------
(* Moving a process on.                                                    *)

Goto(p, step) == pc' = [pc EXCEPT ![p] = step]

\* What the goroutine held of the request is of no further use to it.
Forget(p) ==
    /\ req' = [req EXCEPT ![p] = NoRequest]
    /\ snap' = [snap EXCEPT ![p] = NoSnap]

\* The request is over.
Finish(p) ==
    /\ Goto(p, "idle")
    /\ Forget(p)
    /\ out' = [out EXCEPT ![p] = {}]

\* A call that changes Redis may answer with an error after its effect.
Replies == IF "error" \in Faults THEN BOOLEAN ELSE {TRUE}

\* Leave the critical section, to publish events evs.
Leave(p, evs) ==
    /\ Goto(p, "unlock")
    /\ Forget(p)
    /\ out' = [out EXCEPT ![p] = evs]

NeedsLock(p) == req[p].op # "answer"

InSection(p) ==
    \/ pc[p] \in {"addPlayer", "schedule", "saveStart", "closeAnswers",
                  "saveClose", "cancel", "unlock"}
    \/ pc[p] \in {"loadMeta", "loadPlayers"} /\ NeedsLock(p)

---------------------------------------------------------------------------
(* A request arrives.                                                      *)

Receive(p, r) ==
    /\ pc[p] = "idle"
    /\ req' = [req EXCEPT ![p] = r]
    /\ Goto(p, IF r.op = "answer" THEN "loadMeta" ELSE "lock")
    /\ UNCHANGED <<store, snap, claimed, out, published, settled>>

\* The clients' requests; only = -1 is CloseQuestion.
ClientRequest(p) ==
    /\ p \in Workers
    /\ \E r \in JoinReqs \cup StartReqs \cup AnswerReqs
                 \cup {[op |-> "close", only |-> -1]} : Receive(p, r)

---------------------------------------------------------------------------
(* Lock, Load and unlock (Engine.locked).                                  *)

\* Mutant: SET without NX.
MutantAcquire(p) ==
    /\ pc[p] = "lock"
    /\ \/ /\ lock' = p
          /\ Goto(p, "loadMeta")
          /\ UNCHANGED <<req, snap, out>>
       \/ /\ "error" \in Faults
          /\ lock' = LostToken
          /\ Finish(p)
    /\ UNCHANGED <<meta, players, answers, deadlines, claimed, published, settled>>

\* SET NX succeeds.  If its reply is lost the caller has no unlock function,
\* and the key stays until it expires.
Acquire(p) ==
    /\ pc[p] = "lock"
    /\ lock = NoLock
    /\ \/ /\ lock' = p
          /\ Goto(p, "loadMeta")
          /\ UNCHANGED <<req, snap, out>>
       \/ /\ "error" \in Faults
          /\ lock' = LostToken
          /\ Finish(p)
    /\ UNCHANGED <<meta, players, answers, deadlines, claimed, published, settled>>

\* lockWait has passed: ErrBusy.  lockWait is half of lockTTL, so it may pass
\* while the token of a dead holder is still there.
Busy(p) ==
    /\ pc[p] = "lock"
    /\ lock = LostToken \/ (lock # NoLock /\ "contention" \in Faults)
    /\ Finish(p)
    /\ UNCHANGED <<store, claimed, published, settled>>

\* The key expires: a token left behind, or that of a holder slower than lockTTL.
Expire ==
    /\ lock # NoLock
    /\ lock = LostToken \/ "slow" \in Faults
    /\ lock' = NoLock
    /\ UNCHANGED <<meta, players, answers, deadlines, pc, req, snap, claimed,
                   out, published, settled>>

\* Load reads the meta hash and the players hash in one pipeline, which is not
\* a transaction.
LoadMeta(p) ==
    /\ pc[p] = "loadMeta"
    /\ snap' = [snap EXCEPT ![p].meta = meta]
    /\ Goto(p, "loadPlayers")
    /\ UNCHANGED <<store, req, claimed, out, published, settled>>

\* What an operation does once the state s is loaded: its first write, or an
\* early return.
AfterLoad(r, s) ==
    CASE r.op = "join"   -> IF CanJoin(s.meta, s.players, r.pl) THEN "addPlayer" ELSE "unlock"
      [] r.op = "start"  -> IF CanStart(s.meta)
                            THEN IF Timed THEN "schedule" ELSE "saveStart"
                            ELSE "unlock"
      [] r.op = "close"  -> IF CanClose(s.meta, r.only) THEN "closeAnswers" ELSE "unlock"
      [] r.op = "answer" -> IF CanAnswer(s.meta, s.players, s.answers, r.pl, r.q, r.opt)
                            THEN "record" ELSE "idle"

\* Load then reads the answers to the question the loaded fields name.  Only
\* SubmitAnswer looks at them, and it keeps nothing but the question's index.
LoadPlayers(p) ==
    /\ pc[p] = "loadPlayers"
    /\ LET i    == snap[p].meta.idx
           next == AfterLoad(req[p], [snap[p] EXCEPT
                     !.players = players,
                     !.answers = IF i >= 0 THEN answers[i] ELSE NoAnswers])
       IN  CASE next = "idle"   -> Finish(p)
             [] next = "unlock" -> Leave(p, {})
             [] next = "record" -> Goto(p, next) /\ UNCHANGED <<req, snap, out>>
             [] OTHER -> /\ snap' = [snap EXCEPT ![p].players = players]
                         /\ Goto(p, next)
                         /\ UNCHANGED <<req, out>>
    /\ UNCHANGED <<store, claimed, published, settled>>

\* unlockScript compares the token; its error is ignored.
Unlock(p) ==
    /\ pc[p] = "unlock"
    /\ IF lock = p
       THEN lock' \in {NoLock} \cup (IF "error" \in Faults THEN {LostToken} ELSE {})
       ELSE UNCHANGED lock
    /\ Goto(p, IF out[p] = {} THEN "idle" ELSE "publish")
    /\ UNCHANGED <<meta, players, answers, deadlines, req, snap, claimed, out,
                   published, settled>>

---------------------------------------------------------------------------
(* AddPlayer                                                               *)

AddPlayer(p) ==
    /\ pc[p] = "addPlayer"
    /\ players' = [players EXCEPT ![req[p].pl] = Joined]
    /\ \E ok \in Replies :
         Leave(p, IF ok THEN {[type |-> "player_joined", pl |-> req[p].pl]} ELSE {})
    /\ UNCHANGED <<meta, answers, lock, deadlines, claimed, published, settled>>

---------------------------------------------------------------------------
(* StartNextQuestion                                                       *)

\* Mutant: the deadline is registered for the previous question.
MutantScheduleClose(p) ==
    /\ pc[p] = "schedule"
    /\ deadlines' = [q \in Questions |-> IF q = snap[p].meta.idx THEN "pending" ELSE deadlines[q]]
    /\ Goto(p, "saveStart")
    /\ UNCHANGED <<meta, players, answers, lock, req, snap, claimed, out, published, settled>>

ScheduleClose(p) ==
    /\ pc[p] = "schedule"
    /\ deadlines' = [deadlines EXCEPT ![snap[p].meta.idx + 1] = "pending"]
    /\ \E ok \in Replies : IF ok THEN Goto(p, "saveStart") /\ UNCHANGED <<req, snap, out>>
                                 ELSE Leave(p, {})
    /\ UNCHANGED <<meta, players, answers, lock, claimed, published, settled>>

SaveStart(p) ==
    /\ pc[p] = "saveStart"
    /\ meta' = Started(snap[p].meta)
    /\ \E ok \in Replies :
         Leave(p, IF ok THEN {[type |-> "question_started", q |-> snap[p].meta.idx + 1]} ELSE {})
    /\ UNCHANGED <<players, answers, lock, deadlines, claimed, published, settled>>

---------------------------------------------------------------------------
(* SubmitAnswer, which takes no lock                                       *)

\* Mutant: the script does not compare the question's index.
MutantRecordable(m, i) == m.status = "running" /\ m.open

Recordable(m, i) ==
    /\ m.status = "running"
    /\ m.open
    /\ m.idx = i

\* Mutant: answer_submitted is broadcast whatever the script returned.
MutantRecordAnswer(p) ==
    /\ pc[p] = "record"
    /\ LET i == snap[p].meta.idx  x == req[p].pl IN
       /\ IF Recordable(meta, i) /\ answers[i][x] = NoAnswer
          THEN answers' = [answers EXCEPT ![i][x] = req[p].opt]
          ELSE UNCHANGED answers
       /\ out' = [out EXCEPT ![p] = {[type |-> "answer_submitted", q |-> i, pl |-> x]}]
       /\ Goto(p, "publish")
       /\ Forget(p)
    /\ UNCHANGED <<meta, players, lock, deadlines, claimed, published, settled>>

\* recordAnswerScript, for the question that was open when the state was loaded.
RecordAnswer(p) ==
    /\ pc[p] = "record"
    /\ LET i == snap[p].meta.idx  x == req[p].pl IN
       IF Recordable(meta, i) /\ answers[i][x] = NoAnswer
       THEN /\ answers' = [answers EXCEPT ![i][x] = req[p].opt]
            /\ \E ok \in Replies :
                 IF ok
                 THEN /\ out' = [out EXCEPT ![p] =
                                   {[type |-> "answer_submitted", q |-> i, pl |-> x]}]
                      /\ Goto(p, "publish")
                      /\ Forget(p)
                 ELSE Finish(p)
       ELSE /\ Finish(p)
            /\ UNCHANGED answers
    /\ UNCHANGED <<meta, players, lock, deadlines, claimed, published, settled>>

---------------------------------------------------------------------------
(* closeQuestion                                                           *)

\* Mutant: the answers are read first and the question is marked closed by Save.
MutantCloseAnswers(p) ==
    /\ pc[p] = "closeAnswers"
    /\ LET i == snap[p].meta.idx IN
       /\ snap' = [snap EXCEPT ![p].answers = answers[i]]
       /\ Goto(p, "saveClose")
    /\ UNCHANGED <<store, req, claimed, out, published, settled>>

\* closeAnswersScript: the question is marked closed and its answers returned.
CloseAnswers(p) ==
    /\ pc[p] = "closeAnswers"
    /\ LET i == snap[p].meta.idx IN
       IF meta.open /\ meta.idx = i
       THEN /\ meta' = [meta EXCEPT !.open = FALSE]
            /\ \E ok \in Replies :
                 IF ok
                 THEN /\ snap' = [snap EXCEPT ![p] =
                                    [meta    |-> [snap[p].meta EXCEPT !.open = FALSE],
                                     players |-> snap[p].players,
                                     answers |-> answers[i]]]
                      /\ Goto(p, "saveClose")
                      /\ UNCHANGED <<req, out>>
                 ELSE Leave(p, {})
       ELSE /\ Leave(p, {})
            /\ UNCHANGED meta
    /\ UNCHANGED <<players, answers, lock, deadlines, claimed, published, settled>>

\* Mutant: game_over is announced only when the close eliminated somebody.
MutantCloseEvents(s) ==
    LET i      == s.meta.idx
        after  == Penalised(s.players, s.answers, i)
        reason == EndReason(s.meta, after)
    IN  {[type |-> "question_closed", q |-> i]}
        \cup {[type |-> "game_over", q |-> i, reason |-> reason] :
                 x \in Eliminated(s.players, s.answers, i)}

\* The events a close announces, from the state loaded and the answers read.
CloseEvents(s) ==
    LET i      == s.meta.idx
        after  == Penalised(s.players, s.answers, i)
        reason == EndReason(s.meta, after)
    IN  {[type |-> "question_closed", q |-> i]}
        \cup {[type |-> "life_lost", q |-> i, pl |-> x] : x \in LifeLost(s.players, s.answers, i)}
        \cup {[type |-> "player_eliminated", q |-> i, pl |-> x] :
                 x \in Eliminated(s.players, s.answers, i)}
        \cup (IF reason = "none" THEN {} ELSE {[type |-> "game_over", q |-> i, reason |-> reason]})

\* The players a close writes back: those who lost a life.
SavedPlayers(s) == LifeLost(s.players, s.answers, s.meta.idx)

\* Save writes the progress fields and the players who lost a life.
SaveClose(p) ==
    /\ pc[p] = "saveClose"
    /\ LET s     == snap[p]
           after == Penalised(s.players, s.answers, s.meta.idx)
       IN  /\ meta' = Closed(s.meta, after)
           /\ players' = [x \in Players |->
                            IF x \in SavedPlayers(s) THEN after[x] ELSE players[x]]
           /\ settled' = settled \cup {s.meta.idx}
           /\ \E ok \in Replies :
                IF ok THEN /\ Goto(p, "cancel")
                           /\ out' = [out EXCEPT ![p] = CloseEvents(s)]
                           /\ UNCHANGED <<req, snap>>
                      ELSE Leave(p, {})
    /\ UNCHANGED <<answers, lock, deadlines, claimed, published>>

\* CancelClose; its error is only logged.
CancelClose(p) ==
    /\ pc[p] = "cancel"
    /\ \/ deadlines' = [deadlines EXCEPT ![snap[p].meta.idx] = "none"]
       \/ "error" \in Faults /\ UNCHANGED deadlines
    /\ Leave(p, out[p])
    /\ UNCHANGED <<meta, players, answers, lock, claimed, published, settled>>

---------------------------------------------------------------------------
(* Publishing, after the lock is released, in the order the code           *)
(* broadcasts.  Events of one rank are about different players, in the     *)
(* order of their random IDs: any order.                                   *)

Rank(e) == CASE e.type = "life_lost" -> 1
             [] e.type = "player_eliminated" -> 2
             [] e.type = "game_over" -> 3
             [] OTHER -> 0

\* Mutant: game_over is announced before the eliminations.
MutantFirstOf(evs) == {e \in evs : Rank(e) \in {0, 3} \/ \A f \in evs : Rank(f) \notin {0, 3}}

FirstOf(evs) == {e \in evs : \A f \in evs : Rank(e) <= Rank(f)}

\* An event that cannot be published is logged and dropped.
Publish(p) ==
    /\ pc[p] = "publish"
    /\ \E e \in FirstOf(out[p]) :
         /\ \/ published' = published \cup {f \in {e} : f.type \in Watched}
            \/ "error" \in Faults /\ UNCHANGED published
         /\ out' = [out EXCEPT ![p] = out[p] \ {e}]
         /\ Goto(p, IF out[p] = {e} THEN "idle" ELSE "publish")
    /\ UNCHANGED <<store, req, snap, claimed, settled>>

---------------------------------------------------------------------------
(* Deadlines (Manager.RunDeadlines and CloseDue)                           *)

Reach(q) ==
    /\ deadlines[q] = "pending"
    /\ deadlines' = [deadlines EXCEPT ![q] = "due"]
    /\ UNCHANGED <<meta, players, answers, lock, pc, req, snap, claimed, out,
                   published, settled>>

DueNow == {q \in Questions : deadlines[q] = "due"}

\* claimDueScript removes and returns a batch, which other games share; when
\* its reply is lost the batch is lost.
ClaimDueCloses(p) ==
    /\ p \in Pollers
    /\ pc[p] = "idle" /\ claimed[p] = {}
    /\ \E due \in SUBSET DueNow \ {{}} :
         /\ deadlines' = [q \in Questions |-> IF q \in due THEN "none" ELSE deadlines[q]]
         /\ \E ok \in Replies : claimed' = [claimed EXCEPT ![p] = IF ok THEN due ELSE {}]
    /\ UNCHANGED <<meta, players, answers, lock, pc, req, snap, out, published, settled>>

\* closeQuestion for one of the deadlines claimed.  Whatever it returns, the
\* loop goes on with the next one: errors are only logged.
CloseDue(p) ==
    /\ pc[p] = "idle"
    /\ \E q \in claimed[p] :
         /\ claimed' = [claimed EXCEPT ![p] = claimed[p] \ {q}]
         /\ req' = [req EXCEPT ![p] = [op |-> "close", only |-> q]]
    /\ Goto(p, "lock")
    /\ UNCHANGED <<store, snap, out, published, settled>>

---------------------------------------------------------------------------
(* Faults                                                                  *)

\* A call fails without effect, or the context is cancelled: the handler
\* returns the error, through the deferred unlock if it holds the lock.
Fail(p) ==
    /\ "error" \in Faults
    /\ pc[p] \in {"lock", "loadMeta", "loadPlayers", "addPlayer", "schedule",
                  "saveStart", "closeAnswers", "saveClose", "record"}
    /\ IF InSection(p) THEN Leave(p, {}) ELSE Finish(p)
    /\ UNCHANGED <<store, claimed, published, settled>>

\* The instance stops: its goroutines are gone and nobody holds their token.
Crash(p) ==
    /\ "crash" \in Faults
    /\ pc[p] # "idle" \/ claimed[p] # {}
    /\ Finish(p)
    /\ claimed' = [claimed EXCEPT ![p] = {}]
    /\ lock' = IF lock = p THEN LostToken ELSE lock
    /\ UNCHANGED <<meta, players, answers, deadlines, published, settled>>

---------------------------------------------------------------------------

\* A step of the request p is serving.
Step(p) ==
    \/ LoadMeta(p) \/ LoadPlayers(p) \/ Unlock(p)
    \/ AddPlayer(p)
    \/ ScheduleClose(p) \/ SaveStart(p)
    \/ RecordAnswer(p)
    \/ CloseAnswers(p) \/ SaveClose(p) \/ CancelClose(p)
    \/ Publish(p)

Next ==
    \/ \E p \in Procs :
         \/ ClientRequest(p)
         \/ Acquire(p) \/ Busy(p)
         \/ Step(p)
         \/ ClaimDueCloses(p) \/ CloseDue(p)
         \/ Fail(p) \/ Crash(p)
    \/ Expire
    \/ \E q \in Questions : Reach(q)

Spec == Init /\ [][Next]_vars

\* A request that has begun goes on, time passes and every instance polls.
\* The lock is handed out fairly: waiters poll it with a backoff of at most
\* 50 ms, and a request holds it for a few Redis calls.
Fairness ==
    /\ \A p \in Procs : WF_vars(Step(p)) /\ SF_vars(Acquire(p))
    /\ \A p \in Pollers : WF_vars(ClaimDueCloses(p)) /\ WF_vars(CloseDue(p))
    /\ \A q \in Questions : WF_vars(Reach(q))
    /\ WF_vars(Expire)

FairSpec == Spec /\ Fairness

---------------------------------------------------------------------------
(* Safety *)

AboutToWrite(p) ==
    pc[p] \in {"addPlayer", "schedule", "saveStart", "closeAnswers", "saveClose"}

Loaded(p) == <<snap[p].meta, snap[p].players>>

\* The lock serializes join, start and close: what one of them has loaded is
\* still what the store holds when it writes, so no write is based on a state
\* another transition has replaced.
Serialized == \A p \in Procs : AboutToWrite(p) => Loaded(p) = <<meta, players>>

\* A running game has a current question.
HasQuestion(m) == m.status = "running" => m.idx \in Questions

\* What step c of request r relies on, s being the state loaded: it is the
\* request that leads there, and the checks made on s have passed.
ReadyFor(c, r, s) ==
    /\ HasQuestion(s.meta)
    /\ c \in {"lock", "loadMeta", "loadPlayers"} => r \in Requests
    /\ c = "addPlayer" => r \in JoinReqs
    /\ c \in {"schedule", "saveStart"} => CanStart(s.meta)
    /\ c \in {"closeAnswers", "saveClose", "cancel"} => s.meta.idx \in Questions
    /\ c = "record" => r \in AnswerReqs /\ s.meta.idx = r.q

RequestInv == \A p \in Procs : ReadyFor(pc[p], req[p], snap[p])

\* Whoever is in the critical section holds the lock, so nobody else is.
LockInv == \A p \in Procs : InSection(p) => lock = p

\* Serialized, strengthened to hold from the first read on.
CurrentFor(p) ==
    /\ AboutToWrite(p) => Loaded(p) = <<meta, players>>
    /\ pc[p] = "loadPlayers" /\ NeedsLock(p) => snap[p].meta = meta

SerialInv == \A p \in Procs : CurrentFor(p)

\* p is between the two writes of a close of question i.
Closing(p, i) == pc[p] = "saveClose" /\ snap[p].meta.idx = i

\* An accepted answer is always counted: a question that was started and is
\* no longer open has had its penalties saved, or is being closed right now.
\* (Otherwise the answers to it count for nothing, and if it is the last
\* question the game can neither be closed nor go on: it never ends.)
ClosedQuestionsSettled ==
    \A i \in Questions :
        (i < meta.idx \/ (i = meta.idx /\ ~meta.open)) =>
            i \in settled \/ \E p \in Procs : Closing(p, i)

\* Events are sent after the lock is released, when the game may have moved
\* on; what they tell the clients is still a fact: the player is in, the
\* answer is recorded, the question was settled, the life was lost for that
\* answer, the player is out, the game is over for that reason.
AnnouncedIsTrue ==
    \A e \in published :
        CASE e.type = "player_joined"     -> players[e.pl].joined
          [] e.type = "question_started"  -> meta.idx >= e.q
          [] e.type = "answer_submitted"  -> answers[e.q][e.pl] \in OptionsOf[e.q]
          [] e.type = "question_closed"   -> e.q \in settled
          [] e.type = "life_lost"         -> /\ e.q \in settled
                                             /\ answers[e.q][e.pl] # Correct[e.q]
                                             /\ players[e.pl].lives < InitialLives
          [] e.type = "player_eliminated" -> players[e.pl].joined /\ ~players[e.pl].active
          [] e.type = "game_over"         -> /\ meta.status = "finished"
                                             /\ meta.reason = e.reason
                                             /\ meta.idx = e.q

CloseEventTypes == {"question_closed", "life_lost", "player_eliminated", "game_over"}

\* After a close, events arrive in the documented order: question_closed, then
\* life_lost, then player_eliminated, then game_over, whoever closed the
\* question; so nothing about a question is still unsent once something later
\* about it was.
CloseEventsInOrder ==
    \A p \in Procs : \A e \in out[p] : \A f \in published :
        ( /\ {e.type, f.type} \subseteq CloseEventTypes
          /\ e.q = f.q ) => Rank(f) <= Rank(e) /\ e # f

\* A deadline closes the question it was registered for and never before it is
\* reached: a poller does not close a question whose deadline is still ahead.
NoEarlyClose ==
    [][\A p \in Pollers :
          CloseAnswers(p) /\ meta.open /\ ~meta'.open => deadlines[meta.idx] # "pending"]_vars

---------------------------------------------------------------------------
(* The engine implements GameSpec.  A question counts as open until the    *)
(* penalties of its close are saved.                                       *)

AbstractMeta == [meta EXCEPT !.open = meta.open \/ \E p \in Procs : pc[p] = "saveClose"]

GS == INSTANCE GameSpec WITH
          meta <- AbstractMeta,
          MayAbandon <- (Faults \cap {"crash", "error"} # {})

\* Concurrent joins, starts, answers and closes, each of several Redis calls,
\* behave like the atomic operations of GameSpec; a crash or an error can add
\* only a question that ends without penalties.
ImplementsGameSpec == GS!Spec

---------------------------------------------------------------------------
(* Liveness *)

\* Deadlines of timed questions are honored: a timed question that is open is
\* closed eventually, also if the host never closes it.
DeadlinesHonored ==
    Timed => \A i \in Questions :
        (meta.idx = i /\ meta.open) ~> ~(meta.idx = i /\ meta.open)

\* A game that has ended is announced to its players as over.
GameOverAnnounced ==
    meta.status = "finished" ~> \E e \in published : e.type = "game_over"
=============================================================================
