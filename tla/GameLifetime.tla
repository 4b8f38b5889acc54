---------------------------- MODULE GameLifetime ----------------------------
(***************************************************************************)
(* How long the data of one game lives in Redis.  A game is several keys,  *)
(* each with its own time to live: the main keys (meta, questions,         *)
(* players), one answers hash per question, and for every actor an index   *)
(* of the games it takes part in.  Writes create keys that do not exist;   *)
(* EXPIRE leaves them alone.                                               *)
(*                                                                         *)
(* Three processes: a transition (join, start, close: they hold the lock,  *)
(* so there is one), an answer, and a listing of an actor's games.  Their  *)
(* calls are separate steps, and keys may expire between two of them.      *)
(* Which players lose a life and when a game is over is decided by module  *)
(* GameRules and left open here.                                           *)
(***************************************************************************)
EXTENDS Integers

CONSTANTS
    Actors,          \* each may have one player
    Host,            \* the actor that creates the game
    TotalQuestions,
    IdleTTL,         \* time to live, in ticks of the clock
    FinishedTTL

ASSUME ActorsAssumption == Host \in Actors
ASSUME TotalAssumption  == TotalQuestions \in Nat \ {0}
ASSUME TTLAssumption    == IdleTTL \in Nat \ {0} /\ FinishedTTL \in Nat \ {0}

Questions == 0 .. TotalQuestions - 1
Main      == {"meta", "questions", "players"}
Procs     == {"transition", "answer", "list"}

\* Time to live of a key: 0 if there is no such key, Forever if it has none.
Forever == IdleTTL + FinishedTTL + 1
TTL     == 0 .. Forever

VARIABLES
    meta,       \* progress fields of the meta hash
    whole,      \* the meta hash has its other fields, set by Create
    joined,     \* actors with a player in the players hash
    stored,     \* question -> actors with an answer in its answers hash
    index,      \* actors in whose index the game is
    ttl, attl, ittl,    \* time to live: main keys, answers hashes, indexes
    pc, snap, who,      \* process -> next call, progress it loaded, its actor
    late,       \* processes that have seen the clock tick since they began
    accepted,   \* history: question -> actors whose answer was accepted
    forgotten,  \* history: actors whose index expired after they joined
    raised      \* history: a transition was saved after the game had expired

data  == <<meta, whole, joined, stored, index, ttl, attl, ittl>>
procs == <<pc, snap, who, late>>
vars  == <<data, procs, accepted, forgotten, raised>>

Progress == [status : {"waiting", "running", "finished"}, idx : -1 .. TotalQuestions - 1,
             open : BOOLEAN]

NewGame == [status |-> "waiting", idx |-> -1, open |-> FALSE]

Calls == {"idle", "join", "start", "close", "save", "record", "exists", "load", "zrem"}

TypeOK ==
    /\ meta \in Progress
    /\ whole \in BOOLEAN
    /\ joined \in SUBSET Actors
    /\ stored \in [Questions -> SUBSET Actors]
    /\ index \in SUBSET Actors
    /\ ttl \in [Main -> TTL]
    /\ attl \in [Questions -> TTL]
    /\ ittl \in [Actors -> TTL]
    /\ pc \in [Procs -> Calls]
    /\ snap \in [Procs -> Progress]
    /\ who \in [Procs -> Actors]
    /\ late \in SUBSET Procs
    /\ accepted \in [Questions -> SUBSET Actors]
    /\ forgotten \in SUBSET Actors
    /\ raised \in BOOLEAN

\* CreateGame: Create, then AddPlayer of the host.
Init ==
    /\ meta = NewGame
    /\ whole = TRUE
    /\ joined = {Host}
    /\ stored = [q \in Questions |-> {}]
    /\ index = {Host}
    /\ ttl = [k \in Main |-> IdleTTL]
    /\ attl = [q \in Questions |-> 0]
    /\ ittl = [a \in Actors |-> IF a = Host THEN IdleTTL ELSE 0]
    /\ pc = [p \in Procs |-> "idle"]
    /\ snap = [p \in Procs |-> NewGame]
    /\ who = [p \in Procs |-> Host]
    /\ late = {}
    /\ accepted = [q \in Questions |-> {}]
    /\ forgotten = {}
    /\ raised = FALSE

---------------------------------------------------------------------------
(* Redis                                                                   *)

\* HSET, ZADD: a key that does not exist is created, without a time to live.
Written(t, K) == [k \in DOMAIN t |-> IF k \in K /\ t[k] = 0 THEN Forever ELSE t[k]]

\* EXPIRE d: nothing happens to a key that does not exist.
Expired(t, K, d) == [k \in DOMAIN t |-> IF k \in K /\ t[k] # 0 THEN d ELSE t[k]]

Aged(t) == [k \in DOMAIN t |-> IF t[k] \in {0, Forever} THEN t[k] ELSE t[k] - 1]

Exists == ttl["meta"] # 0

\* Load: an incomplete game cannot be decoded once it has a current question.
Loadable == Exists /\ (meta.idx >= 0 => ttl["questions"] # 0)

\* A call of process p leads to the next, or ends p.
Proceed(p, call) == /\ pc' = [pc EXCEPT ![p] = call]
                    /\ late' = IF call = "idle" THEN late \ {p} ELSE late
Ends(p) == /\ pc' = [pc EXCEPT ![p] = "idle"]
           /\ snap' = [snap EXCEPT ![p] = NewGame]
           /\ who' = [who EXCEPT ![p] = Host]
           /\ late' = late \ {p}

\* Time passes and keys expire.  The calls of one operation take seconds and
\* times to live are minutes at least: it is not overtaken by the clock twice.
Tick ==
    /\ late = {}
    /\ late' = {p \in Procs : pc[p] # "idle"}
    /\ ttl' = Aged(ttl)
    /\ attl' = Aged(attl)
    /\ ittl' = Aged(ittl)
    /\ joined' = IF ttl'["players"] = 0 THEN {} ELSE joined
    /\ stored' = [q \in Questions |-> IF attl'[q] = 0 THEN {} ELSE stored[q]]
    /\ index' = {a \in index : ittl'[a] # 0}
    /\ forgotten' = forgotten \cup {a \in joined : ittl'[a] = 0}
    /\ UNCHANGED <<meta, whole, pc, snap, who, accepted, raised>>

---------------------------------------------------------------------------
(* Transitions, under the lock                                             *)

\* Mutant: one question too many.
MutantCanStart(m) == m.status # "finished" /\ ~m.open /\ m.idx + 1 <= TotalQuestions

CanJoin(m)  == m.status = "waiting"
CanStart(m) == m.status # "finished" /\ ~m.open /\ m.idx + 1 < TotalQuestions
CanClose(m) == m.status = "running" /\ m.open

\* Engine.locked: the game is loaded and the operation's checks are made.  (For
\* a start the next question is read here too.)
Load(op, a) ==
    /\ pc["transition"] = "idle"
    /\ Loadable
    /\ \/ op = "join" /\ CanJoin(meta) /\ a \notin joined
       \/ op = "start" /\ CanStart(meta) /\ ttl["questions"] # 0 /\ a = Host
       \/ op = "close" /\ CanClose(meta) /\ a = Host
    /\ Proceed("transition", op)
    /\ snap' = [snap EXCEPT !["transition"] = meta]
    /\ who' = [who EXCEPT !["transition"] = a]
    /\ UNCHANGED <<data, accepted, forgotten, raised>>

\* Mutant: the players keep the time to live they have.
MutantRefresh(t, d) == Expired(t, {"meta", "questions"}, d)

\* GameStateStore.expire.
Refresh(t, d) == Expired(t, Main, d)

\* GameStateStore.AddPlayer.
AddPlayer ==
    LET a == who["transition"] IN
    /\ pc["transition"] = "join"
    /\ joined' = joined \cup {a}
    /\ index' = index \cup {a}
    /\ ittl' = Expired(Written(ittl, {a}), {a}, IdleTTL)
    /\ ttl' = Refresh(Written(ttl, {"players"}), IdleTTL)
    /\ forgotten' = forgotten \ {a}
    /\ Ends("transition")
    /\ UNCHANGED <<meta, whole, stored, attl, accepted, raised>>

\* Mutant: the answers of the last question are overlooked.
MutantAnswersUpTo(i) == 0 .. i - 1

AnswersUpTo(i) == 0 .. i

\* GameStateStore.Save: the progress fields, and the players that changed.  (Who is
\* in a players hash that Save creates does not matter: without its questions a
\* game that has begun cannot be loaded.)
Save(m, changed) ==
    /\ meta' = m
    /\ whole' = (whole /\ Exists)
    /\ raised' = (raised \/ ~Exists)
    /\ LET t == Written(ttl, {"meta"} \cup changed) IN
       IF m.status = "finished"
       THEN /\ ttl' = Refresh(t, FinishedTTL)
            /\ attl' = Expired(attl, AnswersUpTo(m.idx), FinishedTTL)
       ELSE /\ ttl' = Refresh(t, IdleTTL)
            /\ UNCHANGED attl
    /\ UNCHANGED <<joined, stored, index, ittl, accepted, forgotten>>

StartQuestion ==
    LET m == snap["transition"] IN
    /\ pc["transition"] = "start"
    /\ Save([status |-> "running", idx |-> m.idx + 1, open |-> TRUE], {})
    /\ Ends("transition")

\* closeAnswersScript: it does not touch the time to live.
CloseAnswers ==
    LET m == snap["transition"] IN
    /\ pc["transition"] = "close"
    /\ IF Exists /\ meta.open /\ meta.idx = m.idx
       THEN /\ meta' = [meta EXCEPT !.open = FALSE]
            /\ Proceed("transition", "save")
            /\ UNCHANGED <<snap, who>>
       ELSE Ends("transition") /\ UNCHANGED meta
    /\ UNCHANGED <<whole, joined, stored, index, ttl, attl, ittl, accepted, forgotten, raised>>

SaveClose ==
    LET m == snap["transition"] IN
    /\ pc["transition"] = "save"
    /\ \E status \in {"running", "finished"}, changed \in {{}, {"players"}} :
         /\ m.idx = TotalQuestions - 1 => status = "finished"
         /\ Save([m EXCEPT !.status = status, !.open = FALSE], changed)
    /\ Ends("transition")

---------------------------------------------------------------------------
(* Answers, without the lock                                               *)

LoadForAnswer(a) ==
    /\ pc["answer"] = "idle"
    /\ Loadable /\ CanClose(meta)
    /\ a \in joined
    /\ Proceed("answer", "record")
    /\ snap' = [snap EXCEPT !["answer"] = meta]
    /\ who' = [who EXCEPT !["answer"] = a]
    /\ UNCHANGED <<data, accepted, forgotten, raised>>

\* Mutant: an answer need not live longer than a finished game.
MutantAnswerTTL(t, q) == Expired(Written(t, {q}), {q}, FinishedTTL)

\* Mutant: the hash of the answers is created and left without a time to live.
MutantAnswerForever(t, q) == Written(t, {q})

AnswerTTL(t, q) == Expired(Written(t, {q}), {q}, IdleTTL)

\* recordAnswerScript: only the answers' time to live is set.
RecordAnswer ==
    LET q == snap["answer"].idx  a == who["answer"] IN
    /\ pc["answer"] = "record"
    /\ IF Exists /\ CanClose(meta) /\ meta.idx = q /\ a \notin stored[q]
       THEN /\ stored' = [stored EXCEPT ![q] = @ \cup {a}]
            /\ attl' = AnswerTTL(attl, q)
            /\ accepted' = [accepted EXCEPT ![q] = @ \cup {a}]
       ELSE UNCHANGED <<stored, attl, accepted>>
    /\ Ends("answer")
    /\ UNCHANGED <<meta, whole, joined, index, ttl, ittl, forgotten, raised>>

---------------------------------------------------------------------------
(* The games of an actor                                                   *)

\* GamesOfActor: ZREVRANGE, EXISTS, and ZREM of what does not exist.
ReadIndex(a) ==
    /\ pc["list"] = "idle"
    /\ a \in index
    /\ Proceed("list", "exists")
    /\ who' = [who EXCEPT !["list"] = a]
    /\ UNCHANGED <<data, snap, accepted, forgotten, raised>>

\* Mutant: what is over is cleaned up as well.
MutantGone == ~Exists \/ meta.status = "finished"

Gone == ~Exists

CheckExists ==
    /\ pc["list"] = "exists"
    /\ Proceed("list", IF Gone THEN "zrem" ELSE "load")
    /\ UNCHANGED <<data, snap, who, accepted, forgotten, raised>>

RemoveGone ==
    /\ pc["list"] = "zrem"
    /\ index' = index \ {who["list"]}
    /\ ittl' = [ittl EXCEPT ![who["list"]] = 0]
    /\ Ends("list")
    /\ UNCHANGED <<meta, whole, joined, stored, ttl, attl, accepted, forgotten, raised>>

\* GamesOf: a game that is not found is skipped, any other error ends the listing.
LoadListed ==
    /\ pc["list"] = "load"
    /\ Ends("list")
    /\ UNCHANGED <<data, accepted, forgotten, raised>>

\* A call fails, or the instance stops.
Fail(p) ==
    /\ pc[p] # "idle"
    /\ Ends(p)
    /\ UNCHANGED <<data, accepted, forgotten, raised>>

---------------------------------------------------------------------------

Transition == AddPlayer \/ StartQuestion \/ CloseAnswers \/ SaveClose
List       == CheckExists \/ RemoveGone \/ LoadListed

Next ==
    \/ Tick
    \/ \E op \in {"join", "start", "close"}, a \in Actors : Load(op, a)
    \/ \E a \in Actors : LoadForAnswer(a) \/ ReadIndex(a)
    \/ Transition \/ RecordAnswer \/ List
    \/ \E p \in Procs : Fail(p)

\* Time passes; an operation goes on or fails.
Spec == /\ Init /\ [][Next]_vars
        /\ WF_vars(Tick)
        /\ WF_vars(Transition) /\ WF_vars(RecordAnswer) /\ WF_vars(List)

---------------------------------------------------------------------------
(* Properties *)

\* A game that can be found is complete: the main keys are refreshed together
\* and expire together, so that no request loads a game without its questions
\* or players, unless a start or close that was under way when the game expired
\* has brought its progress fields back.
WholeOrGone ==
    Exists /\ ~raised => whole /\ \A k \in Main : ttl[k] = ttl["meta"]

\* An accepted answer is there when the question is closed: as long as the game
\* lives and its question is open, no accepted answer has expired, though answers
\* do not refresh the game nor the game its answers.
AnswersOutliveQuestion ==
    Exists /\ meta.open => stored[meta.idx] = accepted[meta.idx]

\* A finished game leaves nothing behind: its answers go with it at the latest.
FinishedLeavesNothing ==
    Exists /\ meta.status = "finished" /\ ~raised =>
        \A q \in Questions : attl[q] <= ttl["meta"]

\* An actor finds its games ("existing games where the current actor is the host or
\* owns a player"): a listing that cleans up takes no game from the index that still
\* exists, whatever expires between its calls; only the expiry of the index itself
\* does.
ListedUnlessForgotten ==
    Exists /\ ~raised => joined \subseteq index \cup forgotten

\* Nothing of a game stays in Redis for ever: whatever was created along the way,
\* every key has a time to live in the end.
EverythingExpires ==
    <>[](/\ \A k \in Main : ttl[k] = 0
         /\ \A q \in Questions : attl[q] = 0
         /\ \A a \in Actors : ittl[a] = 0)
=============================================================================
