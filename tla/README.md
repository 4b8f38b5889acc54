# Verification of quiz-backend

TLA+ models of the quiz backend in `src/`, checked with TLC on small instances,
and theorems about them checked with TLAPS for all instances.

## The system

Several stateless API instances serve games whose state lives in Redis. Players
talk to any instance over HTTP and WebSocket.

| component | state | operations | interacts through |
|---|---|---|---|
| game rules (`game/engine.go`, `game/state.go`) | none: functions of a loaded `State` | guards and effects of join, start, answer, close | called by the engine |
| game engine (`game/engine.go`, `redis/gamestate.go`) | Redis: meta hash, players hash, one answers hash per question, lock key | `AddPlayer`, `StartNextQuestion`, `SubmitAnswer`, `CloseQuestion` | lock, transactions and Lua scripts |
| answer deadlines (`game/manager.go`) | Redis: one sorted set | schedule, cancel, claim, close | every instance polls |
| events (`redis/broadcaster.go`) | Redis channel per game | publish, forward | pub/sub |
| connections (`ws/`, `app/app.go`, `handler/game.go`) | per instance: sessions with a hub; Redis: a counter per player | acquire, claim, register, unregister, release, sweep | pub/sub, mutexes |
| history (`handler/game.go`, `postgres/`) | Postgres tables | best-effort writes after each transition | callbacks |
| catalog (`handler/question_list.go`, `handler/theme.go`) | Postgres tables | CRUD, reordering | SQL |
| authentication (`auth/`) | signed cookies | login, callback, middleware | OIDC provider |

What makes each correct:

- **rules**: lives account for exactly the answers that were counted; a game ends
  when, and for the reason that, its rules say; nothing decided is taken back.
- **engine**: concurrent operations, each of several Redis calls, look atomic; an
  accepted answer is counted; what is announced is true.
- **deadlines**: a timed question is closed, once, and not before its time.
- **catalog**: positions of a list are 0..n-1; the theme of a question is global or of
  its list; a request touches only the list whose access was checked.
- **history**: Postgres never says more than has happened in the game, and says all
  of it once the statements are executed.
- **events**: a client that was greeted misses nothing that happens afterwards, and
  gets nothing twice.
- **lifetime**: the keys of a game, each with its own time to live, behave like one.
- **connections**: one connection per player over all instances, the newest; a
  session lives as long as the handlers that use it.

What is hard: the steps of several instances interleave on shared Redis keys; the
lock expires; `SubmitAnswer` takes no lock; a close is two writes; a deadline is
removed before it is acted on; events go out after the lock is released; claims
arrive in any order; everything in Redis has a TTL. `PROJECT.json` lists these
hazards at their lines.

## Modules

| module | models |
|---|---|
| `GameRules` | the pure rules: what is stored, the guards (one conjunct per early return), what a close computes |
| `GameSpec` | one game with atomic operations: what the engine promises |
| `GameEngine` | the engine as processes that take one Redis call per step; implements `GameSpec` |
| `Leader` | `GameSpec` composed with the loop of `State.leader` that finds the winner when the game ends |
| `Connections` | the connections of one player over several instances |
| `EventDelivery` | the events of a game on their way to the connections of one player on one instance |
| `GameHistory` | `GameSpec` composed with the rows and the pending statements of its history in Postgres |
| `GameLifetime` | the times to live of the keys of a game, and the index of an actor's games |
| `Catalog` | question lists, questions and themes edited by concurrent requests |
| `GameSpecProofs`, `GameEngineProofs`, `LeaderProofs`, `ConnectionsProofs`, `EventDeliveryProofs`, `GameHistoryProofs`, `GameLifetimeProofs`, `CatalogProofs` | the theorems about the module named and their proofs |
| `MC*` | instances for TLC |

`GameEngine`: `meta`, `players`, `answers`, `lock` and `deadlines` are the Redis
keys of a game; `pc`, `req`, `snap`, `out` and `claimed` are what a goroutine holds
(its next call, its request, the `State` it loaded, the events it still has to
publish, the deadlines it claimed). A worker serves client requests, a poller runs
`RunDeadlines`. `LoadMeta` and `LoadPlayers` are two steps because `Load` is a
pipeline and no transaction. The answers are read in the step of `LoadPlayers`: they
belong to the question the loaded index names, and only `SubmitAnswer` looks at
them, in a check that `recordAnswerScript` repeats. `published` and `settled` are
history variables. `Faults` switches on crashes (`"crash"`), calls that fail with or
without effect (`"error"`), a lock that is not free within `lockWait`
(`"contention"`) and a live holder slower than `lockTTL` (`"slow"`). Definitions
named `Mutant...` are plausible bugs; nothing uses them except the checks that the
properties can fail.

`Connections`: `counter` is the player's field of the `conns` hash; `refs`, `inbox`,
`latest` and `client` are the session, the announcements on their way to it and the
two maps of its hub, per instance; `pc`, `at`, `seq` belong to a handler of
`GET /ws`; `open` are the sockets, `doomed` the connections a hub has dropped under
its mutex and not yet closed. `turn` is a history variable: the real order of the
connections, which the generations are meant to reflect. Announcements are a set, so
they arrive in any order; one may be published, and arrive, more than once, since the
Redis client sends a command again when its reply is lost. `Resubscribe` loses one
(fault `"subscription"`): the subscription to the channel broke, and what is published
until the client has made it again never arrives. `lost` is a history variable, the
announcements that an instance lost.

`GameHistory` extends `GameSpec`: every transition of the game hands its statements
to a handler (`todo`), which executes them in its own order and in any order with
those of other handlers; `gameRow` and `rows` are the tables. An update of a row that
is missing changes nothing and a player's row needs the game's, as in the schema. A
statement may fail, and a handler may be lost with its instance (`HistoryFaults`).
`spoiled` is a history variable: the rows a failed statement was about, or that two
handlers wrote at once; these may stay wrong for good (the row of a finished game
that says running, lives of an earlier question), which the code accepts
("best-effort").

`EventDelivery`: changes of the game are numbered, event n announces change n, and a
snapshot is the number of changes it includes. `channel` is what the subscription of
the session has yet to forward, `latest` and `client` the maps of the hub, `buf` and
`read` the send buffer of a connection and what was written to its socket. Claims and
their failures are detailed in `Connections`; here they are one step that succeeds.
`missed` is a history variable: what a connection cannot get any more, because the
publication failed, the subscription reconnected, the buffer was full or the state
could not be reloaded. `sent` is another: the events in the order in which Redis
published them, with the copies that the client had published again because it did not
hear the reply (`PublishUnheard`, fault `"retry"`). What the code does not promise shows
in the model too: a greeting may follow an event that is newer than its snapshot, and the greeting of a
connection that is replaced meanwhile goes to the newer one.

`GameLifetime`: `ttl`, `attl` and `ittl` are the times to live of the main keys, the
answers and the indexes (0: no such key; `Forever`: none set), `meta`, `joined`,
`stored` and `index` what is in them. A transition, an answer and a listing run at
the same time, each of their Redis calls is a step, and the clock may tick between
two of them. What a close decides is left open. History variables: `accepted` are the
answers that were accepted; `forgotten` the actors whose index expired although their
game lives (only joins refresh an index, so this happens in a game that is played
for longer than `GAME_IDLE_TTL`); `raised` says that `Save` brought back the progress
fields of a game that had expired since it was loaded, a game without questions that
cannot be loaded and is listed with an error until it expires again.

`Catalog`: `lists`, `themes` and `questions` are the tables, `pc` and `req` what a
request has done and read. Every SQL statement is a step; what kind of request it is
shows only when it does something of that kind, which keeps the state space small. A
deletion is a transaction of three steps: `DeleteRow` locks the row; `NumberRows` is the
snapshot of the second statement, which numbers the questions that are left; and
`CommitDelete` is what that statement writes, and COMMIT. Nothing locks the list between
the last two, so a question can be added there. A question deleted by a transaction that
has not committed is still there and locked: statements that write it wait, and two
deletions in one list wait for each other until `Fail` ends one, as Postgres does.
History variables: `stale` are the requests that go by a count, an order or a numbering
of a list that another request has written since; `overlapped` the lists that such a
request has written and that were not numbered as a whole since. Nothing is assumed about
how `Users` and `Admins` relate: an admin may also own a private list, as `canEditList`
compares only IDs there (the run has one of each; the theorems are about any).

## Runs

Passing:

| run | instance | shows |
|---|---|---|
| `game_rules` | 3 players, 3 questions, 2 lives, 3 options | `LivesMatchAnswers`, `EndedForItsReason`, `AnswersAreFinal`, `OnlyForward` of the atomic game; `LeaderIsStrict`: its winner is the survivor with strictly the most lives, in whatever order the IDs are scanned |
| `engine` | 2 workers, 1 poller, 2 players, 2 timed questions, 2 lives, correct answers only | no fault: `Serialized`, `ClosedQuestionsSettled`, `AnnouncedIsTrue`, `CloseEventsInOrder`, `NoEarlyClose`, and the engine implements `GameSpec` |
| `engine_faults` | 1 worker, 1 poller, crashes, errors, contention | `Serialized`, `AnnouncedIsTrue`, and the engine implements `GameSpec` with questions that may end without penalties |
| `engine_live` | 1 worker, 2 pollers, fairness | `DeadlinesHonored`, `GameOverAnnounced` |
| `connections` | 3 connections, 2 instances, errors and crashes | `OneConnectionUnlessLost`, `NewestWins`; `LiveIsRegistered`: the hub has every live connection, so that events, newer connections and the sweep of expired games reach it; `SessionHeld`: a session lives exactly as long as its handlers |
| `connections_lossy` | 3 connections, 2 instances, subscriptions that reconnect | `OneConnectionUnlessLost`: two live connections remain only where the announcement of the newer one was lost itself; no other loss, and no order of the rest, leaves a duplicate |
| `game_history` | 2 players, 2 questions, 2 lives, failing statements, crashes | `HistoryNeverAhead`: a row never says running, finished, eliminated or a life less before it is so, whatever is late, lost or out of order; `HistoryCatchesUp`: a row whose statements are executed says what the game says unless it is `spoiled` |
| `events` | 2 connections, 2 changes, buffer of 2, every fault | `NoGap`: what changed after the snapshot of a greeting is queued or will be, and so is the greeting, unless it is in `missed`; `InOrderOnce`: events in the order of publication, and one a second time only if Redis published it a second time |
| `lifetime` | 2 actors, 2 questions, idle games live for 3 ticks and finished ones for 1, fairness | `WholeOrGone`, `AnswersOutliveQuestion`, `FinishedLeavesNothing`; `ListedUnlessForgotten`: the clean-up of a listing takes no game from its players; `EverythingExpires`: in the end no key is left |
| `catalog` | 2 requests, a public and a private list, 1 theme, 3 questions | `ThemeInScope`, `EditorsOnly`; `ContiguousUnlessOverlapped`: order indexes are 0..n-1 unless a request whose reading of the list was overtaken has written it, and the next deletion or reordering that numbers the whole list mends them; `DeleteKeepsOrder`: a deletion that was not overtaken leaves 0..n-1 in the old order, and none gives two questions that it numbers the same position |

Disagreements between the documentation and the code (each run stops with a
counterexample; `findings` in `PROJECT.json` quotes the lines):

| run | what happens |
|---|---|
| `stale_deadline` | a start fails after `ScheduleClose`; the poller that claimed that deadline closes the question of the next attempt at once |
| `counter_expiry` | the connection counters expire in a game that is still played; a reconnect gets a low generation and is refused |

Limits of the code that the passing runs take into account:

- A holder slower than `lockTTL` (`"slow"`) writes over a later transition, because no
  write checks the token. `EngineSerialized` assumes that nobody is.
- If an instance stops, or Redis fails, between `CloseAnswers` and `Save`, accepted
  answers are never counted. `ImplementsGameSpec` under faults allows exactly that
  (`Abandon`), and `ClosedQuestionsSettled` is checked without faults only.
- An announcement that is lost while a subscription reconnects is not repeated: the
  older connection of the player stays live beside the newer one, and gets the events of
  the game, until it is closed or a later announcement arrives. The comment of
  `ClaimConnection` ("one live connection across all instances") and the repository's
  README ("never leave a duplicate") do not mention that; `OneConnectionUnlessLost` allows
  exactly that and nothing else, and run `connections_lossy` has such states.
- The position of a new question is counted in one statement and stored in another, and a
  deletion renumbers in one and commits in another; a request that is overtaken there
  leaves a gap or a duplicate (`overlapped`). Deleting A of A0 B1 C2 while D, counted
  before, is inserted at 3 leaves B0 C1 D3, though the comment of
  `QuestionStore.DeleteQuestion` promises 0..n-1. `DeleteKeepsOrder` promises it to a
  deletion that nobody overtakes.
- go-redis sends a command again when the reply is lost. Publications sent twice are
  modelled in `EventDelivery` and `Connections`; to `GameEngine` a publication and its
  repetition are one. For other commands it makes nothing new: a generation counted twice skips
  one; an answer, a lock or a save executed twice has the effect of one whose call
  failed after taking effect, which `"error"` covers.
- A deadline claimed by an instance that then stops is gone; `DeadlinesHonored` is
  checked without faults, and only the host can then close the question.
- `game/store.go` says that every write refreshes the expiry of a game; answers do
  not. A question left open for longer than `GAME_IDLE_TTL` takes its game with it,
  however many players answer. `AnswersOutliveQuestion` shows that no answer is
  counted as missing for that.
- `EverythingExpires` is about the keys of one game and the indexes of its actors. The
  sorted set of deadlines is shared by all games and has no time to live; the deadline
  of a game that has expired leaves it when a poller claims it.

**Bounds.** Two questions are the least with a question before and after another
(stale deadlines, wrong index, last question); two players the least with a last
player standing, all eliminated and a draw. `engine` needs two lives: with one, a
player who lets a question pass is eliminated and no answer to a past question can
still be under way. To keep them small, the clients of `engine` and `engine_faults` send
only correct answers, or none, which costs a life as a wrong one does; wrong ones are in
`game_rules`, `engine_live` and `game_history`. Two workers and a poller cover every pair
of operations, the host racing a deadline included. Three connections on two instances are the least where a
connection is neither the oldest nor the newest and two share an instance; errors and
crashes, and losses, are two runs of that size. In
`events` two connections are the least of which one replaces the other, and a buffer
of two is the least that holds a greeting and an event and can be filled by three
messages; `MaxChanges` bounds the changes, and `MaxRetries`, by how much the publications
may exceed the changes, is 1, the least with an event that comes twice. Three players,
in `game_rules`, are the least with one eliminated while the others play on, and with a
tie that a third breaks. In `lifetime` an idle game outlives a
finished one, as by default, and by enough ticks for an index, the answers and the
game to be of three different ages. In `game_history` two questions and two lives
give a player two updates that can overtake each other, and the default number of
lives differs from the game's. In
`catalog` three questions are the least of which two are left in an order when one is
deleted, and one theme is enough to be of the wrong list; `MaxQuestions` bounds the
questions ever added, `Capacity` those in each list (three and one), and `OwnersOf`
who creates which list. No other counter is cut
off: questions of a game, answers and connections are finitely many.

**Fairness.** A request that has begun takes its next step (goroutines run, Redis
answers or the call fails), every instance polls (`RunDeadlines` ticks every 250 ms),
time reaches deadlines, an abandoned lock expires. The
lock is handed out with strong fairness: waiters poll it with a backoff of at most
about 64 ms and holders keep it for a few calls. `Busy` is possible only under
`"contention"` or with a lock left behind, and no request is ever obliged to arrive.
In `GameLifetime` time passes (`Tick`), a call that was made returns or fails, and the
clock does not tick twice within one operation: the calls of an operation take
seconds, and the contexts of requests end them, while times to live are minutes at
least. The other specifications have no fairness: their properties are safety.
`CHECK_DEADLOCK FALSE` is used where the system may stop: a game that is over and
has nobody to join, connections that are all closed, a game of which nothing is left.

## Proofs

Every safety property that a run checks, except the ones of the runs that stop
with a counterexample, is also a theorem, for every value of the constants: any
number of players, questions, options, lives, workers, pollers, connections,
instances, requests, changes, any size of a buffer and any times to live. `theorems`
in `PROJECT.json` lists them. Each proof has the same shape: an inductive invariant,
one lemma per group of actions, and frame lemmas for the processes, connections or
requests that do not move.

Hypotheses beyond the `ASSUME`s of the modules, and why they are needed:

- *nobody outlives the lock* (`NoSlow`: `"slow"` is not a fault), in the theorems about
  the engine. No write checks the lock's token, so without it they are false.
- *nothing is lost* (`NoLoss`: no crash, no failed call, nobody slow), for
  `EngineClosedQuestionsSettled` and `EngineNoEarlyClose`. A close that stops between
  its two writes leaves a question without penalties; a start that fails after
  `ScheduleClose` leaves a deadline behind (run `stale_deadline`).
- *the counters do not expire in a game that is played* (`"expiry"` is not a fault),
  for `ConnectionsOneConnectionUnlessLost` and `ConnectionsNewestWins`; run
  `counter_expiry` shows what happens otherwise. That no announcement is lost is not
  assumed.

**`GameSpecProofs`.** `ProgressInv` (only a running game has an open question, nothing
is settled beyond the current one) makes `TypeOK` inductive and is what
`GameLivesMatchAnswers` and `GameEndedForItsReason` need: the question that is settled
now was not settled before, so each answer costs at most one life. The end of the game
also needs that finitely many players have joined (`FiniteInv`), whoever may.
`GameAnswersAreFinal` and `GameOnlyForward` follow action by action.

**`GameEngineProofs`.** The invariant is built in layers. `TypeInv`: `TypeOK` alone is
not inductive, since a step that computes an index from the loaded state needs the guard
that was checked when it was loaded (`RequestInv`, `ReadyFor`). `LockInv`: whoever is in
the critical section holds the lock. `SerialInv`: what such a process has loaded is what
is stored, also between the two reads of `Load`, whence `EngineSerialized`. `CheckedInv`
carries the guards checked on the loaded state over to the stored one. With these,
`EngineImplementsGame` shows the refinement step by step: joins, starts and answers map to
those of `GameSpec`, the first write of a close to no step and its second to the close, a
close that stops half way to `Abandon`, and everything else to no step.
`EngineKeepsTheRules` transfers the theorems about `GameSpec` through it. The remaining
invariants are about history: `TruthInv` (events not yet sent are true, and stay so because
the game only moves forward) for `EngineAnnouncedIsTrue`; `SettledInv` for
`EngineClosedQuestionsSettled`; `OrderInv` (one process holds all unsent events about the
close of a question, and events are about settled questions) for
`EngineCloseEventsInOrder`; `DeadlineInv` and `PollerInv` (nobody wants to close a question
whose deadline is ahead) for `EngineNoEarlyClose`.

**`GameHistoryProofs`.** `HistoryImplementsGame` makes the theorems about `GameSpec`
available. `HistoryIsNeverAhead` needs that no *pending* statement is ahead of the game
either (`StatementAhead`), which later steps keep since lives only fall and the status only
moves on. `HistoryAlwaysCatchesUp` needs, for every row that is not spoiled, what it will
say once its pending statements are executed (`RowSound`, `GameRowSound`).

**`GameLifetimeProofs`.** `LockInv` says what a transition still knows of the game it
loaded. `WholeOrGone` then is inductive; `AnswersOutliveQuestion` needs that answers live at
least as long as the open game they belong to (`AnswersInv`), `FinishedLeavesNothing` that no
game lives for ever (`FinishedInv`), and `ListedUnlessForgotten` that a listing about to
remove a game has seen it gone, which it stays (`ListedInv`).

**`ConnectionsProofs`.** `SessionHeld` is inductive with the types and `ClaimInv`, and
`LiveIsRegistered` on top of it. The order of connections needs `TurnsInv` (generations are
the real order), `LatestInv`, `GivenInv` and the heart of the argument, `HeardInv`: a hub with
an older connection has heard of a newer one that was announced, has the announcement in
its inbox or has lost it, because the older handler held the session, and its subscription,
before.

**`EventDeliveryProofs`.** `TypeInv` counts: the references to the session are the
connections whose handler holds one, the generations those that were counted. For
`EventsNoGap`, `GapFor` adds that the player's connection belongs to a handler past its
registration; so it holds the session, and what is published reaches the channel
(`ClientHeld`). For `EventsInOrderOnce`, `OrderInv` says that socket, buffer and channel are each in the
order of `sent`, which may name an event twice, and follow one another; a
connection that is not registered was sent nothing, so the channel may become its own. The
sequence lemmas (`AppendEvents`, `TailEvents`, `OrderedConcat`, ...) are stated once.

**`CatalogProofs`.** `RequestInv` says what a request still knows of what it checked in an
earlier statement (a theme is in scope or gone, a question is of the loaded list or gone),
`CountInv` that a count never exceeds the questions made; `TablesMove` is what any step may do
to the tables. `CatalogEditorsOnly` needs `EditInv`: a list keeps its owner until it is gone,
questions are of lists that exist, a locked row stays. The order of questions needs `PlanInv`: what a
request has counted, checked or numbered of a list (`UpToDate`) is still so unless the
request is in `stale`. `ListWrite` shows once for all writes that a request
relying on the list is then overtaken; `PlacedContiguous` that rows placed where an order of
all of them has them have 0..n-1. With `ContiguousInv` as inductive invariant they give
`CatalogContiguous` and, since what `NumberRows` computed is in order whatever the stored
positions were (`OrderContiguous`), `CatalogDeleteKeepsOrder`.

**`LeaderProofs`.** The composition implements `GameSpec`, so what is proved of the game
holds (`GameFacts`: finitely many survivors, each with lives left). `ScanInv` says what
`leader`, `best` and `tied` mean for the IDs scanned so far; `LeaderCorrect` is its last
instance.

Assumptions on the constants are the
named `ASSUME`s of the modules, each with the code that enforces it; TLC evaluates them in
every run. Only model-checked are the liveness properties (`DeadlinesHonored`,
`GameOverAnnounced`, `EverythingExpires`): fairness is out of the prover's reach.

## Not modelled

- Authentication: the server keeps no state of a login or a session; whether a request
  is accepted is decided by verifying the token it carries, and what makes that right
  is in the JWT and OIDC libraries and the provider.
- Configuration, health checks, CORS, start-up: no protocol of their own.
- The host check of start and close: it compares values that never change.
- Names, texts and options in the catalog, the requests that only change those, and
  listings: no decision depends on them.
- Contents of events, views and error codes: formatting.
- The orderly shutdown of an instance: to the others it is a crash.

## Plan

Done, in this order: rules, atomic game, engine with faults, deadlines, leader,
connections, catalog, history, events, lifetime; then the theorems, component by
component. Left:

1. What `NoLoss` hides: which part of `ClosedQuestionsSettled` and `NoEarlyClose` survives
   a crash or a failed call (only the question whose close or start was under way).
2. The step from liveness to safety: an invariant that says which process or poller is
   responsible for a due deadline, so that `DeadlinesHonored` rests on it.
