----------------------------- MODULE Connections -----------------------------
(***************************************************************************)
(* The WebSocket connections of one player to one game, over several       *)
(* backend instances.  An instance has a session (a hub and a subscription *)
(* to the game's channel) while some handler holds a reference to it.  A   *)
(* handler acquires the session, takes the connection's generation from a  *)
(* counter in Redis, announces it on the channel, upgrades the connection  *)
(* and registers it with the hub; the hubs close the connections that the  *)
(* announcements supersede.                                                *)
(*                                                                         *)
(* Announcements on their way to an instance are a set: Hub.Claim promises *)
(* to work in any order.  Faults says what may go wrong:                   *)
(*   "error"         a Redis call or the upgrade fails, a Redis call with  *)
(*                   or without having had its effect                      *)
(*   "crash"         an instance stops                                     *)
(*   "subscription"  the subscription of an instance reconnects, and what  *)
(*                   is published meanwhile never reaches its hub          *)
(*   "expiry"        the counters, whose life only a new connection        *)
(*                   extends, expire before the game does                  *)
(***************************************************************************)
EXTENDS Integers, FiniteSets

CONSTANTS
    Conns,      \* the connections the player opens, in any order
    Instances,  \* backend instances behind the load balancer
    NoConn,     \* no connection: nil
    Faults

ASSUME ConnsAssumption  == NoConn \notin Conns /\ IsFiniteSet(Conns)
ASSUME FaultsAssumption == Faults \subseteq {"error", "crash", "subscription", "expiry"}

VARIABLES
    alive,      \* Redis: the game's data has not expired
    counter,    \* Redis: the player's connection counter, 0 if absent
    refs,       \* instance -> references to its session, 0 if it has none
    inbox,      \* instance -> announced generations not delivered to its hub
    lost,       \* history: instance -> announced generations that its
                \* subscription has lost
    latest,     \* instance -> Hub.latest of the player
    client,     \* instance -> Hub.clients of the player
    pc,         \* the next step of each connection's handler
    at,         \* the instance each connection is on
    seq,        \* Client.seq
    open,       \* connections whose socket is open
    doomed,     \* connections a hub has dropped and not closed yet
    turn        \* history: the order in which generations were given

hubs == <<refs, inbox, lost, latest, client>>
vars == <<alive, counter, hubs, pc, at, seq, open, doomed, turn>>

Steps == {"new", "acquire", "claim", "announce", "upgrade", "register",
          "serve", "unregister", "release", "done"}

\* Handlers between a successful Acquire and their Release.
Holding == Steps \ {"new", "acquire", "done"}

Generations == 0 .. Cardinality(Conns)

TypeOK ==
    /\ alive \in BOOLEAN
    /\ counter \in Generations
    /\ refs \in [Instances -> Generations]
    /\ inbox \in [Instances -> SUBSET Generations]
    /\ lost \in [Instances -> SUBSET Generations]
    /\ latest \in [Instances -> Generations]
    /\ client \in [Instances -> Conns \cup {NoConn}]
    /\ pc \in [Conns -> Steps]
    /\ at \in [Conns -> Instances]
    /\ seq \in [Conns -> Generations]
    /\ open \in SUBSET Conns
    /\ doomed \in SUBSET Conns
    /\ turn \in [Conns -> Generations]

Init ==
    /\ alive = TRUE
    /\ counter = 0
    /\ refs = [i \in Instances |-> 0]
    /\ inbox = [i \in Instances |-> {}]
    /\ lost = [i \in Instances |-> {}]
    /\ latest = [i \in Instances |-> 0]
    /\ client = [i \in Instances |-> NoConn]
    /\ pc = [c \in Conns |-> "new"]
    /\ at \in [Conns -> Instances]
    /\ seq = [c \in Conns |-> 0]
    /\ open = {}
    /\ doomed = {}
    /\ turn = [c \in Conns |-> 0]

Goto(c, step) == pc' = [pc EXCEPT ![c] = step]

Replies == IF "error" \in Faults THEN BOOLEAN ELSE {TRUE}

---------------------------------------------------------------------------
(* GameHandler.WebSocket, one action per call that others can observe      *)

\* loadState: an expired game is unknown.
LoadState(c) ==
    /\ pc[c] = "new"
    /\ Goto(c, IF alive THEN "acquire" ELSE "done")
    /\ UNCHANGED <<alive, counter, hubs, at, seq, open, doomed, turn>>

\* gameSessionStore.Acquire: the first reference makes a new hub and
\* subscribes it; mu is held throughout.
Acquire(c) ==
    LET i == at[c] IN
    /\ pc[c] = "acquire"
    /\ refs' = [refs EXCEPT ![i] = refs[i] + 1]
    /\ Goto(c, "claim")
    /\ UNCHANGED <<alive, counter, inbox, lost, latest, client, at, seq, open, doomed, turn>>

\* The next generation: HINCRBY in ClaimConnection.  The counters live for
\* hours after the last claim and no handshake takes as long, so they are found
\* expired, if at all, when nothing is under way.
Found == {counter} \cup
    IF /\ "expiry" \in Faults
       /\ \A d \in Conns : pc[d] \notin {"announce", "upgrade", "register"}
       /\ \A i \in Instances : inbox[i] = {}
    THEN {0} ELSE {}

IncrCounter(c) ==
    /\ pc[c] = "claim"
    /\ turn' = [turn EXCEPT ![c] = 1 + Cardinality({d \in Conns : turn[d] > 0})]
    /\ \E n \in Found, ok \in Replies :
         /\ counter' = n + 1
         /\ IF ok THEN /\ seq' = [seq EXCEPT ![c] = n + 1]
                       /\ Goto(c, "announce")
                  ELSE /\ Goto(c, "release")
                       /\ UNCHANGED seq
    /\ UNCHANGED <<alive, hubs, at, open, doomed>>

\* The claim is published to every subscribed instance, this one included.  When
\* the reply is lost the Redis client publishes it again, or gives up.
Announce(c) ==
    /\ pc[c] = "announce"
    /\ inbox' = [i \in Instances |-> IF refs[i] > 0 THEN inbox[i] \cup {seq[c]} ELSE {}]
    /\ \/ Goto(c, "upgrade")
       \/ "error" \in Faults /\ (Goto(c, "announce") \/ Goto(c, "release"))
    /\ UNCHANGED <<alive, counter, refs, lost, latest, client, at, seq, open, doomed, turn>>

Upgrade(c) ==
    /\ pc[c] = "upgrade"
    /\ open' = open \cup {c}
    /\ Goto(c, "register")
    /\ UNCHANGED <<alive, counter, hubs, at, seq, doomed, turn>>

\* Mutant: a connection whose own claim was delivered first is refused.
MutantRefused(c) == seq[c] <= latest[at[c]]

Refused(c) == seq[c] < latest[at[c]]

\* Hub.Register.  A connection that it replaces is closed once mu is released.
Register(c) ==
    LET i == at[c] IN
    /\ pc[c] = "register"
    /\ IF Refused(c)
       THEN /\ open' = open \ {c}
            /\ Goto(c, "release")
            /\ UNCHANGED <<latest, client, doomed>>
       ELSE /\ latest' = [latest EXCEPT ![i] = seq[c]]
            /\ client' = [client EXCEPT ![i] = c]
            /\ doomed' = doomed \cup ({client[i]} \ {NoConn})
            /\ Goto(c, "serve")
            /\ UNCHANGED open
    /\ UNCHANGED <<alive, counter, refs, inbox, lost, at, seq, turn>>

\* ReadPump returns when the socket is closed.
PumpsReturn(c) ==
    /\ pc[c] = "serve"
    /\ c \notin open
    /\ Goto(c, "unregister")
    /\ UNCHANGED <<alive, counter, hubs, at, seq, open, doomed, turn>>

\* Mutant: whoever is registered is removed.
MutantUnregister(c) ==
    /\ pc[c] = "unregister"
    /\ client' = [client EXCEPT ![at[c]] = NoConn]
    /\ Goto(c, "release")
    /\ UNCHANGED <<alive, counter, refs, inbox, lost, latest, at, seq, open, doomed, turn>>

\* Hub.Unregister: only if c is still the player's connection.
Unregister(c) ==
    LET i == at[c] IN
    /\ pc[c] = "unregister"
    /\ client' = [client EXCEPT ![i] = IF @ = c THEN NoConn ELSE @]
    /\ Goto(c, "release")
    /\ UNCHANGED <<alive, counter, refs, inbox, lost, latest, at, seq, open, doomed, turn>>

\* Mutant: every handler that ends drops the session.
MutantRelease(c) ==
    LET i == at[c] IN
    /\ pc[c] = "release"
    /\ refs' = [refs EXCEPT ![i] = 0]
    /\ inbox' = [inbox EXCEPT ![i] = {}]
    /\ lost' = [lost EXCEPT ![i] = {}]
    /\ latest' = [latest EXCEPT ![i] = 0]
    /\ Goto(c, "done")
    /\ UNCHANGED <<alive, counter, client, at, seq, open, doomed, turn>>

\* gameSessionStore.Release: the last reference unsubscribes and forgets the hub.
Release(c) ==
    LET i == at[c]  last == refs[i] = 1 IN
    /\ pc[c] = "release"
    /\ refs' = [refs EXCEPT ![i] = refs[i] - 1]
    /\ inbox' = [inbox EXCEPT ![i] = IF last THEN {} ELSE @]
    /\ lost' = [lost EXCEPT ![i] = IF last THEN {} ELSE @]
    /\ latest' = [latest EXCEPT ![i] = IF last THEN 0 ELSE @]
    /\ client' = [client EXCEPT ![i] = IF last THEN NoConn ELSE @]
    /\ Goto(c, "done")
    /\ UNCHANGED <<alive, counter, at, seq, open, doomed, turn>>

---------------------------------------------------------------------------
(* The hub's subscription                                                  *)

Max2(a, b) == IF a > b THEN a ELSE b

\* Mutant: a claim is remembered only when there is a connection to close.
MutantClaim(i, s) ==
    LET c == client[i] IN
    /\ s \in inbox[i]
    /\ inbox' = [inbox EXCEPT ![i] = @ \ {s}]
    /\ IF c = NoConn \/ (c # NoConn /\ seq[c] >= s)
       THEN UNCHANGED <<latest, client, doomed>>
       ELSE /\ latest' = [latest EXCEPT ![i] = Max2(@, s)]
            /\ client' = [client EXCEPT ![i] = NoConn]
            /\ doomed' = doomed \cup {c}
    /\ UNCHANGED <<alive, counter, refs, lost, pc, at, seq, open, turn>>

\* Hub.Claim(s), called for an announcement received from Redis.
Claim(i, s) ==
    LET c == client[i]
        older == {d \in {c} \ {NoConn} : seq[d] < s}
    IN  /\ s \in inbox[i]
        /\ inbox' = [inbox EXCEPT ![i] = @ \ {s}]
        /\ latest' = [latest EXCEPT ![i] = Max2(@, s)]
        /\ client' = [client EXCEPT ![i] = IF c \in older THEN NoConn ELSE c]
        /\ doomed' = doomed \cup older
        /\ UNCHANGED <<alive, counter, refs, lost, pc, at, seq, open, turn>>

\* The connection of the subscription to Redis breaks and the client makes it
\* again: what was published meanwhile is lost for this instance.  One message at
\* a time, since each may have arrived before the break.
Resubscribe(i) ==
    /\ "subscription" \in Faults
    /\ \E s \in inbox[i] :
         /\ inbox' = [inbox EXCEPT ![i] = @ \ {s}]
         /\ lost' = [lost EXCEPT ![i] = @ \cup {s}]
    /\ UNCHANGED <<alive, counter, refs, latest, client, pc, at, seq, open, doomed, turn>>

\* Client.Close of a connection that Register or Claim dropped.
CloseDropped(c) ==
    /\ c \in doomed
    /\ doomed' = doomed \ {c}
    /\ open' = open \ {c}
    /\ UNCHANGED <<alive, counter, hubs, pc, at, seq, turn>>

---------------------------------------------------------------------------
(* The rest of the world                                                   *)

\* The client leaves, stops answering pings, or the connection breaks.
Disconnect(c) ==
    /\ c \in open
    /\ open' = open \ {c}
    /\ UNCHANGED <<alive, counter, hubs, pc, at, seq, doomed, turn>>

\* Redis drops the game.
GameExpires ==
    /\ alive
    /\ alive' = FALSE
    /\ UNCHANGED <<counter, hubs, pc, at, seq, open, doomed, turn>>

\* The connection is closed and stays registered until its handler unregisters it.
CloseAll(i) == open' = open \ {client[i]}

\* sweepSessions and Remove.
Sweep(i) ==
    /\ ~alive /\ refs[i] > 0
    /\ CloseAll(i)
    /\ UNCHANGED <<alive, counter, hubs, pc, at, seq, doomed, turn>>

\* Mutant: Release is deferred before Acquire is known to have succeeded.
MutantFail(c) ==
    /\ "error" \in Faults
    /\ pc[c] \in {"acquire", "claim", "announce", "upgrade"}
    /\ Goto(c, "release")
    /\ UNCHANGED <<alive, counter, hubs, at, seq, open, doomed, turn>>

\* A call fails without effect; nothing is released before Acquire.
Fail(c) ==
    /\ "error" \in Faults
    /\ \/ pc[c] \in {"new", "acquire"} /\ Goto(c, "done")
       \/ pc[c] \in {"claim", "announce", "upgrade"} /\ Goto(c, "release")
    /\ UNCHANGED <<alive, counter, hubs, at, seq, open, doomed, turn>>

\* Instance i stops, with its hub, its handlers and its connections.
Crash(i) ==
    LET here == {c \in Conns : at[c] = i /\ pc[c] # "new"} IN
    /\ "crash" \in Faults
    /\ refs[i] > 0
    /\ pc' = [c \in Conns |-> IF c \in here THEN "done" ELSE pc[c]]
    /\ open' = open \ here
    /\ doomed' = doomed \ here
    /\ refs' = [refs EXCEPT ![i] = 0]
    /\ inbox' = [inbox EXCEPT ![i] = {}]
    /\ lost' = [lost EXCEPT ![i] = {}]
    /\ latest' = [latest EXCEPT ![i] = 0]
    /\ client' = [client EXCEPT ![i] = NoConn]
    /\ UNCHANGED <<alive, counter, at, seq, turn>>

---------------------------------------------------------------------------

Handler(c) ==
    \/ Acquire(c) \/ IncrCounter(c) \/ Announce(c) \/ Upgrade(c) \/ Register(c)
    \/ PumpsReturn(c) \/ Unregister(c) \/ Release(c)

Deliver(i) == \E s \in inbox[i] : Claim(i, s)

Next ==
    \/ \E c \in Conns : \/ LoadState(c) \/ Handler(c) \/ CloseDropped(c)
                        \/ Disconnect(c) \/ Fail(c)
    \/ \E i \in Instances : Deliver(i) \/ Resubscribe(i) \/ Sweep(i) \/ Crash(i)
    \/ GameExpires

Spec == Init /\ [][Next]_vars

---------------------------------------------------------------------------
(* Properties *)

Live(c) == pc[c] = "serve" /\ c \in open

\* c is about to be closed: a newer generation is known to, or on its way to,
\* its hub.
Superseded(c) == c \in doomed \/ \E s \in inbox[at[c]] : s > seq[c]

\* One connection per player, over all instances: of two live connections the older
\* one is already being closed, or the announcement of a newer one is on its way to it.
\* Only a broken subscription leaves a duplicate, where the instance of the older one
\* lost the very announcement of the other; no failed call, crash, release of a session
\* or order of messages does, and the next announcement that arrives mends it.  ("A
\* player therefore has one live connection across all instances", the comment of
\* ClaimConnection, does not mention that case.)
OneConnectionUnlessLost ==
    \A c, d \in Conns : Live(c) /\ Live(d) /\ turn[c] < turn[d] =>
        Superseded(c) \/ seq[d] \in lost[at[c]]

\* The newest connection always wins, whatever the order of the messages: a
\* hub drops or refuses a connection only for one that was opened later.
NewestWins ==
    [][\A c \in Conns :
          (c \in doomed' \ doomed \/ (pc[c] = "register" /\ pc'[c] = "release")) =>
              \E d \in Conns : turn[d] > turn[c]]_vars

\* A session lives exactly as long as the handlers that use its hub: its
\* references are theirs, and it is gone (and unsubscribed) with the last.
SessionHeld ==
    \A i \in Instances :
        /\ refs[i] = Cardinality({c \in Conns : at[c] = i /\ pc[c] \in Holding})
        /\ client[i] # NoConn => /\ at[client[i]] = i
                                 /\ pc[client[i]] \in {"serve", "unregister"}

\* No live connection is out of reach: unless it is about to be closed, its hub
\* has it, so that it gets the game's events, a newer connection closes it and
\* so does the sweep when the game expires.  (A replaced connection that shuts
\* down late must leave the new one in place.)
LiveIsRegistered ==
    \A c \in Conns : Live(c) /\ c \notin doomed => client[at[c]] = c
=============================================================================
