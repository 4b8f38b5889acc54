--------------------------- MODULE EventDelivery ---------------------------
(***************************************************************************)
(* The way of a game's events to the connections of one player on one      *)
(* instance.  A change of the game is published on its channel after it    *)
(* was made; the instance, while it has a session for the game, gets what  *)
(* is published and hands it to the hub, which queues it in the send       *)
(* buffer of the player's connection; a pump writes the buffer to the      *)
(* socket.  A new connection is greeted with a snapshot of the game        *)
(* (game_joined), queued by its handler and not sent through the channel.  *)
(*                                                                         *)
(* Changes are numbered; change n is announced by event n, and a snapshot  *)
(* is the number of changes it includes.  How a generation is counted and  *)
(* announced is detailed in module Connections; here it is one step.       *)
(*                                                                         *)
(* Faults:                                                                 *)
(*   "publish"       an event cannot be published                          *)
(*   "retry"         the reply to a PUBLISH is lost and the Redis client   *)
(*                   sends it again                                        *)
(*   "subscription"  the subscription reconnects and loses messages        *)
(*   "reload"        the game cannot be loaded again for the greeting      *)
(***************************************************************************)
EXTENDS Integers, Sequences, FiniteSets, SequencesExt

CONSTANTS
    Conns,       \* the connections the player opens
    NoConn,
    MaxChanges,  \* bound: changes of the game
    MaxRetries,  \* bound: publications beyond one of each change
    BufferSize,  \* messages a connection's buffer holds (256)
    Faults

ASSUME ConnsAssumption  == NoConn \notin Conns /\ IsFiniteSet(Conns)
ASSUME BoundsAssumption ==
    MaxChanges \in Nat /\ MaxRetries \in Nat /\ BufferSize \in Nat \ {0}
ASSUME FaultsAssumption == Faults \subseteq {"publish", "retry", "subscription", "reload"}

VARIABLES
    version,    \* changes made so far: the state in Redis
    unsent,     \* changes whose publication is not over
    counter,    \* the player's connection counter in Redis
    refs,       \* references to the instance's session
    channel,    \* messages published and not yet received by the session
    latest,     \* Hub.latest of the player
    client,     \* Hub.clients of the player
    pc, seq,    \* connection -> next step of its handler; its generation
    first,      \* connection -> snapshot of the handshake
    snap,       \* connection -> snapshot it is greeted with
    buf,        \* connection -> its send buffer
    read,       \* connection -> messages written to its socket
    closed,     \* connections whose socket is closed
    sent,       \* history: events in the order in which Redis published them
    missed      \* history: connection -> events it cannot count on any more, 0
                \* for its greeting

hub  == <<refs, channel, latest, client>>
game == <<version, unsent, sent>>
vars == <<game, hub, counter, pc, seq, first, snap, buf, read, closed, missed>>

Versions == 0 .. MaxChanges
Messages == [type : {"event", "joined", "claim"}, n : Nat]

Event(n)  == [type |-> "event", n |-> n]
Joined(n) == [type |-> "joined", n |-> n]
Claim(n)  == [type |-> "claim", n |-> n]

Steps == {"new", "acquire", "claim", "register", "reload", "greet", "serve",
          "refused", "done"}

TypeOK ==
    /\ version \in Versions
    /\ unsent \in SUBSET (1 .. version)
    /\ counter \in 0 .. Cardinality(Conns)
    /\ refs \in 0 .. Cardinality(Conns)
    /\ channel \in Seq(Messages)
    /\ latest \in 0 .. counter
    /\ client \in Conns \cup {NoConn}
    /\ pc \in [Conns -> Steps]
    /\ seq \in [Conns -> 0 .. counter]
    /\ first \in [Conns -> 0 .. version]
    /\ snap \in [Conns -> 0 .. version]
    /\ \A c \in Conns : /\ buf[c] \in Seq(Messages) /\ Len(buf[c]) <= BufferSize
                        /\ read[c] \in Seq(Messages)
    /\ closed \in SUBSET Conns
    /\ sent \in Seq(1 .. version)
    /\ missed \in [Conns -> SUBSET Versions]

Init ==
    /\ version = 0
    /\ unsent = {}
    /\ counter = 0
    /\ refs = 0
    /\ channel = <<>>
    /\ latest = 0
    /\ client = NoConn
    /\ pc = [c \in Conns |-> "new"]
    /\ seq = [c \in Conns |-> 0]
    /\ first = [c \in Conns |-> 0]
    /\ snap = [c \in Conns |-> 0]
    /\ buf = [c \in Conns |-> <<>>]
    /\ read = [c \in Conns |-> <<>>]
    /\ closed = {}
    /\ sent = <<>>
    /\ missed = [c \in Conns |-> {}]

Goto(c, step) == pc' = [pc EXCEPT ![c] = step]

\* What everybody misses who has a snapshot already.
AllMiss(S) ==
    missed' = [c \in Conns |-> IF pc[c] \in {"greet", "serve"} THEN missed[c] \cup S ELSE missed[c]]

---------------------------------------------------------------------------
(* The game, changed by any instance                                       *)

Change ==
    /\ version < MaxChanges
    /\ version' = version + 1
    /\ unsent' = unsent \cup {version + 1}
    /\ UNCHANGED <<sent, hub, counter, pc, seq, first, snap, buf, read, closed, missed>>

\* Redis hands a message to those subscribed when it is published.
Published(m) == IF refs > 0 THEN Append(channel, m) ELSE channel

\* Mutant: every reference to the session has a subscription of its own.
MutantPublish(n) ==
    /\ n \in unsent
    /\ unsent' = unsent \ {n}
    /\ sent' = Append(sent, n)
    /\ channel' = channel \o [i \in 1 .. refs |-> Event(n)]
    /\ UNCHANGED <<version, refs, latest, client, counter, pc, seq, first, snap,
                   buf, read, closed, missed>>

\* GamePublisher.publish, after the lock is released: in any order.
Publish(n) ==
    /\ n \in unsent
    /\ unsent' = unsent \ {n}
    /\ sent' = Append(sent, n)
    /\ channel' = Published(Event(n))
    /\ UNCHANGED <<version, refs, latest, client, counter, pc, seq, first, snap,
                   buf, read, closed, missed>>

\* Redis has published the event, the client has not heard of it and will try again.
PublishUnheard(n) ==
    /\ "retry" \in Faults
    /\ n \in unsent
    /\ Len(sent) + Cardinality(unsent) < version + MaxRetries
    /\ sent' = Append(sent, n)
    /\ channel' = Published(Event(n))
    /\ UNCHANGED <<version, unsent, refs, latest, client, counter, pc, seq, first, snap,
                   buf, read, closed, missed>>

PublishFails(n) ==
    /\ "publish" \in Faults
    /\ n \in unsent
    /\ unsent' = unsent \ {n}
    /\ AllMiss({n})
    /\ UNCHANGED <<version, sent, hub, counter, pc, seq, first, snap, buf, read, closed>>

---------------------------------------------------------------------------
(* Hub and buffers                                                         *)

\* Mutant: the buffer has no bound.
MutantSend(c, m) == buf' = [buf EXCEPT ![c] = Append(@, m)] /\ UNCHANGED missed

\* Client.send: a message that does not fit is dropped.
Send(c, m) ==
    IF Len(buf[c]) < BufferSize
    THEN /\ buf' = [buf EXCEPT ![c] = Append(@, m)]
         /\ UNCHANGED missed
    ELSE /\ missed' = [missed EXCEPT ![c] = @ \cup {IF m.type = "event" THEN m.n ELSE 0}]
         /\ UNCHANGED buf

\* Hub.Broadcast and Hub.BroadcastTo: to the player's connection of the moment.
ToPlayer(m) == IF client = NoConn THEN UNCHANGED <<buf, missed>> ELSE Send(client, m)

\* Hub.Claim: an older connection is removed and closed.
HubClaim(s) ==
    LET older == {c \in {client} \ {NoConn} : seq[c] < s} IN
    /\ latest' = IF s > latest THEN s ELSE latest
    /\ client' = IF older # {} THEN NoConn ELSE client
    /\ closed' = closed \cup older

\* The goroutine of Subscribe, one message at a time.
Forward ==
    /\ channel # <<>>
    /\ channel' = Tail(channel)
    /\ IF Head(channel).type = "claim"
       THEN HubClaim(Head(channel).n) /\ UNCHANGED <<buf, missed>>
       ELSE ToPlayer(Head(channel)) /\ UNCHANGED <<latest, client, closed>>
    /\ UNCHANGED <<game, refs, counter, pc, seq, first, snap, read>>

\* The subscription is made again: what was not received yet is lost.
Resubscribe ==
    /\ "subscription" \in Faults
    /\ channel # <<>>
    /\ channel' = <<>>
    /\ AllMiss({channel[i].n : i \in {j \in DOMAIN channel : channel[j].type = "event"}})
    /\ UNCHANGED <<game, refs, latest, client, counter, pc, seq, first, snap, buf,
                   read, closed>>

---------------------------------------------------------------------------
(* GameHandler.WebSocket                                                   *)

LoadState(c) ==
    /\ pc[c] = "new"
    /\ first' = [first EXCEPT ![c] = version]
    /\ Goto(c, "acquire")
    /\ UNCHANGED <<game, hub, counter, seq, snap, buf, read, closed, missed>>

\* Returns once the subscription is confirmed; only the first one subscribes.
Acquire(c) ==
    /\ pc[c] = "acquire"
    /\ refs' = refs + 1
    /\ Goto(c, "claim")
    /\ UNCHANGED <<game, channel, latest, client, counter, seq, first, snap, buf,
                   read, closed, missed>>

ClaimConnection(c) ==
    /\ pc[c] = "claim"
    /\ counter' = counter + 1
    /\ seq' = [seq EXCEPT ![c] = counter + 1]
    /\ channel' = Published(Claim(counter + 1))
    /\ Goto(c, "register")
    /\ UNCHANGED <<game, refs, latest, client, first, snap, buf, read, closed, missed>>

\* The player connects to another instance.
ConnectElsewhere(c) ==
    /\ pc[c] = "new"
    /\ counter' = counter + 1
    /\ channel' = Published(Claim(counter + 1))
    /\ Goto(c, "done")
    /\ UNCHANGED <<game, refs, latest, client, seq, first, snap, buf, read, closed, missed>>

\* Hub.Register: the connection that is replaced is closed.
Register(c) ==
    /\ pc[c] = "register"
    /\ IF seq[c] < latest
       THEN /\ closed' = closed \cup {c}
            /\ Goto(c, "refused")
            /\ UNCHANGED <<latest, client>>
       ELSE /\ latest' = seq[c]
            /\ client' = c
            /\ closed' = closed \cup ({client} \ {NoConn})
            /\ Goto(c, "reload")
    /\ UNCHANGED <<game, refs, channel, counter, seq, first, snap, buf, read, missed>>

\* Mutant: the snapshot of the handshake is good enough.
MutantReload(c) ==
    /\ pc[c] = "reload"
    /\ snap' = [snap EXCEPT ![c] = first[c]]
    /\ first' = [first EXCEPT ![c] = 0]
    /\ Goto(c, "greet")
    /\ UNCHANGED <<game, hub, counter, seq, buf, read, closed, missed>>

\* The state is reloaded: it may have changed while the subscription was set up.
\* If that fails the handler goes on with what it has.
Reload(c) ==
    /\ pc[c] = "reload"
    /\ \/ /\ snap' = [snap EXCEPT ![c] = version]
          /\ UNCHANGED missed
       \/ /\ "reload" \in Faults
          /\ snap' = [snap EXCEPT ![c] = first[c]]
          /\ missed' = [missed EXCEPT ![c] = @ \cup ((first[c] + 1) .. version)]
    /\ first' = [first EXCEPT ![c] = 0]
    /\ Goto(c, "greet")
    /\ UNCHANGED <<game, hub, counter, seq, buf, read, closed>>

\* game_joined goes through the hub: to the connection registered now.
Greet(c) ==
    /\ pc[c] = "greet"
    /\ ToPlayer(Joined(snap[c]))
    /\ Goto(c, "serve")
    /\ UNCHANGED <<game, hub, counter, seq, first, snap, read, closed>>

\* WritePump.
Pump(c) ==
    /\ pc[c] = "serve" /\ c \notin closed
    /\ buf[c] # <<>>
    /\ read' = [read EXCEPT ![c] = Append(@, Head(buf[c]))]
    /\ buf' = [buf EXCEPT ![c] = Tail(@)]
    /\ UNCHANGED <<game, hub, counter, pc, seq, first, snap, closed, missed>>

\* The client leaves, does not answer pings, or does not read for writeWait.
HangUp(c) ==
    /\ pc[c] = "serve" /\ c \notin closed
    /\ closed' = closed \cup {c}
    /\ UNCHANGED <<game, hub, counter, pc, seq, first, snap, buf, read, missed>>

\* Nothing is left of connection c.
Forget(c) ==
    /\ buf' = [buf EXCEPT ![c] = <<>>]
    /\ read' = [read EXCEPT ![c] = <<>>]
    /\ missed' = [missed EXCEPT ![c] = {}]
    /\ snap' = [snap EXCEPT ![c] = 0]
    /\ seq' = [seq EXCEPT ![c] = 0]
    /\ closed' = closed \ {c}

\* The pumps of a closed connection return, or it was refused: Hub.Unregister,
\* if it is the player's connection, and gameSessionStore.Release, which
\* unsubscribes and forgets the hub with the last reference.
Leave(c) ==
    /\ c \in closed /\ pc[c] \in {"serve", "refused"}
    /\ refs' = refs - 1
    /\ client' = IF refs = 1 \/ client = c THEN NoConn ELSE client
    /\ latest' = IF refs = 1 THEN 0 ELSE latest
    /\ channel' = IF refs = 1 THEN <<>> ELSE channel
    /\ Goto(c, "done")
    /\ Forget(c)
    /\ UNCHANGED <<game, counter, first>>

---------------------------------------------------------------------------

Handler(c) ==
    \/ Acquire(c) \/ ClaimConnection(c) \/ Register(c) \/ Reload(c) \/ Greet(c)
    \/ Leave(c)

Next ==
    \/ Change \/ Forward \/ Resubscribe
    \/ \E n \in unsent : Publish(n) \/ PublishUnheard(n) \/ PublishFails(n)
    \/ \E c \in Conns : LoadState(c) \/ ConnectElsewhere(c) \/ Handler(c)
                        \/ Pump(c) \/ HangUp(c)

Spec == Init /\ [][Next]_vars

---------------------------------------------------------------------------
(* Properties *)

Stream(c)   == read[c] \o buf[c]
EventsIn(s) == {s[i].n : i \in {j \in DOMAIN s : s[j].type = "event"}}

\* A snapshot and the events together leave nothing out: whatever changed after
\* the snapshot a connection is greeted with has been, or will be, queued for
\* it, and so has the greeting.  Nothing is missed but for the reasons that
\* missed records: a failed publication, a reconnecting subscription, a full
\* buffer, a snapshot that could not be reloaded.  (The comments of Subscribe and
\* WebSocket: "no event published afterwards is missed", "The state is reloaded:
\* it may have changed while the subscription was set up".)
NoGap ==
    \A c \in Conns : client = c /\ pc[c] \in {"greet", "serve"} =>
        /\ (snap[c] + 1) .. version \subseteq
             unsent \cup EventsIn(channel) \cup EventsIn(Stream(c)) \cup missed[c]
        /\ pc[c] = "serve" => \/ Joined(snap[c]) \in ToSet(Stream(c))
                              \/ 0 \in missed[c]

\* The history h has a somewhere before b.
Precedes(h, a, b) == \E i, j \in DOMAIN h : i < j /\ h[i] = a /\ h[j] = b

\* A connection gets events in the order of publication and each at most once, over
\* reconnects, replaced connections and the sessions that come and go with them.
\* Only an event that Redis was made to publish again, because the reply to its
\* PUBLISH was lost, can come a second time.
InOrderOnce ==
    \A c \in Conns :
        LET s == Stream(c) \o (IF client = c THEN channel ELSE <<>>)
        IN  \A i, j \in DOMAIN s :
               i < j /\ s[i].type = "event" /\ s[j].type = "event" =>
                   Precedes(sent, s[i].n, s[j].n)
=============================================================================
