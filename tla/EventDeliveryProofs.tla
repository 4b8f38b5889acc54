------------------------ MODULE EventDeliveryProofs ------------------------
(***************************************************************************)
(* Proofs about EventDelivery: its type invariant, that a greeting and the *)
(* events behind it leave no change out, and that events arrive once and   *)
(* in the order of their publication, for every number of connections and  *)
(* changes, every size of the buffer, and whatever faults happen.          *)
(***************************************************************************)
EXTENDS EventDelivery, SequenceTheorems, FiniteSetTheorems, TLAPS

---------------------------------------------------------------------------
(* Sequences of messages                                                   *)

\* The event of one message, if it is one.
EventOf(m) == IF m.type = "event" THEN {m.n} ELSE {}

\* Nothing is in an empty sequence.
LEMMA EmptyEvents == EventsIn(<<>>) = {} /\ ToSet(<<>>) = {}
BY DEF EventsIn, ToSet

\* A message is added at the end.
LEMMA AppendEvents ==
    ASSUME NEW s \in Seq(Messages), NEW m \in Messages
    PROVE  /\ EventsIn(Append(s, m)) = EventsIn(s) \cup EventOf(m)
           /\ ToSet(Append(s, m)) = ToSet(s) \cup {m}
<1> DEFINE t == Append(s, m)
<1>1. /\ t \in Seq(Messages) /\ DOMAIN s = 1 .. Len(s) /\ DOMAIN t = 1 .. Len(s) + 1 
      /\ Len(s) \in Nat
      /\ \A i \in 1 .. Len(s) : t[i] = s[i]
      /\ t[Len(s) + 1] = m
  BY AppendProperties
<1> HIDE DEF t
<1>2. \A i : i \in DOMAIN t <=> i \in DOMAIN s \/ i = Len(s) + 1
  BY <1>1
<1>3. EventsIn(t) = EventsIn(s) \cup EventOf(m)
  BY <1>1, <1>2 DEF EventsIn, EventOf
<1>4. ToSet(t) = ToSet(s) \cup {m}
  BY <1>1, <1>2 DEF ToSet
<1> QED
  BY <1>3, <1>4 DEF t

\* The first message is taken.
LEMMA TailEvents ==
    ASSUME NEW s \in Seq(Messages), s # <<>>
    PROVE  /\ Head(s) \in Messages /\ Tail(s) \in Seq(Messages) /\ Len(Tail(s)) = Len(s) - 1
           /\ EventsIn(s) = EventOf(Head(s)) \cup EventsIn(Tail(s))
           /\ ToSet(s) = {Head(s)} \cup ToSet(Tail(s))
<1> DEFINE t == Tail(s)
<1>1. /\ t \in Seq(Messages) /\ Len(s) \in Nat \ {0} /\ Len(t) = Len(s) - 1
      /\ DOMAIN s = 1 .. Len(s) /\ DOMAIN t = 1 .. Len(s) - 1
      /\ \A i \in 1 .. Len(s) - 1 : t[i] = s[i + 1]
      /\ Head(s) = s[1] /\ Head(s) \in Messages
  BY HeadTailProperties, LenProperties, EmptySeq
<1> HIDE DEF t
<1>2. \A i \in DOMAIN s : i = 1 \/ (i - 1 \in DOMAIN t /\ s[i] = t[i - 1])
  BY <1>1
<1>3. \A i \in DOMAIN t : i + 1 \in DOMAIN s /\ s[i + 1] = t[i]
  BY <1>1
<1>4. 1 \in DOMAIN s
  BY <1>1
<1>5. EventsIn(s) = EventOf(Head(s)) \cup EventsIn(t)
  <2>1. ASSUME NEW i \in DOMAIN s, s[i].type = "event"
        PROVE  s[i].n \in EventOf(Head(s)) \cup EventsIn(t)
    BY <1>1, <1>2, <2>1 DEF EventsIn, EventOf
  <2>2. EventOf(Head(s)) \subseteq EventsIn(s)
    BY <1>1, <1>4 DEF EventsIn, EventOf
  <2>3. ASSUME NEW i \in DOMAIN t, t[i].type = "event" PROVE t[i].n \in EventsIn(s)
    BY <1>3, <2>3 DEF EventsIn
  <2>4. EventsIn(t) \subseteq EventsIn(s)
    BY <2>3 DEF EventsIn
  <2>5. EventsIn(s) \subseteq EventOf(Head(s)) \cup EventsIn(t)
    BY <2>1 DEF EventsIn
  <2> QED
    BY <2>2, <2>4, <2>5
<1>6. ToSet(s) = {Head(s)} \cup ToSet(t)
  <2>1. \A i \in DOMAIN s : s[i] \in {Head(s)} \cup ToSet(t)
    BY <1>1, <1>2 DEF ToSet
  <2>2. Head(s) \in ToSet(s) /\ \A i \in DOMAIN t : t[i] \in ToSet(s)
    BY <1>1, <1>3, <1>4 DEF ToSet
  <2> QED
    BY <2>1, <2>2 DEF ToSet
<1> QED
  BY <1>1, <1>5, <1>6 DEF t

\* Two sequences are read as one.
LEMMA ConcatEvents ==
    ASSUME NEW s \in Seq(Messages), NEW t \in Seq(Messages)
    PROVE  /\ EventsIn(s \o t) = EventsIn(s) \cup EventsIn(t)
           /\ ToSet(s \o t) = ToSet(s) \cup ToSet(t)
<1> DEFINE u == s \o t
<1>1. /\ u \in Seq(Messages) /\ Len(s) \in Nat /\ Len(t) \in Nat
      /\ DOMAIN s = 1 .. Len(s) /\ DOMAIN t = 1 .. Len(t) /\ DOMAIN u = 1 .. Len(s) + Len(t)
      /\ \A i \in 1 .. Len(s) + Len(t) : u[i] = IF i <= Len(s) THEN s[i] ELSE t[i - Len(s)]
  BY ConcatProperties, LenProperties
<1> HIDE DEF u
<1>2. \A i \in DOMAIN u : \/ i \in DOMAIN s /\ u[i] = s[i]
                          \/ i - Len(s) \in DOMAIN t /\ u[i] = t[i - Len(s)]
  BY <1>1
<1>3. \A i \in DOMAIN s : i \in DOMAIN u /\ u[i] = s[i]
  BY <1>1
<1>4. \A i \in DOMAIN t : i + Len(s) \in DOMAIN u /\ u[i + Len(s)] = t[i]
  BY <1>1
<1>5. EventsIn(u) = EventsIn(s) \cup EventsIn(t)
  BY <1>2, <1>3, <1>4 DEF EventsIn
<1>6. ToSet(u) = ToSet(s) \cup ToSet(t)
  BY <1>2, <1>3, <1>4 DEF ToSet
<1> QED
  BY <1>5, <1>6 DEF u

---------------------------------------------------------------------------
(* Types                                                                   *)

HeldAt    == {"claim", "register", "reload", "greet", "serve", "refused"}
CountedAt == {"register", "reload", "greet", "serve", "refused", "done"}

\* The connections whose handler holds a reference, and those that were counted.
Held    == {c \in Conns : pc[c] \in HeldAt}
Counted == {c \in Conns : pc[c] \in CountedAt}

CountInv == refs = Cardinality(Held) /\ counter = Cardinality(Counted)

\* Events in the channel announce changes that were made, claims generations that were given.
ChannelInv ==
    /\ EventsIn(channel) \subseteq 1 .. version
    /\ \A m \in ToSet(channel) : m.type = "claim" => m.n <= counter

\* TypeOK, the references and generations as counts of connections, and buffers as functions.
TypeInv ==
    /\ TypeOK /\ CountInv /\ ChannelInv
    /\ buf \in [Conns -> Seq(Messages)]
    /\ read \in [Conns -> Seq(Messages)]

\* A connection enters or leaves a set of connections.
LEMMA OneMore ==
    ASSUME NEW S \in SUBSET Conns, NEW c \in Conns
    PROVE  /\ Cardinality(S) \in 0 .. Cardinality(Conns) /\ Cardinality(Conns) \in Nat
           /\ c \notin S => Cardinality(S \cup {c}) = Cardinality(S) + 1
           /\ c \in S => Cardinality(S \ {c}) = Cardinality(S) - 1 /\ Cardinality(S) > 0
<1>1. IsFiniteSet(Conns) /\ IsFiniteSet(S) /\ Cardinality(S) \in Nat
      /\ Cardinality(Conns) \in Nat /\ Cardinality(S) <= Cardinality(Conns)
  BY ConnsAssumption, FS_Subset, FS_CardinalityType
<1>2. c \notin S => Cardinality(S \cup {c}) = Cardinality(S) + 1
  BY <1>1, FS_AddElement
<1>3. c \in S => Cardinality(S \ {c}) = Cardinality(S) - 1
  BY <1>1, FS_RemoveElement
<1>4. c \in S => Cardinality(S) # 0
  BY <1>1, FS_EmptySet
<1> QED
  BY <1>1, <1>2, <1>3, <1>4

\* Where the handler of a connection goes decides what it holds.
LEMMA Moved ==
    ASSUME TypeOK, CountInv, NEW c \in Conns, NEW step \in Steps, Goto(c, step),
           refs' = refs + (IF step \in HeldAt THEN 1 ELSE 0) - (IF pc[c] \in HeldAt THEN 1 ELSE 0),
           counter' = counter + (IF step \in CountedAt THEN 1 ELSE 0)
                              - (IF pc[c] \in CountedAt THEN 1 ELSE 0)
    PROVE  /\ CountInv' /\ pc' \in [Conns -> Steps]
           /\ refs' \in 0 .. Cardinality(Conns) /\ counter' \in 0 .. Cardinality(Conns)
<1>1. pc' = [pc EXCEPT ![c] = step] /\ pc \in [Conns -> Steps]
  BY DEF Goto, TypeOK
<1>2. pc' \in [Conns -> Steps]
  BY <1>1
<1>3. Held' = IF step \in HeldAt THEN Held \cup {c} ELSE Held \ {c}
  BY <1>1 DEF Held
<1>4. Counted' = IF step \in CountedAt THEN Counted \cup {c} ELSE Counted \ {c}
  BY <1>1 DEF Counted
<1>5. (c \in Held <=> pc[c] \in HeldAt) /\ (c \in Counted <=> pc[c] \in CountedAt)
  BY DEF Held, Counted
<1>6. /\ Held \in SUBSET Conns /\ Held' \in SUBSET Conns
      /\ Counted \in SUBSET Conns /\ Counted' \in SUBSET Conns
  BY DEF Held, Counted
<1>7. refs' = Cardinality(Held')
  <2>0. Cardinality(Held) \in Nat
    BY <1>6, ConnsAssumption, FS_Subset, FS_CardinalityType
  <2>1. refs = Cardinality(Held) /\ refs \in Nat
    BY <2>0 DEF CountInv
  <2>2. CASE step \in HeldAt
    <3>1. CASE c \in Held
      <4>1. Held' = Held
        BY <1>3, <2>2, <3>1
      <4> QED
        BY <1>5, <2>1, <2>2, <3>1, <4>1
    <3>2. CASE c \notin Held
      BY <1>3, <1>5, <1>6, <2>1, <2>2, <3>2, OneMore
    <3> QED
      BY <3>1, <3>2
  <2>3. CASE step \notin HeldAt
    <3>1. CASE c \in Held
      BY <1>3, <1>5, <1>6, <2>1, <2>3, <3>1, OneMore
    <3>2. CASE c \notin Held
      <4>1. Held' = Held
        BY <1>3, <2>3, <3>2
      <4> QED
        BY <1>5, <2>1, <2>3, <3>2, <4>1
    <3> QED
      BY <3>1, <3>2
  <2> QED
    BY <2>2, <2>3
<1>8. counter' = Cardinality(Counted')
  <2>0. Cardinality(Counted) \in Nat
    BY <1>6, ConnsAssumption, FS_Subset, FS_CardinalityType
  <2>1. counter = Cardinality(Counted) /\ counter \in Nat
    BY <2>0 DEF CountInv
  <2>2. CASE step \in CountedAt
    <3>1. CASE c \in Counted
      <4>1. Counted' = Counted
        BY <1>4, <2>2, <3>1
      <4> QED
        BY <1>5, <2>1, <2>2, <3>1, <4>1
    <3>2. CASE c \notin Counted
      BY <1>4, <1>5, <1>6, <2>1, <2>2, <3>2, OneMore
    <3> QED
      BY <3>1, <3>2
  <2>3. CASE step \notin CountedAt
    <3>1. CASE c \in Counted
      BY <1>4, <1>5, <1>6, <2>1, <2>3, <3>1, OneMore
    <3>2. CASE c \notin Counted
      <4>1. Counted' = Counted
        BY <1>4, <2>3, <3>2
      <4> QED
        BY <1>5, <2>1, <2>3, <3>2, <4>1
    <3> QED
      BY <3>1, <3>2
  <2> QED
    BY <2>2, <2>3
<1>9. refs' \in 0 .. Cardinality(Conns) /\ counter' \in 0 .. Cardinality(Conns)
  BY <1>6, <1>7, <1>8, OneMore
<1> QED
  BY <1>2, <1>7, <1>8, <1>9 DEF CountInv

\* Messages are messages.
LEMMA MessageTypes == \A n \in Nat : /\ Event(n) \in Messages /\ Joined(n) \in Messages
                                     /\ Claim(n) \in Messages
                                     /\ EventOf(Event(n)) = {n}
                                     /\ EventOf(Joined(n)) = {} /\ EventOf(Claim(n)) = {}
BY DEF Event, Joined, Claim, Messages, EventOf

\* Queueing a message for a connection: it is in the buffer, or recorded as missed.
LEMMA SendEffect ==
    ASSUME TypeInv, NEW c \in Conns, NEW m \in Messages, EventOf(m) \subseteq Versions, Send(c, m)
    PROVE  /\ buf' \in [Conns -> Seq(Messages)] /\ missed' \in [Conns -> SUBSET Versions]
           /\ \A d \in Conns : Len(buf'[d]) <= BufferSize
           /\ \A d \in Conns \ {c} : buf'[d] = buf[d] /\ missed'[d] = missed[d]
           /\ \/ buf'[c] = Append(buf[c], m) /\ missed'[c] = missed[c]
              \/ /\ buf'[c] = buf[c]
                 /\ missed'[c] = missed[c] \cup (IF m.type = "event" THEN {m.n} ELSE {0})
<1>0. /\ buf \in [Conns -> Seq(Messages)] /\ missed \in [Conns -> SUBSET Versions]
      /\ \A d \in Conns : Len(buf[d]) <= BufferSize
      /\ BufferSize \in Nat /\ 0 \in Versions
  BY BoundsAssumption DEF TypeInv, TypeOK, Versions
<1>1. CASE Len(buf[c]) < BufferSize
  <2>1. buf' = [buf EXCEPT ![c] = Append(buf[c], m)] /\ missed' = missed
    BY <1>1 DEF Send
  <2>2. Append(buf[c], m) \in Seq(Messages) /\ Len(Append(buf[c], m)) = Len(buf[c]) + 1
        /\ Len(buf[c]) \in Nat
    BY <1>0, AppendProperties, LenProperties
  <2>3. Len(Append(buf[c], m)) <= BufferSize
    BY <1>0, <1>1, <2>2
  <2> QED
    BY <1>0, <2>1, <2>2, <2>3
<1>2. CASE ~(Len(buf[c]) < BufferSize)
  <2>1. missed' = [missed EXCEPT ![c] = missed[c] \cup {IF m.type = "event" THEN m.n ELSE 0}]
        /\ buf' = buf
    BY <1>2 DEF Send
  <2>2. {IF m.type = "event" THEN m.n ELSE 0} = IF m.type = "event" THEN {m.n} ELSE {0}
    OBVIOUS
  <2>3. {IF m.type = "event" THEN m.n ELSE 0} \subseteq Versions
    BY <1>0 DEF EventOf
  <2> QED
    BY <1>0, <2>1, <2>2, <2>3
<1> QED
  BY <1>1, <1>2

\* A message reaches the channel of the session, if there is one.
LEMMA PublishedEffect ==
    ASSUME TypeInv, NEW m \in Messages
    PROVE  /\ Published(m) \in Seq(Messages)
           /\ EventsIn(Published(m)) \subseteq EventsIn(channel) \cup EventOf(m)
           /\ ToSet(Published(m)) \subseteq ToSet(channel) \cup {m}
           /\ refs > 0 => EventsIn(Published(m)) = EventsIn(channel) \cup EventOf(m)
           /\ refs = 0 => Published(m) = channel
<1>1. channel \in Seq(Messages) /\ refs \in Nat
  BY ConnsAssumption, FS_CardinalityType DEF TypeInv, TypeOK
<1>2. Append(channel, m) \in Seq(Messages)
  BY <1>1, AppendProperties
<1> QED
  BY <1>1, <1>2, AppendEvents DEF Published

\* The game changes and its events are published.
LEMMA GameTypes ==
    ASSUME TypeInv, Change \/ \E n \in unsent : Publish(n) \/ PublishUnheard(n) \/ PublishFails(n)
    PROVE  TypeInv'
<1>0. /\ TypeOK /\ version \in Nat /\ MaxChanges \in Nat /\ version <= MaxChanges
      /\ channel \in Seq(Messages) /\ sent \in Seq(1 .. version)
  BY BoundsAssumption DEF TypeInv, TypeOK, Versions
<1>1. CASE Change
  <2>1. /\ version' = version + 1 /\ version' \in Versions
        /\ 1 .. version \subseteq 1 .. version' /\ 0 .. version \subseteq 0 .. version'
        /\ version + 1 \in 1 .. version'
        /\ unsent' = unsent \cup {version + 1}
        /\ UNCHANGED <<sent, hub, counter, pc, seq, first, snap, buf, read, closed, missed>>
    BY <1>0, <1>1 DEF Change, Versions
  <2>2. sent' \in Seq(1 .. version')
    BY <1>0, <2>1, SeqMonotonic
  <2>3. unsent' \in SUBSET (1 .. version')
    BY <1>0, <2>1 DEF TypeOK
  <2>4. first' \in [Conns -> 0 .. version'] /\ snap' \in [Conns -> 0 .. version']
    BY <1>0, <2>1 DEF TypeOK
  <2>5. TypeOK'
    BY <1>0, <2>1, <2>2, <2>3, <2>4 DEF TypeOK, hub
  <2>6. CountInv' /\ ChannelInv'
    BY <2>1 DEF TypeInv, CountInv, ChannelInv, Held, Counted, hub
  <2> QED
    BY <2>1, <2>5, <2>6 DEF TypeInv
<1>2. ASSUME NEW n \in unsent, Publish(n) \/ PublishUnheard(n) PROVE TypeInv'
  <2>1. n \in 1 .. version /\ n \in Nat
    BY <1>0 DEF TypeOK
  <2>2. /\ Published(Event(n)) \in Seq(Messages)
        /\ EventsIn(Published(Event(n))) \subseteq EventsIn(channel) \cup {n}
        /\ ToSet(Published(Event(n))) \subseteq ToSet(channel) \cup {Event(n)}
    BY <2>1, MessageTypes, PublishedEffect
  <2>3. /\ unsent' \in {unsent, unsent \ {n}} /\ sent' = Append(sent, n)
        /\ channel' = Published(Event(n))
        /\ UNCHANGED <<version, refs, latest, client, counter, pc, seq, first, snap,
                       buf, read, closed, missed>>
    BY <1>2 DEF Publish, PublishUnheard
  <2>4. sent' \in Seq(1 .. version)
    BY <1>0, <2>1, <2>3, AppendProperties
  <2>5. TypeOK'
    BY <1>0, <2>2, <2>3, <2>4 DEF TypeOK
  <2>6. ChannelInv'
    BY <2>1, <2>2, <2>3 DEF TypeInv, ChannelInv, Event
  <2>7. CountInv'
    BY <2>3 DEF TypeInv, CountInv, Held, Counted
  <2> QED
    BY <2>3, <2>5, <2>6, <2>7 DEF TypeInv
<1>3. ASSUME NEW n \in unsent, PublishFails(n) PROVE TypeInv'
  <2>1. n \in Versions
    BY <1>0 DEF TypeOK, Versions
  <2>2. /\ unsent' = unsent \ {n} /\ AllMiss({n})
        /\ UNCHANGED <<version, sent, hub, counter, pc, seq, first, snap, buf, read, closed>>
    BY <1>3 DEF PublishFails
  <2>3. missed' \in [Conns -> SUBSET Versions]
    BY <1>0, <2>1, <2>2 DEF TypeOK, AllMiss
  <2>4. TypeOK'
    BY <1>0, <2>2, <2>3 DEF TypeOK, hub
  <2>5. CountInv' /\ ChannelInv'
    BY <2>2 DEF TypeInv, CountInv, ChannelInv, Held, Counted, hub
  <2> QED
    BY <2>2, <2>4, <2>5 DEF TypeInv
<1> QED
  BY <1>1, <1>2, <1>3

\* What the session receives, or loses.
LEMMA HubTypes ==
    ASSUME TypeInv, Forward \/ Resubscribe
    PROVE  TypeInv'
<1>0. /\ TypeOK /\ channel \in Seq(Messages) /\ counter \in Nat /\ version \in Nat
      /\ 1 .. version \subseteq Versions
      /\ EventsIn(channel) \subseteq Versions
  BY BoundsAssumption, ConnsAssumption, FS_CardinalityType DEF TypeInv, TypeOK, Versions, ChannelInv
<1>1. CASE Forward
  <2> DEFINE m == Head(channel)
  <2>1. /\ m \in Messages /\ channel' \in Seq(Messages)
        /\ EventsIn(channel) = EventOf(m) \cup EventsIn(channel')
        /\ ToSet(channel) = {m} \cup ToSet(channel')
    BY <1>0, <1>1, TailEvents DEF Forward
  <2>2. /\ UNCHANGED <<game, refs, counter, pc, seq, first, snap, read>>
        /\ m.type = "claim" => HubClaim(m.n) /\ UNCHANGED <<buf, missed>>
        /\ m.type # "claim" => ToPlayer(m) /\ UNCHANGED <<latest, client, closed>>
    BY <1>1 DEF Forward
  <2> HIDE DEF m
  <2>3. /\ buf' \in [Conns -> Seq(Messages)] /\ missed' \in [Conns -> SUBSET Versions]
        /\ \A d \in Conns : Len(buf'[d]) <= BufferSize
    <3>1. CASE UNCHANGED <<buf, missed>>
      BY <3>1 DEF TypeInv, TypeOK
    <3>2. CASE client # NoConn /\ Send(client, m)
      BY <1>0, <2>1, <3>2, SendEffect DEF TypeOK
    <3> QED
      BY <2>2, <3>1, <3>2 DEF ToPlayer
  <2>4. latest' \in 0 .. counter /\ client' \in Conns \cup {NoConn} /\ closed' \in SUBSET Conns
    <3>1. CASE m.type = "claim"
      <4>1. m.n \in Nat /\ m.n <= counter
        BY <2>1, <3>1 DEF Messages, TypeInv, ChannelInv
      <4> QED
        BY <1>0, <2>2, <3>1, <4>1 DEF HubClaim, TypeOK
    <3>2. CASE m.type # "claim"
      BY <1>0, <2>2, <3>2 DEF TypeOK
    <3> QED
      BY <3>1, <3>2
  <2>5. TypeOK'
    BY <1>0, <2>1, <2>2, <2>3, <2>4 DEF TypeOK, TypeInv, game
  <2>6. CountInv' /\ ChannelInv'
    BY <2>1, <2>2 DEF TypeInv, CountInv, ChannelInv, Held, Counted, game
  <2>7. read' \in [Conns -> Seq(Messages)]
    BY <2>2 DEF TypeInv
  <2> QED
    BY <2>3, <2>5, <2>6, <2>7 DEF TypeInv
<1>2. CASE Resubscribe
  <2>1. /\ channel' = <<>> /\ AllMiss(EventsIn(channel))
        /\ UNCHANGED <<game, refs, latest, client, counter, pc, seq, first, snap, buf,
                       read, closed>>
    BY <1>2 DEF Resubscribe, EventsIn
  <2>2. missed' \in [Conns -> SUBSET Versions]
    BY <1>0, <2>1 DEF TypeOK, AllMiss
  <2>3. TypeOK'
    BY <1>0, <2>1, <2>2 DEF TypeOK, game
  <2>4. CountInv' /\ ChannelInv'
    BY <2>1, EmptyEvents DEF TypeInv, CountInv, ChannelInv, Held, Counted, game
  <2> QED
    BY <2>1, <2>3, <2>4 DEF TypeInv
<1> QED
  BY <1>1, <1>2

\* What the proofs below use of the types.
LEMMA TypeFacts ==
    ASSUME TypeInv
    PROVE  /\ TypeOK /\ CountInv /\ ChannelInv /\ channel \in Seq(Messages)
           /\ version \in Nat /\ counter \in Nat /\ refs \in Nat /\ 0 .. version \subseteq Versions
           /\ buf \in [Conns -> Seq(Messages)] /\ read \in [Conns -> Seq(Messages)]
<1>1. Cardinality(Conns) \in Nat
  BY ConnsAssumption, FS_CardinalityType
<1>2. /\ TypeOK /\ CountInv /\ ChannelInv
      /\ buf \in [Conns -> Seq(Messages)] /\ read \in [Conns -> Seq(Messages)]
  BY DEF TypeInv
<1>3. channel \in Seq(Messages) /\ version \in 0 .. MaxChanges
      /\ counter \in 0 .. Cardinality(Conns) /\ refs \in 0 .. Cardinality(Conns)
  BY <1>2 DEF TypeOK, Versions
<1>4. version \in Nat /\ counter \in Nat /\ refs \in Nat /\ 0 .. version \subseteq Versions
  BY <1>1, <1>3, BoundsAssumption DEF Versions
<1> QED
  BY <1>2, <1>3, <1>4

\* A handler loads the game, joins the session and is given a generation.
LEMMA ConnectTypes ==
    ASSUME TypeInv, NEW c \in Conns,
           \/ LoadState(c) \/ Acquire(c) \/ ClaimConnection(c) \/ ConnectElsewhere(c)
    PROVE  TypeInv'
<1>0. /\ TypeOK /\ CountInv /\ ChannelInv /\ channel \in Seq(Messages)
      /\ version \in Nat /\ counter \in Nat /\ refs \in Nat
  BY TypeFacts
<1>1. CASE LoadState(c)
  <2>1. /\ pc[c] = "new" /\ Goto(c, "acquire") /\ first' = [first EXCEPT ![c] = version]
        /\ UNCHANGED <<game, hub, counter, seq, snap, buf, read, closed, missed>>
    BY <1>1 DEF LoadState
  <2>2. refs' = refs /\ counter' = counter
    BY <2>1 DEF hub
  <2>3. CountInv' /\ pc' \in [Conns -> Steps]
    BY <1>0, <2>1, <2>2, Moved DEF HeldAt, CountedAt, Steps
  <2>4. first' \in [Conns -> 0 .. version]
    BY <1>0, <2>1 DEF TypeOK
  <2>5. TypeOK'
    BY <1>0, <2>1, <2>3, <2>4 DEF TypeOK, game, hub
  <2> QED
    BY <2>1, <2>3, <2>5 DEF TypeInv, ChannelInv, game, hub
<1>2. CASE Acquire(c)
  <2>1. /\ pc[c] = "acquire" /\ Goto(c, "claim") /\ refs' = refs + 1
        /\ UNCHANGED <<game, channel, latest, client, counter, seq, first, snap, buf,
                       read, closed, missed>>
    BY <1>2 DEF Acquire
  <2>2. CountInv' /\ pc' \in [Conns -> Steps] /\ refs' \in 0 .. Cardinality(Conns)
    BY <1>0, <2>1, Moved DEF HeldAt, CountedAt, Steps
  <2>3. TypeOK'
    BY <1>0, <2>1, <2>2 DEF TypeOK, game
  <2> QED
    BY <2>1, <2>2, <2>3 DEF TypeInv, ChannelInv, game
<1>3. ASSUME NEW step \in {"register", "done"}, Goto(c, step), pc[c] \in {"claim", "new"},
             pc[c] = "claim" <=> step = "register",
             counter' = counter + 1, channel' = Published(Claim(counter + 1)),
             seq' = seq \/ seq' = [seq EXCEPT ![c] = counter + 1],
             UNCHANGED <<game, refs, latest, client, first, snap, buf, read, closed, missed>>
      PROVE  TypeInv'
  <2>1. CountInv' /\ pc' \in [Conns -> Steps] /\ counter' \in 0 .. Cardinality(Conns)
    BY <1>0, <1>3, Moved DEF HeldAt, CountedAt, Steps
  <2>2. Claim(counter + 1) \in Messages /\ EventOf(Claim(counter + 1)) = {}
    BY <1>0, MessageTypes
  <2>3. /\ channel' \in Seq(Messages) /\ EventsIn(channel') \subseteq EventsIn(channel)
        /\ ToSet(channel') \subseteq ToSet(channel) \cup {Claim(counter + 1)}
    BY <1>3, <2>2, PublishedEffect
  <2>4. 0 .. counter \subseteq 0 .. counter' /\ counter + 1 \in 0 .. counter'
    BY <1>0, <1>3
  <2>5. seq' \in [Conns -> 0 .. counter'] /\ latest' \in 0 .. counter'
    BY <1>0, <1>3, <2>4 DEF TypeOK
  <2>6. TypeOK'
    BY <1>0, <1>3, <2>1, <2>3, <2>5 DEF TypeOK, game
  <2>7. \A m \in ToSet(channel) : m.type = "claim" => m.n <= counter'
    <3>1. \A m \in ToSet(channel) : m \in Messages
      BY <1>0, LenProperties DEF ToSet
    <3> QED
      BY <1>0, <1>3, <3>1 DEF ChannelInv, Messages
  <2>8. ChannelInv'
    BY <1>0, <1>3, <2>3, <2>7 DEF ChannelInv, Claim, game
  <2> QED
    BY <1>3, <2>1, <2>6, <2>8 DEF TypeInv
<1>4. CASE ClaimConnection(c)
  BY <1>3, <1>4 DEF ClaimConnection
<1>5. CASE ConnectElsewhere(c)
  BY <1>3, <1>5 DEF ConnectElsewhere
<1> QED
  BY <1>1, <1>2, <1>4, <1>5

\* A handler registers its connection and greets it.
LEMMA GreetTypes ==
    ASSUME TypeInv, NEW c \in Conns, Register(c) \/ Reload(c) \/ Greet(c)
    PROVE  TypeInv'
<1>0. /\ TypeOK /\ CountInv /\ ChannelInv
      /\ version \in Nat /\ counter \in Nat /\ refs \in Nat /\ 0 .. version \subseteq Versions
  BY TypeFacts
<1>1. CASE Register(c)
  <2>1. /\ pc[c] = "register"
        /\ UNCHANGED <<game, refs, channel, counter, seq, first, snap, buf, read, missed>>
        /\ \/ closed' = closed \cup {c} /\ Goto(c, "refused") /\ UNCHANGED <<latest, client>>
           \/ /\ latest' = seq[c] /\ client' = c /\ Goto(c, "reload")
              /\ closed' = closed \cup ({client} \ {NoConn})
    BY <1>1 DEF Register
  <2>2. CountInv' /\ pc' \in [Conns -> Steps]
    BY <1>0, <2>1, Moved DEF HeldAt, CountedAt, Steps
  <2>3. latest' \in 0 .. counter /\ client' \in Conns \cup {NoConn} /\ closed' \in SUBSET Conns
    BY <1>0, <2>1 DEF TypeOK
  <2>4. TypeOK'
    BY <1>0, <2>1, <2>2, <2>3 DEF TypeOK, game
  <2> QED
    BY <2>1, <2>2, <2>4 DEF TypeInv, ChannelInv, game
<1>2. CASE Reload(c)
  <2>1. /\ pc[c] = "reload" /\ Goto(c, "greet") /\ first' = [first EXCEPT ![c] = 0]
        /\ UNCHANGED <<game, hub, counter, seq, buf, read, closed>>
        /\ \/ snap' = [snap EXCEPT ![c] = version] /\ missed' = missed
           \/ /\ snap' = [snap EXCEPT ![c] = first[c]]
              /\ missed' = [missed EXCEPT ![c] = missed[c] \cup ((first[c] + 1) .. version)]
    BY <1>2 DEF Reload
  <2>2. CountInv' /\ pc' \in [Conns -> Steps]
    BY <1>0, <2>1, Moved DEF HeldAt, CountedAt, Steps, hub
  <2>3. (first[c] + 1) .. version \subseteq Versions /\ first[c] \in 0 .. version
    BY <1>0 DEF TypeOK
  <2>a. /\ first \in [Conns -> 0 .. version] /\ snap \in [Conns -> 0 .. version]
        /\ missed \in [Conns -> SUBSET Versions] /\ version \in 0 .. version /\ 0 \in 0 .. version
    BY <1>0 DEF TypeOK
  <2>b. first' \in [Conns -> 0 .. version] /\ snap' \in [Conns -> 0 .. version]
    BY <2>1, <2>3, <2>a
  <2>c. missed' \in [Conns -> SUBSET Versions]
    <3>1. missed[c] \cup ((first[c] + 1) .. version) \in SUBSET Versions
      BY <2>3, <2>a
    <3> QED
      BY <2>1, <2>a, <3>1
  <2>4. /\ first' \in [Conns -> 0 .. version] /\ snap' \in [Conns -> 0 .. version]
        /\ missed' \in [Conns -> SUBSET Versions]
    BY <2>b, <2>c
  <2>5. TypeOK'
    BY <1>0, <2>1, <2>2, <2>4 DEF TypeOK, game, hub
  <2> QED
    BY <2>1, <2>2, <2>5 DEF TypeInv, ChannelInv, game, hub
<1>3. CASE Greet(c)
  <2>1. /\ pc[c] = "greet" /\ Goto(c, "serve") /\ ToPlayer(Joined(snap[c]))
        /\ UNCHANGED <<game, hub, counter, seq, first, snap, read, closed>>
    BY <1>3 DEF Greet
  <2>2. CountInv' /\ pc' \in [Conns -> Steps]
    BY <1>0, <2>1, Moved DEF HeldAt, CountedAt, Steps, hub
  <2>3. Joined(snap[c]) \in Messages /\ EventOf(Joined(snap[c])) = {}
    BY <1>0, MessageTypes DEF TypeOK
  <2>4. /\ buf' \in [Conns -> Seq(Messages)] /\ missed' \in [Conns -> SUBSET Versions]
        /\ \A d \in Conns : Len(buf'[d]) <= BufferSize
    <3>1. CASE UNCHANGED <<buf, missed>>
      BY <3>1 DEF TypeInv, TypeOK
    <3>2. CASE client # NoConn /\ Send(client, Joined(snap[c]))
      BY <1>0, <2>3, <3>2, SendEffect DEF TypeOK
    <3> QED
      BY <2>1, <3>1, <3>2 DEF ToPlayer
  <2>5. TypeOK'
    BY <1>0, <2>1, <2>2, <2>4 DEF TypeOK, TypeInv, game, hub
  <2> QED
    BY <2>1, <2>2, <2>4, <2>5 DEF TypeInv, ChannelInv, game, hub
<1> QED
  BY <1>1, <1>2, <1>3

\* A connection is served until its socket is closed.
LEMMA ServeTypes ==
    ASSUME TypeInv, NEW c \in Conns, Pump(c) \/ HangUp(c) \/ Leave(c)
    PROVE  TypeInv'
<1>0. /\ TypeOK /\ CountInv /\ ChannelInv
      /\ version \in Nat /\ counter \in Nat /\ refs \in Nat
      /\ buf \in [Conns -> Seq(Messages)] /\ read \in [Conns -> Seq(Messages)]
  BY TypeFacts
<1>1. CASE Pump(c)
  <2>1. /\ buf[c] # <<>> /\ buf' = [buf EXCEPT ![c] = Tail(buf[c])]
        /\ read' = [read EXCEPT ![c] = Append(read[c], Head(buf[c]))]
        /\ UNCHANGED <<game, hub, counter, pc, seq, first, snap, closed, missed>>
    BY <1>1 DEF Pump
  <2>2. /\ Tail(buf[c]) \in Seq(Messages) /\ Len(Tail(buf[c])) = Len(buf[c]) - 1
        /\ Head(buf[c]) \in Messages /\ Len(buf[c]) \in Nat
    BY <1>0, <2>1, TailEvents, LenProperties
  <2>3. Append(read[c], Head(buf[c])) \in Seq(Messages)
    BY <1>0, <2>2, AppendProperties
  <2>4. buf' \in [Conns -> Seq(Messages)] /\ read' \in [Conns -> Seq(Messages)]
    BY <1>0, <2>1, <2>2, <2>3
  <2>5. \A d \in Conns : Len(buf'[d]) <= BufferSize
    <3>1. Len(Tail(buf[c])) <= BufferSize
      BY <1>0, <2>2, BoundsAssumption DEF TypeOK
    <3> QED
      BY <1>0, <2>1, <3>1 DEF TypeOK
  <2>6. TypeOK'
    BY <1>0, <2>1, <2>4, <2>5 DEF TypeOK, game, hub
  <2>7. CountInv' /\ ChannelInv'
    BY <1>0, <2>1 DEF CountInv, ChannelInv, Held, Counted, game, hub
  <2> QED
    BY <2>4, <2>6, <2>7 DEF TypeInv
<1>2. CASE HangUp(c)
  <2>1. /\ closed' = closed \cup {c}
        /\ UNCHANGED <<game, hub, counter, pc, seq, first, snap, buf, read, missed>>
    BY <1>2 DEF HangUp
  <2>2. TypeOK'
    BY <1>0, <2>1 DEF TypeOK, game, hub
  <2>3. CountInv' /\ ChannelInv'
    BY <1>0, <2>1 DEF CountInv, ChannelInv, Held, Counted, game, hub
  <2> QED
    BY <1>0, <2>1, <2>2, <2>3 DEF TypeInv
<1>3. CASE Leave(c)
  <2>1. /\ pc[c] \in {"serve", "refused"} /\ Goto(c, "done") /\ refs' = refs - 1
        /\ client' \in {client, NoConn} /\ latest' \in {latest, 0} /\ channel' \in {channel, <<>>}
        /\ UNCHANGED <<game, counter, first>>
    BY <1>3 DEF Leave
  <2>2. /\ buf' = [buf EXCEPT ![c] = <<>>] /\ read' = [read EXCEPT ![c] = <<>>]
        /\ missed' = [missed EXCEPT ![c] = {}] /\ snap' = [snap EXCEPT ![c] = 0]
        /\ seq' = [seq EXCEPT ![c] = 0] /\ closed' = closed \ {c}
    BY <1>3 DEF Leave, Forget
  <2>3. CountInv' /\ pc' \in [Conns -> Steps] /\ refs' \in 0 .. Cardinality(Conns)
    BY <1>0, <2>1, Moved DEF HeldAt, CountedAt, Steps
  <2>4. <<>> \in Seq(Messages) /\ Len(<<>>) = 0
    BY EmptySeq
  <2>5. /\ buf' \in [Conns -> Seq(Messages)] /\ read' \in [Conns -> Seq(Messages)]
        /\ channel' \in Seq(Messages)
    BY <1>0, <2>1, <2>2, <2>4 DEF TypeOK
  <2>6. \A d \in Conns : Len(buf'[d]) <= BufferSize
    BY <1>0, <2>2, <2>4, BoundsAssumption DEF TypeOK
  <2>7. /\ missed' \in [Conns -> SUBSET Versions] /\ snap' \in [Conns -> 0 .. version]
        /\ seq' \in [Conns -> 0 .. counter] /\ closed' \in SUBSET Conns
        /\ latest' \in 0 .. counter
    <3>1. /\ missed \in [Conns -> SUBSET Versions] /\ snap \in [Conns -> 0 .. version]
          /\ seq \in [Conns -> 0 .. counter] /\ closed \in SUBSET Conns
          /\ latest \in 0 .. counter /\ 0 \in 0 .. version /\ 0 \in 0 .. counter
      BY <1>0 DEF TypeOK
    <3>2. missed' \in [Conns -> SUBSET Versions] /\ closed' \in SUBSET Conns
      BY <2>2, <3>1
    <3>3. snap' \in [Conns -> 0 .. version] /\ seq' \in [Conns -> 0 .. counter]
      BY <2>2, <3>1
    <3> QED
      BY <2>1, <3>1, <3>2, <3>3
  <2>8. TypeOK'
    BY <1>0, <2>1, <2>3, <2>5, <2>6, <2>7 DEF TypeOK, game
  <2>9. ChannelInv'
    BY <1>0, <2>1, EmptyEvents DEF ChannelInv, game
  <2> QED
    BY <2>3, <2>5, <2>8, <2>9 DEF TypeInv
<1> QED
  BY <1>1, <1>2, <1>3

\* Nobody is connected at first.
LEMMA InitTypes == Init => TypeInv
<1> SUFFICES ASSUME Init PROVE TypeInv
  OBVIOUS
<1>1. Held = {} /\ Counted = {} /\ Cardinality({}) = 0 /\ Cardinality(Conns) \in Nat
  BY ConnsAssumption, FS_EmptySet, FS_CardinalityType DEF Init, Held, Counted, HeldAt, CountedAt
<1>2. <<>> \in Seq(Messages) /\ Len(<<>>) = 0 /\ <<>> \in Seq(1 .. 0)
  BY EmptySeq
<1>3. TypeOK
  BY <1>1, <1>2, BoundsAssumption DEF Init, TypeOK, Versions, Steps
<1> QED
  BY <1>1, <1>2, <1>3, EmptyEvents DEF Init, TypeInv, CountInv, ChannelInv

\* TypeInv is inductive.
LEMMA NextTypes == TypeInv /\ [Next]_vars => TypeInv'
<1> SUFFICES ASSUME TypeInv, [Next]_vars PROVE TypeInv'
  OBVIOUS
<1>1. CASE UNCHANGED vars
  BY <1>1 DEF vars, game, hub, TypeInv, TypeOK, CountInv, ChannelInv, Held, Counted
<1>2. CASE Next
  BY <1>2, GameTypes, HubTypes, ConnectTypes, GreetTypes, ServeTypes DEF Next, Handler
<1> QED
  BY <1>1, <1>2

\* The variables of EventDelivery keep their types: the buffer of a connection never holds
\* more than it can, and the references to the session are as many as the connections that
\* hold one, so that the last of them, and no other, ends the subscription.
THEOREM EventsTypeOK == Spec => []TypeOK
<1>1. TypeInv => TypeOK
  BY DEF TypeInv
<1> QED
  BY <1>1, InitTypes, NextTypes, PTL DEF Spec

---------------------------------------------------------------------------
(* Nothing is left out                                                     *)

\* The changes that have reached connection c, will reach it, or are recorded as missed.
Covered(c) ==
    unsent \cup EventsIn(channel) \cup EventsIn(read[c]) \cup EventsIn(buf[c]) \cup missed[c]

Queued(c) == ToSet(read[c]) \cup ToSet(buf[c])

\* The player's connection has been registered by its handler, and misses nothing.
GapFor(c) ==
    client = c =>
        /\ pc[c] \in {"reload", "greet", "serve"}
        /\ pc[c] \in {"greet", "serve"} => (snap[c] + 1) .. version \subseteq Covered(c)
        /\ pc[c] = "serve" => Joined(snap[c]) \in Queued(c) \/ 0 \in missed[c]

GapInv == TypeInv /\ \A c \in Conns : GapFor(c)

\* The session of the player's connection is held, so that what is published reaches it.
LEMMA ClientHeld ==
    ASSUME GapInv, NEW c \in Conns, client = c
    PROVE  refs > 0
<1>1. c \in Held /\ Held \in SUBSET Conns
  BY DEF GapInv, GapFor, Held, HeldAt
<1>2. Cardinality(Held) > 0
  BY <1>1, OneMore
<1> QED
  BY <1>2 DEF GapInv, TypeInv, CountInv

\* A step that takes nothing away from connection c, and does not move its handler.
LEMMA GapStays ==
    ASSUME GapInv, NEW c \in Conns, client' = c => client = c,
           pc'[c] = pc[c], snap'[c] = snap[c], version' = version,
           client = c => Covered(c) \subseteq Covered(c)', Queued(c) \subseteq Queued(c)',
           missed[c] \subseteq missed'[c]
    PROVE  GapFor(c)'
<1>1. GapFor(c)
  BY DEF GapInv
<1> QED
  BY <1>1 DEF GapFor

\* What a queued message leaves as it was, and what it adds.
LEMMA SendCovers ==
    ASSUME TypeInv, NEW d \in Conns, NEW m \in Messages, EventOf(m) \subseteq Versions, Send(d, m),
           read' = read, NEW c \in Conns
    PROVE  /\ EventsIn(buf[c]) \subseteq EventsIn(buf'[c]) /\ missed[c] \subseteq missed'[c]
           /\ Queued(c) \subseteq Queued(c)'
           /\ c = d => EventOf(m) \subseteq EventsIn(buf'[c]) \cup missed'[c]
           /\ c = d /\ m.type # "event" => m \in Queued(c)' \/ 0 \in missed'[c]
<1>0. buf[c] \in Seq(Messages) /\ buf[d] \in Seq(Messages)
  BY DEF TypeInv
<1>1. CASE c # d
  BY <1>1, SendEffect DEF Queued
<1>2. CASE c = d
  <2>1. CASE buf'[c] = Append(buf[c], m) /\ missed'[c] = missed[c]
    BY <1>0, <1>2, <2>1, AppendEvents DEF Queued
  <2>2. CASE /\ buf'[c] = buf[c]
             /\ missed'[c] = missed[c] \cup (IF m.type = "event" THEN {m.n} ELSE {0})
    BY <2>2 DEF Queued, EventOf
  <2> QED
    BY <1>2, <2>1, <2>2, SendEffect
<1> QED
  BY <1>1, <1>2

\* Changes and their publication.
LEMMA GameGap ==
    ASSUME GapInv, NEW c \in Conns,
           Change \/ \E n \in unsent : Publish(n) \/ PublishUnheard(n) \/ PublishFails(n)
    PROVE  GapFor(c)'
<1>0. TypeInv /\ GapFor(c) /\ version \in Nat /\ channel \in Seq(Messages)
      /\ unsent \in SUBSET (1 .. version) /\ snap[c] \in Nat
  BY TypeFacts DEF GapInv, TypeOK
<1>1. CASE Change
  <2>1. /\ version' = version + 1 /\ unsent' = unsent \cup {version + 1}
        /\ UNCHANGED <<channel, client, pc, snap, buf, read, missed>>
    BY <1>1 DEF Change, hub
  <2>2. Covered(c)' = Covered(c) \cup {version + 1} /\ Queued(c)' = Queued(c)
    BY <2>1 DEF Covered, Queued
  <2>3. (snap[c] + 1) .. version' \subseteq ((snap[c] + 1) .. version) \cup {version + 1}
    BY <1>0, <2>1
  <2> QED
    BY <1>0, <2>1, <2>2, <2>3 DEF GapFor
<1>2. ASSUME NEW n \in unsent, Publish(n) \/ PublishUnheard(n) PROVE GapFor(c)'
  <2>1. /\ unsent' \in {unsent, unsent \ {n}} /\ channel' = Published(Event(n))
        /\ UNCHANGED <<version, client, pc, snap, buf, read, missed>>
    BY <1>2 DEF Publish, PublishUnheard
  <2>2. n \in Nat
    BY <1>0
  <2>3. client = c => EventsIn(channel') = EventsIn(channel) \cup {n}
    BY <1>0, <2>1, <2>2, ClientHeld, MessageTypes, PublishedEffect
  <2>4. client = c => Covered(c) \subseteq Covered(c)'
    BY <2>1, <2>3 DEF Covered
  <2>5. Queued(c)' = Queued(c)
    BY <2>1 DEF Queued
  <2> QED
    BY <2>1, <2>4, <2>5, GapStays
<1>3. ASSUME NEW n \in unsent, PublishFails(n) PROVE GapFor(c)'
  <2>1. /\ unsent' = unsent \ {n} /\ AllMiss({n})
        /\ UNCHANGED <<version, channel, client, pc, snap, buf, read>>
    BY <1>3 DEF PublishFails, hub
  <2>2. missed'[c] = IF pc[c] \in {"greet", "serve"} THEN missed[c] \cup {n} ELSE missed[c]
    BY <2>1 DEF AllMiss
  <2>3. Queued(c)' = Queued(c)
    BY <2>1 DEF Queued
  <2>4. pc[c] \in {"greet", "serve"} => Covered(c) \subseteq Covered(c)'
    BY <2>1, <2>2 DEF Covered
  <2> QED
    BY <1>0, <2>1, <2>2, <2>3, <2>4 DEF GapFor
<1> QED
  BY <1>1, <1>2, <1>3

\* Messages move from the channel to the buffer, or are lost with the subscription.
LEMMA HubGap ==
    ASSUME GapInv, NEW c \in Conns, Forward \/ Resubscribe
    PROVE  GapFor(c)'
<1>0. /\ TypeInv /\ GapFor(c) /\ channel \in Seq(Messages) /\ client \in Conns \cup {NoConn}
      /\ EventsIn(channel) \subseteq Versions
  BY TypeFacts DEF GapInv, TypeOK, ChannelInv
<1>1. CASE Forward
  <2>1. PICK m : m = Head(channel)
    OBVIOUS
  <2>2. /\ m \in Messages
        /\ EventsIn(channel) = EventOf(m) \cup EventsIn(channel')
    BY <1>0, <1>1, <2>1, TailEvents DEF Forward
  <2>3. /\ UNCHANGED <<version, unsent, pc, snap, read>>
        /\ m.type = "claim" => HubClaim(m.n) /\ UNCHANGED <<buf, missed>>
        /\ m.type # "claim" => ToPlayer(m) /\ UNCHANGED client
    BY <1>1, <2>1 DEF Forward, game
  <2>4. client' = c => client = c
    BY <2>3, ConnsAssumption DEF HubClaim
  <2>5. CASE m.type = "claim"
    <3>1. EventsIn(channel') = EventsIn(channel)
      BY <2>2, <2>5 DEF EventOf
    <3>2. Covered(c)' = Covered(c) /\ Queued(c)' = Queued(c)
      BY <2>3, <2>5, <3>1 DEF Covered, Queued
    <3> QED
      BY <2>3, <2>4, <2>5, <3>2, GapStays
  <2>6. CASE m.type # "claim" /\ client = NoConn
    <3>1. client' # c
      BY <2>4, <2>6, ConnsAssumption
    <3> QED
      BY <3>1 DEF GapFor
  <2>7. CASE m.type # "claim" /\ client # NoConn
    <3>1. Send(client, m) /\ client \in Conns /\ EventOf(m) \subseteq Versions
      BY <1>0, <2>2, <2>3, <2>7 DEF ToPlayer
    <3>2. /\ EventsIn(buf[c]) \subseteq EventsIn(buf'[c]) /\ missed[c] \subseteq missed'[c]
          /\ Queued(c) \subseteq Queued(c)'
          /\ client = c => EventOf(m) \subseteq EventsIn(buf'[c]) \cup missed'[c]
      BY <1>0, <2>2, <2>3, <3>1, SendCovers
    <3>3. client = c => Covered(c) \subseteq Covered(c)'
      BY <2>2, <2>3, <3>2 DEF Covered
    <3> QED
      BY <2>3, <2>4, <3>2, <3>3, GapStays
  <2> QED
    BY <2>5, <2>6, <2>7
<1>2. CASE Resubscribe
  <2>1. /\ channel' = <<>> /\ AllMiss(EventsIn(channel))
        /\ UNCHANGED <<version, unsent, client, pc, snap, buf, read>>
    BY <1>2 DEF Resubscribe, EventsIn, game
  <2>2. missed'[c] = IF pc[c] \in {"greet", "serve"} THEN missed[c] \cup EventsIn(channel)
                                                     ELSE missed[c]
    BY <2>1 DEF AllMiss
  <2>3. Queued(c)' = Queued(c)
    BY <2>1 DEF Queued
  <2>4. pc[c] \in {"greet", "serve"} => Covered(c) \subseteq Covered(c)'
    BY <2>1, <2>2 DEF Covered
  <2> QED
    BY <1>0, <2>1, <2>2, <2>3, <2>4 DEF GapFor
<1> QED
  BY <1>1, <1>2

\* The steps of a handler before and at its registration.
LEMMA ConnectGap ==
    ASSUME GapInv, NEW c \in Conns, NEW d \in Conns,
           \/ LoadState(d) \/ Acquire(d) \/ ClaimConnection(d) \/ ConnectElsewhere(d)
           \/ Register(d)
    PROVE  GapFor(c)'
<1>0. TypeInv /\ GapFor(c) /\ counter \in Nat /\ pc \in [Conns -> Steps]
  BY TypeFacts DEF GapInv, TypeOK
<1>1. /\ pc[d] \in {"new", "acquire", "claim", "register"}
      /\ UNCHANGED <<version, unsent, snap, buf, read, missed>>
      /\ channel' \in {channel, Published(Claim(counter + 1))}
  BY DEF LoadState, Acquire, ClaimConnection, ConnectElsewhere, Register, game, hub
<1>2. client = c => EventsIn(channel') = EventsIn(channel)
  <2>1. PICK m : m = Claim(counter + 1)
    OBVIOUS
  <2>2. m \in Messages /\ EventOf(m) = {}
    BY <1>0, <2>1, MessageTypes
  <2>3. client = c => EventsIn(Published(m)) = EventsIn(channel)
    BY <1>0, <2>2, ClientHeld, PublishedEffect
  <2> QED
    BY <1>1, <2>1, <2>3
<1>3. (client = c => Covered(c)' = Covered(c)) /\ Queued(c)' = Queued(c)
  BY <1>1, <1>2 DEF Covered, Queued
<1>4. CASE c # d
  <2>1. pc'[c] = pc[c]
    BY <1>0, <1>4 DEF LoadState, Acquire, ClaimConnection, ConnectElsewhere, Register, Goto
  <2>2. client' = c => client = c
    BY <1>4 DEF LoadState, Acquire, ClaimConnection, ConnectElsewhere, Register, hub
  <2> QED
    BY <1>1, <1>3, <2>1, <2>2, GapStays
<1>5. CASE c = d
  <2>1. client # c
    BY <1>0, <1>1, <1>5 DEF GapFor
  <2>2. client' = c => pc'[c] = "reload"
    BY <1>0, <1>5, <2>1 DEF LoadState, Acquire, ClaimConnection, ConnectElsewhere, Register, hub,
                            Goto
  <2> QED
    BY <2>2 DEF GapFor
<1> QED
  BY <1>4, <1>5

\* The snapshot is taken when the connection is registered, so that the events behind it
\* come through the channel; the greeting is queued.
LEMMA GreetGap ==
    ASSUME GapInv, NEW c \in Conns, NEW d \in Conns, Reload(d) \/ Greet(d)
    PROVE  GapFor(c)'
<1>0. /\ TypeInv /\ GapFor(c) /\ version \in Nat /\ pc \in [Conns -> Steps]
      /\ snap \in [Conns -> 0 .. version] /\ missed \in [Conns -> SUBSET Versions]
      /\ client \in Conns \cup {NoConn}
  BY TypeFacts DEF GapInv, TypeOK
<1>1. CASE Reload(d)
  <2>1. /\ pc[d] = "reload" /\ pc' = [pc EXCEPT ![d] = "greet"]
        /\ UNCHANGED <<version, unsent, channel, client, buf, read>>
        /\ \/ snap' = [snap EXCEPT ![d] = version] /\ missed' = missed
           \/ /\ snap' = [snap EXCEPT ![d] = first[d]]
              /\ missed' = [missed EXCEPT ![d] = missed[d] \cup ((first[d] + 1) .. version)]
    BY <1>1 DEF Reload, Goto, game, hub
  <2>2. Queued(c)' = Queued(c)
    BY <2>1 DEF Queued
  <2>3. CASE c # d
    <3>1. pc'[c] = pc[c] /\ snap'[c] = snap[c] /\ missed'[c] = missed[c]
      BY <1>0, <2>1, <2>3
    <3>2. Covered(c)' = Covered(c)
      BY <2>1, <3>1 DEF Covered
    <3> QED
      BY <2>1, <2>2, <3>1, <3>2, GapStays
  <2>4. CASE c = d
    <3>1. pc'[c] = "greet"
      BY <1>0, <2>1, <2>4
    <3>2. (snap'[c] + 1) .. version \subseteq missed'[c]
      <4>1. CASE snap' = [snap EXCEPT ![d] = version]
        <5>1. snap'[c] = version
          BY <1>0, <2>4, <4>1
        <5> QED
          BY <1>0, <5>1
      <4>2. CASE /\ snap' = [snap EXCEPT ![d] = first[d]]
                 /\ missed' = [missed EXCEPT ![d] = missed[d] \cup ((first[d] + 1) .. version)]
        BY <1>0, <2>4, <4>2
      <4> QED
        BY <2>1, <4>1, <4>2
    <3>3. missed'[c] \subseteq Covered(c)'
      BY DEF Covered
    <3> QED
      BY <2>1, <3>1, <3>2, <3>3 DEF GapFor
  <2> QED
    BY <2>3, <2>4
<1>2. CASE Greet(d)
  <2>1. /\ pc[d] = "greet" /\ pc' = [pc EXCEPT ![d] = "serve"] /\ ToPlayer(Joined(snap[d]))
        /\ UNCHANGED <<version, unsent, channel, client, snap, read>>
    BY <1>2 DEF Greet, Goto, game, hub
  <2>2. Joined(snap[d]) \in Messages /\ EventOf(Joined(snap[d])) = {}
        /\ Joined(snap[d]).type # "event"
    BY <1>0, MessageTypes DEF Joined
  <2>3. /\ EventsIn(buf[c]) \subseteq EventsIn(buf'[c]) /\ missed[c] \subseteq missed'[c]
        /\ Queued(c) \subseteq Queued(c)'
        /\ client = c => Joined(snap[d]) \in Queued(c)' \/ 0 \in missed'[c]
    <3>1. CASE client = NoConn
      BY <2>1, <3>1, ConnsAssumption DEF ToPlayer, Queued
    <3>2. CASE client # NoConn
      <4>1. Send(client, Joined(snap[d])) /\ client \in Conns
        BY <1>0, <2>1, <3>2 DEF ToPlayer
      <4> QED
        BY <1>0, <2>1, <2>2, <4>1, SendCovers
    <3> QED
      BY <3>1, <3>2
  <2>4. Covered(c) \subseteq Covered(c)'
    BY <2>1, <2>3 DEF Covered
  <2>5. CASE c # d
    <3>1. pc'[c] = pc[c] /\ snap'[c] = snap[c]
      BY <1>0, <2>1, <2>5
    <3> QED
      BY <2>1, <2>3, <2>4, <3>1, GapStays
  <2>6. CASE c = d
    <3>1. pc'[c] = "serve" /\ pc[c] = "greet"
      BY <1>0, <2>1, <2>6
    <3>2. client = c => (snap[c] + 1) .. version \subseteq Covered(c)
      BY <1>0, <3>1 DEF GapFor
    <3>3. client' = c => (snap'[c] + 1) .. version' \subseteq Covered(c)'
      BY <2>1, <2>4, <3>2
    <3>4. client' = c => Joined(snap[c])' \in Queued(c)' \/ 0 \in missed'[c]
      BY <2>1, <2>3, <2>6 DEF Joined
    <3> QED
      BY <3>1, <3>3, <3>4 DEF GapFor, Joined
  <2> QED
    BY <2>5, <2>6
<1> QED
  BY <1>1, <1>2

\* The pump only moves messages on; a connection that leaves is nobody's any more.
LEMMA ServeGap ==
    ASSUME GapInv, NEW c \in Conns, NEW d \in Conns, Pump(d) \/ HangUp(d) \/ Leave(d)
    PROVE  GapFor(c)'
<1>0. /\ TypeInv /\ GapFor(c) /\ pc \in [Conns -> Steps] /\ refs \in Nat
      /\ buf \in [Conns -> Seq(Messages)] /\ read \in [Conns -> Seq(Messages)]
      /\ snap \in [Conns -> 0 .. version] /\ missed \in [Conns -> SUBSET Versions]
  BY TypeFacts DEF GapInv, TypeOK
<1>1. CASE Pump(d)
  <2>1. /\ buf[d] # <<>> /\ buf' = [buf EXCEPT ![d] = Tail(buf[d])]
        /\ read' = [read EXCEPT ![d] = Append(read[d], Head(buf[d]))]
        /\ UNCHANGED <<version, unsent, channel, client, pc, snap, missed>>
    BY <1>1 DEF Pump, game, hub
  <2>2. /\ EventsIn(read'[c]) \cup EventsIn(buf'[c]) = EventsIn(read[c]) \cup EventsIn(buf[c])
        /\ Queued(c)' = Queued(c)
    <3>1. CASE c # d
      <4>1. buf'[c] = buf[c] /\ read'[c] = read[c]
        BY <1>0, <2>1, <3>1
      <4> QED
        BY <4>1 DEF Queued
    <3>2. CASE c = d
      <4>1. buf'[c] = Tail(buf[c]) /\ read'[c] = Append(read[c], Head(buf[c]))
        BY <1>0, <2>1, <3>2
      <4>2. /\ Head(buf[c]) \in Messages
            /\ EventsIn(buf[c]) = EventOf(Head(buf[c])) \cup EventsIn(Tail(buf[c]))
            /\ ToSet(buf[c]) = {Head(buf[c])} \cup ToSet(Tail(buf[c]))
        BY <1>0, <2>1, <3>2, TailEvents
      <4>3. /\ EventsIn(Append(read[c], Head(buf[c]))) = EventsIn(read[c]) \cup EventOf(Head(buf[c]))
            /\ ToSet(Append(read[c], Head(buf[c]))) = ToSet(read[c]) \cup {Head(buf[c])}
        BY <1>0, <4>2, AppendEvents
      <4> QED
        BY <4>1, <4>2, <4>3 DEF Queued
    <3> QED
      BY <3>1, <3>2
  <2>3. Covered(c)' = Covered(c)
    BY <2>1, <2>2 DEF Covered
  <2> QED
    BY <2>1, <2>2, <2>3, GapStays
<1>2. CASE HangUp(d)
  <2>1. UNCHANGED <<version, unsent, channel, client, pc, snap, missed, buf, read>>
    BY <1>2 DEF HangUp, game, hub
  <2> QED
    BY <2>1, GapStays DEF Covered, Queued
<1>3. CASE Leave(d)
  <2>1. /\ client' = IF refs = 1 \/ client = d THEN NoConn ELSE client
        /\ channel' = IF refs = 1 THEN <<>> ELSE channel
        /\ pc' = [pc EXCEPT ![d] = "done"] /\ UNCHANGED <<version, unsent>>
        /\ buf' = [buf EXCEPT ![d] = <<>>] /\ read' = [read EXCEPT ![d] = <<>>]
        /\ missed' = [missed EXCEPT ![d] = {}] /\ snap' = [snap EXCEPT ![d] = 0]
    BY <1>3 DEF Leave, Forget, Goto, game
  <2>2. CASE client' = c
    <3>1. c # d /\ client = c /\ channel' = channel
      BY <2>1, <2>2, ConnsAssumption
    <3>2. /\ pc'[c] = pc[c] /\ snap'[c] = snap[c] /\ buf'[c] = buf[c] /\ read'[c] = read[c]
          /\ missed'[c] = missed[c]
      BY <1>0, <2>1, <3>1
    <3> QED
      BY <2>1, <3>1, <3>2, GapStays DEF Covered, Queued
  <2>3. CASE client' # c
    BY <2>3 DEF GapFor
  <2> QED
    BY <2>2, <2>3
<1> QED
  BY <1>1, <1>2, <1>3

\* GapInv is inductive.
LEMMA NextGap == GapInv /\ [Next]_vars => GapInv'
<1> SUFFICES ASSUME GapInv, [Next]_vars PROVE GapInv'
  OBVIOUS
<1>1. TypeInv'
  BY NextTypes DEF GapInv
<1>2. ASSUME NEW c \in Conns PROVE GapFor(c)'
  <2>1. CASE UNCHANGED vars
    BY <2>1 DEF vars, game, hub, GapInv, GapFor, Covered, Queued
  <2>2. CASE Next
    BY <2>2, GameGap, HubGap, ConnectGap, GreetGap, ServeGap DEF Next, Handler
  <2> QED
    BY <2>1, <2>2
<1> QED
  BY <1>1, <1>2 DEF GapInv

\* A connection that was greeted has got, or will get, every change behind the snapshot it
\* was greeted with, and the greeting, but for what the faults took: also when sessions are
\* given up and made again, connections replace each other, and events are published in
\* another order than the changes were made.
THEOREM EventsNoGap == Spec => []NoGap
<1>1. Init => GapInv
  BY InitTypes, ConnsAssumption DEF Init, GapInv, GapFor
<1>2. GapInv => NoGap
  <2> SUFFICES ASSUME GapInv, NEW c \in Conns, client = c, pc[c] \in {"greet", "serve"}
               PROVE  /\ (snap[c] + 1) .. version \subseteq
                           unsent \cup EventsIn(channel) \cup EventsIn(Stream(c)) \cup missed[c]
                      /\ pc[c] = "serve" => \/ Joined(snap[c]) \in ToSet(Stream(c))
                                            \/ 0 \in missed[c]
    BY DEF NoGap
  <2>1. read[c] \in Seq(Messages) /\ buf[c] \in Seq(Messages)
    BY DEF GapInv, TypeInv
  <2>2. /\ EventsIn(Stream(c)) = EventsIn(read[c]) \cup EventsIn(buf[c])
        /\ ToSet(Stream(c)) = Queued(c)
    BY <2>1, ConcatEvents DEF Stream, Queued
  <2> QED
    BY <2>2 DEF GapInv, GapFor, Covered
<1> QED
  BY <1>1, <1>2, NextGap, PTL DEF Spec

---------------------------------------------------------------------------
(* Order                                                                   *)

\* The events of A were published before those of B, where h is the order of publication.
Before(h, A, B) == \A a \in A, b \in B : Precedes(h, a, b)

\* The events of s are in the order of publication.
Ordered(h, s) ==
    \A i, j \in DOMAIN s : i < j /\ s[i].type = "event" /\ s[j].type = "event" =>
                               Precedes(h, s[i].n, s[j].n)

\* A message that comes behind the others.
LEMMA OrderedAppend ==
    ASSUME NEW h, NEW s \in Seq(Messages), NEW m \in Messages,
           Ordered(h, s), Before(h, EventsIn(s), EventOf(m))
    PROVE  Ordered(h, Append(s, m))
<1> DEFINE t == Append(s, m)
<1>1. /\ DOMAIN s = 1 .. Len(s) /\ DOMAIN t = 1 .. Len(s) + 1 /\ Len(s) \in Nat
      /\ \A i \in 1 .. Len(s) : t[i] = s[i]
      /\ t[Len(s) + 1] = m
  BY AppendProperties, LenProperties
<1> HIDE DEF t
<1>2. ASSUME NEW i \in DOMAIN t, NEW j \in DOMAIN t, i < j, t[i].type = "event", t[j].type = "event"
      PROVE  Precedes(h, t[i].n, t[j].n)
  <2>1. i \in DOMAIN s /\ t[i] = s[i] /\ (j \in DOMAIN s \/ j = Len(s) + 1)
    BY <1>1, <1>2
  <2>2. CASE j \in DOMAIN s
    BY <1>1, <1>2, <2>1, <2>2 DEF Ordered
  <2>3. CASE j = Len(s) + 1
    <3>1. t[i].n \in EventsIn(s) /\ t[j].n \in EventOf(m)
      BY <1>1, <1>2, <2>1, <2>3 DEF EventsIn, EventOf
    <3> QED
      BY <3>1 DEF Before
  <2> QED
    BY <2>1, <2>2, <2>3
<1> QED
  BY <1>2 DEF Ordered, t

\* What is left behind the first message comes after it.
LEMMA OrderedTail ==
    ASSUME NEW h, NEW s \in Seq(Messages), s # <<>>, Ordered(h, s)
    PROVE  Ordered(h, Tail(s)) /\ Before(h, EventOf(Head(s)), EventsIn(Tail(s)))
<1> DEFINE t == Tail(s)
<1>1. /\ Len(s) \in Nat \ {0} /\ DOMAIN s = 1 .. Len(s) /\ DOMAIN t = 1 .. Len(s) - 1
      /\ \A i \in 1 .. Len(s) - 1 : t[i] = s[i + 1]
      /\ Head(s) = s[1]
  BY HeadTailProperties, LenProperties, EmptySeq
<1> HIDE DEF t
<1>2. \A i \in DOMAIN t : i \in Int /\ i + 1 \in DOMAIN s /\ s[i + 1] = t[i] /\ 1 < i + 1
  BY <1>1
<1>3. ASSUME NEW i \in DOMAIN t, NEW j \in DOMAIN t, i < j, t[i].type = "event", t[j].type = "event"
      PROVE  Precedes(h, t[i].n, t[j].n)
  <2>1. i + 1 < j + 1
    BY <1>2, <1>3
  <2> QED
    BY <1>2, <1>3, <2>1 DEF Ordered
<1>4. ASSUME NEW j \in DOMAIN t, Head(s).type = "event", t[j].type = "event"
      PROVE  Precedes(h, Head(s).n, t[j].n)
  <2>1. 1 \in DOMAIN s
    BY <1>1
  <2> QED
    BY <1>1, <1>2, <1>4, <2>1 DEF Ordered
<1>5. Before(h, EventOf(Head(s)), EventsIn(t))
  BY <1>4 DEF Before, EventOf, EventsIn
<1>6. Ordered(h, t)
  BY <1>3 DEF Ordered
<1> QED
  BY <1>5, <1>6 DEF t

\* Two sequences, one behind the other.
LEMMA OrderedConcat ==
    ASSUME NEW h, NEW s \in Seq(Messages), NEW t \in Seq(Messages), Ordered(h, s), Ordered(h, t),
           Before(h, EventsIn(s), EventsIn(t))
    PROVE  Ordered(h, s \o t)
<1> DEFINE u == s \o t
<1>1. /\ Len(s) \in Nat /\ Len(t) \in Nat
      /\ DOMAIN s = 1 .. Len(s) /\ DOMAIN t = 1 .. Len(t) /\ DOMAIN u = 1 .. Len(s) + Len(t)
      /\ \A i \in 1 .. Len(s) + Len(t) : u[i] = IF i <= Len(s) THEN s[i] ELSE t[i - Len(s)]
  BY ConcatProperties, LenProperties
<1> HIDE DEF u
<1>2. ASSUME NEW i \in DOMAIN u, NEW j \in DOMAIN u, i < j, u[i].type = "event", u[j].type = "event"
      PROVE  Precedes(h, u[i].n, u[j].n)
  <2>1. CASE j <= Len(s)
    <3>1. i \in DOMAIN s /\ j \in DOMAIN s /\ u[i] = s[i] /\ u[j] = s[j]
      BY <1>1, <1>2, <2>1
    <3> QED
      BY <1>2, <3>1 DEF Ordered
  <2>2. CASE i > Len(s)
    <3>1. /\ i - Len(s) \in DOMAIN t /\ j - Len(s) \in DOMAIN t /\ i - Len(s) < j - Len(s)
          /\ u[i] = t[i - Len(s)] /\ u[j] = t[j - Len(s)]
      BY <1>1, <1>2, <2>2
    <3> QED
      BY <1>2, <3>1 DEF Ordered
  <2>3. CASE i <= Len(s) /\ j > Len(s)
    <3>1. i \in DOMAIN s /\ j - Len(s) \in DOMAIN t /\ u[i] = s[i] /\ u[j] = t[j - Len(s)]
      BY <1>1, <1>2, <2>3
    <3>2. u[i].n \in EventsIn(s) /\ u[j].n \in EventsIn(t)
      BY <1>2, <3>1 DEF EventsIn
    <3> QED
      BY <3>2 DEF Before
  <2> QED
    BY <1>1, <2>1, <2>2, <2>3
<1> QED
  BY <1>2 DEF Ordered, u

\* One more event is published, behind all others.
LEMMA OneMoreSent ==
    ASSUME NEW S, NEW h \in Seq(S), NEW n \in S
    PROVE  /\ \A a, b : Precedes(h, a, b) => Precedes(Append(h, n), a, b)
           /\ \A a \in ToSet(h) : Precedes(Append(h, n), a, n)
           /\ ToSet(Append(h, n)) = ToSet(h) \cup {n}
<1> DEFINE g == Append(h, n)
<1>1. /\ DOMAIN h = 1 .. Len(h) /\ DOMAIN g = 1 .. Len(h) + 1 /\ Len(h) \in Nat
      /\ \A i \in 1 .. Len(h) : g[i] = h[i]
      /\ g[Len(h) + 1] = n
  BY AppendProperties, LenProperties
<1> HIDE DEF g
<1>2. \A i \in DOMAIN h : i \in DOMAIN g /\ g[i] = h[i] /\ i < Len(h) + 1
  BY <1>1
<1>3. Len(h) + 1 \in DOMAIN g
  BY <1>1
<1>4. \A a, b : Precedes(h, a, b) => Precedes(g, a, b)
  BY <1>2 DEF Precedes
<1>5. \A a \in ToSet(h) : Precedes(g, a, n)
  BY <1>1, <1>2, <1>3 DEF Precedes, ToSet
<1>6. \A i \in DOMAIN g : i \in DOMAIN h \/ i = Len(h) + 1
  BY <1>1
<1>7. ToSet(g) = ToSet(h) \cup {n}
  BY <1>1, <1>2, <1>3, <1>6 DEF ToSet
<1> QED
  BY <1>4, <1>5, <1>7 DEF g

ChannelOrder == Ordered(sent, channel) /\ EventsIn(channel) \subseteq ToSet(sent)

\* What connection c was sent is in order: its socket, its buffer, and behind them the
\* channel if it is the player's connection.  Before it is registered it was sent nothing.
Fresh == {"new", "acquire", "claim", "register", "refused", "done"}

StreamEvents(c) == EventsIn(read[c]) \cup EventsIn(buf[c])

StreamOrder(c) ==
    /\ pc[c] \in Fresh => read[c] = <<>> /\ buf[c] = <<>>
    /\ Ordered(sent, read[c]) /\ Ordered(sent, buf[c])
    /\ Before(sent, EventsIn(read[c]), EventsIn(buf[c]))
    /\ StreamEvents(c) \subseteq ToSet(sent)

StreamInv(c) ==
    /\ StreamOrder(c)
    /\ client = c => Before(sent, StreamEvents(c), EventsIn(channel))

OrderInv == GapInv /\ ChannelOrder /\ \A c \in Conns : StreamInv(c)

\* What the proofs below use of the invariant.
LEMMA OrderFacts ==
    ASSUME OrderInv
    PROVE  /\ TypeInv /\ TypeOK /\ channel \in Seq(Messages) /\ version \in Nat /\ counter \in Nat
           /\ sent \in Seq(1 .. version) /\ unsent \in SUBSET (1 .. version)
           /\ pc \in [Conns -> Steps] /\ client \in Conns \cup {NoConn}
           /\ buf \in [Conns -> Seq(Messages)] /\ read \in [Conns -> Seq(Messages)]
           /\ EventsIn(channel) \subseteq Versions /\ snap \in [Conns -> Nat]
<1>1. TypeInv
  BY DEF OrderInv, GapInv
<1>2. /\ TypeOK /\ ChannelInv /\ channel \in Seq(Messages) /\ version \in Nat /\ counter \in Nat
      /\ 0 .. version \subseteq Versions
      /\ buf \in [Conns -> Seq(Messages)] /\ read \in [Conns -> Seq(Messages)]
  BY <1>1, TypeFacts
<1>3. snap \in [Conns -> Nat]
  <2>1. snap \in [Conns -> 0 .. version]
    BY <1>2 DEF TypeOK
  <2> QED
    BY <1>2, <2>1
<1>4. EventsIn(channel) \subseteq Versions
  BY <1>2 DEF ChannelInv
<1>5. /\ sent \in Seq(1 .. version) /\ unsent \in SUBSET (1 .. version)
      /\ pc \in [Conns -> Steps] /\ client \in Conns \cup {NoConn}
  BY <1>2 DEF TypeOK
<1> QED
  BY <1>1, <1>2, <1>3, <1>4, <1>5

\* Nothing is between nothing.
LEMMA EmptyOrder ==
    ASSUME NEW h
    PROVE  Ordered(h, <<>>) /\ \A A : Before(h, {}, A) /\ Before(h, A, {})
BY DEF Ordered, Before

\* A step that sends connection c nothing.
LEMMA StreamStays ==
    ASSUME OrderInv, NEW c \in Conns, sent' = sent, read'[c] = read[c], buf'[c] = buf[c],
           pc'[c] \in Fresh => pc[c] \in Fresh,
           client' = c => /\ client = c \/ pc[c] \in Fresh
                          /\ EventsIn(channel') \subseteq EventsIn(channel)
    PROVE  StreamInv(c)'
<1>1. StreamInv(c)
  BY DEF OrderInv
<1>2. StreamEvents(c)' = StreamEvents(c)
  BY DEF StreamEvents
<1>3. StreamOrder(c)'
  BY <1>1, <1>2 DEF StreamInv, StreamOrder
<1>4. pc[c] \in Fresh => StreamEvents(c) = {}
  BY <1>1, EmptyEvents DEF StreamInv, StreamOrder, StreamEvents
<1>5. client' = c => Before(sent, StreamEvents(c), EventsIn(channel'))
  <2>1. CASE client = c
    BY <1>1, <2>1 DEF StreamInv, Before
  <2>2. CASE pc[c] \in Fresh
    BY <1>4, <2>2 DEF Before
  <2> QED
    BY <2>1, <2>2
<1> QED
  BY <1>2, <1>3, <1>5 DEF StreamInv

\* A message behind everything that the player's connection was sent.
LEMMA SendOrder ==
    ASSUME OrderInv, NEW d \in Conns, client = d, NEW m \in Messages, EventOf(m) \subseteq Versions,
           Send(d, m), EventOf(m) \subseteq ToSet(sent),
           Before(sent, StreamEvents(d), EventOf(m)), sent' = sent, read' = read,
           NEW c \in Conns, pc'[c] \in Fresh => pc[c] \in Fresh
    PROVE  /\ StreamOrder(c)'
           /\ StreamEvents(c)' \subseteq StreamEvents(c) \cup (IF c = d THEN EventOf(m) ELSE {})
<1>0. TypeInv /\ buf[c] \in Seq(Messages) /\ StreamOrder(c) /\ GapFor(d)
  BY OrderFacts DEF OrderInv, StreamInv, GapInv
<1>1. ASSUME buf'[c] = buf[c]
      PROVE  /\ StreamOrder(c)'
             /\ StreamEvents(c)' \subseteq StreamEvents(c) \cup (IF c = d THEN EventOf(m) ELSE {})
  BY <1>0, <1>1 DEF StreamOrder, StreamEvents
<1>2. CASE c # d
  BY <1>0, <1>1, <1>2, SendEffect
<1>3. CASE c = d /\ buf'[c] = Append(buf[c], m)
  <2>1. pc'[c] \notin Fresh
    BY <1>0, <1>3 DEF GapFor, Fresh
  <2>2. EventsIn(buf'[c]) = EventsIn(buf[c]) \cup EventOf(m)
    BY <1>0, <1>3, AppendEvents
  <2>3. Ordered(sent, buf'[c])
    <3>1. Before(sent, EventsIn(buf[c]), EventOf(m))
      BY <1>3 DEF Before, StreamEvents
    <3> QED
      BY <1>0, <1>3, <3>1, OrderedAppend DEF StreamOrder
  <2>4. Before(sent, EventsIn(read[c]), EventsIn(buf'[c]))
    BY <1>0, <1>3, <2>2 DEF StreamOrder, Before, StreamEvents
  <2>5. StreamEvents(c)' = StreamEvents(c) \cup EventOf(m)
    BY <2>2 DEF StreamEvents
  <2>6. StreamEvents(c) \subseteq ToSet(sent)
    BY <1>0 DEF StreamOrder
  <2> QED
    BY <1>0, <1>3, <2>1, <2>3, <2>4, <2>5, <2>6 DEF StreamOrder
<1> QED
  BY <1>0, <1>1, <1>2, <1>3, SendEffect

\* Changes and their publication.
LEMMA GameOrder ==
    ASSUME OrderInv, Change \/ \E n \in unsent : Publish(n) \/ PublishUnheard(n) \/ PublishFails(n)
    PROVE  ChannelOrder' /\ \A c \in Conns : StreamInv(c)'
<1>0. /\ channel \in Seq(Messages) /\ version \in Nat /\ sent \in Seq(1 .. version)
      /\ unsent \in SUBSET (1 .. version) /\ ChannelOrder /\ TypeInv
  BY OrderFacts DEF OrderInv
<1>1. CASE Change \/ \E n \in unsent : PublishFails(n)
  <2>1. UNCHANGED <<sent, channel, client, pc, buf, read>>
    BY <1>1 DEF Change, PublishFails, hub
  <2>2. ChannelOrder'
    BY <1>0, <2>1 DEF ChannelOrder
  <2>3. \A c \in Conns : StreamInv(c)'
    BY <2>1, StreamStays
  <2> QED
    BY <2>2, <2>3
<1>2. ASSUME NEW n \in unsent, Publish(n) \/ PublishUnheard(n)
      PROVE  ChannelOrder' /\ \A c \in Conns : StreamInv(c)'
  <2>1. /\ sent' = Append(sent, n) /\ channel' = Published(Event(n))
        /\ UNCHANGED <<client, pc, buf, read>>
    BY <1>2 DEF Publish, PublishUnheard
  <2>2. n \in 1 .. version /\ n \in Nat
    BY <1>0
  <2>3. /\ \A a, b : Precedes(sent, a, b) => Precedes(sent', a, b)
        /\ \A a \in ToSet(sent) : Precedes(sent', a, n)
        /\ ToSet(sent') = ToSet(sent) \cup {n}
    <3>1. PICK S, h : S = 1 .. version /\ h = sent
      OBVIOUS
    <3>2. h \in Seq(S) /\ n \in S
      BY <1>0, <2>2, <3>1
    <3>3. /\ \A a, b : Precedes(h, a, b) => Precedes(Append(h, n), a, b)
          /\ \A a \in ToSet(h) : Precedes(Append(h, n), a, n)
          /\ ToSet(Append(h, n)) = ToSet(h) \cup {n}
      BY <3>2, OneMoreSent
    <3> QED
      BY <2>1, <3>1, <3>3
  <2>5. \A s : Ordered(sent, s) => Ordered(sent', s)
    BY <2>3 DEF Ordered
  <2>6. \A A, B : Before(sent, A, B) => Before(sent', A, B)
    BY <2>3 DEF Before
  <2>7. Event(n) \in Messages /\ EventOf(Event(n)) = {n}
    BY <2>2, MessageTypes
  <2>8. ChannelOrder'
    <3>1. Before(sent', EventsIn(channel), {n})
      BY <1>0, <2>3 DEF ChannelOrder, Before
    <3>2. Ordered(sent', Append(channel, Event(n))) /\ Ordered(sent', channel)
      BY <1>0, <2>5, <2>7, <3>1, OrderedAppend DEF ChannelOrder
    <3>3. Ordered(sent', channel')
      BY <2>1, <3>2 DEF Published
    <3>4. EventsIn(channel') \subseteq ToSet(sent')
      BY <1>0, <2>1, <2>3, <2>7, PublishedEffect DEF ChannelOrder
    <3> QED
      BY <3>3, <3>4 DEF ChannelOrder
  <2>9. ASSUME NEW c \in Conns PROVE StreamInv(c)'
    <3>1. StreamInv(c)
      BY DEF OrderInv
    <3>2. StreamEvents(c)' = StreamEvents(c) /\ StreamEvents(c) \subseteq ToSet(sent)
      BY <2>1, <3>1 DEF StreamEvents, StreamInv, StreamOrder
    <3>3. StreamOrder(c)'
      BY <2>1, <2>3, <2>5, <2>6, <3>1, <3>2 DEF StreamInv, StreamOrder
    <3>4. EventsIn(channel') \subseteq EventsIn(channel) \cup {n}
      BY <1>0, <2>1, <2>7, PublishedEffect
    <3>5. client = c => Before(sent', StreamEvents(c), EventsIn(channel))
      BY <2>6, <3>1 DEF StreamInv
    <3>6. client = c => Before(sent', StreamEvents(c), EventsIn(channel'))
      BY <2>3, <3>2, <3>4, <3>5 DEF Before
    <3> QED
      BY <2>1, <3>2, <3>3, <3>6 DEF StreamInv
  <2> QED
    BY <2>8, <2>9
<1> QED
  BY <1>1, <1>2

\* Messages move from the channel to the buffer, or are lost with the subscription.
LEMMA HubOrder ==
    ASSUME OrderInv, Forward \/ Resubscribe
    PROVE  ChannelOrder' /\ \A c \in Conns : StreamInv(c)'
<1>0. /\ channel \in Seq(Messages) /\ ChannelOrder /\ client \in Conns \cup {NoConn}
      /\ EventsIn(channel) \subseteq Versions
  BY OrderFacts DEF OrderInv
<1>1. UNCHANGED <<sent, unsent, pc, read>>
  BY DEF Forward, Resubscribe, game
<1>3. CASE Resubscribe
  <2>1. channel' = <<>> /\ UNCHANGED <<client, buf>>
    BY <1>3 DEF Resubscribe
  <2>2. ChannelOrder'
    BY <2>1, EmptyEvents, EmptyOrder DEF ChannelOrder
  <2>3. \A c \in Conns : StreamInv(c)'
    BY <1>1, <2>1, EmptyEvents, StreamStays
  <2> QED
    BY <2>2, <2>3
<1>4. CASE Forward
  <2>1. PICK m : m = Head(channel)
    OBVIOUS
  <2>2. /\ m \in Messages /\ channel # <<>> /\ channel' = Tail(channel)
        /\ EventsIn(channel) = EventOf(m) \cup EventsIn(channel')
    BY <1>0, <1>4, <2>1, TailEvents DEF Forward
  <2>3. /\ m.type = "claim" => HubClaim(m.n) /\ UNCHANGED <<buf, missed>>
        /\ m.type # "claim" => ToPlayer(m) /\ UNCHANGED client
    BY <1>4, <2>1 DEF Forward
  <2>4. Ordered(sent, channel') /\ Before(sent, EventOf(m), EventsIn(channel'))
    BY <1>0, <2>1, <2>2, OrderedTail DEF ChannelOrder
  <2>5. ChannelOrder'
    BY <1>0, <1>1, <2>2, <2>4 DEF ChannelOrder
  <2>6. ASSUME NEW c \in Conns PROVE StreamInv(c)'
    <3>1. client' = c => client = c
      BY <2>3, ConnsAssumption DEF HubClaim
    <3>2. CASE UNCHANGED buf
      BY <1>1, <2>2, <3>1, <3>2, StreamStays
    <3>3. CASE m.type # "claim" /\ client # NoConn
      <4>0. PICK d \in Conns : d = client
        BY <1>0, <3>3
      <4>1. Send(d, m) /\ client' = client
        BY <2>3, <3>3, <4>0 DEF ToPlayer
      <4>2. StreamInv(d) /\ StreamInv(c)
        BY DEF OrderInv
      <4>3. Before(sent, StreamEvents(d), EventsIn(channel))
        BY <4>0, <4>2 DEF StreamInv
      <4>4. Before(sent, StreamEvents(d), EventOf(m)) /\ Before(sent, StreamEvents(d), EventsIn(channel'))
        BY <2>2, <4>3 DEF Before
      <4>5. EventOf(m) \subseteq Versions /\ EventOf(m) \subseteq ToSet(sent)
        BY <1>0, <2>2 DEF ChannelOrder
      <4>6. /\ StreamOrder(c)'
            /\ StreamEvents(c)' \subseteq StreamEvents(c) \cup (IF c = d THEN EventOf(m) ELSE {})
        BY <1>1, <2>2, <4>0, <4>1, <4>4, <4>5, SendOrder
      <4>7. c = d => Before(sent, StreamEvents(c)', EventsIn(channel'))
        BY <2>4, <4>4, <4>6 DEF Before
      <4> QED
        BY <1>1, <4>0, <4>1, <4>6, <4>7 DEF StreamInv
    <3> QED
      BY <2>3, <3>2, <3>3 DEF ToPlayer
  <2> QED
    BY <2>5, <2>6
<1> QED
  BY <1>3, <1>4

\* The steps of a handler that send nothing.
LEMMA ConnectOrder ==
    ASSUME OrderInv, NEW d \in Conns,
           \/ LoadState(d) \/ Acquire(d) \/ ClaimConnection(d) \/ ConnectElsewhere(d)
           \/ Register(d) \/ Reload(d) \/ HangUp(d)
    PROVE  ChannelOrder' /\ \A c \in Conns : StreamInv(c)'
<1>0. /\ TypeInv /\ channel \in Seq(Messages) /\ counter \in Nat /\ pc \in [Conns -> Steps]
      /\ ChannelOrder
  BY OrderFacts DEF OrderInv
<1>1. PICK m : m = Claim(counter + 1)
  OBVIOUS
<1>2. m \in Messages /\ EventOf(m) = {}
  BY <1>0, <1>1, MessageTypes
<1>3. /\ UNCHANGED <<sent, unsent, buf, read>> /\ channel' \in {channel, Published(m)}
      /\ client' = client \/ (client' = d /\ pc[d] = "register")
  BY <1>1 DEF LoadState, Acquire, ClaimConnection, ConnectElsewhere, Register, Reload, HangUp,
              game, hub
<1>4. EventsIn(channel') \subseteq EventsIn(channel)
  BY <1>0, <1>2, <1>3, PublishedEffect
<1>5. Ordered(sent, channel')
  <2>1. Before(sent, EventsIn(channel), EventOf(m))
    BY <1>2, EmptyOrder
  <2>2. Ordered(sent, Append(channel, m)) /\ Ordered(sent, channel)
    BY <1>0, <1>2, <2>1, OrderedAppend DEF ChannelOrder
  <2> QED
    BY <1>3, <2>2 DEF Published
<1>6. ChannelOrder'
  BY <1>0, <1>3, <1>4, <1>5 DEF ChannelOrder
<1>7. ASSUME NEW c \in Conns PROVE StreamInv(c)'
  <2>1. pc'[c] \in Fresh => pc[c] \in Fresh
    BY <1>0 DEF LoadState, Acquire, ClaimConnection, ConnectElsewhere, Register, Reload, HangUp,
                Goto, Fresh
  <2>2. client' = c => client = c \/ pc[c] \in Fresh
    BY <1>3 DEF Fresh
  <2> QED
    BY <1>3, <1>4, <2>1, <2>2, StreamStays
<1> QED
  BY <1>6, <1>7

\* The greeting is no event; the pump takes messages from the front of the buffer; nothing
\* is left of a connection that leaves.
LEMMA ServeOrder ==
    ASSUME OrderInv, NEW d \in Conns, Greet(d) \/ Pump(d) \/ Leave(d)
    PROVE  ChannelOrder' /\ \A c \in Conns : StreamInv(c)'
<1>0. /\ TypeInv /\ pc \in [Conns -> Steps] /\ client \in Conns \cup {NoConn}
      /\ buf \in [Conns -> Seq(Messages)] /\ read \in [Conns -> Seq(Messages)]
      /\ snap[d] \in Nat /\ ChannelOrder
  BY OrderFacts DEF OrderInv
<1>1. UNCHANGED <<sent, unsent>> /\ (channel' = channel \/ channel' = <<>>)
  BY DEF Greet, Pump, Leave, game, hub
<1>2. ChannelOrder' /\ EventsIn(channel') \subseteq EventsIn(channel)
  BY <1>0, <1>1, EmptyEvents, EmptyOrder DEF ChannelOrder
<1>3. CASE Greet(d)
  <2>1. /\ pc[d] = "greet" /\ pc' = [pc EXCEPT ![d] = "serve"] /\ ToPlayer(Joined(snap[d]))
        /\ UNCHANGED <<channel, client, read>>
    BY <1>3 DEF Greet, Goto, hub
  <2>2. PICK m : m = Joined(snap[d])
    OBVIOUS
  <2>3. m \in Messages /\ EventOf(m) = {}
    BY <1>0, <2>2, MessageTypes
  <2>4. ASSUME NEW c \in Conns PROVE StreamInv(c)'
    <3>1. pc'[c] \in Fresh => pc[c] \in Fresh
      BY <1>0, <2>1 DEF Fresh
    <3>2. CASE client = NoConn
      BY <1>1, <2>1, <3>1, <3>2, StreamStays DEF ToPlayer
    <3>3. CASE client # NoConn
      <4>0. PICK e \in Conns : e = client
        BY <1>0, <3>3
      <4>1. Send(e, m)
        BY <2>1, <2>2, <3>3, <4>0 DEF ToPlayer
      <4>2. StreamOrder(c)' /\ StreamEvents(c)' \subseteq StreamEvents(c)
        BY <1>1, <2>1, <2>3, <3>1, <4>0, <4>1, EmptyOrder, SendOrder
      <4>3. client = c => Before(sent, StreamEvents(c), EventsIn(channel))
        BY DEF OrderInv, StreamInv
      <4>4. client = c => Before(sent, StreamEvents(c)', EventsIn(channel))
        BY <4>2, <4>3 DEF Before
      <4> QED
        BY <1>1, <2>1, <4>2, <4>4 DEF StreamInv
    <3> QED
      BY <3>2, <3>3
  <2> QED
    BY <1>2, <2>4
<1>4. CASE Pump(d)
  <2>1. /\ pc[d] = "serve" /\ buf[d] # <<>> /\ buf' = [buf EXCEPT ![d] = Tail(buf[d])]
        /\ read' = [read EXCEPT ![d] = Append(read[d], Head(buf[d]))]
        /\ UNCHANGED <<channel, client, pc>>
    BY <1>4 DEF Pump, hub
  <2>2. ASSUME NEW c \in Conns PROVE StreamInv(c)'
    <3>1. CASE c # d
      <4>1. buf'[c] = buf[c] /\ read'[c] = read[c]
        BY <1>0, <2>1, <3>1
      <4> QED
        BY <1>1, <2>1, <4>1, StreamStays
    <3>2. CASE c = d
      <4>1. PICK m, t : m = Head(buf[c]) /\ t = Tail(buf[c])
        OBVIOUS
      <4>2. buf'[c] = t /\ read'[c] = Append(read[c], m)
        BY <1>0, <2>1, <3>2, <4>1
      <4>3. m \in Messages /\ EventsIn(buf[c]) = EventOf(m) \cup EventsIn(t)
        BY <1>0, <2>1, <3>2, <4>1, TailEvents
      <4>4. StreamInv(c) /\ StreamOrder(c)
        BY DEF OrderInv, StreamInv
      <4>5. Ordered(sent, t) /\ Before(sent, EventOf(m), EventsIn(t))
        BY <1>0, <2>1, <3>2, <4>1, <4>4, OrderedTail DEF StreamOrder
      <4>6. /\ Before(sent, EventsIn(read[c]), EventOf(m))
            /\ Before(sent, EventsIn(read[c]), EventsIn(t))
        BY <4>3, <4>4 DEF StreamOrder, Before
      <4>7. Ordered(sent, Append(read[c], m))
        BY <1>0, <4>3, <4>4, <4>6, OrderedAppend DEF StreamOrder
      <4>8. EventsIn(Append(read[c], m)) = EventsIn(read[c]) \cup EventOf(m)
        BY <1>0, <4>3, AppendEvents
      <4>9. Before(sent, EventsIn(Append(read[c], m)), EventsIn(t))
        BY <4>5, <4>6, <4>8 DEF Before
      <4>10. StreamEvents(c)' = StreamEvents(c)
        BY <4>2, <4>3, <4>8 DEF StreamEvents
      <4>11. pc'[c] \notin Fresh
        BY <2>1, <3>2 DEF Fresh
      <4>12. StreamEvents(c) \subseteq ToSet(sent)
        BY <4>4 DEF StreamOrder
      <4>13. StreamOrder(c)'
        BY <1>1, <4>2, <4>5, <4>7, <4>9, <4>10, <4>11, <4>12 DEF StreamOrder
      <4> QED
        BY <1>1, <2>1, <4>4, <4>10, <4>13 DEF StreamInv
    <3> QED
      BY <3>1, <3>2
  <2> QED
    BY <1>2, <2>2
<1>5. CASE Leave(d)
  <2>1. /\ client' \in {client, NoConn} /\ client' # d /\ pc' = [pc EXCEPT ![d] = "done"]
        /\ buf' = [buf EXCEPT ![d] = <<>>] /\ read' = [read EXCEPT ![d] = <<>>]
    BY <1>5, ConnsAssumption DEF Leave, Forget, Goto
  <2>2. ASSUME NEW c \in Conns PROVE StreamInv(c)'
    <3>1. CASE c # d
      <4>1. buf'[c] = buf[c] /\ read'[c] = read[c] /\ pc'[c] = pc[c]
        BY <1>0, <2>1, <3>1
      <4> QED
        BY <1>1, <1>2, <2>1, <4>1, ConnsAssumption, StreamStays
    <3>2. CASE c = d
      <4>1. buf'[c] = <<>> /\ read'[c] = <<>> /\ client' # c
        BY <1>0, <2>1, <3>2
      <4> QED
        BY <4>1, EmptyEvents, EmptyOrder DEF StreamInv, StreamOrder, StreamEvents
    <3> QED
      BY <3>1, <3>2
  <2> QED
    BY <1>2, <2>2
<1> QED
  BY <1>3, <1>4, <1>5

\* OrderInv is inductive.
LEMMA NextOrder == OrderInv /\ [Next]_vars => OrderInv'
<1> SUFFICES ASSUME OrderInv, [Next]_vars PROVE OrderInv'
  OBVIOUS
<1>1. GapInv'
  BY NextGap DEF OrderInv
<1>2. ChannelOrder' /\ \A c \in Conns : StreamInv(c)'
  <2>1. CASE UNCHANGED vars
    <3>1. ChannelOrder'
      BY <2>1 DEF vars, game, hub, OrderInv, ChannelOrder
    <3>2. \A c \in Conns : StreamInv(c)'
      BY <2>1, StreamStays DEF vars, game, hub
    <3> QED
      BY <3>1, <3>2
  <2>2. CASE Next
    BY <2>2, GameOrder, HubOrder, ConnectOrder, ServeOrder DEF Next, Handler
  <2> QED
    BY <2>1, <2>2
<1> QED
  BY <1>1, <1>2 DEF OrderInv

\* A connection gets events in the order in which Redis published them, and twice only
\* one that was published twice, whatever connections came and went and whatever was
\* lost on the way.
THEOREM EventsInOrderOnce == Spec => []InOrderOnce
<1>1. Init => OrderInv
  <2> SUFFICES ASSUME Init PROVE OrderInv
    OBVIOUS
  <2>1. GapInv
    BY InitTypes, ConnsAssumption DEF Init, GapInv, GapFor
  <2>2. ChannelOrder
    BY EmptyEvents, EmptyOrder DEF Init, ChannelOrder
  <2>3. \A c \in Conns : StreamInv(c)
    BY EmptyEvents, EmptyOrder DEF Init, StreamInv, StreamOrder, StreamEvents
  <2> QED
    BY <2>1, <2>2, <2>3 DEF OrderInv
<1>2. OrderInv => InOrderOnce
  <2> SUFFICES ASSUME OrderInv PROVE InOrderOnce
    OBVIOUS
  <2>1. ASSUME NEW c \in Conns, NEW s, s = Stream(c) \o (IF client = c THEN channel ELSE <<>>)
        PROVE  Ordered(sent, s)
    <3>1. PICK t : t = IF client = c THEN channel ELSE <<>>
      OBVIOUS
    <3>2. /\ t \in Seq(Messages) /\ read[c] \in Seq(Messages) /\ buf[c] \in Seq(Messages)
          /\ StreamInv(c) /\ StreamOrder(c) /\ ChannelOrder
      BY <3>1, OrderFacts, EmptySeq DEF OrderInv, StreamInv
    <3>3. Ordered(sent, Stream(c)) /\ Stream(c) \in Seq(Messages)
          /\ EventsIn(Stream(c)) = StreamEvents(c)
      BY <3>2, OrderedConcat, ConcatEvents, ConcatProperties DEF Stream, StreamOrder, StreamEvents
    <3>4. Ordered(sent, t) /\ Before(sent, StreamEvents(c), EventsIn(t))
      BY <3>1, <3>2, EmptyEvents, EmptyOrder DEF StreamInv, ChannelOrder
    <3>5. s = Stream(c) \o t
      BY <2>1, <3>1
    <3> QED
      BY <3>2, <3>3, <3>4, <3>5, OrderedConcat
  <2>2. ASSUME NEW c \in Conns, NEW s, s = Stream(c) \o (IF client = c THEN channel ELSE <<>>),
               NEW i \in DOMAIN s, NEW j \in DOMAIN s, i < j, s[i].type = "event", s[j].type = "event"
        PROVE  Precedes(sent, s[i].n, s[j].n)
    BY <2>1, <2>2 DEF Ordered
  <2> QED
    BY <2>2 DEF InOrderOnce
<1> QED
  BY <1>1, <1>2, NextOrder, PTL DEF Spec
=============================================================================
