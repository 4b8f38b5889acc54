-------------------------- MODULE ConnectionsProofs --------------------------
(***************************************************************************)
(* Proofs about Connections, for any number of connections and instances:  *)
(* what a session keeps, and that the newest connection of a player is the *)
(* one that stays.                                                         *)
(***************************************************************************)
EXTENDS Connections, FiniteSetTheorems, TLAPS

---------------------------------------------------------------------------
(* Handlers.                                                               *)

\* The connections whose handlers hold a reference to the session of i.
Holders(i) == {c \in Conns : at[c] = i /\ pc[c] \in Holding}

\* The connections that took a generation, whether they got to know it or not.
Claimed == {d \in Conns : turn[d] > 0}

\* A handler moves alone.
LEMMA GotoFacts ==
    ASSUME pc \in [Conns -> Steps], NEW c \in Conns, NEW step \in Steps, Goto(c, step)
    PROVE  /\ pc' \in [Conns -> Steps]
           /\ pc'[c] = step
           /\ \A d \in Conns : d # c => pc'[d] = pc[d]
BY DEF Goto

\* The steps of a handler that holds a reference.
LEMMA HoldingFacts ==
    /\ Holding = {"claim", "announce", "upgrade", "register", "serve", "unregister", "release"}
    /\ Steps = Holding \cup {"new", "acquire", "done"}
BY DEF Holding, Steps

\* The number of connections, and of some of them.
LEMMA ConnsCount ==
    /\ Cardinality(Conns) \in Nat
    /\ \A S \in SUBSET Conns :
         /\ IsFiniteSet(S) /\ Cardinality(S) \in Nat /\ Cardinality(S) <= Cardinality(Conns)
         /\ \A c \in S : /\ Cardinality(S) >= 1
                         /\ Cardinality(S \ {c}) = Cardinality(S) - 1
         /\ \A c \in Conns \ S : /\ Cardinality(S \cup {c}) = Cardinality(S) + 1
                                 /\ Cardinality(S) + 1 <= Cardinality(Conns)
         /\ \A c, d \in S : Cardinality(S) = 1 => c = d
<1>1. IsFiniteSet(Conns) /\ Cardinality(Conns) \in Nat
  BY ConnsAssumption, FS_CardinalityType
<1>2. ASSUME NEW S \in SUBSET Conns
      PROVE  IsFiniteSet(S) /\ Cardinality(S) \in Nat /\ Cardinality(S) <= Cardinality(Conns)
  <2>1. IsFiniteSet(S) /\ Cardinality(S) <= Cardinality(Conns)
    BY <1>1, FS_Subset
  <2>2. QED
    BY <2>1, FS_CardinalityType
<1>3. ASSUME NEW S \in SUBSET Conns, NEW c \in S
      PROVE  Cardinality(S) >= 1 /\ Cardinality(S \ {c}) = Cardinality(S) - 1
  <2>1. Cardinality(S \ {c}) = Cardinality(S) - 1
    BY <1>2, FS_RemoveElement
  <2>2. Cardinality(S \ {c}) \in Nat /\ Cardinality(S) \in Nat
    BY <1>2
  <2>3. QED
    BY <2>1, <2>2
<1>4. ASSUME NEW S \in SUBSET Conns, NEW c \in Conns \ S
      PROVE  /\ Cardinality(S \cup {c}) = Cardinality(S) + 1
             /\ Cardinality(S) + 1 <= Cardinality(Conns)
  <2>1. Cardinality(S \cup {c}) = Cardinality(S) + 1
    BY <1>2, FS_AddElement
  <2>2. S \cup {c} \in SUBSET Conns
    OBVIOUS
  <2>3. QED
    BY <1>2, <2>1, <2>2
<1>5. ASSUME NEW S \in SUBSET Conns, NEW c \in S, NEW d \in S, Cardinality(S) = 1
      PROVE  c = d
  <2>1. Cardinality(S \ {c}) = 0 /\ IsFiniteSet(S \ {c})
    <3>1. S \ {c} \in SUBSET Conns
      OBVIOUS
    <3>2. QED
      BY <1>2, <1>3, <1>5, <3>1
  <2>2. S \ {c} = {}
    BY <2>1, FS_EmptySet
  <2>3. QED
    BY <2>2
<1>6. QED
  BY <1>1, <1>2, <1>3, <1>4, <1>5

---------------------------------------------------------------------------
(* Types and sessions.                                                     *)

\* A generation is taken once, after the session is acquired, and the counter
\* never gives more than there are connections.
ClaimInv ==
    /\ \A c \in Conns : pc[c] \in {"new", "acquire", "claim"} => turn[c] = 0
    /\ counter <= Cardinality(Claimed)
    /\ \A c \in Conns : turn[c] <= Cardinality(Claimed)

SessionInv == TypeOK /\ ClaimInv /\ SessionHeld

\* The parts of SessionHeld.
CountInv == \A i \in Instances : refs[i] = Cardinality(Holders(i))
ClientInv == \A i \in Instances :
    client[i] # NoConn => /\ at[client[i]] = i
                          /\ pc[client[i]] \in {"serve", "unregister"}

\* SessionHeld is these two.
LEMMA SessionParts == SessionHeld <=> CountInv /\ ClientInv
BY DEF SessionHeld, CountInv, ClientInv, Holders

\* Nobody is connected at first.
LEMMA SessionInit == Init => SessionInv
<1> SUFFICES ASSUME Init PROVE SessionInv
  OBVIOUS
<1>1. 0 \in Generations
  BY ConnsCount DEF Generations
<1>2. TypeOK
  BY <1>1 DEF Init, TypeOK, Steps
<1>3. \A i \in Instances : Holders(i) = {}
  BY DEF Init, Holders, Holding
<1>4. Claimed = {}
  BY DEF Init, Claimed
<1>5. ClaimInv
  BY <1>4, FS_EmptySet DEF Init, ClaimInv
<1>6. CountInv /\ ClientInv
  BY <1>3, FS_EmptySet DEF Init, CountInv, ClientInv
<1>7. QED
  BY <1>2, <1>5, <1>6, SessionParts DEF SessionInv

Early == {"new", "acquire", "claim"}

\* A step that neither takes or gives back a reference nor takes a generation.
LEMMA SessionFrame ==
    ASSUME CountInv, ClaimInv, UNCHANGED <<at, turn, counter, refs>>,
           \A d \in Conns : /\ pc'[d] \in Holding <=> pc[d] \in Holding
                            /\ pc'[d] \in Early => pc[d] \in Early
    PROVE  CountInv' /\ ClaimInv'
<1>1. \A i \in Instances : Holders(i)' = Holders(i)
  BY DEF Holders
<1>2. Claimed' = Claimed
  BY DEF Claimed
<1>3. CountInv'
  BY <1>1 DEF CountInv
<1>4. ClaimInv'
  BY <1>2 DEF ClaimInv, Early
<1>5. QED
  BY <1>3, <1>4

\* Every step keeps the types, the generations and the references.
LEMMA SessionStep == SessionInv /\ [Next]_vars => SessionInv'
<1> SUFFICES ASSUME SessionInv, [Next]_vars PROVE SessionInv'
  OBVIOUS
<1>0. /\ TypeOK /\ ClaimInv /\ CountInv /\ ClientInv
      /\ pc \in [Conns -> Steps] /\ at \in [Conns -> Instances]
      /\ NoConn \notin Conns
  BY SessionParts, ConnsAssumption DEF SessionInv, TypeOK
<1>1. ASSUME TypeOK', CountInv', ClaimInv', ClientInv' PROVE SessionInv'
  <2>1. SessionHeld'
    BY <1>1, SessionParts, PTL
  <2>2. QED
    BY <1>1, <2>1 DEF SessionInv
<1>2. ASSUME NEW c \in Conns, NEW step \in Steps, Goto(c, step),
             UNCHANGED <<at, turn, counter, refs, client>>, TypeOK',
             step \in Holding <=> pc[c] \in Holding, step \in Early => pc[c] \in Early,
             pc[c] \in {"serve", "unregister"} => step \in {"serve", "unregister"}
      PROVE  SessionInv'
  <2>1. pc'[c] = step /\ \A d \in Conns : d # c => pc'[d] = pc[d]
    BY <1>0, <1>2, GotoFacts
  <2>2. CountInv' /\ ClaimInv'
    BY <1>0, <1>2, <2>1, SessionFrame
  <2>3. ClientInv'
    BY <1>0, <1>2, <2>1 DEF ClientInv, TypeOK
  <2>4. QED
    BY <1>1, <1>2, <2>2, <2>3
<1>3. ASSUME UNCHANGED <<at, turn, counter, refs, client, pc>>, TypeOK' PROVE SessionInv'
  <2>1. CountInv' /\ ClaimInv'
    BY <1>0, <1>3, SessionFrame
  <2>2. ClientInv'
    BY <1>0, <1>3 DEF ClientInv
  <2>3. QED
    BY <1>1, <1>3, <2>1, <2>2
<1>4. ASSUME NEW c \in Conns, LoadState(c) PROVE SessionInv'
  <2>1. PICK step \in {"acquire", "done"} : Goto(c, step)
    BY <1>4 DEF LoadState
  <2>2. step \in Steps /\ pc' \in [Conns -> Steps]
    BY <1>0, <2>1, GotoFacts DEF Steps
  <2>3. TypeOK'
    BY <1>0, <1>4, <2>2 DEF LoadState, TypeOK, hubs
  <2>4. QED
    BY <1>2, <1>4, <2>1, <2>2, <2>3, HoldingFacts DEF LoadState, hubs, Early
<1>5. ASSUME NEW c \in Conns, Acquire(c) PROVE SessionInv'
  <2> DEFINE i == at[c]
  <2>1. /\ pc' \in [Conns -> Steps] /\ pc'[c] = "claim" /\ pc[c] = "acquire"
        /\ \A d \in Conns : d # c => pc'[d] = pc[d]
    BY <1>0, <1>5, GotoFacts DEF Acquire, Steps
  <2>2. /\ i \in Instances /\ refs \in [Instances -> Generations]
        /\ refs' = [refs EXCEPT ![i] = refs[i] + 1]
        /\ UNCHANGED <<alive, counter, inbox, lost, latest, client, at, seq, open, doomed, turn>>
    BY <1>0, <1>5 DEF Acquire, TypeOK
  <2>3. c \in Conns \ Holders(i) /\ Holders(i) \in SUBSET Conns
    BY <2>1, HoldingFacts DEF Holders
  <2>4. Holders(i)' = Holders(i) \cup {c} /\ \A j \in Instances : j # i => Holders(j)' = Holders(j)
    BY <2>1, <2>2, HoldingFacts DEF Holders
  <2>5. refs[i] = Cardinality(Holders(i))
    BY <1>0, <2>2 DEF CountInv
  <2>6. refs[i] + 1 = Cardinality(Holders(i)') /\ refs[i] + 1 \in Generations
    BY <2>3, <2>4, <2>5, ConnsCount DEF Generations
  <2>7. CountInv'
    BY <1>0, <2>2, <2>4, <2>6 DEF CountInv
  <2>8. refs' \in [Instances -> Generations]
    BY <2>2, <2>6
  <2>9. TypeOK'
    BY <1>0, <2>1, <2>2, <2>8 DEF TypeOK
  <2>10. Claimed' = Claimed
    BY <2>2 DEF Claimed
  <2>11. ClaimInv'
    BY <1>0, <2>1, <2>2, <2>10 DEF ClaimInv
  <2>12. ClientInv'
    BY <1>0, <2>1, <2>2 DEF ClientInv, TypeOK
  <2>13. QED
    BY <1>1, <2>7, <2>9, <2>11, <2>12
<1>6. ASSUME NEW c \in Conns, IncrCounter(c) PROVE SessionInv'
  <2>1. PICK n \in {0, counter}, step \in {"announce", "release"} :
          /\ counter' = n + 1 /\ Goto(c, step)
          /\ seq' = [seq EXCEPT ![c] = n + 1] \/ seq' = seq
    BY <1>6 DEF IncrCounter, Found
  <2>2. /\ pc' \in [Conns -> Steps] /\ pc'[c] = step /\ pc[c] = "claim"
        /\ \A d \in Conns : d # c => pc'[d] = pc[d]
    BY <1>0, <1>6, <2>1, GotoFacts DEF IncrCounter, Steps
  <2>3. /\ turn' = [turn EXCEPT ![c] = 1 + Cardinality(Claimed)]
        /\ UNCHANGED <<alive, refs, inbox, lost, latest, client, at, open, doomed>>
        /\ turn \in [Conns -> Generations]
    BY <1>0, <1>6 DEF IncrCounter, hubs, Claimed, TypeOK
  <2>4. turn[c] = 0 /\ c \in Conns \ Claimed /\ Claimed \in SUBSET Conns
    BY <1>0, <2>2 DEF ClaimInv, Claimed
  <2>5. /\ Cardinality(Claimed \cup {c}) = Cardinality(Claimed) + 1
        /\ Cardinality(Claimed) \in Nat
        /\ 1 + Cardinality(Claimed) \in Generations
    BY <2>4, ConnsCount DEF Generations
  <2>6. Claimed' = Claimed \cup {c}
    <3>1. turn'[c] > 0 /\ \A d \in Conns : d # c => turn'[d] = turn[d]
      BY <2>3, <2>5
    <3>2. QED
      BY <3>1 DEF Claimed
  <2>7. n + 1 <= Cardinality(Claimed) + 1 /\ n + 1 \in Generations
    <3>1. counter \in Nat /\ counter <= Cardinality(Claimed)
      BY <1>0, ConnsCount DEF TypeOK, ClaimInv, Generations
    <3>2. QED
      BY <2>5, <3>1, ConnsCount DEF Generations
  <2>8. turn' \in [Conns -> Generations] /\ seq' \in [Conns -> Generations] /\ counter' \in Generations
    BY <1>0, <2>1, <2>3, <2>5, <2>7 DEF TypeOK
  <2>9. TypeOK'
    BY <1>0, <2>2, <2>3, <2>8 DEF TypeOK
  <2>10. \A i \in Instances : Holders(i)' = Holders(i)
    BY <2>2, <2>3, HoldingFacts DEF Holders
  <2>11. CountInv'
    BY <1>0, <2>3, <2>10 DEF CountInv
  <2>12. ClaimInv'
    <3>1. \A d \in Conns : d # c => turn'[d] = turn[d]
      BY <2>3
    <3>2. turn'[c] = 1 + Cardinality(Claimed)
      BY <2>3
    <3>3. \A d \in Conns : turn[d] \in Int /\ turn[d] <= Cardinality(Claimed)
      BY <1>0, <2>3, ConnsCount DEF ClaimInv, Generations
    <3>4. \A d \in Conns : turn'[d] <= Cardinality(Claimed')
      BY <2>5, <2>6, <3>1, <3>2, <3>3
    <3>5. \A d \in Conns : pc'[d] \in {"new", "acquire", "claim"} => turn'[d] = 0
      BY <1>0, <2>2, <3>1 DEF ClaimInv
    <3>6. QED
      BY <2>1, <2>5, <2>6, <2>7, <3>4, <3>5 DEF ClaimInv
  <2>13. ClientInv'
    BY <1>0, <2>2, <2>3 DEF ClientInv, TypeOK
  <2>14. QED
    BY <1>1, <2>9, <2>11, <2>12, <2>13
<1>7. ASSUME NEW c \in Conns, Announce(c) PROVE SessionInv'
  <2>1. PICK step \in {"announce", "upgrade", "release"} : Goto(c, step)
    BY <1>7 DEF Announce
  <2>2. step \in Steps /\ pc' \in [Conns -> Steps] /\ pc[c] = "announce"
    BY <1>0, <1>7, <2>1, GotoFacts DEF Steps, Announce
  <2>3. inbox' \in [Instances -> SUBSET Generations]
    <3>1. seq[c] \in Generations
      BY <1>0 DEF TypeOK
    <3>2. QED
      BY <1>0, <1>7, <3>1 DEF Announce, TypeOK
  <2>4. TypeOK'
    BY <1>0, <1>7, <2>2, <2>3 DEF Announce, TypeOK
  <2>5. QED
    BY <1>2, <1>7, <2>1, <2>2, <2>4, HoldingFacts DEF Announce, Early
<1>8. ASSUME NEW c \in Conns, Upgrade(c) PROVE SessionInv'
  <2>1. "register" \in Steps /\ pc' \in [Conns -> Steps] /\ pc[c] = "upgrade" /\ Goto(c, "register")
    BY <1>0, <1>8, GotoFacts DEF Steps, Upgrade
  <2>2. TypeOK'
    BY <1>0, <1>8, <2>1 DEF Upgrade, TypeOK, hubs
  <2>3. QED
    BY <1>2, <1>8, <2>1, <2>2, HoldingFacts DEF Upgrade, hubs, Early
<1>9. ASSUME NEW c \in Conns, Register(c) PROVE SessionInv'
  <2>1. PICK step \in {"release", "serve"} : Goto(c, step) /\ (step = "release" <=> Refused(c))
    BY <1>9 DEF Register
  <2>2. /\ step \in Steps /\ pc' \in [Conns -> Steps] /\ pc[c] = "register" /\ pc'[c] = step
        /\ \A d \in Conns : d # c => pc'[d] = pc[d]
        /\ at[c] \in Instances
    BY <1>0, <1>9, <2>1, GotoFacts DEF Steps, Register
  <2>3. UNCHANGED <<alive, counter, refs, inbox, lost, at, seq, turn>>
    BY <1>9 DEF Register
  <2>4. CASE Refused(c)
    <3>1. open' = open \ {c} /\ UNCHANGED <<latest, client, doomed>>
      BY <1>9, <2>4 DEF Register
    <3>2. TypeOK'
      BY <1>0, <2>2, <2>3, <3>1 DEF TypeOK
    <3>3. QED
      BY <1>2, <2>1, <2>2, <2>3, <2>4, <3>1, <3>2, HoldingFacts DEF Early
  <2>5. CASE ~Refused(c)
    <3>1. /\ latest' = [latest EXCEPT ![at[c]] = seq[c]]
          /\ client' = [client EXCEPT ![at[c]] = c]
          /\ doomed' = doomed \cup ({client[at[c]]} \ {NoConn})
          /\ UNCHANGED open
      BY <1>9, <2>5 DEF Register
    <3>2. seq[c] \in Generations /\ client[at[c]] \in Conns \cup {NoConn}
      BY <1>0, <2>2 DEF TypeOK
    <3>3. /\ latest' \in [Instances -> Generations] /\ client' \in [Instances -> Conns \cup {NoConn}]
          /\ doomed' \in SUBSET Conns
      BY <1>0, <2>2, <3>1, <3>2 DEF TypeOK
    <3>4. TypeOK'
      BY <1>0, <2>2, <2>3, <3>1, <3>3 DEF TypeOK
    <3>5. \A d \in Conns : /\ pc'[d] \in Holding <=> pc[d] \in Holding
                           /\ pc'[d] \in Early => pc[d] \in Early
      BY <2>1, <2>2, HoldingFacts DEF Early
    <3>6. CountInv' /\ ClaimInv'
      BY <1>0, <2>3, <3>5, SessionFrame
    <3>7. ClientInv'
      BY <1>0, <2>1, <2>2, <2>3, <2>5, <3>1 DEF ClientInv, TypeOK
    <3>8. QED
      BY <1>1, <3>4, <3>6, <3>7
  <2>6. QED
    BY <2>4, <2>5
<1>10. ASSUME NEW c \in Conns, PumpsReturn(c) PROVE SessionInv'
  <2>1. "unregister" \in Steps /\ pc' \in [Conns -> Steps] /\ pc[c] = "serve" /\ Goto(c, "unregister")
    BY <1>0, <1>10, GotoFacts DEF Steps, PumpsReturn
  <2>2. TypeOK'
    BY <1>0, <1>10, <2>1 DEF PumpsReturn, TypeOK, hubs
  <2>3. QED
    BY <1>2, <1>10, <2>1, <2>2, HoldingFacts DEF PumpsReturn, hubs, Early
<1>11. ASSUME NEW c \in Conns, Unregister(c) PROVE SessionInv'
  <2>1. /\ pc' \in [Conns -> Steps] /\ pc[c] = "unregister" /\ pc'[c] = "release"
        /\ \A d \in Conns : d # c => pc'[d] = pc[d]
        /\ at[c] \in Instances
    BY <1>0, <1>11, GotoFacts DEF Steps, Unregister
  <2>2. /\ UNCHANGED <<alive, counter, refs, inbox, lost, latest, at, seq, open, doomed, turn>>
        /\ client' = [client EXCEPT ![at[c]] = IF @ = c THEN NoConn ELSE @]
    BY <1>11 DEF Unregister
  <2>3. client \in [Instances -> Conns \cup {NoConn}]
    BY <1>0 DEF TypeOK
  <2>4. client' \in [Instances -> Conns \cup {NoConn}]
    BY <2>1, <2>2, <2>3
  <2>5. TypeOK'
    BY <1>0, <2>1, <2>2, <2>4 DEF TypeOK
  <2>6. \A d \in Conns : /\ pc'[d] \in Holding <=> pc[d] \in Holding
                         /\ pc'[d] \in Early => pc[d] \in Early
    BY <2>1, HoldingFacts DEF Early
  <2>7. CountInv' /\ ClaimInv'
    BY <1>0, <2>2, <2>6, SessionFrame
  <2>8. ClientInv'
    <3> SUFFICES ASSUME NEW j \in Instances, client'[j] # NoConn
                 PROVE  at[client'[j]] = j /\ pc'[client'[j]] \in {"serve", "unregister"}
      BY <2>2 DEF ClientInv
    <3>1. client'[j] = client[j] /\ client[j] \in Conns /\ client[j] # NoConn
      BY <2>1, <2>2, <2>3
    <3>2. at[client[j]] = j /\ pc[client[j]] \in {"serve", "unregister"}
      BY <1>0, <3>1 DEF ClientInv
    <3>3. client[j] # c
      <4>1. CASE j = at[c]
        BY <2>1, <2>2, <2>3, <3>1, <4>1
      <4>2. CASE j # at[c]
        BY <3>2, <4>2
      <4>3. QED
        BY <4>1, <4>2
    <3>4. QED
      BY <2>1, <3>1, <3>2, <3>3
  <2>9. QED
    BY <1>1, <2>5, <2>7, <2>8
<1>12. ASSUME NEW c \in Conns, Release(c) PROVE SessionInv'
  <2> DEFINE i == at[c]
  <2>1. /\ pc' \in [Conns -> Steps] /\ pc'[c] = "done" /\ pc[c] = "release"
        /\ \A d \in Conns : d # c => pc'[d] = pc[d]
    BY <1>0, <1>12, GotoFacts DEF Release, Steps
  <2>2. /\ i \in Instances /\ refs \in [Instances -> Generations]
        /\ inbox \in [Instances -> SUBSET Generations] /\ lost \in [Instances -> SUBSET Generations]
        /\ latest \in [Instances -> Generations] /\ client \in [Instances -> Conns \cup {NoConn}]
    BY <1>0 DEF TypeOK
  <2>3. /\ refs' = [refs EXCEPT ![i] = refs[i] - 1]
        /\ inbox' = [inbox EXCEPT ![i] = IF refs[i] = 1 THEN {} ELSE @]
        /\ lost' = [lost EXCEPT ![i] = IF refs[i] = 1 THEN {} ELSE @]
        /\ latest' = [latest EXCEPT ![i] = IF refs[i] = 1 THEN 0 ELSE @]
        /\ client' = [client EXCEPT ![i] = IF refs[i] = 1 THEN NoConn ELSE @]
        /\ UNCHANGED <<alive, counter, at, seq, open, doomed, turn>>
    BY <1>12 DEF Release
  <2>4. c \in Holders(i) /\ Holders(i) \in SUBSET Conns
    BY <2>1, HoldingFacts DEF Holders
  <2>5. Holders(i)' = Holders(i) \ {c} /\ \A j \in Instances : j # i => Holders(j)' = Holders(j)
    BY <2>1, <2>3, HoldingFacts DEF Holders
  <2>6. refs[i] = Cardinality(Holders(i))
    BY <1>0, <2>2 DEF CountInv
  <2>7. refs[i] - 1 = Cardinality(Holders(i)') /\ refs[i] - 1 \in Generations /\ 0 \in Generations
    BY <2>4, <2>5, <2>6, ConnsCount DEF Generations
  <2>8. CountInv'
    BY <1>0, <2>2, <2>3, <2>5, <2>7 DEF CountInv
  <2>9. /\ refs' \in [Instances -> Generations] /\ inbox' \in [Instances -> SUBSET Generations]
        /\ lost' \in [Instances -> SUBSET Generations]
        /\ latest' \in [Instances -> Generations] /\ client' \in [Instances -> Conns \cup {NoConn}]
    BY <2>2, <2>3, <2>7
  <2>10. TypeOK'
    BY <1>0, <2>1, <2>3, <2>9 DEF TypeOK
  <2>11. Claimed' = Claimed
    BY <2>3 DEF Claimed
  <2>12. ClaimInv'
    BY <1>0, <2>1, <2>3, <2>11 DEF ClaimInv
  <2>13. ClientInv'
    BY <1>0, <2>1, <2>2, <2>3 DEF ClientInv
  <2>14. QED
    BY <1>1, <2>8, <2>10, <2>12, <2>13
<1>13. ASSUME NEW i \in Instances, NEW s \in inbox[i], Claim(i, s) PROVE SessionInv'
  <2> DEFINE older == {d \in {client[i]} \ {NoConn} : seq[d] < s}
  <2>1. /\ UNCHANGED <<alive, counter, refs, lost, pc, at, seq, open, turn>>
        /\ inbox' = [inbox EXCEPT ![i] = @ \ {s}]
        /\ latest' = [latest EXCEPT ![i] = Max2(@, s)]
        /\ client' = [client EXCEPT ![i] = IF client[i] \in older THEN NoConn ELSE client[i]]
        /\ doomed' = doomed \cup older
    BY <1>13 DEF Claim
  <2>2. client \in [Instances -> Conns \cup {NoConn}] /\ older \subseteq Conns
    BY <1>0 DEF TypeOK
  <2>3. s \in Generations /\ Max2(latest[i], s) \in Generations
    BY <1>0 DEF TypeOK, Max2
  <2>4. /\ inbox' \in [Instances -> SUBSET Generations] /\ latest' \in [Instances -> Generations]
        /\ client' \in [Instances -> Conns \cup {NoConn}] /\ doomed' \in SUBSET Conns
    BY <1>0, <2>1, <2>2, <2>3 DEF TypeOK
  <2>5. TypeOK'
    BY <1>0, <2>1, <2>4 DEF TypeOK
  <2>6. CountInv' /\ ClaimInv'
    BY <1>0, <2>1, SessionFrame
  <2> HIDE DEF older
  <2>7. ClientInv'
    BY <1>0, <2>1, <2>2 DEF ClientInv
  <2>8. QED
    BY <1>1, <2>5, <2>6, <2>7
<1>14. ASSUME NEW c \in Conns, CloseDropped(c) \/ Disconnect(c) PROVE SessionInv'
  <2>1. TypeOK'
    BY <1>0, <1>14 DEF CloseDropped, Disconnect, TypeOK, hubs
  <2>2. QED
    BY <1>3, <1>14, <2>1 DEF CloseDropped, Disconnect, hubs
<1>15. ASSUME GameExpires \/ \E i \in Instances : Sweep(i) PROVE SessionInv'
  <2>1. TypeOK'
    BY <1>0, <1>15 DEF GameExpires, Sweep, CloseAll, TypeOK, hubs
  <2>2. QED
    BY <1>3, <1>15, <2>1 DEF GameExpires, Sweep, hubs
<1>16. ASSUME NEW c \in Conns, Fail(c) PROVE SessionInv'
  <2>1. PICK step \in {"done", "release"} :
          /\ Goto(c, step)
          /\ step = "done" => pc[c] \in {"new", "acquire"}
          /\ step = "release" => pc[c] \in {"claim", "announce", "upgrade"}
    BY <1>16 DEF Fail
  <2>2. step \in Steps /\ pc' \in [Conns -> Steps]
    BY <1>0, <2>1, GotoFacts DEF Steps
  <2>3. TypeOK'
    BY <1>0, <1>16, <2>2 DEF Fail, TypeOK, hubs
  <2>4. QED
    BY <1>2, <1>16, <2>1, <2>2, <2>3, HoldingFacts DEF Fail, hubs, Early
<1>17. ASSUME NEW i \in Instances, Crash(i) PROVE SessionInv'
  <2> DEFINE here == {c \in Conns : at[c] = i /\ pc[c] # "new"}
  <2>1. /\ pc' = [c \in Conns |-> IF c \in here THEN "done" ELSE pc[c]]
        /\ open' = open \ here /\ doomed' = doomed \ here
        /\ refs' = [refs EXCEPT ![i] = 0]
        /\ inbox' = [inbox EXCEPT ![i] = {}]
        /\ lost' = [lost EXCEPT ![i] = {}]
        /\ latest' = [latest EXCEPT ![i] = 0]
        /\ client' = [client EXCEPT ![i] = NoConn]
        /\ UNCHANGED <<alive, counter, at, seq, turn>>
    BY <1>17 DEF Crash
  <2>2. 0 \in Generations /\ "done" \in Steps
    BY ConnsCount DEF Generations, Steps
  <2>3. TypeOK'
    BY <1>0, <2>1, <2>2 DEF TypeOK
  <2>4. Holders(i)' = {} /\ \A j \in Instances : j # i => Holders(j)' = Holders(j)
    BY <1>0, <2>1, HoldingFacts DEF Holders
  <2>5. CountInv'
    BY <1>0, <2>1, <2>4, FS_EmptySet DEF CountInv, TypeOK
  <2>6. Claimed' = Claimed
    BY <2>1 DEF Claimed
  <2>7. ClaimInv'
    BY <1>0, <2>1, <2>6 DEF ClaimInv
  <2>8. ClientInv'
    BY <1>0, <2>1 DEF ClientInv, TypeOK
  <2>9. QED
    BY <1>1, <2>3, <2>5, <2>7, <2>8
<1>18. CASE UNCHANGED vars
  <2>1. TypeOK'
    BY <1>0, <1>18 DEF vars, hubs, TypeOK
  <2>2. QED
    BY <1>3, <1>18, <2>1 DEF vars, hubs
<1>19. ASSUME NEW i \in Instances, Resubscribe(i) PROVE SessionInv'
  <2>1. PICK s \in inbox[i] : /\ inbox' = [inbox EXCEPT ![i] = @ \ {s}]
                              /\ lost' = [lost EXCEPT ![i] = @ \cup {s}]
    BY <1>19 DEF Resubscribe
  <2>2. s \in Generations
    BY <1>0 DEF TypeOK
  <2>3. inbox' \in [Instances -> SUBSET Generations] /\ lost' \in [Instances -> SUBSET Generations]
    BY <1>0, <2>1, <2>2 DEF TypeOK
  <2>4. TypeOK'
    BY <1>0, <1>19, <2>3 DEF Resubscribe, TypeOK
  <2>5. QED
    BY <1>3, <1>19, <2>4 DEF Resubscribe
<1>20. QED
  BY <1>4, <1>5, <1>6, <1>7, <1>8, <1>9, <1>10, <1>11, <1>12, <1>13, <1>14, <1>15,
     <1>16, <1>17, <1>18, <1>19 DEF Next, Handler, Deliver

\* So they always hold.
LEMMA SessionAlways == Spec => []SessionInv
BY SessionInit, SessionStep, PTL DEF Spec

\* The state of connections and hubs is well typed: no session loses a reference it
\* does not have, and no counter runs past the connections (gameSessionStore).
THEOREM ConnectionsTypeOK == Spec => []TypeOK
BY SessionAlways, PTL DEF SessionInv

\* A session lives exactly as long as the handlers that use it, under any faults
\* (Acquire, Release, Register, Unregister): for any number of connections.
THEOREM ConnectionsSessionHeld == Spec => []SessionHeld
BY SessionAlways, PTL DEF SessionInv

---------------------------------------------------------------------------
(* What the steps do to the hubs, hub by hub.                              *)

\* A hub replaces its connection or refuses the new one.
LEMMA RegisterEffect ==
    ASSUME SessionInv, NEW c \in Conns, Register(c)
    PROVE  /\ at[c] \in Instances /\ pc[c] = "register"
           /\ \A d \in Conns : d # c => pc'[d] = pc[d]
           /\ UNCHANGED <<refs, inbox, lost, at, seq, turn>>
           /\ Refused(c) => /\ pc'[c] = "release" /\ open' = open \ {c}
                            /\ UNCHANGED <<latest, client, doomed>>
           /\ ~Refused(c) => /\ pc'[c] = "serve" /\ open' = open
                             /\ latest'[at[c]] = seq[c] /\ client'[at[c]] = c
                             /\ doomed' = doomed \cup ({client[at[c]]} \ {NoConn})
                             /\ \A j \in Instances : j # at[c] =>
                                  latest'[j] = latest[j] /\ client'[j] = client[j]
<1>1. pc \in [Conns -> Steps] /\ {"release", "serve"} \subseteq Steps
  BY DEF SessionInv, TypeOK, Steps
<1>2. /\ at[c] \in Instances /\ latest \in [Instances -> Generations]
      /\ client \in [Instances -> Conns \cup {NoConn}]
  BY DEF SessionInv, TypeOK
<1>3. pc[c] = "register" /\ UNCHANGED <<refs, inbox, lost, at, seq, turn>>
  BY DEF Register
<1>4. CASE Refused(c)
  <2>1. Goto(c, "release") /\ open' = open \ {c} /\ UNCHANGED <<latest, client, doomed>>
    BY <1>4 DEF Register
  <2>2. pc'[c] = "release" /\ \A d \in Conns : d # c => pc'[d] = pc[d]
    BY <1>1, <2>1, GotoFacts
  <2>3. QED
    BY <1>2, <1>3, <1>4, <2>1, <2>2
<1>5. CASE ~Refused(c)
  <2>1. /\ Goto(c, "serve") /\ open' = open
        /\ latest' = [latest EXCEPT ![at[c]] = seq[c]]
        /\ client' = [client EXCEPT ![at[c]] = c]
        /\ doomed' = doomed \cup ({client[at[c]]} \ {NoConn})
    BY <1>5 DEF Register
  <2>2. pc'[c] = "serve" /\ \A d \in Conns : d # c => pc'[d] = pc[d]
    BY <1>1, <2>1, GotoFacts
  <2>3. QED
    BY <1>2, <1>3, <1>5, <2>1, <2>2
<1>6. QED
  BY <1>4, <1>5

\* A handler that ends leaves the hub alone, unless it is the last.
LEMMA ReleaseEffect ==
    ASSUME SessionInv, NEW c \in Conns, Release(c)
    PROVE  /\ at[c] \in Instances /\ pc[c] = "release" /\ pc'[c] = "done"
           /\ \A d \in Conns : d # c => pc'[d] = pc[d]
           /\ UNCHANGED <<at, seq, open, doomed, turn>>
           /\ \A j \in Instances :
                \/ /\ inbox'[j] = inbox[j] /\ lost'[j] = lost[j]
                   /\ latest'[j] = latest[j] /\ client'[j] = client[j]
                \/ /\ j = at[c]
                   /\ inbox'[j] = {} /\ latest'[j] = 0 /\ client'[j] = NoConn
                   /\ \A d \in Conns : at[d] = j /\ pc[d] \in Holding => d = c
<1>1. /\ pc \in [Conns -> Steps] /\ "done" \in Steps
      /\ inbox \in [Instances -> SUBSET Generations] /\ lost \in [Instances -> SUBSET Generations]
      /\ latest \in [Instances -> Generations]
      /\ client \in [Instances -> Conns \cup {NoConn}] /\ at[c] \in Instances
  BY DEF SessionInv, TypeOK, Steps
<1>2. /\ Goto(c, "done") /\ pc[c] = "release"
      /\ inbox' = [inbox EXCEPT ![at[c]] = IF refs[at[c]] = 1 THEN {} ELSE @]
      /\ lost' = [lost EXCEPT ![at[c]] = IF refs[at[c]] = 1 THEN {} ELSE @]
      /\ latest' = [latest EXCEPT ![at[c]] = IF refs[at[c]] = 1 THEN 0 ELSE @]
      /\ client' = [client EXCEPT ![at[c]] = IF refs[at[c]] = 1 THEN NoConn ELSE @]
      /\ UNCHANGED <<at, seq, open, doomed, turn>>
  BY DEF Release
<1>3. pc'[c] = "done" /\ \A d \in Conns : d # c => pc'[d] = pc[d]
  BY <1>1, <1>2, GotoFacts
<1>4. ASSUME refs[at[c]] = 1
      PROVE  \A d \in Conns : at[d] = at[c] /\ pc[d] \in Holding => d = c
  <2>1. Cardinality(Holders(at[c])) = 1 /\ Holders(at[c]) \in SUBSET Conns
    BY <1>1, <1>4, SessionParts DEF SessionInv, CountInv, Holders
  <2>2. c \in Holders(at[c])
    BY <1>2, HoldingFacts DEF Holders
  <2>3. \A d \in Holders(at[c]) : d = c
    BY <2>1, <2>2, ConnsCount
  <2>4. QED
    BY <2>3 DEF Holders
<1>5. QED
  BY <1>1, <1>2, <1>3, <1>4

\* An announcement that is delivered is remembered and drops an older connection.
LEMMA ClaimEffect ==
    ASSUME SessionInv, NEW i \in Instances, NEW s \in inbox[i], Claim(i, s)
    PROVE  /\ UNCHANGED <<refs, lost, pc, at, seq, open, turn>>
           /\ s \in Generations /\ inbox'[i] = inbox[i] \ {s}
           /\ latest'[i] = Max2(latest[i], s)
           /\ \A j \in Instances : j # i =>
                inbox'[j] = inbox[j] /\ latest'[j] = latest[j] /\ client'[j] = client[j]
           /\ \/ /\ client[i] \in Conns /\ seq[client[i]] < s
                 /\ client'[i] = NoConn /\ doomed' = doomed \cup {client[i]}
              \/ /\ client[i] = NoConn \/ ~(seq[client[i]] < s)
                 /\ client'[i] = client[i] /\ doomed' = doomed
<1> DEFINE older == {d \in {client[i]} \ {NoConn} : seq[d] < s}
<1>1. /\ inbox \in [Instances -> SUBSET Generations] /\ latest \in [Instances -> Generations]
      /\ client \in [Instances -> Conns \cup {NoConn}] /\ NoConn \notin Conns
  BY ConnsAssumption DEF SessionInv, TypeOK
<1>2. /\ UNCHANGED <<refs, lost, pc, at, seq, open, turn>>
      /\ inbox' = [inbox EXCEPT ![i] = @ \ {s}]
      /\ latest' = [latest EXCEPT ![i] = Max2(@, s)]
      /\ client' = [client EXCEPT ![i] = IF client[i] \in older THEN NoConn ELSE client[i]]
      /\ doomed' = doomed \cup older
  BY DEF Claim
<1>3. /\ s \in Generations /\ inbox'[i] = inbox[i] \ {s} /\ latest'[i] = Max2(latest[i], s)
      /\ client'[i] = IF client[i] \in older THEN NoConn ELSE client[i]
      /\ \A j \in Instances : j # i =>
                inbox'[j] = inbox[j] /\ latest'[j] = latest[j] /\ client'[j] = client[j]
  <2> HIDE DEF older
  <2>1. QED
    BY <1>1, <1>2
<1>4. CASE client[i] # NoConn /\ seq[client[i]] < s
  <2>1. older = {client[i]} /\ client[i] \in Conns
    BY <1>1, <1>4
  <2>2. QED
    BY <1>2, <1>3, <1>4, <2>1
<1>5. CASE ~(client[i] # NoConn /\ seq[client[i]] < s)
  <2>1. older = {}
    BY <1>5
  <2>2. QED
    BY <1>2, <1>3, <1>5, <2>1
<1>6. QED
  BY <1>4, <1>5

\* A crash takes the hub with its handlers and connections.
LEMMA CrashEffect ==
    ASSUME SessionInv, NEW i \in Instances, Crash(i)
    PROVE  /\ UNCHANGED <<at, seq, turn>>
           /\ open' \subseteq open /\ doomed' \subseteq doomed
           /\ \A d \in Conns : at[d] = i => pc'[d] \in {"new", "done"}
           /\ \A d \in Conns : at[d] # i => pc'[d] = pc[d] /\ (d \in doomed <=> d \in doomed')
           /\ inbox'[i] = {} /\ latest'[i] = 0 /\ client'[i] = NoConn
           /\ \A j \in Instances : j # i =>
                /\ inbox'[j] = inbox[j] /\ lost'[j] = lost[j]
                /\ latest'[j] = latest[j] /\ client'[j] = client[j]
<1> DEFINE here == {c \in Conns : at[c] = i /\ pc[c] # "new"}
<1>1. /\ pc' = [c \in Conns |-> IF c \in here THEN "done" ELSE pc[c]]
      /\ open' = open \ here /\ doomed' = doomed \ here
      /\ inbox' = [inbox EXCEPT ![i] = {}]
      /\ lost' = [lost EXCEPT ![i] = {}]
      /\ latest' = [latest EXCEPT ![i] = 0]
      /\ client' = [client EXCEPT ![i] = NoConn]
      /\ UNCHANGED <<at, seq, turn>>
  BY DEF Crash
<1>2. QED
  BY <1>1 DEF SessionInv, TypeOK

\* The handler of a connection takes the next generation.
LEMMA IncrEffect ==
    ASSUME SessionInv, NEW c \in Conns, IncrCounter(c)
    PROVE  /\ pc[c] = "claim" /\ turn[c] = 0
           /\ \A d \in Conns : d # c => pc'[d] = pc[d] /\ turn'[d] = turn[d] /\ seq'[d] = seq[d]
           /\ turn'[c] = 1 + Cardinality(Claimed)
           /\ counter' \in {1, counter + 1}
           /\ "expiry" \notin Faults => counter' = counter + 1
           /\ \/ pc'[c] = "announce" /\ seq'[c] = counter'
              \/ pc'[c] = "release" /\ seq' = seq
           /\ UNCHANGED <<refs, inbox, lost, latest, client, at, open, doomed>>
<1>1. /\ pc \in [Conns -> Steps] /\ {"announce", "release"} \subseteq Steps
      /\ turn \in [Conns -> Generations] /\ seq \in [Conns -> Generations]
  BY DEF SessionInv, TypeOK, Steps
<1>2. PICK n \in Found, ok \in Replies :
        /\ counter' = n + 1
        /\ IF ok THEN /\ seq' = [seq EXCEPT ![c] = n + 1]
                      /\ Goto(c, "announce")
                 ELSE /\ Goto(c, "release")
                      /\ UNCHANGED seq
  BY DEF IncrCounter
<1>3. /\ n \in {0, counter} /\ ("expiry" \notin Faults => n = counter)
  BY DEF Found
<1>4. /\ pc[c] = "claim" /\ turn' = [turn EXCEPT ![c] = 1 + Cardinality(Claimed)]
      /\ UNCHANGED <<refs, inbox, lost, latest, client, at, open, doomed>>
  BY DEF IncrCounter, Claimed, hubs
<1>5. turn[c] = 0
  BY <1>4 DEF SessionInv, ClaimInv
<1>6. \A d \in Conns : d # c => pc'[d] = pc[d]
  BY <1>1, <1>2, GotoFacts
<1>7. \/ pc'[c] = "announce" /\ seq' = [seq EXCEPT ![c] = counter']
      \/ pc'[c] = "release" /\ seq' = seq
  BY <1>1, <1>2, GotoFacts
<1>8. counter' \in {1, counter + 1} /\ ("expiry" \notin Faults => counter' = counter + 1)
  BY <1>2, <1>3
<1>9. QED
  BY <1>1, <1>4, <1>5, <1>6, <1>7, <1>8

---------------------------------------------------------------------------
(* No live connection is out of reach.                                     *)

LiveInv == SessionInv /\ LiveIsRegistered

\* Every step keeps it: who is replaced or dropped is about to be closed, and the
\* last handler of a session leaves no live connection behind.
LEMMA LiveStep == LiveInv /\ [Next]_vars => LiveIsRegistered'
<1> SUFFICES ASSUME LiveInv, [Next]_vars, NEW e \in Conns, Live(e)', e \notin doomed'
             PROVE  client'[at'[e]] = e
  BY DEF LiveIsRegistered
<1> USE DEF LiveInv
<1>0. /\ pc \in [Conns -> Steps] /\ at[e] \in Instances /\ pc'[e] = "serve" /\ e \in open'
      /\ ClientInv /\ client \in [Instances -> Conns \cup {NoConn}]
      /\ (pc[e] = "serve" /\ e \in open /\ e \notin doomed => client[at[e]] = e)
  BY SessionParts DEF SessionInv, TypeOK, Live, LiveIsRegistered
<1>1. ASSUME NEW c \in Conns, Register(c) PROVE client'[at'[e]] = e
  <2>1. CASE Refused(c)
    <3>1. e # c /\ pc'[e] = pc[e] /\ UNCHANGED <<client, at, doomed>> /\ open' \subseteq open
      BY <1>0, <1>1, <2>1, RegisterEffect
    <3>2. QED
      BY <1>0, <3>1
  <2>2. CASE ~Refused(c)
    <3>1. /\ at' = at /\ open' = open /\ client'[at[c]] = c /\ pc[c] = "register"
          /\ doomed' = doomed \cup ({client[at[c]]} \ {NoConn})
          /\ \A j \in Instances : j # at[c] => client'[j] = client[j]
          /\ e # c => pc'[e] = pc[e]
      BY <1>1, <2>2, RegisterEffect
    <3>2. CASE e = c
      BY <3>1, <3>2
    <3>3. CASE e # c
      <4>1. client[at[e]] = e
        BY <1>0, <3>1, <3>3
      <4>2. at[e] # at[c]
        BY <3>1, <4>1, ConnsAssumption
      <4>3. QED
        BY <1>0, <3>1, <4>1, <4>2
    <3>4. QED
      BY <3>2, <3>3
  <2>3. QED
    BY <2>1, <2>2
<1>2. ASSUME NEW c \in Conns, Unregister(c) PROVE client'[at'[e]] = e
  <2>1. /\ client' = [client EXCEPT ![at[c]] = IF @ = c THEN NoConn ELSE @]
        /\ UNCHANGED <<at, open, doomed>> /\ Goto(c, "release") /\ "release" \in Steps
    BY <1>2 DEF Unregister, Steps
  <2>2. e # c /\ pc'[e] = pc[e]
    BY <1>0, <2>1, GotoFacts
  <2>3. client[at[e]] = e
    BY <1>0, <2>1, <2>2
  <2>4. QED
    BY <1>0, <2>1, <2>2, <2>3
<1>3. ASSUME NEW c \in Conns, Release(c) PROVE client'[at'[e]] = e
  <2>1. /\ e # c /\ pc'[e] = pc[e] /\ UNCHANGED <<at, open, doomed>>
    BY <1>0, <1>3, ReleaseEffect
  <2>2. pc[e] \in Holding
    BY <1>0, <2>1, HoldingFacts
  <2>3. client'[at[e]] = client[at[e]]
    BY <1>0, <1>3, <2>1, <2>2, ReleaseEffect
  <2>4. QED
    BY <1>0, <2>1, <2>3
<1>4. ASSUME NEW i \in Instances, NEW s \in inbox[i], Claim(i, s) PROVE client'[at'[e]] = e
  <2>1. UNCHANGED <<pc, at, open>> /\ doomed \subseteq doomed'
    BY <1>4, ClaimEffect
  <2>2. client[at[e]] = e
    BY <1>0, <2>1
  <2>3. client'[at[e]] = client[at[e]]
    BY <1>0, <1>4, <2>2, ClaimEffect
  <2>4. QED
    BY <2>1, <2>2, <2>3
<1>5. ASSUME NEW i \in Instances, Crash(i) PROVE client'[at'[e]] = e
  <2>1. /\ at' = at /\ at[e] # i /\ pc'[e] = pc[e] /\ (e \in doomed <=> e \in doomed')
        /\ e \in open
    BY <1>0, <1>5, CrashEffect
  <2>2. client'[at[e]] = client[at[e]]
    BY <1>0, <1>5, <2>1, CrashEffect
  <2>3. QED
    BY <1>0, <2>1, <2>2
<1>6. ASSUME NEW c \in Conns, NEW step \in Steps \ {"serve"}, Goto(c, step),
             UNCHANGED <<client, at, doomed>>, open' \subseteq open \cup {c}
      PROVE  client'[at'[e]] = e
  <2>1. e # c /\ pc'[e] = pc[e]
    BY <1>0, <1>6, GotoFacts
  <2>2. QED
    BY <1>0, <1>6, <2>1
<1>7. ASSUME NEW c \in Conns,
             LoadState(c) \/ Acquire(c) \/ Announce(c) \/ Upgrade(c) \/ PumpsReturn(c) \/ Fail(c)
      PROVE  client'[at'[e]] = e
  <2>1. UNCHANGED <<client, at, doomed>> /\ open' \subseteq open \cup {c}
    BY <1>7 DEF LoadState, Acquire, Announce, Upgrade, PumpsReturn, Fail, hubs
  <2>2. \E step \in Steps \ {"serve"} : Goto(c, step)
    BY <1>7 DEF LoadState, Acquire, Announce, Upgrade, PumpsReturn, Fail, Steps
  <2>3. QED
    BY <1>6, <2>1, <2>2
<1>8. ASSUME NEW c \in Conns, IncrCounter(c) PROVE client'[at'[e]] = e
  <2>1. /\ e # c /\ pc'[e] = pc[e] /\ UNCHANGED <<client, at, open, doomed>>
    BY <1>0, <1>8, IncrEffect
  <2>2. QED
    BY <1>0, <2>1
<1>9. CASE /\ UNCHANGED <<pc, client, at>> /\ open' \subseteq open
           /\ (e \in open' => (e \in doomed <=> e \in doomed'))
  BY <1>0, <1>9
<1>10. ASSUME NEW c \in Conns, CloseDropped(c) \/ Disconnect(c) PROVE client'[at'[e]] = e
  BY <1>9, <1>10 DEF CloseDropped, Disconnect, hubs
<1>11. CASE GameExpires \/ UNCHANGED vars \/ \E i \in Instances : Sweep(i)
  BY <1>9, <1>11 DEF GameExpires, Sweep, CloseAll, vars, hubs
<1>12. ASSUME NEW i \in Instances, Resubscribe(i) PROVE client'[at'[e]] = e
  BY <1>9, <1>12 DEF Resubscribe
<1>13. QED
  BY <1>1, <1>2, <1>3, <1>4, <1>5, <1>7, <1>8, <1>10, <1>11, <1>12 DEF Next, Handler, Deliver

\* No live connection is out of reach of its hub, under any faults, however late a
\* replaced connection shuts down (Unregister): for any number of connections.
THEOREM ConnectionsLiveIsRegistered == Spec => []LiveIsRegistered
<1>1. Init => LiveInv
  BY SessionInit DEF Init, LiveInv, LiveIsRegistered, Live
<1>2. LiveInv /\ [Next]_vars => LiveInv'
  BY SessionStep, LiveStep DEF LiveInv
<1>3. LiveInv => LiveIsRegistered
  BY DEF LiveInv
<1>4. QED
  BY <1>1, <1>2, <1>3, PTL DEF Spec

---------------------------------------------------------------------------
(* The newest connection wins, while the counters live as long as the game. *)

Numbered == {"announce", "upgrade", "register", "serve", "unregister"}

\* The counter counts: generations are given in turn and no two are the same.
TurnsInv ==
    /\ counter = Cardinality(Claimed)
    /\ \A c \in Conns : pc[c] \in Numbered => seq[c] = turn[c] /\ turn[c] > 0
    /\ \A c, d \in Conns : turn[c] = turn[d] /\ turn[c] > 0 => c = d

\* A hub remembers its own connection, until it hears of a newer one.
LatestInv == \A i \in Instances : client[i] # NoConn => latest[i] = seq[client[i]]

\* What a hub has heard of, or is to hear of, was given to a connection.
Given(s) == s = 0 \/ \E d \in Conns : turn[d] = s
GivenInv == \A i \in Instances : Given(latest[i]) /\ \A s \in inbox[i] : Given(s)

\* Every hub with an older connection has heard of a newer one that was announced, is
\* about to, or its subscription lost the announcement: the older one held the session
\* before the newer was announced.
Heard(c, d) ==
    \/ latest[at[c]] >= turn[d]
    \/ turn[d] \in inbox[at[c]]
    \/ turn[d] \in lost[at[c]]
HeardInv ==
    \A c, d \in Conns :
        /\ pc[c] \in Holding /\ pc[d] \in {"upgrade", "register", "serve"}
        /\ 0 < turn[c] /\ turn[c] < turn[d]
        => Heard(c, d)

OrderInv == LiveInv /\ TurnsInv /\ LatestInv /\ GivenInv /\ HeardInv

\* The types of the generations.
LEMMA OrderTypes ==
    ASSUME SessionInv
    PROVE  /\ \A c \in Conns : /\ seq[c] \in Nat /\ turn[c] \in Nat /\ at[c] \in Instances
                               /\ turn[c] <= Cardinality(Claimed)
           /\ \A i \in Instances : /\ latest[i] \in Nat /\ client[i] \in Conns \cup {NoConn}
                                   /\ \A s \in inbox[i] : s \in Nat
           /\ Cardinality(Claimed) \in Nat /\ counter \in Nat
<1>1. Generations \subseteq Nat
  BY ConnsCount DEF Generations
<1>2. Claimed \in SUBSET Conns
  BY DEF Claimed
<1>3. Cardinality(Claimed) \in Nat
  BY <1>2, ConnsCount
<1>4. QED
  BY <1>1, <1>3 DEF SessionInv, TypeOK, ClaimInv

\* Where a handler that did not just take a generation comes from.
LEMMA StepFrom ==
    ASSUME SessionInv, [Next]_vars, \A c \in Conns : ~IncrCounter(c)
    PROVE  /\ UNCHANGED <<counter, seq, turn, at>>
           /\ \A c \in Conns : pc'[c] \in Numbered => pc[c] \in Numbered
<1>1. pc \in [Conns -> Steps]
  BY DEF SessionInv, TypeOK
<1>2. ASSUME NEW c \in Conns, NEW step \in Steps, Goto(c, step),
             step \in Numbered => pc[c] \in Numbered
      PROVE  \A d \in Conns : pc'[d] \in Numbered => pc[d] \in Numbered
  BY <1>1, <1>2, GotoFacts
<1>3. ASSUME NEW c \in Conns,
             LoadState(c) \/ Acquire(c) \/ Announce(c) \/ Upgrade(c) \/ Register(c)
             \/ PumpsReturn(c) \/ Unregister(c) \/ Release(c) \/ Fail(c)
      PROVE  /\ UNCHANGED <<counter, seq, turn, at>>
             /\ \A d \in Conns : pc'[d] \in Numbered => pc[d] \in Numbered
  <2>1. UNCHANGED <<counter, seq, turn, at>>
    BY <1>3 DEF LoadState, Acquire, Announce, Upgrade, Register, PumpsReturn, Unregister,
                Release, Fail, hubs
  <2>2. \E step \in Steps : Goto(c, step) /\ (step \in Numbered => pc[c] \in Numbered)
    BY <1>3 DEF LoadState, Acquire, Announce, Upgrade, Register, PumpsReturn, Unregister,
                Release, Fail, Steps, Numbered
  <2>3. QED
    BY <1>2, <2>1, <2>2
<1>4. ASSUME NEW i \in Instances, Crash(i)
      PROVE  /\ UNCHANGED <<counter, seq, turn, at>>
             /\ \A d \in Conns : pc'[d] \in Numbered => pc[d] \in Numbered
  BY <1>4 DEF Crash, Numbered
<1>5. CASE UNCHANGED <<counter, seq, turn, at, pc>>
  BY <1>5
<1>6. QED
  BY <1>3, <1>4, <1>5 DEF Next, Handler, Deliver, Claim, Resubscribe, CloseDropped, Disconnect,
                          Sweep, GameExpires, vars, hubs

\* The counter goes on counting.
LEMMA TurnsStep ==
    ASSUME "expiry" \notin Faults, SessionInv, TurnsInv, [Next]_vars
    PROVE  TurnsInv'
<1>1. ASSUME NEW c \in Conns, IncrCounter(c) PROVE TurnsInv'
  <2>1. /\ turn[c] = 0 /\ counter' = counter + 1
        /\ \A d \in Conns : d # c => pc'[d] = pc[d] /\ turn'[d] = turn[d] /\ seq'[d] = seq[d]
        /\ turn'[c] = 1 + Cardinality(Claimed)
        /\ pc'[c] = "release" \/ (pc'[c] = "announce" /\ seq'[c] = counter')
    BY <1>1, IncrEffect
  <2>2. /\ Cardinality(Claimed) \in Nat
        /\ \A d \in Conns : turn[d] \in Nat /\ turn[d] <= Cardinality(Claimed)
    BY OrderTypes
  <2>3. Claimed' = Claimed \cup {c} /\ c \in Conns \ Claimed /\ Claimed \in SUBSET Conns
    <3>1. turn'[c] > 0
      BY <2>1, <2>2
    <3>2. QED
      BY <2>1, <3>1 DEF Claimed
  <2>4. Cardinality(Claimed') = Cardinality(Claimed) + 1
    BY <2>3, ConnsCount
  <2>5. counter' = Cardinality(Claimed')
    BY <2>1, <2>4 DEF TurnsInv
  <2>6. \A d \in Conns : pc'[d] \in Numbered => seq'[d] = turn'[d] /\ turn'[d] > 0
    BY <2>1, <2>2, <2>4, <2>5 DEF TurnsInv, Numbered
  <2>7. \A d, e \in Conns : turn'[d] = turn'[e] /\ turn'[d] > 0 => d = e
    <3>1. \A d \in Conns : d # c => turn'[d] # turn'[c]
      BY <2>1, <2>2
    <3>2. QED
      BY <2>1, <3>1 DEF TurnsInv
  <2>8. QED
    BY <2>5, <2>6, <2>7 DEF TurnsInv
<1>2. CASE \A c \in Conns : ~IncrCounter(c)
  <2>1. /\ UNCHANGED <<counter, seq, turn, at>>
        /\ \A c \in Conns : pc'[c] \in Numbered => pc[c] \in Numbered
    BY <1>2, StepFrom
  <2>2. Claimed' = Claimed
    BY <2>1 DEF Claimed
  <2>3. QED
    BY <2>1, <2>2 DEF TurnsInv
<1>3. QED
  BY <1>1, <1>2

\* A generation that was given stays given.
LEMMA GivenForward ==
    ASSUME SessionInv, [Next]_vars, NEW s \in Nat, Given(s)
    PROVE  Given(s)'
<1>1. CASE \A c \in Conns : ~IncrCounter(c)
  BY <1>1, StepFrom DEF Given
<1>2. ASSUME NEW c \in Conns, IncrCounter(c) PROVE Given(s)'
  <2>1. turn[c] = 0 /\ \A d \in Conns : d # c => turn'[d] = turn[d]
    BY <1>2, IncrEffect
  <2>2. QED
    BY <2>1 DEF Given
<1>3. QED
  BY <1>1, <1>2

\* The steps that no hub sees.
HubStep ==
    \/ \E c \in Conns : Announce(c) \/ Register(c) \/ Unregister(c) \/ Release(c)
    \/ \E i \in Instances : Crash(i) \/ Resubscribe(i) \/ \E s \in inbox[i] : Claim(i, s)

\* What a hub knows changes in no other step.
LEMMA HubFrame ==
    ASSUME [Next]_vars, ~HubStep
    PROVE  UNCHANGED <<inbox, lost, latest, client>>
BY DEF HubStep, Next, Handler, Deliver, LoadState, Acquire, IncrCounter, Upgrade, PumpsReturn,
       CloseDropped, Disconnect, Fail, Sweep, GameExpires, vars, hubs

\* What a subscription loses was on its way.
LEMMA ResubscribeEffect ==
    ASSUME SessionInv, NEW i \in Instances, Resubscribe(i)
    PROVE  /\ UNCHANGED <<pc, latest, client, at, seq, open, doomed, turn>>
           /\ \A j \in Instances : /\ inbox'[j] \subseteq inbox[j]
                                   /\ inbox[j] \subseteq inbox'[j] \cup lost'[j]
                                   /\ lost[j] \subseteq lost'[j]
<1>1. inbox \in [Instances -> SUBSET Generations] /\ lost \in [Instances -> SUBSET Generations]
  BY DEF SessionInv, TypeOK
<1>2. PICK s \in inbox[i] : /\ inbox' = [inbox EXCEPT ![i] = @ \ {s}]
                            /\ lost' = [lost EXCEPT ![i] = @ \cup {s}]
  BY DEF Resubscribe
<1>3. UNCHANGED <<pc, latest, client, at, seq, open, doomed, turn>>
  BY DEF Resubscribe
<1>4. QED
  BY <1>1, <1>2, <1>3

\* An announcement reaches every session there is.
LEMMA AnnounceEffect ==
    ASSUME SessionInv, NEW c \in Conns, Announce(c)
    PROVE  /\ pc[c] = "announce" /\ pc'[c] \in {"announce", "upgrade", "release"}
           /\ \A d \in Conns : d # c => pc'[d] = pc[d]
           /\ UNCHANGED <<refs, lost, latest, client, at, seq, open, doomed, turn>>
           /\ \A j \in Instances : /\ inbox'[j] \subseteq inbox[j] \cup {seq[c]}
                                   /\ refs[j] > 0 => inbox'[j] = inbox[j] \cup {seq[c]}
           /\ \A d \in Conns : pc[d] \in Holding => refs[at[d]] > 0
<1>1. pc \in [Conns -> Steps] /\ {"announce", "upgrade", "release"} \subseteq Steps
  BY DEF SessionInv, TypeOK, Steps
<1>2. PICK step \in {"announce", "upgrade", "release"} : Goto(c, step)
  BY DEF Announce
<1>3. /\ pc[c] = "announce"
      /\ UNCHANGED <<refs, lost, latest, client, at, seq, open, doomed, turn>>
      /\ inbox' = [i \in Instances |-> IF refs[i] > 0 THEN inbox[i] \cup {seq[c]} ELSE {}]
  BY DEF Announce
<1>4. ASSUME NEW d \in Conns, pc[d] \in Holding PROVE refs[at[d]] > 0
  <2>1. d \in Holders(at[d]) /\ Holders(at[d]) \in SUBSET Conns
    BY <1>4 DEF Holders
  <2>2. refs[at[d]] = Cardinality(Holders(at[d]))
    BY OrderTypes, SessionParts DEF SessionInv, CountInv
  <2>3. /\ Cardinality(Holders(at[d])) \in Nat
        /\ Cardinality(Holders(at[d])) >= 1
    BY <2>1, ConnsCount
  <2>4. QED
    BY <2>1, <2>2, <2>3
<1>5. pc'[c] = step /\ \A d \in Conns : d # c => pc'[d] = pc[d]
  BY <1>1, <1>2, GotoFacts
<1>6. QED
  BY <1>3, <1>4, <1>5

\* A hub goes on remembering its own connection.
LEMMA LatestStep ==
    ASSUME SessionInv, LatestInv, [Next]_vars
    PROVE  LatestInv'
<1> SUFFICES ASSUME NEW i \in Instances, client'[i] # NoConn
             PROVE  latest'[i] = seq'[client'[i]]
  BY DEF LatestInv
<1>0. /\ ClientInv /\ client \in [Instances -> Conns \cup {NoConn}] /\ at \in [Conns -> Instances]
  BY SessionParts DEF SessionInv, TypeOK
<1>1. ASSUME NEW c \in Conns, IncrCounter(c) PROVE latest'[i] = seq'[client'[i]]
  <2>1. /\ pc[c] = "claim" /\ UNCHANGED <<latest, client>>
        /\ \A d \in Conns : d # c => seq'[d] = seq[d]
    BY <1>1, IncrEffect
  <2>2. client[i] # c /\ client[i] \in Conns
    BY <1>0, <2>1 DEF ClientInv
  <2>3. QED
    BY <2>1, <2>2 DEF LatestInv
<1>2. ASSUME \A c \in Conns : ~IncrCounter(c) PROVE latest'[i] = seq'[client'[i]]
  <2>0. seq' = seq
    BY <1>2, StepFrom
  <2>1. CASE latest'[i] = latest[i] /\ client'[i] = client[i]
    BY <2>0, <2>1 DEF LatestInv
  <2>2. ASSUME NEW c \in Conns, Register(c) PROVE latest'[i] = seq'[client'[i]]
    BY <2>0, <2>1, <2>2, RegisterEffect
  <2>3. ASSUME NEW c \in Conns, Release(c) PROVE latest'[i] = seq'[client'[i]]
    BY <2>1, <2>3, ReleaseEffect
  <2>4. ASSUME NEW c \in Conns, Unregister(c) PROVE latest'[i] = seq'[client'[i]]
    <3>1. /\ latest' = latest
          /\ client' = [client EXCEPT ![at[c]] = IF client[at[c]] = c THEN NoConn ELSE client[at[c]]]
      BY <2>4 DEF Unregister
    <3>2. client'[i] \in {client[i], NoConn}
      BY <1>0, <3>1
    <3>3. QED
      BY <2>1, <3>1, <3>2
  <2>5. ASSUME NEW c \in Conns, Announce(c) PROVE latest'[i] = seq'[client'[i]]
    BY <2>1, <2>5, AnnounceEffect
  <2>6. ASSUME NEW j \in Instances, Crash(j) PROVE latest'[i] = seq'[client'[i]]
    BY <2>1, <2>6, CrashEffect
  <2>7. ASSUME NEW j \in Instances, NEW s \in inbox[j], Claim(j, s)
        PROVE  latest'[i] = seq'[client'[i]]
    <3>1. CASE j # i
      BY <2>1, <2>7, <3>1, ClaimEffect
    <3>2. CASE j = i
      <4>1. /\ client'[i] = client[i] /\ ~(seq[client[i]] < s)
            /\ latest'[i] = Max2(latest[i], s)
        BY <2>7, <3>2, ClaimEffect
      <4>2. latest[i] = seq[client[i]] /\ client[i] \in Conns
        BY <1>0, <4>1 DEF LatestInv
      <4>3. seq[client[i]] \in Nat /\ s \in Nat
        BY <3>2, <4>2, OrderTypes
      <4>4. latest'[i] = latest[i]
        BY <4>1, <4>2, <4>3 DEF Max2
      <4>5. QED
        BY <2>1, <4>1, <4>4
    <3>3. QED
      BY <3>1, <3>2
  <2>8. ASSUME NEW j \in Instances, Resubscribe(j) PROVE latest'[i] = seq'[client'[i]]
    BY <2>1, <2>8, ResubscribeEffect
  <2>9. QED
    BY <2>1, <2>2, <2>3, <2>4, <2>5, <2>6, <2>7, <2>8, HubFrame DEF HubStep
<1>3. QED
  BY <1>1, <1>2

\* Hubs hear only of generations that were given.
LEMMA GivenStep ==
    ASSUME SessionInv, TurnsInv, GivenInv, [Next]_vars
    PROVE  GivenInv'
<1>1. ASSUME NEW i \in Instances, NEW s \in inbox[i] \cup {latest[i], 0} PROVE Given(s)'
  <2>1. Given(s) /\ s \in Nat
    BY OrderTypes DEF GivenInv, Given
  <2>2. QED
    BY <2>1, GivenForward
<1>2. ASSUME NEW c \in Conns, pc[c] \in Numbered, NEW t \in {seq[c]} PROVE Given(t)'
  <2>1. Given(t) /\ t \in Nat
    BY <1>2, OrderTypes DEF TurnsInv, Given
  <2>2. QED
    BY <2>1, GivenForward
<1>3. ASSUME NEW i \in Instances PROVE Given(latest[i])' /\ \A s \in inbox'[i] : Given(s)'
  <2>1. CASE /\ latest'[i] \in {latest[i], 0} \cup inbox[i]
             /\ inbox'[i] \subseteq inbox[i]
    BY <1>1, <2>1 DEF Given
  <2>2. ASSUME NEW c \in Conns, Announce(c) PROVE Given(latest[i])' /\ \A s \in inbox'[i] : Given(s)'
    <3>1. \A t \in {seq[c]} : Given(t)'
      BY <1>2, <2>2, AnnounceEffect DEF Numbered
    <3>2. inbox'[i] \subseteq inbox[i] \cup {seq[c]} /\ latest' = latest /\ seq' = seq
      BY <2>2, AnnounceEffect
    <3>3. QED
      BY <1>1, <3>1, <3>2 DEF Given
  <2>3. ASSUME NEW c \in Conns, Register(c) PROVE Given(latest[i])' /\ \A s \in inbox'[i] : Given(s)'
    <3>1. \A t \in {seq[c]} : Given(t)'
      BY <1>2, <2>3, RegisterEffect DEF Numbered
    <3>2. inbox' = inbox /\ latest'[i] \in {latest[i], seq[c]} /\ seq' = seq
      BY <2>3, RegisterEffect
    <3>3. QED
      BY <1>1, <3>1, <3>2 DEF Given
  <2>4. ASSUME NEW c \in Conns, Release(c) PROVE Given(latest[i])' /\ \A s \in inbox'[i] : Given(s)'
    <3>1. latest'[i] \in {latest[i], 0} \cup inbox[i] /\ inbox'[i] \subseteq inbox[i]
      BY <2>4, ReleaseEffect
    <3>2. QED
      BY <2>1, <3>1
  <2>5. ASSUME NEW j \in Instances, Crash(j)
        PROVE  Given(latest[i])' /\ \A s \in inbox'[i] : Given(s)'
    <3>1. latest'[i] \in {latest[i], 0} \cup inbox[i] /\ inbox'[i] \subseteq inbox[i]
      BY <2>5, CrashEffect
    <3>2. QED
      BY <2>1, <3>1
  <2>6. ASSUME NEW j \in Instances, NEW s \in inbox[j], Claim(j, s)
        PROVE  Given(latest[i])' /\ \A t \in inbox'[i] : Given(t)'
    <3>1. latest'[i] \in {latest[i], 0} \cup inbox[i] /\ inbox'[i] \subseteq inbox[i]
      BY <2>6, ClaimEffect DEF Max2
    <3>2. QED
      BY <2>1, <3>1
  <2>7. ASSUME NEW c \in Conns, Unregister(c)
        PROVE  Given(latest[i])' /\ \A s \in inbox'[i] : Given(s)'
    BY <2>1, <2>7 DEF Unregister
  <2>8. CASE UNCHANGED <<inbox, latest>>
    BY <2>1, <2>8
  <2>9. ASSUME NEW j \in Instances, Resubscribe(j)
        PROVE  Given(latest[i])' /\ \A s \in inbox'[i] : Given(s)'
    <3>1. latest'[i] = latest[i] /\ inbox'[i] \subseteq inbox[i]
      BY <2>9, ResubscribeEffect
    <3>2. QED
      BY <2>1, <3>1
  <2>10. QED
    BY <2>2, <2>3, <2>4, <2>5, <2>6, <2>7, <2>8, <2>9, HubFrame DEF HubStep
<1>4. QED
  BY <1>3 DEF GivenInv

\* Where a handler comes from when no hub sees the step.
LEMMA QuietFrom ==
    ASSUME SessionInv, [Next]_vars, ~HubStep, \A c \in Conns : ~IncrCounter(c)
    PROVE  \A c \in Conns :
             /\ pc'[c] \in Holding => pc[c] \in Holding \cup {"acquire"}
             /\ pc'[c] \in {"upgrade", "register", "serve"} =>
                  pc[c] \in {"upgrade", "register", "serve"}
<1> DEFINE From(p, q) == /\ q \in Holding => p \in Holding \cup {"acquire"}
                         /\ q \in {"upgrade", "register", "serve"} =>
                              p \in {"upgrade", "register", "serve"}
<1>1. pc \in [Conns -> Steps]
  BY DEF SessionInv, TypeOK
<1>2. ASSUME NEW c \in Conns, LoadState(c) \/ Acquire(c) \/ Upgrade(c) \/ PumpsReturn(c) \/ Fail(c)
      PROVE  \A d \in Conns : From(pc[d], pc'[d])
  <2>1. \E step \in Steps : Goto(c, step) /\ From(pc[c], step)
    BY <1>2, HoldingFacts DEF LoadState, Acquire, Upgrade, PumpsReturn, Fail
  <2>2. \A d \in Conns : From(pc[d], pc[d])
    OBVIOUS
  <2> HIDE DEF From
  <2>3. QED
    BY <1>1, <2>1, <2>2, GotoFacts
<1>3. CASE pc' = pc
  BY <1>3
<1>4. pc' = pc \/ \E c \in Conns : \/ LoadState(c) \/ Acquire(c) \/ Upgrade(c)
                                   \/ PumpsReturn(c) \/ Fail(c)
  BY DEF HubStep, Next, Handler, Deliver, CloseDropped, Disconnect, Sweep, GameExpires, vars
<1>5. QED
  BY <1>2, <1>3, <1>4

\* Every older connection's hub hears of the newer ones.
LEMMA HeardStep ==
    ASSUME SessionInv, TurnsInv, HeardInv, [Next]_vars
    PROVE  HeardInv'
<1> SUFFICES ASSUME NEW c \in Conns, NEW d \in Conns, pc'[c] \in Holding,
                    pc'[d] \in {"upgrade", "register", "serve"},
                    0 < turn'[c], turn'[c] < turn'[d]
             PROVE  Heard(c, d)'
  BY DEF HeardInv
<1>0. /\ pc \in [Conns -> Steps] /\ at[c] \in Instances /\ at[d] \in Instances
      /\ turn[c] \in Nat /\ turn[d] \in Nat /\ seq[c] \in Nat /\ seq[d] \in Nat
      /\ latest[at[c]] \in Nat
  BY OrderTypes DEF SessionInv, TypeOK
<1>1. ASSUME NEW e \in Conns, IncrCounter(e) PROVE Heard(c, d)'
  <2>1. /\ pc[e] = "claim" /\ pc'[e] \in {"announce", "release"}
        /\ \A x \in Conns : x # e => pc'[x] = pc[x] /\ turn'[x] = turn[x]
        /\ turn'[e] = 1 + Cardinality(Claimed)
        /\ UNCHANGED <<inbox, lost, latest, at>>
    BY <1>1, IncrEffect
  <2>2. d # e
    BY <2>1, HoldingFacts
  <2>3. turn[d] <= Cardinality(Claimed) /\ Cardinality(Claimed) \in Nat
    BY OrderTypes
  <2>4. c # e
    BY <1>0, <2>1, <2>2, <2>3
  <2>5. Heard(c, d)
    BY <2>1, <2>2, <2>4 DEF HeardInv
  <2>6. QED
    BY <2>1, <2>2, <2>5 DEF Heard
<1>2. ASSUME \A e \in Conns : ~IncrCounter(e) PROVE Heard(c, d)'
  <2>0. /\ turn' = turn /\ at' = at /\ seq' = seq
    BY <1>2, StepFrom
  <2>1. ASSUME pc[c] \in Holding, pc[d] \in {"upgrade", "register", "serve"}
        PROVE  Heard(c, d)
    BY <2>0, <2>1 DEF HeardInv
  <2>2. ASSUME pc[c] \in Holding, pc[d] \in {"upgrade", "register", "serve"},
               latest'[at[c]] >= latest[at[c]], latest'[at[c]] \in Nat,
               inbox[at[c]] \subseteq inbox'[at[c]], lost[at[c]] \subseteq lost'[at[c]]
        PROVE  Heard(c, d)'
    BY <1>0, <2>0, <2>1, <2>2 DEF Heard
  <2>3. ASSUME NEW e \in Conns, Announce(e) PROVE Heard(c, d)'
    <3>1. /\ pc[e] = "announce" /\ \A x \in Conns : x # e => pc'[x] = pc[x]
          /\ latest' = latest /\ lost' = lost
          /\ \A x \in Conns : pc[x] \in Holding => refs[at[x]] > 0
          /\ \A j \in Instances : refs[j] > 0 => inbox'[j] = inbox[j] \cup {seq[e]}
      BY <2>3, AnnounceEffect
    <3>2. pc[c] \in Holding
      BY <3>1, HoldingFacts
    <3>3. inbox'[at[c]] = inbox[at[c]] \cup {seq[e]}
      BY <1>0, <3>1, <3>2
    <3>4. CASE e = d
      <4>1. seq[d] = turn[d]
        BY <3>1, <3>4 DEF TurnsInv, Numbered
      <4>2. turn'[d] \in inbox'[at'[c]]
        BY <2>0, <3>3, <3>4, <4>1
      <4>3. QED
        BY <4>2 DEF Heard
    <3>5. CASE e # d
      BY <1>0, <2>2, <3>1, <3>2, <3>3, <3>5
    <3>6. QED
      BY <3>4, <3>5
  <2>4. ASSUME NEW e \in Conns, Register(e) PROVE Heard(c, d)'
    <3>1. /\ pc[e] = "register" /\ inbox' = inbox /\ lost' = lost
          /\ \A x \in Conns : x # e => pc'[x] = pc[x]
          /\ Refused(e) => latest' = latest
          /\ ~Refused(e) => /\ latest'[at[e]] = seq[e]
                            /\ \A j \in Instances : j # at[e] => latest'[j] = latest[j]
      BY <2>4, RegisterEffect
    <3>2. seq[e] \in Nat
      BY OrderTypes
    <3>3. latest'[at[c]] >= latest[at[c]] /\ latest'[at[c]] \in Nat
      BY <1>0, <3>1, <3>2 DEF Refused
    <3>4. pc[c] \in Holding /\ pc[d] \in {"upgrade", "register", "serve"}
      BY <3>1, HoldingFacts
    <3>5. QED
      BY <2>2, <3>1, <3>3, <3>4
  <2>5. ASSUME NEW e \in Conns, Release(e) PROVE Heard(c, d)'
    <3>1. /\ pc'[e] = "done" /\ \A x \in Conns : x # e => pc'[x] = pc[x]
          /\ \/ /\ inbox'[at[c]] = inbox[at[c]] /\ latest'[at[c]] = latest[at[c]]
                /\ lost'[at[c]] = lost[at[c]]
             \/ \A x \in Conns : at[x] = at[c] /\ pc[x] \in Holding => x = e
      BY <1>0, <2>5, ReleaseEffect
    <3>2. c # e /\ d # e
      BY <3>1, HoldingFacts
    <3>3. pc[c] \in Holding /\ pc[d] \in {"upgrade", "register", "serve"}
      BY <3>1, <3>2
    <3>4. /\ inbox'[at[c]] = inbox[at[c]] /\ latest'[at[c]] = latest[at[c]]
          /\ lost'[at[c]] = lost[at[c]]
      BY <3>1, <3>2, <3>3
    <3>5. QED
      BY <1>0, <2>2, <3>3, <3>4
  <2>6. ASSUME NEW j \in Instances, Crash(j) PROVE Heard(c, d)'
    <3>1. /\ \A x \in Conns : at[x] = j => pc'[x] \in {"new", "done"}
          /\ \A x \in Conns : at[x] # j => pc'[x] = pc[x]
          /\ \A i \in Instances : i # j => /\ inbox'[i] = inbox[i] /\ latest'[i] = latest[i]
                                            /\ lost'[i] = lost[i]
      BY <2>6, CrashEffect
    <3>2. at[c] # j /\ at[d] # j
      BY <3>1, HoldingFacts
    <3>3. QED
      BY <1>0, <2>2, <3>1, <3>2
  <2>7. ASSUME NEW j \in Instances, NEW s \in inbox[j], Claim(j, s) PROVE Heard(c, d)'
    <3>1. /\ pc' = pc /\ lost' = lost /\ inbox'[j] = inbox[j] \ {s} /\ latest'[j] = Max2(latest[j], s)
          /\ \A i \in Instances : i # j => inbox'[i] = inbox[i] /\ latest'[i] = latest[i]
      BY <2>7, ClaimEffect
    <3>2. CASE at[c] # j
      BY <1>0, <2>2, <3>1, <3>2
    <3>3. CASE at[c] = j
      <4>1. s \in Nat
        BY OrderTypes
      <4>2. latest'[at[c]] \in Nat /\ latest'[at[c]] >= latest[at[c]] /\ latest'[at[c]] >= s
        BY <1>0, <3>1, <3>3, <4>1 DEF Max2
      <4>3. Heard(c, d)
        BY <2>1, <3>1
      <4>4. CASE latest[at[c]] >= turn[d]
        <5>1. latest'[at'[c]] >= turn'[d]
          BY <1>0, <2>0, <4>2, <4>4
        <5>2. QED
          BY <5>1 DEF Heard
      <4>5. CASE turn[d] \in inbox[at[c]]
        <5>1. turn[d] = s \/ turn[d] \in inbox'[at[c]]
          BY <3>1, <3>3, <4>5
        <5>2. latest'[at'[c]] >= turn'[d] \/ turn'[d] \in inbox'[at'[c]]
          BY <2>0, <4>2, <5>1
        <5>3. QED
          BY <5>2 DEF Heard
      <4>6. CASE turn[d] \in lost[at[c]]
        BY <2>0, <3>1, <4>6 DEF Heard
      <4>7. QED
        BY <4>3, <4>4, <4>5, <4>6 DEF Heard
    <3>4. QED
      BY <3>2, <3>3
  <2>8. ASSUME ~HubStep PROVE Heard(c, d)'
    <3>1. /\ pc[c] \in Holding \cup {"acquire"}
          /\ pc[d] \in {"upgrade", "register", "serve"}
      BY <1>2, <2>8, QuietFrom
    <3>2. pc[c] # "acquire"
      BY <2>0 DEF SessionInv, ClaimInv
    <3>3. UNCHANGED <<inbox, lost, latest>>
      BY <2>8, HubFrame
    <3>4. QED
      BY <1>0, <2>2, <3>1, <3>2, <3>3
  <2>9. ASSUME NEW e \in Conns, Unregister(e) PROVE Heard(c, d)'
    <3>1. UNCHANGED <<inbox, lost, latest>> /\ Goto(e, "release") /\ pc[e] = "unregister"
      BY <2>9 DEF Unregister
    <3>2. pc'[e] = "release" /\ \A x \in Conns : x # e => pc'[x] = pc[x]
      BY <1>0, <3>1, GotoFacts DEF Steps
    <3>3. pc[c] \in Holding /\ pc[d] \in {"upgrade", "register", "serve"}
      BY <3>1, <3>2, HoldingFacts
    <3>4. QED
      BY <1>0, <2>2, <3>1, <3>3
  <2>10. ASSUME NEW j \in Instances, Resubscribe(j) PROVE Heard(c, d)'
    <3>1. /\ pc' = pc /\ latest' = latest /\ inbox[at[c]] \subseteq inbox'[at[c]] \cup lost'[at[c]]
          /\ lost[at[c]] \subseteq lost'[at[c]]
      BY <1>0, <2>10, ResubscribeEffect
    <3>2. Heard(c, d)
      BY <2>1, <3>1
    <3>3. QED
      BY <2>0, <3>1, <3>2 DEF Heard
  <2>11. QED
    BY <2>3, <2>4, <2>5, <2>6, <2>7, <2>8, <2>9, <2>10 DEF HubStep
<1>3. QED
  BY <1>1, <1>2

\* No generation is given at first.
LEMMA OrderInit == Init => OrderInv
<1> SUFFICES ASSUME Init PROVE OrderInv
  OBVIOUS
<1>1. LiveInv
  BY SessionInit DEF Init, LiveInv, LiveIsRegistered, Live
<1>2. Claimed = {}
  BY DEF Init, Claimed
<1>3. TurnsInv
  BY <1>2, FS_EmptySet DEF Init, TurnsInv, Numbered
<1>4. LatestInv /\ GivenInv /\ HeardInv
  BY HoldingFacts DEF Init, LatestInv, GivenInv, Given, HeardInv
<1>5. QED
  BY <1>1, <1>3, <1>4 DEF OrderInv

\* The order of the connections is kept while the counters are.
LEMMA OrderStep ==
    ASSUME "expiry" \notin Faults
    PROVE  OrderInv /\ [Next]_vars => OrderInv'
<1> SUFFICES ASSUME OrderInv, [Next]_vars PROVE OrderInv'
  OBVIOUS
<1>1. SessionInv /\ LiveInv /\ TurnsInv /\ LatestInv /\ GivenInv /\ HeardInv
  BY DEF OrderInv, LiveInv
<1>2. LiveInv'
  BY <1>1, SessionStep, LiveStep DEF LiveInv
<1>3. TurnsInv' /\ LatestInv' /\ GivenInv' /\ HeardInv'
  BY <1>1, TurnsStep, LatestStep, GivenStep, HeardStep
<1>4. QED
  BY <1>2, <1>3 DEF OrderInv

\* One connection per player over all instances, for any number of connections and
\* instances and under any faults but the early expiry of the counters, broken
\* subscriptions included: of two live connections the older is doomed, the newer one's
\* announcement is on its way to its hub, or its subscription lost that very
\* announcement (ClaimConnection, Hub.Register, Hub.Claim).  That no announcement is
\* lost is false: the run lost_claim; nor can the counters expire: counter_expiry.
THEOREM ConnectionsOneConnectionUnlessLost ==
    ASSUME "expiry" \notin Faults
    PROVE  Spec => []OneConnectionUnlessLost
<1>1. OrderInv => OneConnectionUnlessLost
  <2> SUFFICES ASSUME OrderInv, NEW c \in Conns, NEW d \in Conns, Live(c), Live(d),
                      turn[c] < turn[d], c \notin doomed, seq[d] \notin lost[at[c]]
               PROVE  \E s \in inbox[at[c]] : s > seq[c]
    BY DEF OneConnectionUnlessLost, Superseded
  <2>1. /\ SessionInv /\ LiveIsRegistered /\ TurnsInv /\ LatestInv /\ HeardInv
        /\ pc[c] = "serve" /\ pc[d] = "serve"
    BY DEF OrderInv, LiveInv, Live
  <2>2. at[c] \in Instances /\ turn[c] \in Nat /\ turn[d] \in Nat /\ c # NoConn
    BY <2>1, OrderTypes, ConnsAssumption
  <2>3. client[at[c]] = c
    BY <2>1 DEF LiveIsRegistered
  <2>4. seq[c] = turn[c] /\ 0 < turn[c] /\ seq[d] = turn[d]
    BY <2>1, <2>2 DEF TurnsInv, Numbered
  <2>5. latest[at[c]] = turn[c]
    BY <2>1, <2>2, <2>3, <2>4 DEF LatestInv
  <2>6. Heard(c, d)
    BY <2>1, <2>4, HoldingFacts DEF HeardInv
  <2>7. turn[d] \in inbox[at[c]]
    BY <2>2, <2>4, <2>5, <2>6 DEF Heard
  <2>8. turn[d] > seq[c]
    BY <2>2, <2>4
  <2>9. QED
    BY <2>7, <2>8
<1>2. QED
  BY <1>1, OrderInit, OrderStep, PTL DEF Spec

\* The newest connection wins whatever the order of the announcements, for any number
\* of connections and instances and under any faults but the early expiry of the
\* counters: a hub drops or refuses (Register, Claim) only for a later connection.
THEOREM ConnectionsNewestWins ==
    ASSUME "expiry" \notin Faults
    PROVE  Spec => NewestWins
<1> DEFINE Wins == \A c \in Conns :
             (c \in doomed' \ doomed \/ (pc[c] = "register" /\ pc'[c] = "release")) =>
                 \E d \in Conns : turn[d] > turn[c]
<1>1. OrderInv /\ [Next]_vars => [Wins]_vars
  <2> SUFFICES ASSUME OrderInv, [Next]_vars, NEW c \in Conns,
                      c \in doomed' \ doomed \/ (pc[c] = "register" /\ pc'[c] = "release")
               PROVE  \E d \in Conns : turn[d] > turn[c]
    OBVIOUS
  <2>1. /\ SessionInv /\ ClientInv /\ TurnsInv /\ LatestInv /\ GivenInv
        /\ pc \in [Conns -> Steps] /\ turn[c] \in Nat /\ seq[c] \in Nat
        /\ at[c] \in Instances
    BY OrderTypes, SessionParts DEF OrderInv, LiveInv, SessionInv, TypeOK
  <2>2. ASSUME NEW s \in Nat, Given(s), s > seq[c], pc[c] \in Numbered
        PROVE  \E d \in Conns : turn[d] > turn[c]
    BY <2>1, <2>2 DEF Given, TurnsInv
  <2>3. ASSUME NEW e \in Conns, Register(e) PROVE \E d \in Conns : turn[d] > turn[c]
    <3>1. /\ pc[e] = "register" /\ at[e] \in Instances
          /\ \A x \in Conns : x # e => pc'[x] = pc[x]
          /\ Refused(e) => doomed' = doomed
          /\ ~Refused(e) => /\ pc'[e] = "serve"
                            /\ doomed' = doomed \cup ({client[at[e]]} \ {NoConn})
      BY <2>1, <2>3, RegisterEffect
    <3>2. CASE Refused(e)
      <4>1. c = e
        BY <3>1, <3>2
      <4>2. latest[at[c]] > seq[c] /\ latest[at[c]] \in Nat /\ Given(latest[at[c]])
        BY <2>1, <3>2, <4>1, OrderTypes DEF Refused, GivenInv
      <4>3. QED
        BY <2>2, <3>1, <4>1, <4>2 DEF Numbered
    <3>3. CASE ~Refused(e)
      <4>1. c = client[at[e]] /\ c # NoConn
        BY <3>1, <3>3, ConnsAssumption
      <4>2. pc[c] \in {"serve", "unregister"} /\ latest[at[e]] = seq[c]
        BY <2>1, <3>1, <4>1 DEF ClientInv, LatestInv
      <4>3. seq[e] = turn[e] /\ seq[c] = turn[c] /\ 0 < turn[c] /\ c # e
        BY <2>1, <3>1, <4>2 DEF TurnsInv, Numbered
      <4>4. ~(seq[e] < seq[c]) /\ turn[e] \in Nat
        BY <2>1, <3>3, <4>2, OrderTypes DEF Refused
      <4>5. turn[e] # turn[c]
        BY <2>1, <4>3 DEF TurnsInv
      <4>6. turn[e] > turn[c]
        BY <2>1, <4>3, <4>4, <4>5
      <4>7. QED
        BY <4>6
    <3>4. QED
      BY <3>2, <3>3
  <2>4. ASSUME NEW i \in Instances, NEW s \in inbox[i], Claim(i, s)
        PROVE  \E d \in Conns : turn[d] > turn[c]
    <3>1. pc' = pc /\ (doomed' = doomed \/ (/\ client[i] \in Conns /\ seq[client[i]] < s
                                            /\ doomed' = doomed \cup {client[i]}))
      BY <2>1, <2>4, ClaimEffect
    <3>2. c = client[i] /\ seq[c] < s /\ c # NoConn
      BY <3>1, ConnsAssumption
    <3>3. pc[c] \in Numbered
      BY <2>1, <3>2 DEF ClientInv, Numbered
    <3>4. s \in Nat /\ Given(s)
      BY <2>1, OrderTypes DEF GivenInv
    <3>5. QED
      BY <2>1, <2>2, <3>2, <3>3, <3>4
  <2>5. ASSUME NEW i \in Instances, Crash(i) PROVE FALSE
    BY <2>1, <2>5, CrashEffect
  <2>6. ASSUME NEW e \in Conns, NEW step \in Steps, Goto(e, step), doomed' = doomed,
               step # "release" \/ pc[e] # "register"
        PROVE  FALSE
    BY <2>1, <2>6, GotoFacts
  <2>7. ASSUME NEW e \in Conns, LoadState(e) \/ Acquire(e) \/ IncrCounter(e) \/ Announce(e)
                                \/ Upgrade(e) \/ PumpsReturn(e)
        PROVE  FALSE
    BY <2>6, <2>7 DEF LoadState, Acquire, IncrCounter, Announce, Upgrade, PumpsReturn, Steps
  <2>8. ASSUME NEW e \in Conns, Unregister(e) \/ Release(e) \/ Fail(e)
        PROVE  FALSE
    BY <2>6, <2>8 DEF Unregister, Release, Fail, Steps
  <2>9. CASE pc' = pc /\ doomed' \subseteq doomed
    BY <2>9
  <2>10. QED
    BY <2>3, <2>4, <2>5, <2>7, <2>8, <2>9
    DEF Next, Handler, Deliver, Resubscribe, CloseDropped, Disconnect, Sweep, GameExpires, vars
<1>2. QED
  BY <1>1, OrderInit, OrderStep, PTL DEF Spec, NewestWins
=============================================================================
