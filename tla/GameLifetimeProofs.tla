------------------------- MODULE GameLifetimeProofs -------------------------
(***************************************************************************)
(* Proofs about GameLifetime: for any number of actors and questions and   *)
(* any times to live, what expiry may and may not take from a game.        *)
(***************************************************************************)
EXTENDS GameLifetime, TLAPS

---------------------------------------------------------------------------
(* Times to live.                                                          *)

\* The times to live that are set are proper ones.
LEMMA TTLFacts ==
    /\ Forever \in Nat /\ IdleTTL \in 1 .. Forever - 1 /\ FinishedTTL \in 1 .. Forever - 1
    /\ \A n : n \in TTL <=> n \in Int /\ 0 <= n /\ n <= Forever
    /\ 0 \in TTL /\ Forever \in TTL /\ IdleTTL \in TTL /\ FinishedTTL \in TTL
BY TTLAssumption DEF Forever, TTL

\* HSET and ZADD create what does not exist.
LEMMA WrittenFacts ==
    ASSUME NEW K, NEW t \in [K -> TTL], NEW W
    PROVE  /\ Written(t, W) \in [K -> TTL]
           /\ \A k \in K : Written(t, W)[k] = IF k \in W /\ t[k] = 0 THEN Forever ELSE t[k]
BY TTLFacts DEF Written

\* EXPIRE changes what exists.
LEMMA ExpiredFacts ==
    ASSUME NEW K, NEW t \in [K -> TTL], NEW W, NEW d \in TTL
    PROVE  /\ Expired(t, W, d) \in [K -> TTL]
           /\ \A k \in K : Expired(t, W, d)[k] = IF k \in W /\ t[k] # 0 THEN d ELSE t[k]
BY DEF Expired

\* The clock takes one from every time to live.
LEMMA AgedFacts ==
    ASSUME NEW K, NEW t \in [K -> TTL]
    PROVE  /\ Aged(t) \in [K -> TTL]
           /\ \A k \in K : /\ Aged(t)[k] = IF t[k] \in {0, Forever} THEN t[k] ELSE t[k] - 1
                           /\ Aged(t)[k] <= t[k]
<1>1. ASSUME NEW k \in K
      PROVE  /\ t[k] \notin {0, Forever} => t[k] - 1 \in TTL
             /\ t[k] - 1 <= t[k] /\ t[k] <= t[k]
  <2>1. t[k] \in TTL
    OBVIOUS
  <2>2. QED
    BY <2>1, TTLFacts
<1>2. QED
  BY <1>1 DEF Aged

---------------------------------------------------------------------------
(* Types, and the progress a transition works on.                          *)

\* A game that has begun has a current question, and only a running one is open.
Begun(m) ==
    /\ m.open => m.status = "running"
    /\ m.status # "waiting" => m.idx >= 0

\* The transition under way has seen the progress the game has: it holds the lock.
LockInv ==
    /\ Begun(meta)
    /\ pc["transition"] = "join" => CanJoin(meta)
    /\ pc["transition"] = "start" => snap["transition"] = meta /\ CanStart(meta)
    /\ pc["transition"] = "close" => snap["transition"] = meta /\ CanClose(meta)
    /\ pc["transition"] = "save" =>
         /\ CanClose(snap["transition"]) /\ Begun(snap["transition"])
         /\ meta.idx = snap["transition"].idx /\ ~meta.open
    /\ pc["answer"] = "record" => snap["answer"].idx \in Questions

LifetimeInv == TypeOK /\ LockInv

\* A current question is one of the list.
LEMMA CurrentQuestion ==
    ASSUME NEW m \in Progress, m.idx >= 0
    PROVE  m.idx \in Questions
BY TotalAssumption DEF Progress, Questions

\* A created game.
LEMMA LifetimeInit == Init => LifetimeInv
<1> SUFFICES ASSUME Init PROVE LifetimeInv
  OBVIOUS
<1>1. NewGame \in Progress
  BY TotalAssumption DEF NewGame, Progress
<1>2. /\ ttl \in [Main -> TTL] /\ attl \in [Questions -> TTL] /\ ittl \in [Actors -> TTL]
  BY TTLFacts DEF Init
<1>3. pc \in [Procs -> Calls]
  BY DEF Init, Calls
<1>4. TypeOK
  BY <1>1, <1>2, <1>3, ActorsAssumption DEF Init, TypeOK
<1>5. LockInv
  BY DEF Init, LockInv, NewGame, Begun, Procs
<1>6. QED
  BY <1>4, <1>5 DEF LifetimeInv

\* The steps that touch no data.
Quiet == UNCHANGED <<data, accepted, forgotten, raised>>

\* A process that ends keeps the types of all.
LEMMA EndsTypes ==
    ASSUME TypeOK, NEW p \in Procs, Ends(p)
    PROVE  /\ pc' \in [Procs -> Calls] /\ snap' \in [Procs -> Progress]
           /\ who' \in [Procs -> Actors] /\ late' \in SUBSET Procs
           /\ pc'[p] = "idle"
           /\ \A o \in Procs \ {p} : pc'[o] = pc[o] /\ snap'[o] = snap[o]
<1>1. NewGame \in Progress /\ "idle" \in Calls
  BY TotalAssumption DEF NewGame, Progress, Calls
<1>2. QED
  BY <1>1, ActorsAssumption DEF Ends, TypeOK

\* So does one that goes on.
LEMMA ProceedTypes ==
    ASSUME TypeOK, NEW p \in Procs, NEW call \in Calls, Proceed(p, call)
    PROVE  /\ pc' \in [Procs -> Calls] /\ late' \in SUBSET Procs
           /\ pc'[p] = call
           /\ \A o \in Procs \ {p} : pc'[o] = pc[o]
BY DEF Proceed, TypeOK

\* Every step of a transition keeps the types and the lock.
LEMMA SaveTypes ==
    ASSUME TypeOK, NEW m \in Progress, NEW changed, Save(m, changed)
    PROVE  /\ meta' = m /\ whole' \in BOOLEAN /\ raised' \in BOOLEAN
           /\ ttl' \in [Main -> TTL] /\ attl' \in [Questions -> TTL]
           /\ UNCHANGED <<joined, stored, index, ittl, accepted, forgotten>>
<1> DEFINE t == Written(ttl, {"meta"} \cup changed)
<1>1. t \in [Main -> TTL]
  BY WrittenFacts DEF TypeOK
<1>2. /\ meta' = m /\ whole' = (whole /\ Exists) /\ raised' = (raised \/ ~Exists)
      /\ ttl' = Refresh(t, IF m.status = "finished" THEN FinishedTTL ELSE IdleTTL)
      /\ attl' = IF m.status = "finished"
                 THEN Expired(attl, AnswersUpTo(m.idx), FinishedTTL) ELSE attl
      /\ UNCHANGED <<joined, stored, index, ittl, accepted, forgotten>>
  BY DEF Save
<1> HIDE DEF t
<1>3. ttl' \in [Main -> TTL]
  BY <1>1, <1>2, TTLFacts, ExpiredFacts DEF Refresh
<1>4. attl' \in [Questions -> TTL]
  BY <1>2, TTLFacts, ExpiredFacts DEF TypeOK
<1>5. QED
  BY <1>2, <1>3, <1>4

\* Every step keeps the types and what the transition under way has seen.
LEMMA LifetimeStep == LifetimeInv /\ [Next]_vars => LifetimeInv'
<1> SUFFICES ASSUME LifetimeInv, [Next]_vars PROVE LifetimeInv'
  OBVIOUS
<1> USE DEF LifetimeInv
<1>0. /\ "transition" \in Procs /\ "answer" \in Procs /\ "list" \in Procs
      /\ meta \in Progress /\ snap["transition"] \in Progress
      /\ Calls = {"idle", "join", "start", "close", "save", "record", "exists", "load", "zrem"}
  BY DEF Procs, TypeOK, Calls
<1>1. ASSUME Tick PROVE LifetimeInv'
  <2>1. /\ ttl' \in [Main -> TTL] /\ attl' \in [Questions -> TTL] /\ ittl' \in [Actors -> TTL]
    BY <1>1, AgedFacts DEF Tick, TypeOK
  <2>2. TypeOK'
    BY <1>1, <2>1 DEF Tick, TypeOK
  <2>3. LockInv'
    BY <1>1 DEF Tick, LockInv
  <2>4. QED
    BY <2>2, <2>3
<1>2. ASSUME NEW op \in {"join", "start", "close"}, NEW a \in Actors, Load(op, a)
      PROVE  LifetimeInv'
  <2>1. /\ pc' \in [Procs -> Calls] /\ late' \in SUBSET Procs /\ pc'["transition"] = op
        /\ pc'["answer"] = pc["answer"]
    BY <1>0, <1>2, ProceedTypes DEF Load
  <2>2. /\ snap' \in [Procs -> Progress] /\ who' \in [Procs -> Actors]
        /\ snap'["transition"] = meta /\ snap'["answer"] = snap["answer"] /\ meta' = meta
    BY <1>0, <1>2 DEF Load, TypeOK, data
  <2>3. TypeOK'
    BY <1>2, <2>1, <2>2 DEF Load, TypeOK, data
  <2>4. LockInv'
    BY <1>2, <2>1, <2>2 DEF Load, LockInv
  <2>5. QED
    BY <2>3, <2>4
<1>3. ASSUME NEW a \in Actors, LoadForAnswer(a) PROVE LifetimeInv'
  <2>1. /\ pc' \in [Procs -> Calls] /\ late' \in SUBSET Procs /\ pc'["transition"] = pc["transition"]
    BY <1>0, <1>3, ProceedTypes DEF LoadForAnswer
  <2>2. /\ snap' \in [Procs -> Progress] /\ who' \in [Procs -> Actors]
        /\ snap'["answer"] = meta /\ snap'["transition"] = snap["transition"] /\ meta' = meta
    BY <1>0, <1>3 DEF LoadForAnswer, TypeOK, data
  <2>3. TypeOK'
    BY <1>3, <2>1, <2>2 DEF LoadForAnswer, TypeOK, data
  <2>4. meta.idx \in Questions
    BY <1>0, <1>3, CurrentQuestion DEF LoadForAnswer, CanClose, LockInv, Begun
  <2>5. LockInv'
    BY <2>1, <2>2, <2>4 DEF LockInv
  <2>6. QED
    BY <2>3, <2>5
<1>4. ASSUME NEW a \in Actors, ReadIndex(a) PROVE LifetimeInv'
  <2>1. /\ pc' \in [Procs -> Calls] /\ late' \in SUBSET Procs
        /\ pc'["transition"] = pc["transition"] /\ pc'["answer"] = pc["answer"]
    BY <1>0, <1>4, ProceedTypes DEF ReadIndex
  <2>2. TypeOK'
    BY <1>4, <2>1 DEF ReadIndex, TypeOK, data
  <2>3. LockInv'
    BY <1>4, <2>1 DEF ReadIndex, LockInv, data
  <2>4. QED
    BY <2>2, <2>3
<1>5. ASSUME AddPlayer PROVE LifetimeInv'
  <2> DEFINE a == who["transition"]
  <2>1. /\ pc' \in [Procs -> Calls] /\ snap' \in [Procs -> Progress]
        /\ who' \in [Procs -> Actors] /\ late' \in SUBSET Procs
        /\ pc'["transition"] = "idle"
        /\ pc'["answer"] = pc["answer"] /\ snap'["answer"] = snap["answer"]
    BY <1>0, <1>5, EndsTypes DEF AddPlayer
  <2>2. a \in Actors
    BY <1>0 DEF TypeOK
  <2>3. ttl' \in [Main -> TTL]
    <3>1. Written(ttl, {"players"}) \in [Main -> TTL]
      BY WrittenFacts DEF TypeOK
    <3>2. QED
      BY <1>5, <3>1, ExpiredFacts, TTLFacts DEF AddPlayer, Refresh
  <2>4. ittl' \in [Actors -> TTL]
    <3>1. Written(ittl, {a}) \in [Actors -> TTL]
      BY WrittenFacts DEF TypeOK
    <3>2. QED
      BY <1>5, <3>1, ExpiredFacts, TTLFacts DEF AddPlayer
  <2>5. TypeOK'
    BY <1>5, <2>1, <2>2, <2>3, <2>4 DEF AddPlayer, TypeOK
  <2>6. LockInv'
    BY <1>5, <2>1 DEF AddPlayer, LockInv
  <2>7. QED
    BY <2>5, <2>6
<1>6. ASSUME NEW m \in Progress, NEW changed, Save(m, changed), Ends("transition"), Begun(m)
      PROVE  LifetimeInv'
  <2>1. /\ pc' \in [Procs -> Calls] /\ snap' \in [Procs -> Progress]
        /\ who' \in [Procs -> Actors] /\ late' \in SUBSET Procs
        /\ pc'["transition"] = "idle"
        /\ pc'["answer"] = pc["answer"] /\ snap'["answer"] = snap["answer"]
    BY <1>0, <1>6, EndsTypes
  <2>2. TypeOK'
    BY <1>6, <2>1, SaveTypes DEF TypeOK
  <2>3. LockInv'
    BY <1>6, <2>1, SaveTypes DEF LockInv
  <2>4. QED
    BY <2>2, <2>3
<1>7. ASSUME StartQuestion PROVE LifetimeInv'
  <2> DEFINE m == [status |-> "running", idx |-> snap["transition"].idx + 1, open |-> TRUE]
  <2>1. Save(m, {}) /\ Ends("transition")
    BY <1>7 DEF StartQuestion
  <2>2. snap["transition"].idx + 1 \in 0 .. TotalQuestions - 1
    BY <1>0, <1>7, TotalAssumption DEF StartQuestion, LockInv, CanStart, Progress
  <2>3. m \in Progress /\ Begun(m)
    BY <2>2, TotalAssumption DEF Progress, Begun
  <2>4. QED
    BY <1>6, <2>1, <2>3
<1>8. ASSUME CloseAnswers PROVE LifetimeInv'
  <2>1. CASE Exists /\ meta.open /\ meta.idx = snap["transition"].idx
    <3>1. /\ meta' = [meta EXCEPT !.open = FALSE] /\ Proceed("transition", "save")
          /\ UNCHANGED <<snap, who, whole, joined, stored, index, ttl, attl, ittl,
                         accepted, forgotten, raised>>
      BY <1>8, <2>1 DEF CloseAnswers
    <3>2. /\ pc' \in [Procs -> Calls] /\ late' \in SUBSET Procs /\ pc'["transition"] = "save"
          /\ pc'["answer"] = pc["answer"]
      BY <1>0, <3>1, ProceedTypes
    <3>3. meta' \in Progress /\ meta'.idx = meta.idx /\ meta'.open = FALSE /\ meta'.status = meta.status
      BY <1>0, <3>1 DEF Progress
    <3>4. TypeOK'
      BY <3>1, <3>2, <3>3 DEF TypeOK
    <3>5. LockInv'
      BY <1>8, <3>1, <3>2, <3>3 DEF CloseAnswers, LockInv, Begun, CanClose
    <3>6. QED
      BY <3>4, <3>5
  <2>2. CASE ~(Exists /\ meta.open /\ meta.idx = snap["transition"].idx)
    <3>1. /\ Ends("transition")
          /\ UNCHANGED <<meta, whole, joined, stored, index, ttl, attl, ittl,
                         accepted, forgotten, raised>>
      BY <1>8, <2>2 DEF CloseAnswers
    <3>2. /\ pc' \in [Procs -> Calls] /\ snap' \in [Procs -> Progress]
          /\ who' \in [Procs -> Actors] /\ late' \in SUBSET Procs
          /\ pc'["transition"] = "idle"
          /\ pc'["answer"] = pc["answer"] /\ snap'["answer"] = snap["answer"]
      BY <1>0, <3>1, EndsTypes
    <3>3. QED
      BY <3>1, <3>2 DEF TypeOK, LockInv
  <2>3. QED
    BY <2>1, <2>2
<1>9. ASSUME SaveClose PROVE LifetimeInv'
  <2> DEFINE m(status) == [snap["transition"] EXCEPT !.status = status, !.open = FALSE]
  <2>1. PICK status \in {"running", "finished"}, changed \in {{}, {"players"}} :
          Save(m(status), changed)
    BY <1>9 DEF SaveClose
  <2>2. Begun(snap["transition"]) /\ CanClose(snap["transition"]) /\ Ends("transition")
    BY <1>9 DEF SaveClose, LockInv
  <2>3. /\ m(status) \in Progress /\ m(status).idx = snap["transition"].idx
        /\ m(status).open = FALSE
    BY <1>0 DEF Progress
  <2>4. Begun(m(status))
    BY <2>2, <2>3 DEF Begun, CanClose
  <2>5. QED
    BY <1>6, <2>1, <2>2, <2>3, <2>4
<1>10. ASSUME RecordAnswer PROVE LifetimeInv'
  <2> DEFINE q == snap["answer"].idx
             a == who["answer"]
  <2>1. /\ pc' \in [Procs -> Calls] /\ snap' \in [Procs -> Progress]
        /\ who' \in [Procs -> Actors] /\ late' \in SUBSET Procs
        /\ pc'["answer"] = "idle"
        /\ pc'["transition"] = pc["transition"] /\ snap'["transition"] = snap["transition"]
    BY <1>0, <1>10, EndsTypes DEF RecordAnswer
  <2>2. q \in Questions /\ a \in Actors
    BY <1>0, <1>10 DEF RecordAnswer, LockInv, TypeOK
  <2>3. AnswerTTL(attl, q) \in [Questions -> TTL]
    <3>1. Written(attl, {q}) \in [Questions -> TTL]
      BY WrittenFacts DEF TypeOK
    <3>2. QED
      BY <3>1, ExpiredFacts, TTLFacts DEF AnswerTTL
  <2>4. /\ stored' \in [Questions -> SUBSET Actors] /\ attl' \in [Questions -> TTL]
        /\ accepted' \in [Questions -> SUBSET Actors]
    BY <1>10, <2>2, <2>3 DEF RecordAnswer, TypeOK
  <2>5. TypeOK'
    BY <1>10, <2>1, <2>4 DEF RecordAnswer, TypeOK
  <2>6. LockInv'
    BY <1>10, <2>1 DEF RecordAnswer, LockInv
  <2>7. QED
    BY <2>5, <2>6
<1>11. ASSUME CheckExists PROVE LifetimeInv'
  <2>1. Proceed("list", "zrem") \/ Proceed("list", "load")
    BY <1>11 DEF CheckExists
  <2>2. /\ pc' \in [Procs -> Calls] /\ late' \in SUBSET Procs
        /\ pc'["transition"] = pc["transition"] /\ pc'["answer"] = pc["answer"]
    BY <1>0, <2>1, ProceedTypes
  <2>3. QED
    BY <1>11, <2>2 DEF CheckExists, TypeOK, LockInv, data
<1>12. ASSUME RemoveGone PROVE LifetimeInv'
  <2>1. /\ pc' \in [Procs -> Calls] /\ snap' \in [Procs -> Progress]
        /\ who' \in [Procs -> Actors] /\ late' \in SUBSET Procs
        /\ pc'["transition"] = pc["transition"] /\ snap'["transition"] = snap["transition"]
        /\ pc'["answer"] = pc["answer"] /\ snap'["answer"] = snap["answer"]
    BY <1>0, <1>12, EndsTypes DEF RemoveGone
  <2>2. ittl' \in [Actors -> TTL]
    BY <1>12, TTLFacts DEF RemoveGone, TypeOK
  <2>3. QED
    BY <1>12, <2>1, <2>2 DEF RemoveGone, TypeOK, LockInv
<1>13. ASSUME NEW p \in Procs, Ends(p), Quiet PROVE LifetimeInv'
  <2>1. /\ pc' \in [Procs -> Calls] /\ snap' \in [Procs -> Progress]
        /\ who' \in [Procs -> Actors] /\ late' \in SUBSET Procs
        /\ pc'[p] = "idle"
        /\ \A o \in Procs \ {p} : pc'[o] = pc[o] /\ snap'[o] = snap[o]
    BY <1>13, EndsTypes
  <2>2. TypeOK'
    BY <1>13, <2>1 DEF Quiet, TypeOK, data
  <2>3. /\ pc'["transition"] = "idle" \/
             (pc'["transition"] = pc["transition"] /\ snap'["transition"] = snap["transition"])
        /\ pc'["answer"] = "idle" \/
             (pc'["answer"] = pc["answer"] /\ snap'["answer"] = snap["answer"])
    BY <1>0, <2>1
  <2>4. LockInv'
    BY <1>13, <2>3 DEF Quiet, LockInv, data
  <2>5. QED
    BY <2>2, <2>4
<1>14. CASE UNCHANGED vars
  BY <1>14 DEF vars, data, procs, TypeOK, LockInv
<1>15. QED
  <2>1. ASSUME LoadListed \/ \E p \in Procs : Fail(p) PROVE \E p \in Procs : Ends(p) /\ Quiet
    BY <1>0, <2>1 DEF LoadListed, Fail, Quiet
  <2>2. QED
    BY <1>1, <1>2, <1>3, <1>4, <1>5, <1>7, <1>8, <1>9, <1>10, <1>11, <1>12, <1>13,
       <1>14, <2>1 DEF Next, Transition, List

\* The specification without its fairness keeps it.
LEMMA LifetimeAlways == Spec => []LifetimeInv
BY LifetimeInit, LifetimeStep, PTL DEF Spec

\* The data of a game is well typed: in particular no transition saves a question
\* beyond the list, whatever expires under it (StartNextQuestion, closeQuestion).
THEOREM LifetimeTypeOK == Spec => []TypeOK
BY LifetimeAlways, PTL DEF LifetimeInv

---------------------------------------------------------------------------
(* What the writes do to the times to live.                                *)

\* Save creates the progress fields and refreshes what there is; a finished game's
\* answers get the time to live of the game.
LEMMA SaveEffect ==
    ASSUME TypeOK, NEW m \in Progress, NEW changed, Save(m, changed)
    PROVE  LET d == IF m.status = "finished" THEN FinishedTTL ELSE IdleTTL IN
           /\ meta' = m /\ whole' = (whole /\ Exists) /\ raised' = (raised \/ ~Exists)
           /\ ttl'["meta"] = d
           /\ \A k \in Main : ttl[k] # 0 => ttl'[k] = d
           /\ m.status # "finished" => attl' = attl
           /\ m.status = "finished" => \A q \in Questions :
                attl'[q] = IF q <= m.idx /\ attl[q] # 0 THEN FinishedTTL ELSE attl[q]
<1> DEFINE d == IF m.status = "finished" THEN FinishedTTL ELSE IdleTTL
           t == Written(ttl, {"meta"} \cup changed)
<1>1. /\ t \in [Main -> TTL]
      /\ t["meta"] # 0 /\ \A k \in Main : ttl[k] # 0 => t[k] # 0
  <2>1. /\ t \in [Main -> TTL]
        /\ \A k \in Main : t[k] = IF k \in {"meta"} \cup changed /\ ttl[k] = 0 THEN Forever ELSE ttl[k]
    BY WrittenFacts DEF TypeOK
  <2>2. Forever # 0
    BY TTLFacts
  <2>3. QED
    BY <2>1, <2>2 DEF Main
<1>2. /\ meta' = m /\ whole' = (whole /\ Exists) /\ raised' = (raised \/ ~Exists)
      /\ ttl' = Refresh(t, d)
      /\ attl' = IF m.status = "finished"
                 THEN Expired(attl, AnswersUpTo(m.idx), FinishedTTL) ELSE attl
  BY DEF Save
<1>3. d \in TTL
  BY TTLFacts
<1> HIDE DEF t, d
<1>4. \A k \in Main : ttl'[k] = IF k \in Main /\ t[k] # 0 THEN d ELSE t[k]
  BY <1>1, <1>2, <1>3, ExpiredFacts DEF Refresh
<1>5. ttl'["meta"] = d /\ \A k \in Main : ttl[k] # 0 => ttl'[k] = d
  BY <1>1, <1>4 DEF Main
<1>6. ASSUME m.status = "finished", NEW q \in Questions
      PROVE  attl'[q] = IF q <= m.idx /\ attl[q] # 0 THEN FinishedTTL ELSE attl[q]
  <2>1. q \in AnswersUpTo(m.idx) <=> q <= m.idx
    BY DEF AnswersUpTo, Questions, Progress
  <2>2. attl'[q] = IF q \in AnswersUpTo(m.idx) /\ attl[q] # 0 THEN FinishedTTL ELSE attl[q]
    BY <1>2, <1>6, TTLFacts, ExpiredFacts DEF TypeOK
  <2>3. QED
    BY <2>1, <2>2
<1>7. QED
  BY <1>2, <1>5, <1>6 DEF d

\* A transition that saves is a start or the end of a close.
LEMMA SavingSteps ==
    ASSUME LifetimeInv
    PROVE  /\ StartQuestion =>
                \E m \in Progress : /\ m.status = "running" /\ m.open = TRUE /\ m.idx = meta.idx + 1
                                    /\ Save(m, {})
           /\ SaveClose =>
                \E m \in Progress, changed \in {{}, {"players"}} :
                   /\ m.status \in {"running", "finished"}
                   /\ m.open = FALSE /\ m.idx = meta.idx
                   /\ Save(m, changed)
<1>0. "transition" \in Procs /\ meta \in Progress /\ snap["transition"] \in Progress
  BY DEF LifetimeInv, TypeOK, Procs
<1>1. ASSUME StartQuestion
      PROVE  \E m \in Progress : /\ m.status = "running" /\ m.open = TRUE /\ m.idx = meta.idx + 1
                                 /\ Save(m, {})
  <2> DEFINE m == [status |-> "running", idx |-> snap["transition"].idx + 1, open |-> TRUE]
  <2>1. Save(m, {})
    BY <1>1 DEF StartQuestion
  <2>2. /\ snap["transition"] = meta
        /\ snap["transition"].idx + 1 \in 0 .. TotalQuestions - 1
    BY <1>0, <1>1, TotalAssumption DEF StartQuestion, LifetimeInv, LockInv, CanStart, Progress
  <2>3. /\ m \in Progress /\ m.status = "running" /\ m.open = TRUE /\ m.idx = meta.idx + 1
    BY <2>2, TotalAssumption DEF Progress
  <2> HIDE DEF m
  <2>4. QED
    BY <2>1, <2>3
<1>2. ASSUME SaveClose
      PROVE  \E m \in Progress, changed \in {{}, {"players"}} :
                /\ m.status \in {"running", "finished"}
                /\ m.open = FALSE /\ m.idx = meta.idx
                /\ Save(m, changed)
  <2>1. PICK status \in {"running", "finished"}, changed \in {{}, {"players"}} :
          Save([snap["transition"] EXCEPT !.status = status, !.open = FALSE], changed)
    BY <1>2 DEF SaveClose
  <2> DEFINE m == [snap["transition"] EXCEPT !.status = status, !.open = FALSE]
  <2>2. snap["transition"].idx = meta.idx
    BY <1>2 DEF SaveClose, LifetimeInv, LockInv
  <2>3. /\ m \in Progress /\ m.status = status /\ m.open = FALSE /\ m.idx = meta.idx
    BY <1>0, <2>2 DEF Progress
  <2>4. Save(m, changed)
    BY <2>1
  <2> HIDE DEF m
  <2>5. QED
    BY <2>3, <2>4
<1>3. QED
  BY <1>1, <1>2

\* AddPlayer refreshes what there is and does not bring the game back.
LEMMA AddPlayerEffect ==
    ASSUME TypeOK, AddPlayer
    PROVE  /\ ttl'["meta"] = IF Exists THEN IdleTTL ELSE 0
           /\ \A k \in Main : ttl[k] # 0 => ttl'[k] = IdleTTL
<1> DEFINE t == Written(ttl, {"players"})
<1>1. /\ t \in [Main -> TTL]
      /\ \A k \in Main : t[k] = IF k \in {"players"} /\ ttl[k] = 0 THEN Forever ELSE ttl[k]
  BY WrittenFacts DEF TypeOK
<1>2. ttl' = Refresh(t, IdleTTL)
  BY DEF AddPlayer
<1> HIDE DEF t
<1>3. \A k \in Main : ttl'[k] = IF k \in Main /\ t[k] # 0 THEN IdleTTL ELSE t[k]
  BY <1>1, <1>2, TTLFacts, ExpiredFacts DEF Refresh
<1>4. "meta" \in Main
  BY DEF Main
<1>5. QED
  BY <1>1, <1>3, <1>4 DEF Exists

\* Recording an answer gives its hash the longest time to live of an open game.
LEMMA RecordEffect ==
    ASSUME LifetimeInv, RecordAnswer
    PROVE  \/ UNCHANGED <<stored, attl, accepted>>
           \/ \E a \in Actors :
              /\ Exists /\ CanClose(meta) /\ meta.idx \in Questions
              /\ stored' = [stored EXCEPT ![meta.idx] = @ \cup {a}]
              /\ accepted' = [accepted EXCEPT ![meta.idx] = @ \cup {a}]
              /\ attl'[meta.idx] = IdleTTL
              /\ \A q \in Questions : q # meta.idx => attl'[q] = attl[q]
<1> DEFINE q == snap["answer"].idx
           a == who["answer"]
<1>1. q \in Questions /\ a \in Actors
  BY DEF RecordAnswer, LifetimeInv, LockInv, TypeOK, Procs
<1>2. SUFFICES ASSUME ~UNCHANGED <<stored, attl, accepted>>
               PROVE  /\ Exists /\ CanClose(meta) /\ meta.idx \in Questions
                      /\ stored' = [stored EXCEPT ![meta.idx] = @ \cup {a}]
                      /\ accepted' = [accepted EXCEPT ![meta.idx] = @ \cup {a}]
                      /\ attl'[meta.idx] = IdleTTL
                      /\ \A o \in Questions : o # meta.idx => attl'[o] = attl[o]
  BY <1>1
<1>3. /\ Exists /\ CanClose(meta) /\ meta.idx = q
      /\ stored' = [stored EXCEPT ![q] = @ \cup {a}]
      /\ accepted' = [accepted EXCEPT ![q] = @ \cup {a}]
      /\ attl' = AnswerTTL(attl, q)
  BY <1>2 DEF RecordAnswer
<1> DEFINE t == Written(attl, {q})
<1>4. /\ t \in [Questions -> TTL]
      /\ \A o \in Questions : t[o] = IF o \in {q} /\ attl[o] = 0 THEN Forever ELSE attl[o]
  BY WrittenFacts DEF LifetimeInv, TypeOK
<1>5. attl' = Expired(t, {q}, IdleTTL)
  BY <1>3 DEF AnswerTTL
<1> HIDE DEF t, q, a
<1>6. \A o \in Questions : attl'[o] = IF o \in {q} /\ t[o] # 0 THEN IdleTTL ELSE t[o]
  BY <1>4, <1>5, TTLFacts, ExpiredFacts
<1>7. Forever # 0
  BY TTLFacts
<1>8. QED
  BY <1>1, <1>3, <1>4, <1>6, <1>7

\* The other steps leave the progress and the times to live alone.
LEMMA OtherSteps ==
    ASSUME [Next]_vars,
           ~Tick, ~AddPlayer, ~StartQuestion, ~CloseAnswers, ~SaveClose, ~RecordAnswer, ~RemoveGone
    PROVE  UNCHANGED <<data, accepted, forgotten, raised>>
BY DEF Next, Transition, List, Load, LoadForAnswer, ReadIndex, CheckExists, LoadListed, Fail, vars

---------------------------------------------------------------------------
(* A game that is found is complete.                                       *)

\* Only a transition that saves brings a game back, and it says so.
LEMMA ExistsStep ==
    ASSUME LifetimeInv, [Next]_vars, Exists', ~raised'
    PROVE  Exists /\ ~raised
<1>0. "meta" \in Main /\ ttl \in [Main -> TTL]
  BY DEF Main, LifetimeInv, TypeOK
<1>1. CASE Tick
  <2>1. ttl'["meta"] <= ttl["meta"] /\ ttl'["meta"] \in TTL /\ ttl["meta"] \in TTL /\ raised' = raised
    BY <1>0, <1>1, AgedFacts DEF Tick
  <2>2. QED
    BY <2>1, TTLFacts DEF Exists
<1>2. CASE AddPlayer
  BY <1>2, AddPlayerEffect DEF AddPlayer, LifetimeInv, Exists
<1>3. CASE StartQuestion \/ SaveClose
  <2>1. PICK m \in Progress, changed \in {{}, {"players"}} : Save(m, changed)
    BY <1>3, SavingSteps
  <2>2. QED
    BY <2>1, SaveEffect DEF LifetimeInv
<1>4. CASE CloseAnswers \/ RecordAnswer \/ RemoveGone
  BY <1>4 DEF CloseAnswers, RecordAnswer, RemoveGone, Exists
<1>5. QED
  BY <1>1, <1>2, <1>3, <1>4, OtherSteps DEF data, Exists

WholeInv == LifetimeInv /\ WholeOrGone

\* The keys are refreshed together while the game exists, and age together.
LEMMA WholeStep == WholeInv /\ [Next]_vars => WholeOrGone'
<1> SUFFICES ASSUME WholeInv, [Next]_vars, Exists', ~raised'
             PROVE  whole' /\ \A k \in Main : ttl'[k] = ttl'["meta"]
  BY DEF WholeOrGone
<1> USE DEF WholeInv
<1>0. "meta" \in Main /\ ttl \in [Main -> TTL] /\ TypeOK
  BY DEF Main, LifetimeInv, TypeOK
<1>1. /\ Exists /\ whole
      /\ \A k \in Main : ttl[k] = ttl["meta"] /\ ttl[k] # 0
  BY ExistsStep DEF WholeOrGone, Exists
<1>2. CASE Tick
  <2>1. \A k \in Main : ttl'[k] = IF ttl[k] \in {0, Forever} THEN ttl[k] ELSE ttl[k] - 1
    BY <1>0, <1>2, AgedFacts DEF Tick
  <2>2. QED
    BY <1>0, <1>1, <1>2, <2>1 DEF Tick
<1>3. CASE AddPlayer
  BY <1>0, <1>1, <1>3, AddPlayerEffect DEF AddPlayer
<1>4. CASE StartQuestion \/ SaveClose
  <2>1. PICK m \in Progress, changed \in {{}, {"players"}} : Save(m, changed)
    BY <1>4, SavingSteps
  <2> DEFINE d == IF m.status = "finished" THEN FinishedTTL ELSE IdleTTL
  <2>2. /\ whole' = (whole /\ Exists)
        /\ ttl'["meta"] = d /\ \A k \in Main : ttl[k] # 0 => ttl'[k] = d
    BY <1>0, <2>1, SaveEffect
  <2>3. QED
    BY <1>1, <2>2
<1>5. CASE CloseAnswers \/ RecordAnswer \/ RemoveGone
  BY <1>1, <1>5 DEF CloseAnswers, RecordAnswer, RemoveGone
<1>6. QED
  BY <1>1, <1>2, <1>3, <1>4, <1>5, OtherSteps DEF data

\* A game that can be found has all its main keys (GameStateStore.expire, Save and
\* AddPlayer), unless a save has raised an expired one: for any times to live.
THEOREM LifetimeWholeOrGone == Spec => []WholeOrGone
<1>1. Init => WholeInv
  BY LifetimeInit DEF Init, WholeInv, WholeOrGone, Main
<1>2. WholeInv /\ [Next]_vars => WholeInv'
  BY LifetimeStep, WholeStep DEF WholeInv
<1>3. WholeInv => WholeOrGone
  BY DEF WholeInv
<1>4. QED
  BY <1>1, <1>2, <1>3, PTL DEF Spec

---------------------------------------------------------------------------
(* Answers live long enough, and not too long.                             *)

\* What the types say of the progress and the times to live.
LEMMA TimeTypes ==
    ASSUME LifetimeInv
    PROVE  /\ TypeOK /\ "meta" \in Main /\ ttl \in [Main -> TTL] /\ ttl["meta"] \in TTL
           /\ attl \in [Questions -> TTL] /\ \A q \in Questions : q \in Int /\ attl[q] \in TTL
           /\ meta \in Progress /\ meta.idx \in Int
           /\ meta.open => meta.idx \in Questions
<1>1. meta.open => meta.idx \in Questions
  BY CurrentQuestion DEF LifetimeInv, TypeOK, LockInv, Begun
<1>2. /\ TypeOK /\ ttl \in [Main -> TTL] /\ attl \in [Questions -> TTL] /\ meta \in Progress
  BY DEF LifetimeInv, TypeOK
<1>3. "meta" \in Main /\ ttl["meta"] \in TTL
  BY <1>2 DEF Main
<1>4. \A q \in Questions : q \in Int /\ attl[q] \in TTL
  BY <1>2 DEF Questions
<1>5. meta.idx \in Int
  BY <1>2 DEF Progress
<1>6. QED
  BY <1>1, <1>2, <1>3, <1>4, <1>5

\* No answer is for a question that has not begun, nor is there a hash for it; an
\* open game lives no longer than its time to live when idle, and its answers live
\* as long as it does.
AnswersInv ==
    /\ \A q \in Questions : q > meta.idx => accepted[q] = {} /\ attl[q] = 0
    /\ \A q \in Questions : stored[q] \subseteq accepted[q]
    /\ meta.open => ttl["meta"] <= IdleTTL
    /\ Exists /\ meta.open /\ accepted[meta.idx] # {} => attl[meta.idx] >= ttl["meta"]
    /\ AnswersOutliveQuestion

\* Every step keeps that: a start opens a question without answers, and the clock
\* takes the game first.
LEMMA AnswersStep == LifetimeInv /\ AnswersInv /\ [Next]_vars => AnswersInv'
<1> SUFFICES ASSUME LifetimeInv, AnswersInv, [Next]_vars PROVE AnswersInv'
  OBVIOUS
<1>0. /\ TypeOK /\ "meta" \in Main /\ ttl \in [Main -> TTL] /\ ttl["meta"] \in TTL
      /\ attl \in [Questions -> TTL] /\ \A q \in Questions : q \in Int /\ attl[q] \in TTL
      /\ meta \in Progress /\ meta.idx \in Int
      /\ meta.open => meta.idx \in Questions
  BY TimeTypes
<1>1. ASSUME Tick PROVE AnswersInv'
  <2>1. /\ ttl'["meta"] = IF ttl["meta"] \in {0, Forever} THEN ttl["meta"] ELSE ttl["meta"] - 1
        /\ ttl'["meta"] <= ttl["meta"]
    BY <1>0, <1>1, AgedFacts DEF Tick
  <2>2. \A q \in Questions :
          attl'[q] = IF attl[q] \in {0, Forever} THEN attl[q] ELSE attl[q] - 1
    BY <1>0, <1>1, AgedFacts DEF Tick
  <2>3. /\ meta' = meta /\ accepted' = accepted
        /\ \A q \in Questions : stored'[q] = IF attl'[q] = 0 THEN {} ELSE stored[q]
    BY <1>1 DEF Tick
  <2>4. \A q \in Questions : q > meta'.idx => accepted'[q] = {} /\ attl'[q] = 0
    BY <2>2, <2>3 DEF AnswersInv
  <2>5. \A q \in Questions : stored'[q] \subseteq accepted'[q]
    BY <2>3 DEF AnswersInv
  <2>6. meta'.open => ttl'["meta"] <= IdleTTL
    BY <1>0, <2>1, <2>3, TTLFacts DEF AnswersInv
  <2>7. ASSUME Exists', meta'.open, accepted'[meta'.idx] # {}
        PROVE  attl'[meta'.idx] >= ttl'["meta"] /\ attl'[meta'.idx] # 0
    <3>1. ttl["meta"] # 0 /\ ttl["meta"] <= IdleTTL /\ meta.idx \in Questions
      BY <1>0, <2>1, <2>3, <2>7 DEF AnswersInv, Exists
    <3>2. attl[meta.idx] >= ttl["meta"]
      BY <2>3, <2>7, <3>1 DEF AnswersInv, Exists
    <3>3. ttl'["meta"] = ttl["meta"] - 1 /\ ttl'["meta"] # 0
      BY <1>0, <2>1, <2>7, <3>1, TTLFacts DEF Exists
    <3>4. attl[meta.idx] \in TTL
      BY <1>0, <3>1
    <3>5. attl'[meta.idx] = IF attl[meta.idx] \in {0, Forever} THEN attl[meta.idx] ELSE attl[meta.idx] - 1
      BY <2>2, <3>1
    <3>6. QED
      BY <1>0, <2>3, <3>1, <3>2, <3>3, <3>4, <3>5, TTLFacts
  <2>8. AnswersOutliveQuestion'
    <3> SUFFICES ASSUME Exists', meta.open PROVE stored'[meta.idx] = accepted[meta.idx]
      BY <2>3 DEF AnswersOutliveQuestion
    <3>1. meta.idx \in Questions /\ Exists
      BY <1>0, <2>1, TTLFacts DEF Exists
    <3>2. stored[meta.idx] = accepted[meta.idx]
      BY <3>1 DEF AnswersInv, AnswersOutliveQuestion
    <3>3. QED
      BY <2>3, <2>7, <3>1, <3>2
  <2>9. QED
    BY <2>4, <2>5, <2>6, <2>7, <2>8 DEF AnswersInv
<1>2. ASSUME AddPlayer PROVE AnswersInv'
  <2>1. /\ ~meta.open /\ UNCHANGED <<meta, stored, attl, accepted>>
    BY <1>2 DEF AddPlayer, LifetimeInv, LockInv, CanJoin, Begun
  <2>2. QED
    BY <2>1 DEF AnswersInv, AnswersOutliveQuestion
<1>3. ASSUME StartQuestion PROVE AnswersInv'
  <2>1. PICK m \in Progress : /\ m.status = "running" /\ m.open = TRUE /\ m.idx = meta.idx + 1
                              /\ Save(m, {})
    BY <1>3, SavingSteps
  <2>2. /\ meta' = m /\ ttl'["meta"] = IdleTTL /\ attl' = attl
    BY <1>0, <2>1, SaveEffect
  <2>3. stored' = stored /\ accepted' = accepted
    BY <2>1 DEF Save
  <2>4. m.idx \in Questions /\ m.idx > meta.idx
    <3>1. m.idx >= 0 /\ m.idx > meta.idx
      BY <1>0, <2>1 DEF Progress
    <3>2. QED
      BY <3>1, CurrentQuestion
  <2>5. accepted[m.idx] = {} /\ stored[m.idx] = {}
    BY <2>4 DEF AnswersInv
  <2>6. \A q \in Questions : q > m.idx => q > meta.idx
    BY <1>0, <2>1
  <2>7. IdleTTL <= IdleTTL
    BY TTLFacts
  <2>8. QED
    BY <2>2, <2>3, <2>5, <2>6, <2>7 DEF AnswersInv, AnswersOutliveQuestion
<1>4. ASSUME CloseAnswers PROVE AnswersInv'
  <2>1. /\ meta' = [meta EXCEPT !.open = FALSE] \/ meta' = meta
        /\ UNCHANGED <<stored, attl, ttl, accepted>>
    BY <1>4 DEF CloseAnswers
  <2>2. meta'.idx = meta.idx /\ (meta'.open => meta.open)
    BY <1>0, <2>1 DEF Progress
  <2>3. QED
    BY <2>1, <2>2 DEF AnswersInv, AnswersOutliveQuestion, Exists
<1>5. ASSUME SaveClose PROVE AnswersInv'
  <2>1. PICK m \in Progress, changed \in {{}, {"players"}} :
          /\ m.open = FALSE /\ m.idx = meta.idx
          /\ Save(m, changed)
    BY <1>5, SavingSteps
  <2>2. /\ meta' = m
        /\ \A q \in Questions : attl[q] = 0 => attl'[q] = 0
    BY <1>0, <2>1, SaveEffect
  <2>3. stored' = stored /\ accepted' = accepted
    BY <2>1 DEF Save
  <2>4. QED
    BY <2>1, <2>2, <2>3 DEF AnswersInv, AnswersOutliveQuestion
<1>6. ASSUME RecordAnswer PROVE AnswersInv'
  <2>1. meta' = meta /\ ttl' = ttl
    BY <1>6 DEF RecordAnswer
  <2>2. CASE UNCHANGED <<stored, attl, accepted>>
    BY <2>1, <2>2 DEF AnswersInv, AnswersOutliveQuestion, Exists
  <2>3. CASE ~UNCHANGED <<stored, attl, accepted>>
    <3>1. PICK a \in Actors :
            /\ Exists /\ CanClose(meta) /\ meta.idx \in Questions
            /\ stored' = [stored EXCEPT ![meta.idx] = @ \cup {a}]
            /\ accepted' = [accepted EXCEPT ![meta.idx] = @ \cup {a}]
            /\ attl'[meta.idx] = IdleTTL
            /\ \A q \in Questions : q # meta.idx => attl'[q] = attl[q]
      BY <1>6, <2>3, RecordEffect
    <3>2. /\ stored'[meta.idx] = stored[meta.idx] \cup {a}
          /\ accepted'[meta.idx] = accepted[meta.idx] \cup {a}
          /\ \A q \in Questions : q # meta.idx => stored'[q] = stored[q] /\ accepted'[q] = accepted[q]
      BY <1>0, <3>1 DEF TypeOK
    <3>3. meta.open /\ ttl["meta"] <= IdleTTL
      BY <3>1 DEF CanClose, AnswersInv
    <3>4. stored[meta.idx] = accepted[meta.idx]
      BY <3>1, <3>3 DEF AnswersInv, AnswersOutliveQuestion
    <3>5. \A q \in Questions : q > meta.idx => q # meta.idx
      BY <1>0
    <3>6. attl'[meta.idx] >= ttl["meta"]
      BY <1>0, <3>1, <3>3, TTLFacts
    <3>7. \A q \in Questions : stored'[q] \subseteq accepted'[q]
      BY <3>2, <3>4 DEF AnswersInv
    <3>8. \A q \in Questions : q > meta.idx => accepted'[q] = {} /\ attl'[q] = 0
      BY <3>1, <3>2, <3>5 DEF AnswersInv
    <3>9. QED
      BY <2>1, <3>2, <3>3, <3>4, <3>6, <3>7, <3>8 DEF AnswersInv, AnswersOutliveQuestion
  <2>4. QED
    BY <2>2, <2>3
<1>7. CASE UNCHANGED <<meta, stored, attl, ttl, accepted>>
  BY <1>7 DEF AnswersInv, AnswersOutliveQuestion, Exists
<1>8. QED
  BY <1>1, <1>2, <1>3, <1>4, <1>5, <1>6, <1>7, OtherSteps DEF RemoveGone, data

\* So it always holds.
LEMMA AnswersAlways == Spec => [](LifetimeInv /\ AnswersInv)
<1>1. Init => AnswersInv
  BY TTLFacts DEF Init, NewGame, AnswersInv, AnswersOutliveQuestion, Main
<1>2. QED
  BY <1>1, LifetimeInit, LifetimeStep, AnswersStep, PTL DEF Spec

\* No accepted answer of the open question is lost while the game lives, though
\* neither refreshes the other (recordAnswerScript, Save): for any times to live.
THEOREM LifetimeAnswersOutliveQuestion == Spec => []AnswersOutliveQuestion
<1>1. AnswersInv => AnswersOutliveQuestion
  BY DEF AnswersInv
<1>2. QED
  BY <1>1, AnswersAlways, PTL

\* No game lives for ever, and a finished one lives as long as its answers do.
FinishedInv ==
    /\ LifetimeInv /\ AnswersInv
    /\ ttl["meta"] # Forever
    /\ FinishedLeavesNothing

\* Every step keeps that: the close that ends the game expires its answers.
LEMMA FinishedStep == FinishedInv /\ [Next]_vars => FinishedInv'
<1> SUFFICES ASSUME FinishedInv, [Next]_vars PROVE FinishedInv'
  OBVIOUS
<1> USE DEF FinishedInv
<1>0. /\ TypeOK /\ "meta" \in Main /\ ttl \in [Main -> TTL] /\ ttl["meta"] \in TTL
      /\ attl \in [Questions -> TTL] /\ \A q \in Questions : q \in Int /\ attl[q] \in TTL
      /\ meta \in Progress /\ meta.idx \in Int
  BY TimeTypes
<1>1. LifetimeInv' /\ AnswersInv'
  BY LifetimeStep, AnswersStep
<1>2. ttl'["meta"] # Forever
  <2>1. CASE Tick
    <3>1. /\ ttl'["meta"] = IF ttl["meta"] \in {0, Forever} THEN ttl["meta"] ELSE ttl["meta"] - 1
      BY <1>0, <2>1, AgedFacts DEF Tick
    <3>2. QED
      BY <1>0, <3>1, TTLFacts
  <2>2. CASE AddPlayer
    BY <1>0, <2>2, AddPlayerEffect, TTLFacts
  <2>3. CASE StartQuestion \/ SaveClose
    <3>1. PICK m \in Progress, changed \in {{}, {"players"}} : Save(m, changed)
      BY <2>3, SavingSteps
    <3>2. ttl'["meta"] \in {IdleTTL, FinishedTTL}
      BY <1>0, <3>1, SaveEffect
    <3>3. QED
      BY <3>2, TTLFacts
  <2>4. CASE ttl' = ttl
    BY <2>4
  <2>5. QED
    BY <2>1, <2>2, <2>3, <2>4, OtherSteps DEF CloseAnswers, RecordAnswer, RemoveGone, data
<1>3. ASSUME Exists', meta'.status = "finished", ~raised', NEW q \in Questions
      PROVE  attl'[q] <= ttl'["meta"]
  <2>1. Exists /\ ~raised
    BY <1>3, ExistsStep
  <2>2. CASE Tick
    <3>1. /\ ttl'["meta"] = IF ttl["meta"] \in {0, Forever} THEN ttl["meta"] ELSE ttl["meta"] - 1
      BY <1>0, <2>2, AgedFacts DEF Tick
    <3>2. attl'[q] = IF attl[q] \in {0, Forever} THEN attl[q] ELSE attl[q] - 1
      BY <1>0, <2>2, AgedFacts DEF Tick
    <3>3. attl[q] <= ttl["meta"] /\ ttl["meta"] # 0 /\ attl[q] \in TTL
      BY <1>0, <1>3, <2>1, <2>2 DEF FinishedLeavesNothing, Tick, Exists
    <3>4. QED
      BY <1>0, <3>1, <3>2, <3>3, TTLFacts
  <2>3. CASE AddPlayer
    BY <1>3, <2>3 DEF AddPlayer, LifetimeInv, LockInv, CanJoin
  <2>4. CASE StartQuestion
    <3>1. PICK m \in Progress : m.status = "running" /\ Save(m, {})
      BY <2>4, SavingSteps
    <3>2. QED
      BY <1>3, <3>1 DEF Save
  <2>5. CASE SaveClose
    <3>1. PICK m \in Progress, changed \in {{}, {"players"}} : m.idx = meta.idx /\ Save(m, changed)
      BY <2>5, SavingSteps
    <3>2. meta' = m
      BY <3>1 DEF Save
    <3>3. /\ ttl'["meta"] = FinishedTTL
          /\ attl'[q] = IF q <= m.idx /\ attl[q] # 0 THEN FinishedTTL ELSE attl[q]
      BY <1>0, <1>3, <3>1, <3>2, SaveEffect
    <3>4. q > meta.idx => attl[q] = 0
      BY DEF AnswersInv
    <3>5. QED
      BY <1>0, <3>1, <3>3, <3>4, TTLFacts
  <2>6. CASE CloseAnswers
    <3>1. meta.status = "running"
      BY <2>6 DEF CloseAnswers, LifetimeInv, LockInv, CanClose
    <3>2. meta'.status = "running"
      BY <1>0, <2>6, <3>1 DEF CloseAnswers, Progress
    <3>3. QED
      BY <1>3, <3>2
  <2>7. CASE RecordAnswer
    <3>1. meta' = meta /\ ttl' = ttl
      BY <2>7 DEF RecordAnswer
    <3>2. ~CanClose(meta)
      BY <1>3, <3>1 DEF CanClose
    <3>3. attl' = attl
      BY <2>7, <3>2, RecordEffect
    <3>4. QED
      BY <1>3, <2>1, <3>1, <3>3 DEF FinishedLeavesNothing
  <2>8. CASE UNCHANGED <<meta, ttl, attl>>
    BY <1>3, <2>1, <2>8 DEF FinishedLeavesNothing
  <2>9. QED
    BY <2>2, <2>3, <2>4, <2>5, <2>6, <2>7, <2>8, OtherSteps DEF RemoveGone, data
<1>4. QED
  BY <1>1, <1>2, <1>3 DEF FinishedLeavesNothing

\* The answers of a finished game do not outlive it (Save expires those of every
\* question that has begun): for any times to live.
THEOREM LifetimeFinishedLeavesNothing == Spec => []FinishedLeavesNothing
<1>1. Init => FinishedInv
  <2> SUFFICES ASSUME Init PROVE FinishedInv
    OBVIOUS
  <2>1. AnswersInv
    BY TTLFacts DEF Init, NewGame, AnswersInv, AnswersOutliveQuestion, Main
  <2>2. ttl["meta"] # Forever
    BY TTLFacts DEF Init, Main
  <2>3. FinishedLeavesNothing
    BY DEF Init, NewGame, FinishedLeavesNothing
  <2>4. QED
    BY <2>1, <2>2, <2>3, LifetimeInit DEF FinishedInv
<1>2. FinishedInv => FinishedLeavesNothing
  BY DEF FinishedInv
<1>3. QED
  BY <1>1, <1>2, FinishedStep, PTL DEF Spec

---------------------------------------------------------------------------
(* An actor finds its games.                                               *)

\* A listing removes only a game it has seen gone, which is gone for good.
ListedInv ==
    /\ LifetimeInv
    /\ pc["list"] = "zrem" => ~Exists \/ raised
    /\ ListedUnlessForgotten

\* Every step keeps that.
LEMMA ListedStep == ListedInv /\ [Next]_vars => ListedInv'
<1> SUFFICES ASSUME ListedInv, [Next]_vars PROVE ListedInv'
  OBVIOUS
<1> USE DEF ListedInv
<1>1. LifetimeInv'
  BY LifetimeStep
<1>2. ASSUME pc'["list"] = "zrem", Exists', ~raised' PROVE FALSE
  <2>1. Exists /\ ~raised /\ pc["list"] # "zrem"
    BY <1>2, ExistsStep
  <2>2. "list" \in Procs /\ pc \in [Procs -> Calls]
    BY DEF LifetimeInv, TypeOK, Procs
  <2>3. CheckExists
    <3>1. ASSUME NEW p \in {"transition", "answer"}, NEW call, pc' = [pc EXCEPT ![p] = call]
          PROVE  pc'["list"] = pc["list"]
      BY <2>2, <3>1
    <3>2. CASE Tick \/ UNCHANGED vars
      BY <1>2, <2>1, <3>2 DEF Tick, vars, procs
    <3>3. CASE \E op \in {"join", "start", "close"}, a \in Actors : Load(op, a)
      BY <1>2, <2>1, <3>1, <3>3 DEF Load, Proceed
    <3>4. CASE (\E a \in Actors : LoadForAnswer(a)) \/ RecordAnswer
      BY <1>2, <2>1, <3>1, <3>4 DEF LoadForAnswer, RecordAnswer, Proceed, Ends
    <3>5. CASE \E a \in Actors : ReadIndex(a)
      BY <1>2, <2>2, <3>5 DEF ReadIndex, Proceed
    <3>6. CASE Transition
      BY <1>2, <2>1, <3>1, <3>6 DEF Transition, AddPlayer, StartQuestion, CloseAnswers, SaveClose,
                                    Proceed, Ends
    <3>7. CASE RemoveGone \/ LoadListed
      BY <1>2, <2>2, <3>7 DEF RemoveGone, LoadListed, Ends
    <3>8. CASE \E p \in Procs : Fail(p)
      BY <1>2, <2>1, <2>2, <3>8 DEF Fail, Ends
    <3>9. QED
      BY <3>2, <3>3, <3>4, <3>5, <3>6, <3>7, <3>8 DEF Next, List
  <2>4. QED
    BY <1>2, <2>1, <2>2, <2>3 DEF CheckExists, Proceed, Gone
<1>3. ASSUME Exists', ~raised' PROVE joined' \subseteq index' \cup forgotten'
  <2>1. joined \subseteq index \cup forgotten /\ Exists /\ ~raised
    BY <1>3, ExistsStep DEF ListedUnlessForgotten
  <2>2. CASE Tick
    BY <2>1, <2>2 DEF Tick
  <2>3. CASE AddPlayer
    BY <2>1, <2>3 DEF AddPlayer
  <2>4. CASE RemoveGone
    BY <2>1, <2>4 DEF RemoveGone
  <2>5. CASE UNCHANGED <<joined, index, forgotten>>
    BY <2>1, <2>5
  <2>6. QED
    BY <2>2, <2>3, <2>4, <2>5, OtherSteps
       DEF StartQuestion, SaveClose, Save, CloseAnswers, RecordAnswer, data
<1>4. QED
  BY <1>1, <1>2, <1>3 DEF ListedUnlessForgotten

\* A listing that cleans up an actor's index never takes a game from it that still
\* exists, whatever expires or is saved between its calls (GamesOfActor).
THEOREM LifetimeListedUnlessForgotten == Spec => []ListedUnlessForgotten
<1>1. Init => ListedInv
  BY LifetimeInit DEF Init, ListedInv, ListedUnlessForgotten, Procs
<1>2. ListedInv => ListedUnlessForgotten
  BY DEF ListedInv
<1>3. QED
  BY <1>1, <1>2, ListedStep, PTL DEF Spec
=============================================================================
