---------------------------- MODULE LeaderProofs ----------------------------
(***************************************************************************)
(* The winner that State.leader finds is right for any number of players,  *)
(* any order of their IDs and any lives.                                   *)
(***************************************************************************)
EXTENDS Leader, GameSpecProofs

\* Finding the winner leaves the game alone.
LEMMA LeaderKeepsGame == [LNext]_<<vars, scan>> => [Next]_vars
BY DEF LNext, Play, LClose, Scan, Next, vars

\* What the game guarantees to the scan.
GameFacts == GameInv /\ FiniteInv /\ LivesMatchAnswers

\* It does so at any time.
LEMMA GameFactsHold == LSpec => []GameFacts
<1>1. LInit => Init /\ GameInv /\ FiniteInv
  <2> SUFFICES ASSUME LInit PROVE Init /\ GameInv /\ FiniteInv
    OBVIOUS
  <2>1. Init
    BY DEF LInit
  <2>2. {x \in Players : players[x].joined} = {Owner}
    BY <2>1, OwnerAssumption DEF Init, Joined, Absent
  <2>3. QED
    BY <2>1, <2>2, GameInit, FS_Singleton DEF FiniteInv
<1>2. GameInv /\ FiniteInv /\ [Next]_vars => GameInv' /\ FiniteInv'
  BY GameStep, FiniteStep
<1>3. LSpec => Spec
  BY <1>1, LeaderKeepsGame, PTL DEF LSpec, Spec
<1>4. GameInv /\ FiniteInv /\ LivesMatchAnswers => GameFacts
  BY DEF GameFacts
<1>5. QED
  BY <1>1, <1>2, <1>3, <1>4, LeaderKeepsGame, GameLivesMatchAnswers, PTL DEF LSpec

\* Nothing is scanned before the game is over.
LEMMA ScanInit == LInit => ScanInv
<1> SUFFICES ASSUME LInit PROVE ScanInv
  OBVIOUS
<1>1. /\ n = 0 /\ ids = <<>> /\ k = 0 /\ leader = "none" /\ best = -1 /\ tied = FALSE
      /\ meta.status # "finished"
  BY DEF LInit, Init, NewGame
<1>2. ids \in [1 .. n -> Players]
  BY <1>1
<1>3. tied \in BOOLEAN /\ ~tied
  BY <1>1
<1>4. \A i \in 1 .. k : players[ids[i]].lives <= best
  BY <1>1
<1>5. QED
  BY <1>1, <1>2, <1>3, <1>4 DEF ScanInv

\* The close that ends the game lists the survivors, who have lives left.
LEMMA CloseLists ==
    ASSUME GameFacts, GameFacts', ScanInv, LClose
    PROVE  ScanInv'
<1>1. /\ meta.status = "running" /\ n = 0 /\ k = 0 /\ UNCHANGED <<k, leader, best, tied>>
      /\ leader = "none" /\ best = -1 /\ ~tied /\ tied \in BOOLEAN
  <2>1. meta.status = "running" /\ UNCHANGED <<k, leader, best, tied>>
    BY DEF LClose, Close, CanClose
  <2>2. n = 0 /\ k = 0
    BY <2>1 DEF ScanInv
  <2>3. QED
    BY <2>1, <2>2 DEF ScanInv
<1>2. tied' \in BOOLEAN /\ ~tied'
  BY <1>1
<1>3. CASE meta'.status # "finished"
  <2>1. n' = n /\ ids' = ids
    BY <1>3 DEF LClose
  <2>2. n' \in Nat /\ ids' \in [1 .. n' -> Players]
    BY <2>1 DEF ScanInv
  <2>3. QED
    BY <1>1, <1>2, <1>3, <2>1, <2>2 DEF ScanInv
<1>4. CASE meta'.status = "finished"
  <2> DEFINE active == activePlayers(players')
  <2>1. n' = Cardinality(active) /\ ids' \in [1 .. n' -> active] /\ Lists(ids', n', active)
    BY <1>4 DEF LClose
  <2>2. n' \in Nat
    <3>1. IsFiniteSet({x \in Players : players'[x].joined})
      BY DEF GameFacts, FiniteInv
    <3>2. IsFiniteSet(active)
      BY <3>1, ActiveFinite
    <3>3. QED
      BY <2>1, <3>2, FS_CardinalityType
  <2>3. \A x \in active : x \in Players /\ players'[x].lives \in Nat
    <3>1. ASSUME NEW x \in active PROVE x \in Players /\ players'[x].lives \in Nat
      <4>1. x \in Players /\ players'[x].joined /\ players'[x].active
        BY <3>1 DEF activePlayers
      <4>2. players'[x].lives > 0
        BY <4>1 DEF GameFacts, LivesMatchAnswers
      <4>3. players'[x].lives \in Int
        BY <4>1 DEF GameFacts, GameInv, TypeOK, PlayerData
      <4>4. QED
        BY <4>1, <4>2, <4>3
    <3>2. QED
      BY <3>1
  <2>4. ids' \in [1 .. n' -> Players]
    BY <2>1, <2>3
  <2>5. \A i \in 1 .. n' : ids'[i] \in active /\ players'[ids'[i]].lives \in Nat
    BY <2>1, <2>3
  <2>6. k' = 0 /\ best' = -1 /\ leader' = "none" /\ k' \in 0 .. n'
    BY <1>1, <2>2
  <2>7. \A i \in 1 .. k' : players'[ids'[i]].lives <= best'
    BY <2>6
  <2>8. QED
    BY <1>2, <1>4, <2>1, <2>2, <2>4, <2>5, <2>6, <2>7 DEF ScanInv
<1>5. QED
  BY <1>3, <1>4

\* One iteration keeps what the scan has established.
LEMMA ScanStep ==
    ASSUME ScanInv, Scan
    PROVE  ScanInv'
<1> DEFINE id == ids[k + 1]
           lives(i) == players[ids[i]].lives
<1>1. /\ k \in 0 .. n /\ n \in Nat /\ k < n /\ k' = k + 1 /\ k + 1 \in 1 .. n
      /\ UNCHANGED <<n, ids, meta, players>>
  BY DEF Scan, ScanInv, vars
<1>2. /\ meta.status = "finished" /\ Lists(ids, n, activePlayers(players))
      /\ \A i \in 1 .. n : ids[i] \in activePlayers(players) /\ lives(i) \in Nat
      /\ \A i \in 1 .. k : lives(i) <= best
      /\ best \in Int /\ best >= -1 /\ ids \in [1 .. n -> Players]
  BY <1>1 DEF ScanInv
<1>3. \A i, j \in 1 .. n : ids[i] = ids[j] => i = j
  BY <1>2 DEF Lists
<1>4. \A i \in 1 .. k' : i \in 1 .. k \/ i = k + 1
  BY <1>1
<1>5. /\ n' \in Nat /\ ids' \in [1 .. n' -> Players] /\ k' \in 0 .. n' /\ k' > 0
      /\ meta'.status = "finished" /\ Lists(ids', n', activePlayers(players'))
      /\ \A i \in 1 .. n' : ids'[i] \in activePlayers(players') /\ players'[ids'[i]].lives \in Nat
  BY <1>1, <1>2
<1>6. \/ lives(k + 1) > best /\ leader' = id /\ best' = lives(k + 1) /\ tied' = FALSE
      \/ lives(k + 1) = best /\ tied' = TRUE /\ UNCHANGED <<leader, best>>
      \/ lives(k + 1) < best /\ UNCHANGED <<leader, best, tied>>
  BY DEF Scan
<1>7. /\ tied' \in BOOLEAN /\ best' \in Int /\ best' >= -1
      /\ \A i \in 1 .. k' : lives(i) <= best'
      /\ \E i \in 1 .. k' : /\ ids[i] = leader'
                            /\ players[leader'].lives = best'
                            /\ tied' <=> \E j \in 1 .. k' : j # i /\ lives(j) = best'
  <2>1. CASE lives(k + 1) > best /\ leader' = id /\ best' = lives(k + 1) /\ tied' = FALSE
    <3>1. tied' \in BOOLEAN /\ ~tied'
      BY <2>1
    <3>2. ~\E j \in 1 .. k' : j # k + 1 /\ lives(j) = best'
      BY <1>1, <1>2, <1>4, <2>1
    <3>3. best' \in Int /\ best' >= -1 /\ \A i \in 1 .. k' : lives(i) <= best'
      BY <1>1, <1>2, <1>4, <2>1
    <3>4. k + 1 \in 1 .. k' /\ ids[k + 1] = leader' /\ players[leader'].lives = best'
      BY <1>1, <2>1
    <3>5. QED
      BY <3>1, <3>2, <3>3, <3>4
  <2>2. CASE lives(k + 1) = best /\ tied' = TRUE /\ UNCHANGED <<leader, best>>
    <3>1. k > 0
      BY <1>1, <1>2, <2>2 DEF ScanInv
    <3>2. PICK i \in 1 .. k : ids[i] = leader /\ players[leader].lives = best
      BY <3>1 DEF ScanInv
    <3>3. i \in 1 .. k' /\ k + 1 \in 1 .. k' /\ k + 1 # i
      BY <1>1
    <3>4. best' = best /\ leader' = leader /\ \A j \in 1 .. k' : lives(j) <= best'
      BY <1>1, <1>2, <1>4, <2>2
    <3>5. tied' \in BOOLEAN /\ tied' /\ \E j \in 1 .. k' : j # i /\ lives(j) = best'
      BY <2>2, <3>3, <3>4
    <3>6. QED
      BY <1>2, <3>2, <3>3, <3>4, <3>5
  <2>3. CASE lives(k + 1) < best /\ UNCHANGED <<leader, best, tied>>
    <3>1. k > 0
      BY <1>1, <1>2, <2>3 DEF ScanInv
    <3>2. PICK i \in 1 .. k : /\ ids[i] = leader
                              /\ players[leader].lives = best
                              /\ tied <=> \E j \in 1 .. k : j # i /\ lives(j) = best
      BY <3>1 DEF ScanInv
    <3>3. /\ i \in 1 .. k'
          /\ (\E j \in 1 .. k : j # i /\ lives(j) = best) <=>
             (\E j \in 1 .. k' : j # i /\ lives(j) = best)
      BY <1>1, <1>2, <1>4, <2>3
    <3>4. best' = best /\ leader' = leader /\ \A j \in 1 .. k' : lives(j) <= best'
      BY <1>1, <1>2, <1>4, <2>3
    <3>5. tied' = tied /\ tied \in BOOLEAN
      BY <2>3 DEF ScanInv
    <3>6. QED
      BY <1>2, <3>2, <3>3, <3>4, <3>5
  <2>4. QED
    BY <1>6, <2>1, <2>2, <2>3
<1>8. /\ \A i \in 1 .. k' : players'[ids'[i]].lives <= best'
      /\ \E i \in 1 .. k' : /\ ids'[i] = leader'
                            /\ players'[leader'].lives = best'
                            /\ tied' <=> \E j \in 1 .. k' : j # i /\ players'[ids'[j]].lives = best'
  BY <1>1, <1>7
<1>9. QED
  BY <1>5, <1>7, <1>8 DEF ScanInv

\* Nobody plays on after the end, so the standings that are scanned stay.
LEMMA LeaderStep == GameFacts /\ GameFacts' /\ ScanInv /\ [LNext]_<<vars, scan>> => ScanInv'
<1> SUFFICES ASSUME GameFacts, GameFacts', ScanInv, [LNext]_<<vars, scan>> PROVE ScanInv'
  OBVIOUS
<1>1. CASE UNCHANGED <<vars, scan>>
  BY <1>1 DEF vars, scan, ScanInv
<1>2. CASE Play
  <2>1. meta.status # "finished" /\ meta'.status # "finished" /\ UNCHANGED scan
    <3>1. meta \in Meta
      BY DEF GameFacts, GameInv, TypeOK
    <3>2. QED
      BY <1>2, <3>1 DEF Play, Join, CanJoin, Start, CanStart, Started, Answer, CanAnswer, Abandon,
                        CanClose, Meta
  <2>2. n = 0 /\ k = 0
    BY <2>1 DEF ScanInv
  <2>3. QED
    BY <2>1, <2>2 DEF ScanInv, scan
<1>3. CASE LClose
  BY <1>3, CloseLists
<1>4. CASE Scan
  BY <1>4, ScanStep
<1>5. QED
  BY <1>1, <1>2, <1>3, <1>4 DEF LNext

\* What the scan has established gives the winner, when it ends.
LEMMA ScanResult == ScanInv => LeaderIsStrict
<1> SUFFICES ASSUME ScanInv, meta.status = "finished", k = n
             PROVE  \/ Strictly(Winner)
                    \/ Winner = "none" /\ \A x \in Players : ~Strictly(x)
  BY DEF LeaderIsStrict
<1> DEFINE lives(i) == players[ids[i]].lives
           active == activePlayers(players)
<1>1. /\ n \in Nat /\ \A i \in 1 .. n : ids[i] \in active /\ lives(i) \in Nat /\ lives(i) <= best
      /\ \A x \in active : \E i \in 1 .. n : ids[i] = x
      /\ \A i, j \in 1 .. n : ids[i] = ids[j] => i = j
  BY DEF ScanInv, Lists
<1>2. CASE n = 0
  <2>1. active = {}
    BY <1>1, <1>2
  <2>2. Winner = "none"
    BY <1>2 DEF ScanInv, Winner
  <2>3. QED
    BY <2>1, <2>2 DEF Strictly
<1>3. CASE n > 0
  <2>1. PICK i \in 1 .. n : /\ ids[i] = leader
                            /\ players[leader].lives = best
                            /\ tied <=> \E j \in 1 .. n : j # i /\ lives(j) = best
    BY <1>3 DEF ScanInv
  <2>2. best \in Int
    BY DEF ScanInv
  <2>3. CASE ~tied
    <3>1. ASSUME NEW y \in active \ {leader} PROVE players[y].lives < players[leader].lives
      <4>1. PICK j \in 1 .. n : ids[j] = y
        BY <1>1
      <4>2. j # i /\ lives(j) # best
        BY <2>1, <2>3, <4>1
      <4>3. QED
        BY <1>1, <2>1, <2>2, <4>1, <4>2
    <3>2. leader \in active
      BY <1>1, <2>1
    <3>3. Winner = leader
      BY <2>3 DEF Winner
    <3>4. QED
      BY <3>1, <3>2, <3>3 DEF Strictly
  <2>4. CASE tied
    <3>1. PICK j \in 1 .. n : j # i /\ lives(j) = best
      BY <2>1, <2>4
    <3>2. ids[i] # ids[j] /\ lives(i) = best
      BY <1>1, <2>1, <3>1
    <3>3. ASSUME NEW x, Strictly(x) PROVE FALSE
      <4>1. x \in active /\ \A y \in active \ {x} : players[y].lives < players[x].lives
        BY <3>3 DEF Strictly
      <4>2. PICK l \in 1 .. n : ids[l] = x
        BY <1>1, <4>1
      <4>3. PICK h \in {i, j} : ids[h] # x
        BY <3>2
      <4>4. lives(h) = best /\ lives(h) < lives(l)
        BY <1>1, <3>1, <3>2, <4>1, <4>2, <4>3
      <4>5. QED
        BY <1>1, <2>2, <4>2, <4>4
    <3>4. QED
      BY <2>4, <3>3 DEF Winner
  <2>5. QED
    BY <2>3, <2>4
<1>4. QED
  BY <1>1, <1>2, <1>3

\* State.leader at the end of a game: whatever the order of the IDs, the winner is the
\* survivor with strictly the most lives, and there is none if there is no such player.
THEOREM LeaderCorrect == LSpec => []LeaderIsStrict
<1>1. QED
  BY GameFactsHold, ScanInit, LeaderStep, ScanResult, PTL DEF LSpec
=============================================================================
