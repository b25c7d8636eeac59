-------------------------- MODULE MatchLoopProofs --------------------------
(***************************************************************************)
(* What is proved of MatchLoop, for every population, team size, budget    *)
(* and timing:                                                             *)
(*   - type correctness, the life of a match, the place of a player, the   *)
(*     clock;                                                              *)
(*   - what the loop keeps about players, matches and time: the timer of   *)
(*     the matchmaker, the copies taken of ratings and times, the history  *)
(*     of completed matches, the order of the events of one tick;          *)
(*   - that it implements MatchPool.                                       *)
(*                                                                         *)
(* Lifecycle is inductive relative to TypeOK, InOnePlace relative to both; *)
(* each invariant of the second part relative to these and NoneOverdue,    *)
(* most of them after a strengthening stated with it.                      *)
(***************************************************************************)
EXTENDS MatchLoopRefinement, FiniteSetTheorems, SequenceTheorems, TLAPS

USE DEF FeatureNames, NextTimer, BufferAfter, RemoveBatch, Joined, Rejoins, Checks, MatchRecord,
        RankAfter

(* What an event is about follows from its kind.                           *)
LEMMA SubjectOfKind ==
    ASSUME NEW e \in Events
    PROVE  /\ e.time \in Nat
           /\ e.kind \in PlayerKinds => e.subject \in Players
           /\ e.kind \in MatchKinds => e.subject \in MatchIds
           /\ e.kind \in TimerKinds => e.subject = 0
BY DEF Events, PlayerKinds, MatchKinds, TimerKinds

(* The constructor builds events of the three families.                    *)
LEMMA EventInEvents ==
    ASSUME NEW t \in Nat
    PROVE  /\ \A k \in PlayerKinds : \A p \in Players : Event(t, k, p) \in Events
           /\ \A k \in MatchKinds : \A m \in MatchIds : Event(t, k, m) \in Events
           /\ \A k \in TimerKinds : Event(t, k, 0) \in Events
BY DEF Event, Events, PlayerKinds, MatchKinds, TimerKinds

LEMMA BatchIntervalType == BatchInterval \in Nat
<1>1. IntervalParam \div TicksPerSec \in Nat
  BY ClockAssumption
<1> QED
  BY <1>1, ClockAssumption DEF BatchInterval

(* A match formed from the queue has an id of the run and teams of its players. *)
LEMMA FormationType ==
    ASSUME TypeOK, formed < MaxMatches,
           NEW k \in BatchSizes(Cardinality(Waiting), MaxMatches - formed),
           NEW f \in Formations(Waiting, k)
    PROVE  /\ k \in Nat
           /\ formed + k \in 0 .. MaxMatches
           /\ DOMAIN f = formed .. formed + k - 1
           /\ DOMAIN f \subseteq MatchIds
           /\ \A m \in DOMAIN f : /\ f[m] \in Teams
                                  /\ f[m].a \subseteq Waiting
                                  /\ f[m].b \subseteq Waiting
                                  /\ f[m].a \cap f[m].b = {}
<1>1. k \in 0 .. MaxMatches - formed
  BY DEF BatchSizes
<1>2. /\ DOMAIN f = formed .. formed + k - 1
      /\ \A m \in DOMAIN f : f[m] \in Proposals(Waiting)
  BY DEF Formations
<1>3. formed \in 0 .. MaxMatches /\ MaxMatches \in Nat
  BY BudgetAssumption DEF TypeOK
<1>4. DOMAIN f \subseteq MatchIds
  BY <1>1, <1>2, <1>3 DEF MatchIds
<1>5. Waiting \subseteq Players
  BY DEF TypeOK, Waiting
<1> QED
  BY <1>1, <1>2, <1>3, <1>4, <1>5 DEF Proposals, Teams

-----------------------------------------------------------------------------
LEMMA InitTypeOK == Init => TypeOK
<1> SUFFICES ASSUME Init PROVE TypeOK
  OBVIOUS
<1>1. events \in SUBSET Events
  <2>1. \A p \in Players : Event(0, "PlayerJoin", p) \in Events
    BY EventInEvents DEF PlayerKinds
  <2>2. Event(BatchInterval, "MatchTimer", 0) \in Events
    BY EventInEvents, BatchIntervalType DEF TimerKinds
  <2>3. Event(SkillInterval, "SkillChange", 0) \in Events
    BY EventInEvents, ClockAssumption DEF TimerKinds
  <2> QED
    BY <2>1, <2>2, <2>3 DEF Init
<1>2. /\ now \in Nat /\ observed \in SUBSET Players /\ rating \in [Players -> Nat]
      /\ rank \in [Players -> Nat \cup {Unset}] /\ joinedAt \in [Players -> Nat \cup {Unset}]
      /\ flagged \in SUBSET Players /\ skill \in [Players -> Nat]
  BY DEF Init
<1>3. /\ matches \in [MatchIds -> {"None", "InProgress", "Completed"}]
      /\ queue \in SUBSET [player : Players, at : Nat, rating : Nat]
      /\ formed \in 0 .. MaxMatches
      /\ roster \in [MatchIds -> Teams]
      /\ active \in SUBSET MatchIds
      /\ completed \in Nat
  BY BudgetAssumption DEF Init, Teams
<1>4. /\ queueTime \in [Players -> Int]
      /\ buffer \in SUBSET MatchIds
      /\ recorded \in SUBSET MatchIds
      /\ lastEntry \in [Players -> [at : Int, rating : Nat, left : Int]]
      /\ shown \in SUBSET MatchIds
      /\ gone \in SUBSET Players
  BY DEF Init, Unset
<1>5. history \in Seq([match : MatchIds, seen : SUBSET (Players \X Nat)])
  BY DEF Init
<1> QED
  BY <1>1, <1>2, <1>3, <1>4, <1>5 DEF TypeOK

LEMMA PopType ==
    ASSUME TypeOK, NEW e \in events, NEW kind, NEW emitted \in SUBSET Events,
           Pop(e, kind, emitted)
    PROVE  now' \in Nat /\ events' \in SUBSET Events
BY SubjectOfKind DEF TypeOK, Pop

LEMMA AfterMatchType ==
    ASSUME TypeOK, NEW m \in MatchIds, NEW t \in Nat, NEW stay \in SUBSET Participants(m)
    PROVE  AfterMatch(m, t, stay) \in SUBSET Events
<1>1. Participants(m) \in SUBSET Players
  BY DEF TypeOK, Participants, Teams
<1>2. t + RejoinDelay \in Nat
  BY ClockAssumption
<1>3. { Event(t + RejoinDelay, "PlayerQueue", p) : p \in stay } \in SUBSET Events
  BY <1>1, <1>2, EventInEvents DEF PlayerKinds
<1>4. { Event(t + RejoinDelay, "PlayerQuit", p) : p \in Participants(m) \ stay } \in SUBSET Events
  BY <1>1, <1>2, EventInEvents DEF PlayerKinds
<1>5. Event(t, "RatingUpdate", m) \in Events
  BY EventInEvents DEF MatchKinds
<1>6. { Event(t, "DetectionCheck", p) : p \in Participants(m) } \in SUBSET Events
  BY <1>1, EventInEvents DEF PlayerKinds
<1> QED
  BY <1>3, <1>4, <1>5, <1>6 DEF AfterMatch

LEMMA StepTypeOK == TypeOK /\ [Next]_vars => TypeOK'
<1> SUFFICES ASSUME TypeOK, [Next]_vars PROVE TypeOK'
  OBVIOUS
<1>t. ASSUME NEW e \in events
      PROVE  /\ e \in Events /\ e.time \in Nat
             /\ e.kind \in PlayerKinds => e.subject \in Players
             /\ e.kind \in MatchKinds => e.subject \in MatchIds
  BY SubjectOfKind DEF TypeOK
<1>1. ASSUME NEW e \in events, PlayerJoin(e) PROVE TypeOK'
  <2>1. e.kind = "PlayerJoin" /\ e.subject \in Players
    BY <1>1, <1>t DEF PlayerJoin, Pop, PlayerKinds
  <2>2. Event(e.time, "PlayerQueue", e.subject) \in Events
    BY <1>t, <2>1, EventInEvents DEF PlayerKinds
  <2>3. now' \in Nat /\ events' \in SUBSET Events
    BY <1>1, <2>2, PopType DEF PlayerJoin
  <2> QED
    BY <1>1, <1>t, <2>1, <2>3 DEF PlayerJoin, TypeOK, machine, ghosts
<1>2. ASSUME NEW e \in events, PlayerQueue(e) PROVE TypeOK'
  <2>1. e.kind = "PlayerQueue" /\ e.subject \in Players
    BY <1>2, <1>t DEF PlayerQueue, Pop, PlayerKinds
  <2>2. now' \in Nat /\ events' \in SUBSET Events
    BY <1>2, PopType DEF PlayerQueue
  <2>3. /\ queue' \in SUBSET [player : Players, at : Nat, rating : Nat]
        /\ joinedAt' \in [Players -> Nat \cup {Unset}]
    <3>1. rating[e.subject] \in Nat
      BY <2>1 DEF TypeOK
    <3>2. [player |-> e.subject, at |-> e.time, rating |-> rating[e.subject]]
             \in [player : Players, at : Nat, rating : Nat]
      BY <1>t, <2>1, <3>1
    <3>3. CASE e.subject \in observed
      <4>1. queue' \in SUBSET [player : Players, at : Nat, rating : Nat]
        BY <1>2, <3>2, <3>3 DEF PlayerQueue, TypeOK
      <4>2. joinedAt' = [joinedAt EXCEPT ![e.subject] = e.time]
        BY <1>2, <3>3 DEF PlayerQueue
      <4> QED
        BY <1>t, <2>1, <4>1, <4>2 DEF TypeOK
    <3>4. CASE e.subject \notin observed
      BY <1>2, <3>4 DEF PlayerQueue, TypeOK
    <3> QED
      BY <3>3, <3>4
  <2> QED
    BY <1>2, <2>2, <2>3 DEF PlayerQueue, TypeOK, ghosts
<1>3. ASSUME NEW e \in events, SkillChange(e) PROVE TypeOK'
  <2>1. e.time + SkillInterval \in Nat
    BY <1>t, ClockAssumption
  <2>2. Event(e.time + SkillInterval, "SkillChange", 0) \in Events
    BY <2>1, EventInEvents DEF TimerKinds
  <2>3. now' \in Nat /\ events' \in SUBSET Events
    BY <1>3, <2>2, PopType DEF SkillChange
  <2> QED
    BY <1>3, <2>3 DEF SkillChange, TypeOK, machine, ghosts
<1>4. ASSUME NEW e \in events, MatchTimerExpires(e) PROVE TypeOK'
  <2>1. now' \in Nat /\ events' \in SUBSET Events
    BY <1>4, PopType DEF MatchTimerExpires
  <2> QED
    BY <1>4, <2>1 DEF MatchTimerExpires, TypeOK, observations, machine, ghosts
<1>5. ASSUME NEW e \in events, MatchTimer(e) PROVE TypeOK'
  <2>1. PICK k \in BatchSizes(Cardinality(Waiting), MaxMatches - formed) :
             \E f \in Formations(Waiting, k) : FormMatches(e, k, f)
    BY <1>5 DEF MatchTimer
  <2>2. PICK f \in Formations(Waiting, k) : FormMatches(e, k, f)
    BY <2>1
  <2>3. /\ DOMAIN f \subseteq MatchIds
        /\ \A m \in DOMAIN f : f[m] \in Teams
        /\ formed + k \in 0 .. MaxMatches
    BY <1>5, FormationType DEF MatchTimer
  <2>4. now' \in Nat /\ events' \in SUBSET Events
    <3>1. \A m \in DOMAIN f : Event(e.time, "MatchFormed", m) \in Events
      BY <1>t, <2>3, EventInEvents DEF MatchKinds
    <3>2. e.time + BatchInterval \in Nat
      BY <1>t, BatchIntervalType
    <3>3. Event(e.time + BatchInterval, "MatchTimer", 0) \in Events
      BY <3>2, EventInEvents DEF TimerKinds
    <3>4. { Event(e.time, "MatchFormed", m) : m \in DOMAIN f }
          \cup { Event(e.time + BatchInterval, "MatchTimer", 0) } \in SUBSET Events
      BY <3>1, <3>3
    <3> QED
      BY <2>2, <3>4, PopType DEF FormMatches
  <2>5. lastEntry' \in [Players -> [at : Int, rating : Nat, left : Int]]
    <3> DEFINE matched == UNION { f[m].a \cup f[m].b : m \in DOMAIN f }
    <3>1. ASSUME NEW p \in matched
          PROVE  (CHOOSE q \in queue : q.player = p) \in queue
      <4>1. p \in Waiting
        BY <1>5, FormationType DEF MatchTimer
      <4> QED
        BY <4>1 DEF Waiting
    <3> HIDE DEF matched
    <3>2. ASSUME NEW p \in Players
          PROVE  lastEntry'[p] \in [at : Int, rating : Nat, left : Int]
      <4>1. CASE p \in matched
        <5> DEFINE q == CHOOSE q \in queue : q.player = p
        <5>1. q \in [player : Players, at : Nat, rating : Nat]
          BY <3>1, <4>1 DEF TypeOK
        <5>2. lastEntry'[p] = [at |-> q.at, rating |-> q.rating, left |-> e.time]
          BY <2>2, <4>1 DEF FormMatches, matched
        <5> HIDE DEF q
        <5> QED
          BY <5>1, <5>2, <1>t
      <4>2. CASE p \notin matched
        <5>1. lastEntry'[p] = lastEntry[p]
          BY <2>2, <4>2 DEF FormMatches, matched
        <5> QED
          BY <5>1 DEF TypeOK
      <4> QED
        BY <4>1, <4>2
    <3>3. \E g : lastEntry' = [p \in Players |-> g[p]]
      <4>1. lastEntry' = [p \in Players |-> lastEntry'[p]]
        BY <2>2 DEF FormMatches
      <4> QED
        BY <4>1
    <3> QED
      BY <3>2, <3>3
  <2>6. /\ roster' \in [MatchIds -> Teams]
        /\ formed' \in 0 .. MaxMatches
        /\ queue' \in SUBSET [player : Players, at : Nat, rating : Nat]
    BY <2>2, <2>3 DEF FormMatches, TypeOK
  <2> QED
    BY <2>2, <2>4, <2>5, <2>6 DEF FormMatches, TypeOK, observations
<1>6. ASSUME NEW e \in events, MatchFormed(e) PROVE TypeOK'
  <2>1. PICK d \in Durations : StartMatch(e, d)
    BY <1>6 DEF MatchFormed
  <2>2. e.kind = "MatchFormed" /\ e.subject \in MatchIds
    BY <2>1, <1>t DEF StartMatch, Pop, MatchKinds
  <2>3. e.time + d \in Nat
    BY <1>t, ClockAssumption
  <2>4. Event(e.time + d, "MatchEnd", e.subject) \in Events
    BY <2>2, <2>3, EventInEvents DEF MatchKinds
  <2>5. now' \in Nat /\ events' \in SUBSET Events
    BY <2>1, <2>4, PopType DEF StartMatch
  <2>6. queueTime' \in [Players -> Int]
    BY <2>1, <1>t DEF StartMatch, TypeOK, Unset
  <2> QED
    BY <2>1, <2>2, <2>5, <2>6 DEF StartMatch, TypeOK, observations, ghosts
<1>7. ASSUME NEW e \in events, MatchEnd(e) PROVE TypeOK'
  <2>1. CASE e.subject \notin active
    <3>1. Pop(e, "MatchEnd", {}) /\ UNCHANGED <<observations, matches, machine, ghosts>>
      BY <1>7, <2>1 DEF MatchEnd
    <3>2. now' \in Nat /\ events' \in SUBSET Events
      BY <3>1, PopType
    <3> QED
      BY <3>1, <3>2 DEF TypeOK, observations, machine, ghosts
  <2>2. CASE e.subject \in active
    <3>1. PICK stay \in Retained(e.subject) : FinishMatch(e, stay)
      BY <1>7, <2>2 DEF MatchEnd
    <3>2. e.kind = "MatchEnd" /\ e.subject \in MatchIds
      BY <3>1, <1>t DEF FinishMatch, Pop, MatchKinds
    <3>3. stay \in SUBSET Participants(e.subject)
      BY DEF Retained
    <3>4. now' \in Nat /\ events' \in SUBSET Events
      BY <3>1, <3>2, <3>3, <1>t, AfterMatchType, PopType DEF FinishMatch
    <3>5. /\ rating' \in [Players -> Nat]
          /\ rank' \in [Players -> Nat \cup {Unset}]
          /\ queueTime' \in [Players -> Int]
      <4>1. \A p \in Players : rating[p] \in Nat /\ rating[p] + 1 \in Nat
        BY DEF TypeOK
      <4>2. rating' \in [Players -> Nat]
        BY <3>1, <4>1 DEF FinishMatch
      <4>3. rank' \in [Players -> Nat \cup {Unset}]
        BY <3>1, <4>1 DEF FinishMatch, TypeOK
      <4>4. queueTime' \in [Players -> Int]
        BY <3>1 DEF FinishMatch, TypeOK, Unset
      <4> QED
        BY <4>2, <4>3, <4>4
    <3>6. history' \in Seq([match : MatchIds, seen : SUBSET (Players \X Nat)])
      <4>1. Participants(e.subject) \subseteq Players
        BY <3>2 DEF TypeOK, Participants, Teams
      <4>2. { <<p, rating[p]>> : p \in Participants(e.subject) } \in SUBSET (Players \X Nat)
        BY <4>1 DEF TypeOK
      <4> DEFINE Rec == [match : MatchIds, seen : SUBSET (Players \X Nat)]
      <4> DEFINE r == [match |-> e.subject,
                       seen  |-> { <<p, rating[p]>> : p \in Participants(e.subject) }]
      <4>3. r \in Rec
        BY <3>2, <4>2
      <4>4. history' = Append(history, r) \/ history' = history
        BY <3>1 DEF FinishMatch
      <4>5. history \in Seq(Rec)
        BY DEF TypeOK
      <4> HIDE DEF r, Rec
      <4>6. history' \in Seq(Rec)
        BY <4>3, <4>4, <4>5
      <4> QED
        BY <4>6 DEF Rec
    <3>7. /\ active' \in SUBSET MatchIds /\ buffer' \in SUBSET MatchIds
          /\ matches' \in [MatchIds -> {"None", "InProgress", "Completed"}]
          /\ completed' \in Nat
      BY <3>1, <3>2 DEF FinishMatch, TypeOK
    <3> QED
      BY <3>1, <3>4, <3>5, <3>6, <3>7 DEF FinishMatch, TypeOK, ghosts
  <2> QED
    BY <2>1, <2>2
<1>8. ASSUME NEW e \in events, DetectionCheck(e) PROVE TypeOK'
  <2>1. e.kind = "DetectionCheck" /\ e.subject \in Players
    BY <1>8, <1>t DEF DetectionCheck, Pop, PlayerKinds
  <2>2. Event(e.time, "PlayerQuit", e.subject) \in Events
    BY <2>1, <1>t, EventInEvents DEF PlayerKinds
  <2>3. \E emitted \in SUBSET Events : Pop(e, "DetectionCheck", emitted)
    <3>1. {} \in SUBSET Events /\ { Event(e.time, "PlayerQuit", e.subject) } \in SUBSET Events
      BY <2>2
    <3> QED
      BY <1>8, <3>1 DEF DetectionCheck
  <2>4. now' \in Nat /\ events' \in SUBSET Events
    BY <2>3, PopType
  <2> QED
    BY <1>8, <2>1, <2>4 DEF DetectionCheck, TypeOK, observations, machine, ghosts
<1>9. ASSUME NEW e \in events, RatingUpdate(e) PROVE TypeOK'
  <2>1. now' \in Nat /\ events' \in SUBSET Events
    BY <1>9, PopType DEF RatingUpdate
  <2>2. rank' \in [Players -> Nat \cup {Unset}]
    BY <1>9 DEF RatingUpdate, TypeOK
  <2> QED
    BY <1>9, <2>1, <2>2 DEF RatingUpdate, TypeOK, machine, ghosts
<1>10. ASSUME NEW e \in events, PlayerQuit(e) PROVE TypeOK'
  <2>1. e.kind = "PlayerQuit" /\ e.subject \in Players
    BY <1>10, <1>t DEF PlayerQuit, Pop, PlayerKinds
  <2>2. now' \in Nat /\ events' \in SUBSET Events
    BY <1>10, PopType DEF PlayerQuit
  <2> QED
    BY <1>10, <2>1, <2>2 DEF PlayerQuit, TypeOK, observations, machine
<1>11. CASE UNCHANGED vars
  BY <1>11 DEF TypeOK, vars, observations, machine, ghosts
<1> QED
  BY <1>1, <1>2, <1>3, <1>4, <1>5, <1>6, <1>7, <1>8, <1>9, <1>10, <1>11
     DEF Next, Tick, Return

(* Every variable keeps its type, and every event names a player or match  *)
(* of the run, for every population, composition, budget and timing.       *)
THEOREM TypeCorrect == Spec => []TypeOK
  BY InitTypeOK, StepTypeOK, PTL DEF Spec

-----------------------------------------------------------------------------
(* The life of a match and the place of a player.                          *)

StageKinds == {"MatchFormed", "MatchEnd"}

LEMMA DoneFinite == IsFiniteSet(Done)
<1>1. IsFiniteSet(MatchIds)
  BY FS_Interval, BudgetAssumption DEF MatchIds
<1> QED
  BY <1>1, FS_Subset DEF Done

LEMMA InitLifecycle == Init => Lifecycle
<1> SUFFICES ASSUME Init PROVE Lifecycle
  OBVIOUS
<1>1. \A e \in events : e.kind \notin MatchKinds
  BY DEF Init, Event, MatchKinds
<1>2. UnformedUntouched
  BY <1>1 DEF Init, UnformedUntouched
<1>3. StageScheduled
  BY DEF Init, StageScheduled, MatchIds
<1>4. OneOfEach
  BY <1>1 DEF OneOfEach, MatchKinds
<1>5. Done = {}
  BY DEF Init, Done
<1>6. MetricsSeeStarted
  BY DEF Init, MetricsSeeStarted
<1> QED
  BY <1>2, <1>3, <1>4, <1>5, <1>6, FS_EmptySet DEF Init, Lifecycle

(* A step that neither pops nor emits a MatchFormed or a MatchEnd, and     *)
(* leaves the matches alone, leaves their lives alone.                     *)
LEMMA QuietStep ==
    ASSUME TypeOK, Lifecycle,
           NEW e \in events, NEW kind, NEW emitted, Pop(e, kind, emitted),
           kind \notin StageKinds,
           \A g \in emitted : g.kind \notin MatchKinds,
           UNCHANGED <<matches, formed, active, completed, recorded>>
    PROVE  Lifecycle'
<1>1. \A k \in StageKinds : \A m : Pending(k, m)' <=> Pending(k, m)
  BY DEF Pop, Pending, StageKinds, MatchKinds
<1>2. UnformedUntouched'
  BY DEF Lifecycle, UnformedUntouched, Pop
<1>3. StageScheduled'
  BY <1>1 DEF Lifecycle, StageScheduled, StageKinds
<1>4. OneOfEach'
  BY DEF Lifecycle, OneOfEach, Pop, MatchKinds
<1>5. (completed = Cardinality(Done))'
  BY DEF Lifecycle, Done
<1>6. MetricsSeeStarted'
  BY DEF Lifecycle, MetricsSeeStarted
<1> QED
  BY <1>2, <1>3, <1>4, <1>5, <1>6 DEF Lifecycle

LEMMA StepLifecycle == TypeOK /\ Lifecycle /\ [Next]_vars => Lifecycle'
<1> SUFFICES ASSUME TypeOK, Lifecycle, [Next]_vars PROVE Lifecycle'
  OBVIOUS
<1> USE DEF StageKinds
<1>t. ASSUME NEW e \in events, e.kind \in MatchKinds
      PROVE  e.subject \in MatchIds /\ e.subject < formed
  <2>1. e.subject \in MatchIds
    BY <1>t, SubjectOfKind DEF TypeOK
  <2>2. ~(e.subject >= formed)
    BY <1>t, <2>1 DEF Lifecycle, UnformedUntouched
  <2> QED
    BY <2>1, <2>2 DEF TypeOK, MatchIds
<1>1. ASSUME NEW e \in events, PlayerJoin(e) PROVE Lifecycle'
  BY <1>1, QuietStep DEF PlayerJoin, machine, Event, MatchKinds
<1>2. ASSUME NEW e \in events, PlayerQueue(e) PROVE Lifecycle'
  BY <1>2, QuietStep DEF PlayerQueue
<1>3. ASSUME NEW e \in events, SkillChange(e) PROVE Lifecycle'
  BY <1>3, QuietStep DEF SkillChange, machine, Event, MatchKinds
<1>4. ASSUME NEW e \in events, MatchTimerExpires(e) PROVE Lifecycle'
  BY <1>4, QuietStep DEF MatchTimerExpires, machine
<1>5. ASSUME NEW e \in events, MatchTimer(e) PROVE Lifecycle'
  <2>1. PICK k \in BatchSizes(Cardinality(Waiting), MaxMatches - formed) :
             \E f \in Formations(Waiting, k) : FormMatches(e, k, f)
    BY <1>5 DEF MatchTimer
  <2>2. PICK f \in Formations(Waiting, k) : FormMatches(e, k, f)
    BY <2>1
  <2>3. /\ k \in Nat
        /\ DOMAIN f = formed .. formed + k - 1
        /\ DOMAIN f \subseteq MatchIds
    BY <1>5, FormationType DEF MatchTimer
  <2> DEFINE new == { Event(e.time, "MatchFormed", m) : m \in DOMAIN f }
             next == { Event(e.time + BatchInterval, "MatchTimer", 0) }
  <2>4. /\ Pop(e, "MatchTimer", new \cup next)
        /\ formed' = formed + k
        /\ UNCHANGED <<matches, active, completed, recorded>>
    BY <2>2 DEF FormMatches
  <2>5. /\ \A g \in new : g.time = e.time /\ g.kind = "MatchFormed" /\ g.subject \in DOMAIN f
        /\ \A m \in DOMAIN f : \E g \in new : g.subject = m
        /\ \A g, h \in new : g.subject = h.subject => g = h
        /\ \A g \in next : g.kind \notin MatchKinds
    <3>1. \A m \in DOMAIN f : LET g == Event(e.time, "MatchFormed", m) IN
             g.time = e.time /\ g.kind = "MatchFormed" /\ g.subject = m
      BY DEF Event
    <3>2. \A g \in new : \E m \in DOMAIN f : g = Event(e.time, "MatchFormed", m)
      OBVIOUS
    <3>3. \A m \in DOMAIN f : Event(e.time, "MatchFormed", m) \in new
      OBVIOUS
    <3>4. \A g \in next : g.kind \notin MatchKinds
      BY DEF Event, MatchKinds
    <3> HIDE DEF new
    <3> QED
      BY <3>1, <3>2, <3>3, <3>4
  <2> HIDE DEF new, next
  <2>6. /\ events' = (events \ {e}) \cup (new \cup next)
        /\ e.kind = "MatchTimer"
    BY <2>4 DEF Pop
  <2>7. formed \in Nat /\ formed' \in Nat
    BY <2>3, <2>4 DEF TypeOK
  <2>8. UnformedUntouched'
    BY <2>3, <2>4, <2>5, <2>6, <2>7 DEF Lifecycle, UnformedUntouched, MatchKinds, MatchIds
  <2>9. StageScheduled'
    <3> SUFFICES ASSUME NEW m \in MatchIds, m < formed'
                 PROVE  /\ (matches[m] = "None") <=> Pending("MatchFormed", m)'
                        /\ (matches[m] = "InProgress") <=> Pending("MatchEnd", m)'
                        /\ (matches[m] = "InProgress") <=> (m \in active)
      BY <2>4 DEF StageScheduled
    <3>1. Pending("MatchEnd", m)' <=> Pending("MatchEnd", m)
      BY <2>5, <2>6 DEF Pending, MatchKinds
    <3>2. CASE m < formed
      <4>1. m \notin DOMAIN f
        BY <2>3, <2>7, <3>2 DEF MatchIds
      <4>2. Pending("MatchFormed", m)' <=> Pending("MatchFormed", m)
        BY <2>5, <2>6, <4>1 DEF Pending, MatchKinds
      <4> QED
        BY <3>1, <3>2, <4>2 DEF Lifecycle, StageScheduled
    <3>3. CASE m >= formed
      <4>1. m \in DOMAIN f
        BY <2>3, <2>4, <2>7, <3>3 DEF MatchIds
      <4>2. Pending("MatchFormed", m)'
        BY <2>5, <2>6, <4>1 DEF Pending
      <4>3. ~Pending("MatchEnd", m)
        BY <3>3 DEF Lifecycle, UnformedUntouched, Pending, MatchKinds
      <4>4. matches[m] = "None" /\ m \notin active
        BY <3>3 DEF Lifecycle, UnformedUntouched
      <4> QED
        BY <3>1, <4>2, <4>3, <4>4
    <3> QED
      BY <2>7, <3>2, <3>3 DEF MatchIds
  <2>10. OneOfEach'
    <3>1. ASSUME NEW g \in events, NEW h \in new PROVE ~(g.kind = "MatchFormed" /\ g.subject = h.subject)
      BY <1>t, <2>3, <2>5, <2>7 DEF MatchKinds, MatchIds
    <3>2. \A g \in new : g.kind = "MatchFormed"
      BY <2>5
    <3>3. \A g \in next : g.kind \notin {"MatchFormed", "MatchEnd"}
      BY <2>5 DEF MatchKinds
    <3>4. \A g, h \in events : g.kind = h.kind /\ g.kind \in {"MatchFormed", "MatchEnd"}
                               /\ g.subject = h.subject => g = h
      BY DEF Lifecycle, OneOfEach
    <3> QED
      BY <2>5, <2>6, <3>1, <3>2, <3>3, <3>4 DEF OneOfEach
  <2>11. (completed = Cardinality(Done))'
    BY <2>4 DEF Lifecycle, Done
  <2>12. MetricsSeeStarted'
    BY <2>4 DEF Lifecycle, MetricsSeeStarted
  <2> QED
    BY <2>8, <2>9, <2>10, <2>11, <2>12 DEF Lifecycle
<1>6. ASSUME NEW e \in events, MatchFormed(e) PROVE Lifecycle'
  <2>1. PICK d \in Durations : StartMatch(e, d)
    BY <1>6 DEF MatchFormed
  <2> DEFINE m == e.subject
             end == Event(e.time + d, "MatchEnd", m)
  <2>2. /\ e.kind = "MatchFormed"
        /\ events' = (events \ {e}) \cup {end}
        /\ active' = active \cup {m}
        /\ matches' = [matches EXCEPT ![m] = "InProgress"]
        /\ recorded' = recorded \cup {m}
        /\ UNCHANGED <<formed, completed>>
    BY <2>1 DEF StartMatch, Pop
  <2>3. m \in MatchIds /\ m < formed
    BY <1>t, <2>2 DEF MatchKinds
  <2>4. end.kind = "MatchEnd" /\ end.subject = m
    BY DEF Event
  <2>5. matches[m] = "None"
    BY <2>2, <2>3 DEF Lifecycle, StageScheduled, Pending
  <2>6. /\ matches'[m] = "InProgress"
        /\ \A n \in MatchIds : n # m => matches'[n] = matches[n]
    BY <2>2, <2>3 DEF TypeOK
  <2> HIDE DEF m, end
  <2>7. UnformedUntouched'
    <3>1. \A n \in MatchIds : n >= formed => n # m
      BY <2>3 DEF TypeOK, MatchIds
    <3> QED
      BY <2>2, <2>4, <2>6, <3>1 DEF Lifecycle, UnformedUntouched
  <2>8. StageScheduled'
    <3> SUFFICES ASSUME NEW n \in MatchIds, n < formed
                 PROVE  /\ (matches'[n] = "None") <=> Pending("MatchFormed", n)'
                        /\ (matches'[n] = "InProgress") <=> Pending("MatchEnd", n)'
                        /\ (matches'[n] = "InProgress") <=> (n \in active')
      BY <2>2 DEF StageScheduled
    <3>1. CASE n = m
      <4>1. ~Pending("MatchFormed", n)'
        BY <2>2, <2>4, <3>1 DEF Lifecycle, OneOfEach, Pending, m
      <4>2. Pending("MatchEnd", n)'
        BY <2>2, <2>4, <3>1 DEF Pending
      <4> QED
        BY <2>2, <2>6, <3>1, <4>1, <4>2
    <3>2. CASE n # m
      <4>1. /\ Pending("MatchFormed", n)' <=> Pending("MatchFormed", n)
            /\ Pending("MatchEnd", n)' <=> Pending("MatchEnd", n)
        BY <2>2, <2>4, <3>2 DEF Pending, m
      <4>2. matches'[n] = matches[n] /\ (n \in active' <=> n \in active)
        BY <2>2, <2>6, <3>2
      <4> QED
        BY <4>1, <4>2 DEF Lifecycle, StageScheduled
    <3> QED
      BY <3>1, <3>2
  <2>9. OneOfEach'
    <3>1. ~Pending("MatchEnd", m)
      BY <2>3, <2>5 DEF Lifecycle, StageScheduled
    <3> QED
      BY <2>2, <2>4, <3>1 DEF Lifecycle, OneOfEach, Pending
  <2>10. Done' = Done
    BY <2>3, <2>5, <2>6 DEF Done
  <2>11. MetricsSeeStarted'
    BY <2>2, <2>6 DEF Lifecycle, MetricsSeeStarted
  <2> QED
    BY <2>2, <2>7, <2>8, <2>9, <2>10, <2>11 DEF Lifecycle
<1>7. ASSUME NEW e \in events, MatchEnd(e) PROVE Lifecycle'
  <2> DEFINE m == e.subject
  <2>1. e.kind = "MatchEnd"
    BY <1>7 DEF MatchEnd, FinishMatch, Pop
  <2>2. m \in MatchIds /\ m < formed
    BY <1>t, <2>1 DEF MatchKinds
  <2>3. matches[m] = "InProgress" /\ m \in active
    BY <2>1, <2>2 DEF Lifecycle, StageScheduled, Pending
  <2>4. PICK stay \in Retained(m) : FinishMatch(e, stay)
    BY <1>7, <2>3 DEF MatchEnd
  <2> DEFINE after == AfterMatch(m, e.time, stay)
  <2>5. /\ \A g \in after : g.kind \notin StageKinds
        /\ \A g \in after : g.kind \in MatchKinds => g.subject = m
    BY DEF AfterMatch, Event, MatchKinds
  <2>6. /\ events' = (events \ {e}) \cup after
        /\ active' = active \ {m}
        /\ matches' = [matches EXCEPT ![m] = "Completed"]
        /\ completed' = completed + 1
        /\ UNCHANGED <<formed, recorded>>
    BY <2>4 DEF FinishMatch, Pop
  <2>7. /\ matches'[m] = "Completed"
        /\ \A n \in MatchIds : n # m => matches'[n] = matches[n]
    BY <2>2, <2>6 DEF TypeOK
  <2> HIDE DEF m, after
  <2>8. UnformedUntouched'
    <3>1. \A n \in MatchIds : n >= formed => n # m
      BY <2>2 DEF TypeOK, MatchIds
    <3> QED
      BY <2>5, <2>6, <2>7, <3>1 DEF Lifecycle, UnformedUntouched
  <2>9. StageScheduled'
    <3> SUFFICES ASSUME NEW n \in MatchIds, n < formed
                 PROVE  /\ (matches'[n] = "None") <=> Pending("MatchFormed", n)'
                        /\ (matches'[n] = "InProgress") <=> Pending("MatchEnd", n)'
                        /\ (matches'[n] = "InProgress") <=> (n \in active')
      BY <2>6 DEF StageScheduled
    <3>0. Pending("MatchFormed", n)' <=> Pending("MatchFormed", n)
      BY <2>1, <2>5, <2>6 DEF Pending
    <3>1. CASE n = m
      <4>1. ~Pending("MatchEnd", n)'
        BY <2>1, <2>5, <2>6, <3>1 DEF Lifecycle, OneOfEach, Pending, m
      <4>2. ~Pending("MatchFormed", n)
        BY <2>2, <2>3, <3>1 DEF Lifecycle, StageScheduled
      <4> QED
        BY <2>6, <2>7, <3>0, <3>1, <4>1, <4>2
    <3>2. CASE n # m
      <4>1. Pending("MatchEnd", n)' <=> Pending("MatchEnd", n)
        BY <2>5, <2>6, <3>2 DEF Pending, m
      <4>2. matches'[n] = matches[n] /\ (n \in active' <=> n \in active)
        BY <2>6, <2>7, <3>2
      <4> QED
        BY <3>0, <4>1, <4>2 DEF Lifecycle, StageScheduled
    <3> QED
      BY <3>1, <3>2
  <2>10. OneOfEach'
    BY <2>5, <2>6 DEF Lifecycle, OneOfEach
  <2>11. Cardinality(Done') = Cardinality(Done) + 1
    <3>1. Done' = Done \cup {m} /\ m \notin Done
      BY <2>2, <2>3, <2>7 DEF Done
    <3> QED
      BY <3>1, DoneFinite, FS_AddElement
  <2>12. MetricsSeeStarted'
    BY <2>3, <2>6, <2>7 DEF Lifecycle, MetricsSeeStarted
  <2> QED
    BY <2>6, <2>8, <2>9, <2>10, <2>11, <2>12 DEF Lifecycle
<1>8. ASSUME NEW e \in events, DetectionCheck(e) PROVE Lifecycle'
  BY <1>8, QuietStep DEF DetectionCheck, machine, Event, MatchKinds
<1>9. ASSUME NEW e \in events, RatingUpdate(e) PROVE Lifecycle'
  BY <1>9, QuietStep DEF RatingUpdate, machine
<1>10. ASSUME NEW e \in events, PlayerQuit(e) PROVE Lifecycle'
  BY <1>10, QuietStep DEF PlayerQuit, machine
<1>11. CASE UNCHANGED vars
  BY <1>11 DEF Lifecycle, UnformedUntouched, StageScheduled, OneOfEach, Done, Pending,
               MetricsSeeStarted, vars, machine
<1> QED
  BY <1>1, <1>2, <1>3, <1>4, <1>5, <1>6, <1>7, <1>8, <1>9, <1>10, <1>11
     DEF Next, Tick, Return

(* Every match goes through its life exactly once, whichever of the events *)
(* of a tick the heap pops first: handle_match_formed and handle_match_end *)
(* run once for each id, in that order.                                    *)
THEOREM LifecycleCorrect == Spec => []Lifecycle
<1>1. Init => TypeOK /\ Lifecycle
  BY InitTypeOK, InitLifecycle
<1>2. TypeOK /\ Lifecycle /\ [Next]_vars => (TypeOK /\ Lifecycle)'
  BY StepTypeOK, StepLifecycle
<1> QED
  BY <1>1, <1>2, PTL DEF Spec

-----------------------------------------------------------------------------
LEMMA InitInOnePlace == Init => InOnePlace
<1> SUFFICES ASSUME Init PROVE InOnePlace
  OBVIOUS
<1>1. \A e, f \in events : IsEntry(e) /\ IsEntry(f) /\ e.subject = f.subject => e = f
  BY DEF Init, Event, IsEntry
<1>2. queue = {}
  BY DEF Init
<1>3. \A m \in MatchIds : ~Live(m)
  BY DEF Init, Live, Pending, Event
<1> QED
  BY <1>1, <1>2, <1>3 DEF InOnePlace, EntryPendingOnce, QueuedOnce, QueuedOrComing,
     LiveTeamsElsewhere, LiveDisjoint

(* A step that brings nobody to the queue and makes no match live, and     *)
(* changes no roster, leaves everybody in at most the one place.           *)
LEMMA PlaceKept ==
    ASSUME InOnePlace,
           \A g \in events' : IsEntry(g) => g \in events,
           queue' \subseteq queue,
           roster' = roster,
           \A m \in MatchIds : Live(m)' => Live(m)
    PROVE  InOnePlace'
<1>1. EntryPendingOnce' /\ QueuedOnce' /\ QueuedOrComing'
  BY DEF InOnePlace, EntryPendingOnce, QueuedOnce, QueuedOrComing, IsEntry
<1>2. \A m : Participants(m)' = Participants(m)
  BY DEF Participants
<1>3. LiveTeamsElsewhere' /\ LiveDisjoint'
  BY <1>2 DEF InOnePlace, LiveTeamsElsewhere, LiveDisjoint, IsEntry
<1> QED
  BY <1>1, <1>3 DEF InOnePlace

(* The same, for a step that emits neither entries nor matches.            *)
LEMMA PlaceQuiet ==
    ASSUME InOnePlace,
           NEW e \in events, NEW kind, NEW emitted, Pop(e, kind, emitted),
           \A g \in emitted : g.kind \notin {"PlayerJoin", "PlayerQueue", "MatchFormed"},
           UNCHANGED <<queue, roster, active>>
    PROVE  InOnePlace'
<1>1. \A g \in events' : IsEntry(g) => g \in events
  BY DEF Pop, IsEntry
<1>2. \A m \in MatchIds : Live(m)' => Live(m)
  BY DEF Pop, Live, Pending
<1> QED
  BY <1>1, <1>2, PlaceKept

LEMMA StepInOnePlace == TypeOK /\ Lifecycle /\ InOnePlace /\ [Next]_vars => InOnePlace'
<1> SUFFICES ASSUME TypeOK, Lifecycle, InOnePlace, [Next]_vars PROVE InOnePlace'
  OBVIOUS
<1>1. ASSUME NEW e \in events, PlayerJoin(e) PROVE InOnePlace'
  <2> DEFINE g == Event(e.time, "PlayerQueue", e.subject)
  <2>1. /\ events' = (events \ {e}) \cup {g}
        /\ UNCHANGED <<queue, roster, active>>
        /\ IsEntry(e)
    BY <1>1 DEF PlayerJoin, Pop, machine, IsEntry
  <2>2. IsEntry(g) /\ g.subject = e.subject /\ g.kind = "PlayerQueue"
    BY DEF Event, IsEntry
  <2> HIDE DEF g
  <2>3. \A h \in events : h # e /\ IsEntry(h) => h.subject # e.subject
    BY <2>1 DEF InOnePlace, EntryPendingOnce
  <2>4. EntryPendingOnce'
    BY <2>1, <2>2, <2>3 DEF InOnePlace, EntryPendingOnce, IsEntry
  <2>5. QueuedOnce' /\ QueuedOrComing'
    BY <2>1, <2>2 DEF InOnePlace, QueuedOnce, QueuedOrComing, IsEntry
  <2>6. \A m \in MatchIds : Live(m)' => Live(m)
    BY <2>1, <2>2 DEF Live, Pending
  <2>7. \A m : Participants(m)' = Participants(m)
    BY <2>1 DEF Participants
  <2>8. LiveTeamsElsewhere' /\ LiveDisjoint'
    BY <2>1, <2>2, <2>6, <2>7 DEF InOnePlace, LiveTeamsElsewhere, LiveDisjoint, IsEntry
  <2> QED
    BY <2>4, <2>5, <2>8 DEF InOnePlace
<1>2. ASSUME NEW e \in events, PlayerQueue(e) PROVE InOnePlace'
  <2>1. /\ events' = events \ {e}
        /\ UNCHANGED <<roster, active>>
        /\ IsEntry(e)
    BY <1>2 DEF PlayerQueue, Pop, IsEntry
  <2>2. PICK q : /\ q.player = e.subject
                 /\ queue' \subseteq queue \cup {q}
    <3>1. PICK q : q = [player |-> e.subject, at |-> e.time, rating |-> rating[e.subject]]
      OBVIOUS
    <3>2. queue' \subseteq queue \cup {q}
      BY <1>2, <3>1 DEF PlayerQueue
    <3> QED
      BY <3>1, <3>2
  <2>3. EntryPendingOnce'
    BY <2>1 DEF InOnePlace, EntryPendingOnce, IsEntry
  <2>4. QueuedOnce'
    BY <2>1, <2>2 DEF InOnePlace, QueuedOnce, QueuedOrComing
  <2>5. QueuedOrComing'
    BY <2>1, <2>2 DEF InOnePlace, QueuedOrComing, EntryPendingOnce, IsEntry
  <2>6. \A m \in MatchIds : Live(m)' => Live(m)
    BY <2>1 DEF Live, Pending
  <2>7. \A m : Participants(m)' = Participants(m)
    BY <2>1 DEF Participants
  <2>8. LiveTeamsElsewhere' /\ LiveDisjoint'
    BY <2>1, <2>2, <2>6, <2>7 DEF InOnePlace, LiveTeamsElsewhere, LiveDisjoint, IsEntry
  <2> QED
    BY <2>3, <2>4, <2>5, <2>8 DEF InOnePlace
<1>3. ASSUME NEW e \in events, SkillChange(e) PROVE InOnePlace'
  BY <1>3, PlaceQuiet DEF SkillChange, machine, Event
<1>4. ASSUME NEW e \in events, MatchTimerExpires(e) PROVE InOnePlace'
  BY <1>4, PlaceQuiet DEF MatchTimerExpires, machine
<1>5. ASSUME NEW e \in events, MatchTimer(e) PROVE InOnePlace'
  <2>1. PICK k \in BatchSizes(Cardinality(Waiting), MaxMatches - formed) :
             \E f \in Formations(Waiting, k) : FormMatches(e, k, f)
    BY <1>5 DEF MatchTimer
  <2>2. PICK f \in Formations(Waiting, k) : FormMatches(e, k, f)
    BY <2>1
  <2> DEFINE Team(m) == f[m].a \cup f[m].b
  <2>3. /\ DOMAIN f = formed .. formed + k - 1
        /\ k \in Nat
        /\ \A m \in DOMAIN f : Team(m) \subseteq Waiting /\ f[m].a \cap f[m].b = {}
    BY <1>5, FormationType DEF MatchTimer
  <2>4. \A m, n \in DOMAIN f : m # n => Team(m) \cap Team(n) = {}
    BY DEF Formations
  <2>5. /\ \A g \in events' : g.kind \notin {"MatchFormed", "MatchTimer"} => g \in events
        /\ \A g \in events' : g.kind = "MatchFormed" => g \in events \/ g.subject \in DOMAIN f
    BY <2>2 DEF FormMatches, Pop, Event
  <2>6. /\ \A q \in queue' : q \in queue
        /\ \A q \in queue', m \in DOMAIN f : q.player \notin Team(m)
        /\ active' = active
    BY <2>2 DEF FormMatches
  <2>7. /\ \A m \in MatchIds \cap DOMAIN f : roster'[m] = f[m] /\ Participants(m)' = Team(m)
        /\ \A m \in MatchIds \ DOMAIN f : roster'[m] = roster[m] /\ Participants(m)' = Participants(m)
    BY <2>2 DEF FormMatches, Participants
  <2>8. ASSUME NEW m \in MatchIds, Live(m)' PROVE m \in DOMAIN f \/ (m \notin DOMAIN f /\ Live(m))
    BY <2>5, <2>6, <2>8 DEF Live, Pending
  <2>9. \A m \in DOMAIN f : \A p \in Team(m) : \E q \in queue : q.player = p
    BY <2>3 DEF Waiting
  <2> HIDE DEF Team
  <2>10. EntryPendingOnce' /\ QueuedOnce' /\ QueuedOrComing'
    BY <2>5, <2>6 DEF InOnePlace, EntryPendingOnce, QueuedOnce, QueuedOrComing, IsEntry
  <2>11. LiveTeamsElsewhere'
    <3> SUFFICES ASSUME NEW m \in MatchIds, Live(m)'
                 PROVE  /\ roster'[m].a \cap roster'[m].b = {}
                        /\ \A g \in events' : IsEntry(g) => g.subject \notin Participants(m)'
                        /\ \A q \in queue' : q.player \notin Participants(m)'
      BY DEF LiveTeamsElsewhere, IsEntry
    <3>1. CASE m \in DOMAIN f
      BY <2>3, <2>5, <2>6, <2>7, <2>9, <3>1 DEF InOnePlace, QueuedOrComing, IsEntry
    <3>2. CASE m \notin DOMAIN f /\ Live(m)
      BY <2>5, <2>6, <2>7, <3>2 DEF InOnePlace, LiveTeamsElsewhere, IsEntry
    <3> QED
      BY <2>8, <3>1, <3>2
  <2>12. LiveDisjoint'
    <3>1. ASSUME NEW m \in MatchIds \cap DOMAIN f, NEW n \in MatchIds, n \notin DOMAIN f, Live(n)
          PROVE  Team(m) \cap Participants(n) = {}
      BY <2>9, <3>1 DEF InOnePlace, LiveTeamsElsewhere
    <3>2. ASSUME NEW m \in MatchIds, NEW n \in MatchIds, m # n, Live(m)', Live(n)'
          PROVE  Participants(m)' \cap Participants(n)' = {}
      <4>1. CASE m \in DOMAIN f /\ n \in DOMAIN f
        BY <2>4, <2>7, <3>2, <4>1
      <4>2. CASE m \in DOMAIN f /\ n \notin DOMAIN f
        BY <2>7, <2>8, <3>1, <3>2, <4>2
      <4>3. CASE m \notin DOMAIN f /\ n \in DOMAIN f
        BY <2>7, <2>8, <3>1, <3>2, <4>3
      <4>4. CASE m \notin DOMAIN f /\ n \notin DOMAIN f
        BY <2>7, <2>8, <3>2, <4>4 DEF InOnePlace, LiveDisjoint
      <4> QED
        BY <4>1, <4>2, <4>3, <4>4
    <3> QED
      BY <3>2 DEF LiveDisjoint
  <2> QED
    BY <2>10, <2>11, <2>12 DEF InOnePlace
<1>6. ASSUME NEW e \in events, MatchFormed(e) PROVE InOnePlace'
  <2>1. PICK d \in Durations : StartMatch(e, d)
    BY <1>6 DEF MatchFormed
  <2>2. /\ e.kind = "MatchFormed"
        /\ events' = (events \ {e}) \cup { Event(e.time + d, "MatchEnd", e.subject) }
        /\ active' = active \cup {e.subject}
        /\ UNCHANGED <<queue, roster>>
    BY <2>1 DEF StartMatch, Pop
  <2>3. Event(e.time + d, "MatchEnd", e.subject).kind = "MatchEnd"
    BY DEF Event
  <2>4. \A g \in events' : IsEntry(g) => g \in events
    BY <2>2, <2>3 DEF IsEntry
  <2>5. \A m \in MatchIds : Live(m)' => Live(m)
    BY <2>2, <2>3 DEF Live, Pending
  <2> QED
    BY <2>2, <2>4, <2>5, PlaceKept
<1>7. ASSUME NEW e \in events, MatchEnd(e) PROVE InOnePlace'
  <2> DEFINE m == e.subject
  <2>1. e.kind = "MatchEnd"
    BY <1>7 DEF MatchEnd, FinishMatch, Pop
  <2>2. m \in MatchIds
    BY <2>1, SubjectOfKind DEF TypeOK, MatchKinds
  <2>3. m < formed
    <3>1. ~(m >= formed)
      BY <2>1, <2>2 DEF Lifecycle, UnformedUntouched, MatchKinds
    <3> QED
      BY <2>2, <3>1 DEF TypeOK, MatchIds
  <2>4. m \in active /\ ~Pending("MatchFormed", m)
    BY <2>1, <2>2, <2>3 DEF Lifecycle, StageScheduled, Pending
  <2>5. PICK stay \in Retained(m) : FinishMatch(e, stay)
    BY <1>7, <2>4 DEF MatchEnd
  <2> DEFINE after == AfterMatch(m, e.time, stay)
  <2>6. /\ events' = (events \ {e}) \cup after
        /\ active' = active \ {m}
        /\ UNCHANGED <<queue, roster>>
    BY <2>5 DEF FinishMatch, Pop
  <2>7. /\ \A g \in after : g.kind # "MatchFormed"
        /\ \A g \in after : IsEntry(g) => g.subject \in Participants(m)
        /\ \A g, h \in after : IsEntry(g) /\ IsEntry(h) /\ g.subject = h.subject => g = h
    <3>1. stay \subseteq Participants(m)
      BY DEF Retained
    <3>2. \A g \in after : IsEntry(g) =>
             \E p \in stay : g = Event(e.time + RejoinDelay, "PlayerQueue", p)
      BY DEF AfterMatch, Event, IsEntry
    <3>3. \A p : Event(e.time + RejoinDelay, "PlayerQueue", p).subject = p
      BY DEF Event
    <3>4. \A g \in after : g.kind # "MatchFormed"
      BY DEF AfterMatch, Event
    <3> QED
      BY <3>1, <3>2, <3>3, <3>4
  <2>8. Live(m)
    BY <2>4 DEF Live
  <2> HIDE DEF m, after
  <2>9. \A n \in MatchIds : Live(n)' => Live(n) /\ n # m
    BY <2>4, <2>6, <2>7 DEF Live, Pending
  <2>10. \A n : Participants(n)' = Participants(n)
    BY <2>6 DEF Participants
  <2>11. \A g \in events : IsEntry(g) => g.subject \notin Participants(m)
    BY <2>2, <2>8 DEF InOnePlace, LiveTeamsElsewhere
  <2>12. EntryPendingOnce'
    BY <2>6, <2>7, <2>11 DEF InOnePlace, EntryPendingOnce, IsEntry
  <2>13. QueuedOnce'
    BY <2>6 DEF InOnePlace, QueuedOnce
  <2>14. QueuedOrComing'
    BY <2>2, <2>6, <2>7, <2>8 DEF InOnePlace, QueuedOrComing, LiveTeamsElsewhere, IsEntry
  <2>15. LiveTeamsElsewhere'
    <3>1. \A n \in MatchIds : Live(n)' => Participants(m) \cap Participants(n) = {}
      BY <2>2, <2>8, <2>9 DEF InOnePlace, LiveDisjoint
    <3> QED
      BY <2>6, <2>7, <2>9, <2>10, <3>1 DEF InOnePlace, LiveTeamsElsewhere, IsEntry
  <2>16. LiveDisjoint'
    BY <2>9, <2>10 DEF InOnePlace, LiveDisjoint
  <2> QED
    BY <2>12, <2>13, <2>14, <2>15, <2>16 DEF InOnePlace
<1>8. ASSUME NEW e \in events, DetectionCheck(e) PROVE InOnePlace'
  BY <1>8, PlaceQuiet DEF DetectionCheck, machine, Event
<1>9. ASSUME NEW e \in events, RatingUpdate(e) PROVE InOnePlace'
  BY <1>9, PlaceQuiet DEF RatingUpdate, machine
<1>10. ASSUME NEW e \in events, PlayerQuit(e) PROVE InOnePlace'
  BY <1>10, PlaceQuiet DEF PlayerQuit, machine
<1>11. CASE UNCHANGED vars
  BY <1>11, PlaceKept DEF vars, machine, Live, Pending
<1> QED
  BY <1>1, <1>2, <1>3, <1>4, <1>5, <1>6, <1>7, <1>8, <1>9, <1>10, <1>11
     DEF Next, Tick, Return

(* No player is ever in two places: enqueued twice, enqueued while in a    *)
(* match, on both sides of a match, or in two matches.  Queue::enqueue and *)
(* handle_match_timer rely on it without testing it.                       *)
THEOREM InOnePlaceCorrect == Spec => []InOnePlace
<1> DEFINE IInv == TypeOK /\ Lifecycle /\ InOnePlace
<1>1. Init => IInv
  BY InitTypeOK, InitLifecycle, InitInOnePlace
<1>2. IInv /\ [Next]_vars => IInv'
  BY StepTypeOK, StepLifecycle, StepInOnePlace
<1> QED
  BY <1>1, <1>2, PTL DEF Spec

-----------------------------------------------------------------------------
(* No pending event lies in the past: why the clock never runs backwards.  *)
NoneOverdue == \A e \in events : e.time >= now

LEMMA EmittedLater ==
    ASSUME TypeOK, NoneOverdue,
           NEW e \in events, NEW kind, NEW emitted, Pop(e, kind, emitted),
           \A g \in emitted : g.time >= e.time
    PROVE  NoneOverdue' /\ now' >= now
BY DEF Pop, IsNext, NoneOverdue

LEMMA StepNoneOverdue == TypeOK /\ NoneOverdue /\ Next => NoneOverdue' /\ (now' >= now \/ UNCHANGED vars)
<1> SUFFICES ASSUME TypeOK, NoneOverdue, Next
             PROVE  NoneOverdue' /\ (now' >= now \/ UNCHANGED vars)
  OBVIOUS
<1>t. \A e \in events : e.time \in Nat
  BY SubjectOfKind DEF TypeOK
<1>1. ASSUME NEW e \in events, PlayerJoin(e) PROVE NoneOverdue' /\ now' >= now
  BY <1>1, <1>t, EmittedLater DEF PlayerJoin, Event
<1>2. ASSUME NEW e \in events, PlayerQueue(e) PROVE NoneOverdue' /\ now' >= now
  BY <1>2, EmittedLater DEF PlayerQueue
<1>3. ASSUME NEW e \in events, SkillChange(e) PROVE NoneOverdue' /\ now' >= now
  BY <1>3, <1>t, EmittedLater, ClockAssumption DEF SkillChange, Event
<1>4. ASSUME NEW e \in events, MatchTimerExpires(e) PROVE NoneOverdue' /\ now' >= now
  BY <1>4, EmittedLater DEF MatchTimerExpires
<1>5. ASSUME NEW e \in events, MatchTimer(e) PROVE NoneOverdue' /\ now' >= now
  <2>1. PICK k, f : FormMatches(e, k, f)
    BY <1>5 DEF MatchTimer
  <2>2. e.time + BatchInterval >= e.time
    BY <1>t, BatchIntervalType
  <2> QED
    BY <2>1, <2>2, <1>t, EmittedLater DEF FormMatches, Event
<1>6. ASSUME NEW e \in events, MatchFormed(e) PROVE NoneOverdue' /\ now' >= now
  <2>1. PICK d \in Durations : StartMatch(e, d)
    BY <1>6 DEF MatchFormed
  <2>2. e.time + d >= e.time
    BY <1>t, ClockAssumption
  <2> QED
    BY <2>1, <2>2, EmittedLater DEF StartMatch, Event
<1>7. ASSUME NEW e \in events, MatchEnd(e) PROVE NoneOverdue' /\ now' >= now
  <2>1. CASE e.subject \notin active
    BY <1>7, <2>1, EmittedLater DEF MatchEnd
  <2>2. CASE e.subject \in active
    <3>1. PICK stay : FinishMatch(e, stay)
      BY <1>7, <2>2 DEF MatchEnd
    <3>2. e.time + RejoinDelay >= e.time /\ e.time >= e.time
      BY <1>t, ClockAssumption
    <3>3. \A g \in AfterMatch(e.subject, e.time, stay) : g.time >= e.time
      BY <3>2 DEF AfterMatch, Event
    <3> QED
      BY <3>1, <3>3, EmittedLater DEF FinishMatch
  <2> QED
    BY <2>1, <2>2
<1>8. ASSUME NEW e \in events, DetectionCheck(e) PROVE NoneOverdue' /\ now' >= now
  BY <1>8, <1>t, EmittedLater DEF DetectionCheck, Event
<1>9. ASSUME NEW e \in events, RatingUpdate(e) PROVE NoneOverdue' /\ now' >= now
  BY <1>9, EmittedLater DEF RatingUpdate
<1>10. ASSUME NEW e \in events, PlayerQuit(e) PROVE NoneOverdue' /\ now' >= now
  BY <1>10, EmittedLater DEF PlayerQuit
<1>11. CASE UNCHANGED vars
  BY <1>11 DEF vars, NoneOverdue
<1> QED
  BY <1>1, <1>2, <1>3, <1>4, <1>5, <1>6, <1>7, <1>8, <1>9, <1>10, <1>11
     DEF Next, Tick, Return

(* world.time never decreases: EventEngine::tick sets it to the time of    *)
(* the event popped, with nothing to stop a handler scheduling in the past *)
(* but that none does.                                                     *)
THEOREM ClockMonotoneCorrect == Spec => ClockMonotone
<1>1. Init => NoneOverdue
  BY BatchIntervalType, ClockAssumption DEF Init, NoneOverdue, Event
<1>2. TypeOK /\ NoneOverdue /\ [Next]_vars => NoneOverdue'
  BY StepNoneOverdue DEF NoneOverdue, vars
<1>3. TypeOK /\ NoneOverdue /\ [Next]_vars => [now' >= now]_vars
  BY StepNoneOverdue
<1> QED
  BY <1>1, <1>2, <1>3, TypeCorrect, PTL DEF Spec, ClockMonotone

-----------------------------------------------------------------------------
(* Records of players, matches and time.                                   *)

(* What the invariants below rest on.                                      *)
Ground == TypeOK /\ Lifecycle /\ InOnePlace /\ NoneOverdue

LEMMA GroundHolds == Spec => []Ground
<1>1. Init => Ground
  <2>1. Init => NoneOverdue
    BY BatchIntervalType, ClockAssumption DEF Init, NoneOverdue, Event
  <2> QED
    BY <2>1, InitTypeOK, InitLifecycle, InitInOnePlace DEF Ground
<1>2. Ground /\ [Next]_vars => Ground'
  <2>1. TypeOK /\ NoneOverdue /\ [Next]_vars => NoneOverdue'
    BY StepNoneOverdue DEF NoneOverdue, vars
  <2> QED
    BY <2>1, StepTypeOK, StepLifecycle, StepInOnePlace DEF Ground
<1> QED
  BY <1>1, <1>2, PTL DEF Spec

(* The event popped: its subject, and that no pending event precedes it.   *)
LEMMA Popped ==
    ASSUME Ground, NEW e \in events
    PROVE  /\ e.time \in Nat /\ now \in Nat /\ now <= e.time
           /\ e.kind \in PlayerKinds => e.subject \in Players
           /\ e.kind \in MatchKinds => e.subject \in MatchIds /\ e.subject < formed
<1>1. e \in Events
  BY DEF Ground, TypeOK
<1>2. e.time \in Nat /\ now \in Nat /\ now <= e.time
  BY <1>1, SubjectOfKind DEF Ground, TypeOK, NoneOverdue
<1>3. ASSUME e.kind \in MatchKinds PROVE e.subject \in MatchIds /\ e.subject < formed
  <2>1. e.subject \in MatchIds
    BY <1>1, <1>3, SubjectOfKind
  <2>2. ~(e.subject >= formed)
    BY <1>3, <2>1 DEF Ground, Lifecycle, UnformedUntouched
  <2> QED
    BY <2>1, <2>2 DEF Ground, TypeOK, MatchIds
<1> QED
  BY <1>1, <1>2, <1>3, SubjectOfKind

(* A MatchFormed is of a match that is live and not yet started.           *)
LEMMA StartsFormed ==
    ASSUME Ground, NEW e \in events, e.kind = "MatchFormed"
    PROVE  /\ e.subject \in MatchIds /\ Live(e.subject)
           /\ matches[e.subject] = "None" /\ e.subject \notin active
<1>1. e.subject \in MatchIds /\ e.subject < formed
  BY Popped DEF MatchKinds
<1>2. Pending("MatchFormed", e.subject)
  BY DEF Pending
<1>3. matches[e.subject] = "None"
  BY <1>1, <1>2 DEF Ground, Lifecycle, StageScheduled
<1>4. e.subject \notin active
  BY <1>1, <1>3 DEF Ground, Lifecycle, StageScheduled
<1> QED
  BY <1>1, <1>2, <1>3, <1>4 DEF Live

(* A MatchEnd is of an active match: the test in handle_match_end passes.  *)
LEMMA EndsActive ==
    ASSUME Ground, NEW e \in events, e.kind = "MatchEnd"
    PROVE  /\ e.subject \in MatchIds /\ Live(e.subject)
           /\ matches[e.subject] = "InProgress" /\ e.subject \in active
           /\ ~Pending("MatchFormed", e.subject)
<1>1. e.subject \in MatchIds /\ e.subject < formed
  BY Popped DEF MatchKinds
<1>2. Pending("MatchEnd", e.subject)
  BY DEF Pending
<1>3. matches[e.subject] = "InProgress" /\ e.subject \in active
  BY <1>1, <1>2 DEF Ground, Lifecycle, StageScheduled
<1>4. ~Pending("MatchFormed", e.subject)
  BY <1>1, <1>3 DEF Ground, Lifecycle, StageScheduled
<1> QED
  BY <1>1, <1>3, <1>4 DEF Live

(* An active match has started, and its MatchFormed is gone.               *)
LEMMA ActiveStarted ==
    ASSUME Ground, NEW m \in active
    PROVE  m \in MatchIds /\ matches[m] = "InProgress" /\ ~Pending("MatchFormed", m)
<1>1. m \in MatchIds /\ formed \in Nat
  BY DEF Ground, TypeOK
<1>2. m < formed
  <2>1. ~(m >= formed)
    BY <1>1 DEF Ground, Lifecycle, UnformedUntouched
  <2> QED
    BY <1>1, <2>1 DEF MatchIds
<1>3. matches[m] = "InProgress"
  BY <1>1, <1>2 DEF Ground, Lifecycle, StageScheduled
<1> QED
  BY <1>1, <1>2, <1>3 DEF Ground, Lifecycle, StageScheduled

(* What a MatchEnd does, and whom it concerns: the participants of a match *)
(* are in no other place before it.                                        *)
LEMMA EndStep ==
    ASSUME Ground, NEW e \in events, MatchEnd(e)
    PROVE  LET m == e.subject IN
           /\ m \in MatchIds /\ m \in active /\ Live(m)
           /\ matches[m] = "InProgress"
           /\ Participants(m) \subseteq Players
           /\ \E stay \in SUBSET Participants(m) : FinishMatch(e, stay)
           /\ \A q \in queue : q.player \notin Participants(m)
           /\ \A g \in events : IsEntry(g) => g.subject \notin Participants(m)
           /\ \A n \in MatchIds : Live(n) /\ n # m => Participants(n) \cap Participants(m) = {}
           /\ \A n \in MatchIds : Live(n)' => Live(n) /\ n # m
           /\ \A n : Participants(n)' = Participants(n)
<1> DEFINE m == e.subject
<1>1. e.kind = "MatchEnd"
  BY DEF MatchEnd, FinishMatch, Pop
<1>2. /\ m \in MatchIds /\ m \in active /\ Live(m) /\ matches[m] = "InProgress"
      /\ ~Pending("MatchFormed", m)
  BY <1>1, EndsActive
<1>3. PICK stay \in Retained(m) : FinishMatch(e, stay)
  BY <1>2 DEF MatchEnd
<1>4. stay \in SUBSET Participants(m)
  BY DEF Retained
<1>5. /\ \A q \in queue : q.player \notin Participants(m)
      /\ \A g \in events : IsEntry(g) => g.subject \notin Participants(m)
      /\ \A n \in MatchIds : Live(n) /\ n # m => Participants(n) \cap Participants(m) = {}
  BY <1>2 DEF Ground, InOnePlace, LiveTeamsElsewhere, LiveDisjoint
<1>6. /\ \A g \in AfterMatch(m, e.time, stay) : g.kind # "MatchFormed"
      /\ events' = (events \ {e}) \cup AfterMatch(m, e.time, stay)
      /\ active' = active \ {m} /\ roster' = roster
  BY <1>3 DEF FinishMatch, Pop, AfterMatch, Event
<1>7. \A n \in MatchIds : Live(n)' => Live(n) /\ n # m
  BY <1>2, <1>6 DEF Live, Pending
<1>8. \A n : Participants(n)' = Participants(n)
  BY <1>6 DEF Participants
<1>9. Participants(m) \subseteq Players
  BY <1>2 DEF Ground, TypeOK, Participants, Teams
<1> QED
  BY <1>2, <1>3, <1>4, <1>5, <1>7, <1>8, <1>9

(* What a MatchTimer that forms the matches f does: the new matches were   *)
(* not live, their players were in the queue; a match that was live has    *)
(* none of them, and keeps its players.                                    *)
Matched(f) == UNION { f[m].a \cup f[m].b : m \in DOMAIN f }

Forming(e, k, f) ==
    /\ FormMatches(e, k, f)
    /\ formed < MaxMatches
    /\ DOMAIN f = formed .. formed + k - 1 /\ DOMAIN f \subseteq MatchIds
    /\ Matched(f) \subseteq Waiting
    /\ \A n \in MatchIds : Live(n) => Participants(n) \cap Matched(f) = {}
    /\ \A n \in MatchIds : Live(n)' <=> n \in DOMAIN f \/ Live(n)
    /\ \A n \in DOMAIN f : ~Live(n)
    /\ \A n \in DOMAIN f : /\ Participants(n)' = f[n].a \cup f[n].b
                           /\ Participants(n)' \subseteq Matched(f)
    /\ \A n \in MatchIds : n \notin DOMAIN f => Participants(n)' = Participants(n)

LEMMA FormStep ==
    ASSUME Ground, NEW e \in events, MatchTimer(e)
    PROVE  \E k \in Nat : \E f \in Formations(Waiting, k) : Forming(e, k, f)
<1>1. PICK k \in BatchSizes(Cardinality(Waiting), MaxMatches - formed) :
           \E f \in Formations(Waiting, k) : FormMatches(e, k, f)
  BY DEF MatchTimer
<1>2. PICK f \in Formations(Waiting, k) : FormMatches(e, k, f)
  BY <1>1
<1>3. /\ formed < MaxMatches /\ TypeOK
  BY DEF MatchTimer, Ground
<1>4. /\ k \in Nat
      /\ DOMAIN f = formed .. formed + k - 1 /\ DOMAIN f \subseteq MatchIds
      /\ \A m \in DOMAIN f : f[m].a \subseteq Waiting /\ f[m].b \subseteq Waiting
  BY <1>3, FormationType
<1>5. Matched(f) \subseteq Waiting
  BY <1>4 DEF Matched
<1>6. \A n \in MatchIds : Live(n) => \A q \in queue : q.player \notin Participants(n)
  BY DEF Ground, InOnePlace, LiveTeamsElsewhere
<1>7. \A n \in MatchIds : Live(n) => Participants(n) \cap Matched(f) = {}
  BY <1>5, <1>6 DEF Waiting
<1> DEFINE new == { Event(e.time, "MatchFormed", m) : m \in DOMAIN f }
<1>8. /\ e.kind = "MatchTimer" /\ active' = active
      /\ events' = (events \ {e}) \cup new \cup { Event(e.time + BatchInterval, "MatchTimer", 0) }
      /\ roster' = [m \in MatchIds |-> IF m \in DOMAIN f THEN f[m] ELSE roster[m]]
  BY <1>2 DEF FormMatches, Pop
<1>9. /\ \A g \in new : g.kind = "MatchFormed" /\ g.subject \in DOMAIN f
      /\ \A m \in DOMAIN f : \E g \in new : g.kind = "MatchFormed" /\ g.subject = m
      /\ Event(e.time + BatchInterval, "MatchTimer", 0).kind = "MatchTimer"
  <2>1. \A m : LET g == Event(e.time, "MatchFormed", m) IN g.kind = "MatchFormed" /\ g.subject = m
    BY DEF Event
  <2> QED
    BY <2>1 DEF Event
<1> HIDE DEF new
<1>10. \A n \in MatchIds : Live(n)' => n \in DOMAIN f \/ Live(n)
  BY <1>8, <1>9 DEF Live, Pending
<1>11. \A n \in MatchIds : (n \in DOMAIN f => Live(n)') /\ (Live(n) => Live(n)')
  BY <1>8, <1>9 DEF Live, Pending
<1>12. \A n \in MatchIds : n \in DOMAIN f => ~Live(n)
  <2>1. formed \in Nat
    BY <1>3 DEF TypeOK
  <2>2. \A n \in MatchIds : n \in DOMAIN f => n >= formed
    BY <1>4, <2>1
  <2> QED
    BY <2>2 DEF Ground, Lifecycle, UnformedUntouched, Live, Pending, MatchKinds
<1>13. /\ \A n \in DOMAIN f : Participants(n)' = f[n].a \cup f[n].b
       /\ \A n \in MatchIds : n \notin DOMAIN f => Participants(n)' = Participants(n)
  BY <1>4, <1>8 DEF Participants
<1>14. \A n \in DOMAIN f : Participants(n)' \subseteq Matched(f)
  BY <1>13 DEF Matched
<1> QED
  BY <1>2, <1>3, <1>4, <1>5, <1>7, <1>10, <1>11, <1>12, <1>13, <1>14 DEF Forming

-----------------------------------------------------------------------------
(* The matchmaker's timer.                                                 *)

(* A step about anything else leaves the timer where it is; that it is     *)
(* popped in time is what IsNext and NoneOverdue say.                      *)
LEMMA TimerKept ==
    ASSUME Ground, MatchmakerScheduled,
           NEW e \in events, NEW kind, NEW emitted, Pop(e, kind, emitted),
           kind # "MatchTimer",
           \A g \in emitted : g.kind # "MatchTimer",
           formed' = formed
    PROVE  MatchmakerScheduled'
<1> DEFINE timers == { f \in events : f.kind = "MatchTimer" }
<1>1. e.kind # "MatchTimer" /\ now' = e.time /\ \A f \in events : e.time <= f.time
  BY DEF Pop, IsNext
<1>2. timers' = timers
  BY <1>1 DEF Pop
<1>3. ASSUME NEW f \in timers PROVE f.time - now' \in 0 .. BatchInterval
  <2>1. f.time - now \in 0 .. BatchInterval
    BY <1>3 DEF MatchmakerScheduled
  <2>2. now \in Nat /\ e.time \in Nat /\ f.time \in Nat /\ now <= e.time
    BY <1>3, Popped
  <2> QED
    BY <1>1, <2>1, <2>2, BatchIntervalType
<1> QED
  BY <1>2, <1>3 DEF MatchmakerScheduled

LEMMA StepMatchmakerScheduled ==
    Ground /\ MatchmakerScheduled /\ [Next]_vars => MatchmakerScheduled'
<1> SUFFICES ASSUME Ground, MatchmakerScheduled, [Next]_vars PROVE MatchmakerScheduled'
  OBVIOUS
<1>1. ASSUME NEW e \in events, PlayerJoin(e) PROVE MatchmakerScheduled'
  BY <1>1, TimerKept DEF PlayerJoin, machine, Event
<1>2. ASSUME NEW e \in events, PlayerQueue(e) PROVE MatchmakerScheduled'
  BY <1>2, TimerKept DEF PlayerQueue
<1>3. ASSUME NEW e \in events, SkillChange(e) PROVE MatchmakerScheduled'
  BY <1>3, TimerKept DEF SkillChange, machine, Event
<1>4. ASSUME NEW e \in events, MatchTimerExpires(e) PROVE MatchmakerScheduled'
  <2>1. /\ e.kind = "MatchTimer" /\ events' = events \ {e}
        /\ formed >= MaxMatches /\ formed' = formed
    BY <1>4 DEF MatchTimerExpires, Pop, machine
  <2>2. \A f \in events' : f.kind # "MatchTimer"
    BY <2>1 DEF MatchmakerScheduled
  <2>3. ~(formed' < MaxMatches)
    BY <2>1, BudgetAssumption DEF Ground, TypeOK
  <2> QED
    BY <2>2, <2>3 DEF MatchmakerScheduled
<1>5. ASSUME NEW e \in events, MatchTimer(e) PROVE MatchmakerScheduled'
  <2> DEFINE next == Event(e.time + BatchInterval, "MatchTimer", 0)
  <2>1. PICK k, f : FormMatches(e, k, f)
    BY <1>5 DEF MatchTimer
  <2>2. e.kind = "MatchTimer" /\ now' = e.time
    BY <2>1 DEF FormMatches, Pop
  <2>3. next.kind = "MatchTimer" /\ next.time = e.time + BatchInterval
    BY DEF Event
  <2>4. /\ next \in events'
        /\ \A g \in events' : g.kind = "MatchTimer" => g = next \/ (g \in events /\ g # e)
    BY <2>1 DEF FormMatches, Pop, Event
  <2>5. \A g \in events' : g.kind = "MatchTimer" => g = next
    BY <2>2, <2>4 DEF MatchmakerScheduled
  <2>6. next.time - now' \in 0 .. BatchInterval
    BY <2>2, <2>3, Popped, BatchIntervalType
  <2> HIDE DEF next
  <2> QED
    BY <2>3, <2>4, <2>5, <2>6 DEF MatchmakerScheduled
<1>6. ASSUME NEW e \in events, MatchFormed(e) PROVE MatchmakerScheduled'
  BY <1>6, TimerKept DEF MatchFormed, StartMatch, Event
<1>7. ASSUME NEW e \in events, MatchEnd(e) PROVE MatchmakerScheduled'
  <2>1. PICK stay : FinishMatch(e, stay)
    BY <1>7, EndStep
  <2>2. \A g \in AfterMatch(e.subject, e.time, stay) : g.kind # "MatchTimer"
    BY DEF AfterMatch, Event
  <2> QED
    BY <2>1, <2>2, TimerKept DEF FinishMatch
<1>8. ASSUME NEW e \in events, DetectionCheck(e) PROVE MatchmakerScheduled'
  BY <1>8, TimerKept DEF DetectionCheck, machine, Event
<1>9. ASSUME NEW e \in events, RatingUpdate(e) PROVE MatchmakerScheduled'
  BY <1>9, TimerKept DEF RatingUpdate, machine
<1>10. ASSUME NEW e \in events, PlayerQuit(e) PROVE MatchmakerScheduled'
  BY <1>10, TimerKept DEF PlayerQuit, machine
<1>11. CASE UNCHANGED vars
  BY <1>11 DEF vars, machine, MatchmakerScheduled
<1> QED
  BY <1>1, <1>2, <1>3, <1>4, <1>5, <1>6, <1>7, <1>8, <1>9, <1>10, <1>11
     DEF Next, Tick, Return

(* As long as matches may be formed handle_match_timer will be called, at  *)
(* most one batch interval from now, and by one timer: whatever the other  *)
(* events of the same time, the chain of MatchTimer events neither breaks  *)
(* nor forks.                                                              *)
THEOREM MatchmakerScheduledCorrect == Spec => []MatchmakerScheduled
<1>1. Init => MatchmakerScheduled
  <2> SUFFICES ASSUME Init PROVE MatchmakerScheduled
    OBVIOUS
  <2> DEFINE next == Event(BatchInterval, "MatchTimer", 0)
  <2>1. next \in events /\ now = 0
    BY DEF Init
  <2>2. next.kind = "MatchTimer" /\ next.time = BatchInterval
    BY DEF Event
  <2>3. \A g \in events : g.kind = "MatchTimer" => g = next
    BY DEF Init, Event
  <2>4. next.time - now \in 0 .. BatchInterval
    BY <2>1, <2>2, BatchIntervalType
  <2> HIDE DEF next
  <2> QED
    BY <2>1, <2>2, <2>3, <2>4 DEF MatchmakerScheduled
<1> QED
  BY <1>1, StepMatchmakerScheduled, GroundHolds, PTL DEF Spec

-----------------------------------------------------------------------------
(* The buffer of completed matches.                                        *)

LEMMA StepShownOnce == Ground /\ ShownOnce /\ [Next]_vars => ShownOnce'
<1> SUFFICES ASSUME Ground, ShownOnce, [Next]_vars, "completed" \in Features
             PROVE  (buffer \cap shown = {} /\ buffer \cup shown = Done)'
  BY DEF ShownOnce
<1>a. buffer \cap shown = {} /\ buffer \cup shown = Done
  BY DEF ShownOnce
<1>b. ASSUME UNCHANGED <<matches, buffer, shown>>
      PROVE  (buffer \cap shown = {} /\ buffer \cup shown = Done)'
  BY <1>a, <1>b DEF Done
<1> DEFINE Goal == (buffer \cap shown = {} /\ buffer \cup shown = Done)'
<1>1. ASSUME NEW e \in events,
             \/ PlayerJoin(e) \/ PlayerQueue(e) \/ SkillChange(e) \/ MatchTimerExpires(e)
             \/ DetectionCheck(e) \/ RatingUpdate(e) \/ PlayerQuit(e)
      PROVE  Goal
  BY <1>1, <1>b DEF PlayerJoin, PlayerQueue, SkillChange, MatchTimerExpires, DetectionCheck,
                    RatingUpdate, PlayerQuit, machine, ghosts
<1>2. ASSUME NEW e \in events, MatchTimer(e) PROVE Goal
  <2>1. PICK k, f : FormMatches(e, k, f)
    BY <1>2 DEF MatchTimer
  <2>2. buffer' = {} /\ shown' = shown \cup buffer /\ matches' = matches
    BY <2>1 DEF FormMatches
  <2> QED
    BY <1>a, <2>2 DEF Done
<1>3. ASSUME NEW e \in events, MatchFormed(e) PROVE Goal
  <2>1. PICK d \in Durations : StartMatch(e, d)
    BY <1>3 DEF MatchFormed
  <2>2. /\ e.kind = "MatchFormed" /\ UNCHANGED <<buffer, shown>>
        /\ matches' = [matches EXCEPT ![e.subject] = "InProgress"]
    BY <2>1 DEF StartMatch, Pop, ghosts
  <2>3. matches[e.subject] = "None"
    BY <2>2, StartsFormed
  <2>4. Done' = Done
    BY <2>2, <2>3 DEF Done, Ground, TypeOK
  <2> QED
    BY <1>a, <2>2, <2>4
<1>4. ASSUME NEW e \in events, MatchEnd(e) PROVE Goal
  <2> DEFINE m == e.subject
  <2>1. PICK stay : FinishMatch(e, stay)
    BY <1>4, EndStep
  <2>2. m \in MatchIds /\ matches[m] = "InProgress"
    BY <1>4, EndStep
  <2>3. /\ matches' = [matches EXCEPT ![m] = "Completed"]
        /\ buffer' = buffer \cup {m} /\ shown' = shown
    BY <2>1 DEF FinishMatch, ghosts
  <2>4. Done' = Done \cup {m} /\ m \notin Done
    BY <2>2, <2>3 DEF Done, Ground, TypeOK
  <2> QED
    BY <1>a, <2>3, <2>4
<1>5. CASE UNCHANGED vars
  BY <1>5, <1>b DEF vars, machine, ghosts
<1> QED
  BY <1>1, <1>2, <1>3, <1>4, <1>5 DEF Next, Tick, Return

(* Every completed match is in state.completed_buffer or has been handed   *)
(* to the matchmaker, never both: handle_match_timer takes the buffer      *)
(* whatever the matchmaker then does, and no match completes twice.        *)
THEOREM ShownOnceCorrect == Spec => []ShownOnce
<1>1. Init => ShownOnce
  BY DEF Init, ShownOnce, Done
<1> QED
  BY <1>1, StepShownOnce, GroundHolds, PTL DEF Spec

-----------------------------------------------------------------------------
(* Copies of ratings.                                                      *)

(* A step that moves no rating or rank, enqueues and matches nobody.       *)
LEMMA CopiesKept ==
    ASSUME CopiesCurrent,
           UNCHANGED <<rating, rank, roster, lastEntry>>,
           queue' \subseteq queue,
           \A m \in MatchIds : Live(m)' => Live(m)
    PROVE  CopiesCurrent'
BY DEF CopiesCurrent, Participants

LEMMA CopiesQuiet ==
    ASSUME CopiesCurrent, UNCHANGED <<rating, rank, machine, ghosts>>,
           NEW e \in events, NEW kind, NEW emitted, Pop(e, kind, emitted),
           \A g \in emitted : g.kind # "MatchFormed"
    PROVE  CopiesCurrent'
<1>1. \A m \in MatchIds : Live(m)' => Live(m)
  BY DEF Pop, Live, Pending, machine
<1> QED
  BY <1>1, CopiesKept DEF machine, ghosts

LEMMA StepCopiesCurrent == Ground /\ CopiesCurrent /\ [Next]_vars => CopiesCurrent'
<1> SUFFICES ASSUME Ground, CopiesCurrent, [Next]_vars PROVE CopiesCurrent'
  OBVIOUS
<1>t. /\ rating \in [Players -> Nat] /\ rank \in [Players -> Nat \cup {Unset}]
      /\ \A q \in queue : q.player \in Players
      /\ \A m \in MatchIds : Participants(m) \subseteq Players
  BY DEF Ground, TypeOK, Participants, Teams
<1>1. ASSUME NEW e \in events, PlayerJoin(e) PROVE CopiesCurrent'
  <2> DEFINE p == e.subject
  <2>1. /\ IsEntry(e) /\ p \in Players
        /\ rating' = [rating EXCEPT ![p] = 0] /\ rank' = [rank EXCEPT ![p] = Unset]
        /\ UNCHANGED <<queue, roster, active, lastEntry>>
    BY <1>1, Popped DEF PlayerJoin, Pop, IsEntry, PlayerKinds, machine, ghosts
  <2>2. \A m \in MatchIds : Live(m)' => Live(m)
    BY <1>1 DEF PlayerJoin, Pop, Event, Live, Pending, machine
  <2>3. /\ \A q \in queue : q.player # p
        /\ \A m \in MatchIds : Live(m) => p \notin Participants(m)
    BY <2>1 DEF Ground, InOnePlace, QueuedOrComing, LiveTeamsElsewhere
  <2>4. /\ rating'[p] = 0
        /\ \A r \in Players : r # p => rating'[r] = rating[r] /\ rank'[r] = rank[r]
    BY <1>t, <2>1
  <2> HIDE DEF p
  <2>5. \A q \in queue' : q.rating = rating'[q.player]
    BY <1>t, <2>1, <2>3, <2>4 DEF CopiesCurrent
  <2>6. \A m \in MatchIds : Live(m)' =>
           \A r \in Participants(m)' : lastEntry'[r].rating = rating'[r]
    BY <1>t, <2>1, <2>2, <2>3, <2>4 DEF CopiesCurrent, Participants
  <2>7. "ranking" \in Features => \A r \in Players : rating'[r] > 0 => rank'[r] = rating'[r]
    BY <2>4 DEF CopiesCurrent
  <2> QED
    BY <2>5, <2>6, <2>7 DEF CopiesCurrent
<1>2. ASSUME NEW e \in events, PlayerQueue(e) PROVE CopiesCurrent'
  <2>1. \A q \in queue' : q \in queue \/ q.rating = rating[q.player]
    BY <1>2 DEF PlayerQueue
  <2>2. UNCHANGED <<rating, rank, roster, active, lastEntry>>
    BY <1>2 DEF PlayerQueue, ghosts
  <2>3. \A m \in MatchIds : Live(m)' => Live(m)
    BY <1>2, <2>2 DEF PlayerQueue, Pop, Live, Pending
  <2> QED
    BY <2>1, <2>2, <2>3 DEF CopiesCurrent, Participants
<1>3. ASSUME NEW e \in events, SkillChange(e) PROVE CopiesCurrent'
  BY <1>3, CopiesQuiet DEF SkillChange, Event
<1>4. ASSUME NEW e \in events, MatchTimerExpires(e) PROVE CopiesCurrent'
  BY <1>4, CopiesQuiet DEF MatchTimerExpires, observations
<1>5. ASSUME NEW e \in events, MatchTimer(e) PROVE CopiesCurrent'
  <2>1. PICK k \in Nat : \E f \in Formations(Waiting, k) : Forming(e, k, f)
    BY <1>5, FormStep
  <2>2. PICK f \in Formations(Waiting, k) : Forming(e, k, f)
    BY <2>1
  <2> DEFINE matched == Matched(f)
  <2>3. /\ UNCHANGED <<rating, rank>> /\ queue' \subseteq queue
        /\ lastEntry' = [p \in Players |->
              IF p \in matched
              THEN LET q == CHOOSE q \in queue : q.player = p
                   IN  [at |-> q.at, rating |-> q.rating, left |-> e.time]
              ELSE lastEntry[p]]
    BY <2>2 DEF Forming, FormMatches, Matched, observations
  <2> HIDE DEF matched
  <2>4. ASSUME NEW p \in matched PROVE lastEntry'[p].rating = rating[p]
    <3> DEFINE q == CHOOSE q \in queue : q.player = p
    <3>1. q \in queue /\ q.player = p
      BY <2>2, <2>4 DEF Forming, Waiting, matched
    <3>2. p \in Players /\ q.rating = rating[p]
      BY <1>t, <3>1 DEF CopiesCurrent
    <3>3. lastEntry'[p] = [at |-> q.at, rating |-> q.rating, left |-> e.time]
      BY <2>3, <2>4, <3>2
    <3> HIDE DEF q
    <3> QED
      BY <3>2, <3>3
  <2>5. \A p \in Players : p \notin matched => lastEntry'[p] = lastEntry[p]
    BY <2>3
  <2>6. ASSUME NEW m \in MatchIds, Live(m)', NEW p \in Participants(m)'
        PROVE  lastEntry'[p].rating = rating'[p]
    <3>1. CASE m \in DOMAIN f
      BY <2>2, <2>3, <2>4, <2>6, <3>1 DEF Forming, matched
    <3>2. CASE m \notin DOMAIN f
      <4>1. Live(m) /\ p \in Participants(m) /\ p \notin matched
        BY <2>2, <2>6, <3>2 DEF Forming, matched
      <4>2. lastEntry[p].rating = rating[p] /\ p \in Players
        BY <1>t, <4>1 DEF CopiesCurrent
      <4> QED
        BY <2>3, <2>5, <4>1, <4>2
    <3> QED
      BY <3>1, <3>2
  <2> QED
    BY <2>3, <2>6 DEF CopiesCurrent
<1>6. ASSUME NEW e \in events, MatchFormed(e) PROVE CopiesCurrent'
  <2>1. PICK d \in Durations : StartMatch(e, d)
    BY <1>6 DEF MatchFormed
  <2>2. UNCHANGED <<rating, rank, roster, lastEntry, queue>>
    BY <2>1 DEF StartMatch, observations, ghosts
  <2>3. \A m \in MatchIds : Live(m)' => Live(m)
    BY <2>1 DEF StartMatch, Pop, Event, Live, Pending
  <2> QED
    BY <2>2, <2>3, CopiesKept
<1>7. ASSUME NEW e \in events, MatchEnd(e) PROVE CopiesCurrent'
  <2> DEFINE m == e.subject
  <2>1. /\ Participants(m) \subseteq Players
        /\ \A q \in queue : q.player \notin Participants(m)
        /\ \A n \in MatchIds : Live(n) /\ n # m => Participants(n) \cap Participants(m) = {}
        /\ \A n \in MatchIds : Live(n)' => Live(n) /\ n # m
        /\ \A n : Participants(n)' = Participants(n)
    BY <1>7, EndStep
  <2>2. PICK stay : FinishMatch(e, stay)
    BY <1>7, EndStep
  <2>3. /\ UNCHANGED <<queue, lastEntry>>
        /\ rating' = [p \in Players |-> IF p \in Participants(m) THEN rating[p] + 1 ELSE rating[p]]
        /\ "ranking" \in Features => rank' =
              [p \in Players |-> IF p \in Participants(m) THEN rating[p] + 1 ELSE rank[p]]
    BY <2>2 DEF FinishMatch, ghosts
  <2> HIDE DEF m
  <2>4. \A q \in queue' : q.rating = rating'[q.player]
    BY <1>t, <2>1, <2>3 DEF CopiesCurrent
  <2>5. ASSUME NEW n \in MatchIds, Live(n)', NEW p \in Participants(n)'
        PROVE  lastEntry'[p].rating = rating'[p]
    <3>1. Live(n) /\ p \in Participants(n) /\ p \notin Participants(m) /\ p \in Players
      BY <1>t, <2>1, <2>5
    <3> QED
      BY <2>3, <3>1 DEF CopiesCurrent
  <2>6. "ranking" \in Features => \A p \in Players : rating'[p] > 0 => rank'[p] = rating'[p]
    BY <2>3 DEF CopiesCurrent
  <2> QED
    BY <2>4, <2>5, <2>6 DEF CopiesCurrent
<1>8. ASSUME NEW e \in events, DetectionCheck(e) PROVE CopiesCurrent'
  BY <1>8, CopiesQuiet DEF DetectionCheck, Event, observations
<1>9. ASSUME NEW e \in events, RatingUpdate(e) PROVE CopiesCurrent'
  <2>1. /\ UNCHANGED <<rating, machine, ghosts>> /\ Pop(e, "RatingUpdate", {})
        /\ "ranking" \in Features => rank' =
              [p \in Players |-> IF p \in Participants(e.subject) THEN rating[p] ELSE rank[p]]
    BY <1>9 DEF RatingUpdate
  <2>2. \A m \in MatchIds : Live(m)' => Live(m)
    BY <2>1 DEF Pop, Live, Pending, machine
  <2>3. "ranking" \in Features => \A p \in Players : rating'[p] > 0 => rank'[p] = rating'[p]
    BY <2>1 DEF CopiesCurrent
  <2> QED
    BY <2>1, <2>2, <2>3 DEF CopiesCurrent, Participants, machine, ghosts
<1>10. ASSUME NEW e \in events, PlayerQuit(e) PROVE CopiesCurrent'
  <2>1. /\ UNCHANGED <<rating, rank, queue, roster, active, lastEntry>>
        /\ \A m \in MatchIds : Live(m)' => Live(m)
    BY <1>10 DEF PlayerQuit, observations, machine, Pop, Live, Pending
  <2> QED
    BY <2>1, CopiesKept
<1>11. CASE UNCHANGED vars
  BY <1>11, CopiesKept DEF vars, observations, machine, ghosts, Live, Pending
<1> QED
  BY <1>1, <1>2, <1>3, <1>4, <1>5, <1>6, <1>7, <1>8, <1>9, <1>10, <1>11
     DEF Next, Tick, Return

(* No copy of a rating is stale: not the observation kept in the queue,    *)
(* not the one a match was formed on, not the visible rank.  A rating only *)
(* moves at the MatchEnd of a player who is in no queue and no other match.*)
THEOREM CopiesCurrentCorrect == Spec => []CopiesCurrent
<1>1. Init => CopiesCurrent
  BY DEF Init, CopiesCurrent, Live, Pending, Event
<1> QED
  BY <1>1, StepCopiesCurrent, GroundHolds, PTL DEF Spec

-----------------------------------------------------------------------------
(* Copies of times.                                                        *)

(* The time a player joined the queue is in the queue entry and in the     *)
(* observation; the entry a live match was formed from is still the last   *)
(* one; and a match starts in the tick that formed it.                     *)
TimesCopied ==
    /\ \A q \in queue : q.at = joinedAt[q.player]
    /\ \A m \in MatchIds : Live(m) =>
          \A p \in Participants(m) : lastEntry[p].at = joinedAt[p] /\ joinedAt[p] # Unset
    /\ \A e \in events : e.kind = "MatchFormed" =>
          \A p \in Participants(e.subject) : lastEntry[p].left = e.time

Playing(p) == \E m \in active : p \in Participants(m)

LEMMA TimesKept ==
    ASSUME TimesCopied, QueueTimeIsWait,
           UNCHANGED <<joinedAt, queueTime, active, roster, lastEntry>>,
           queue' \subseteq queue,
           NEW e \in events, NEW kind, NEW emitted, Pop(e, kind, emitted),
           \A g \in emitted : g.kind # "MatchFormed"
    PROVE  (TimesCopied /\ QueueTimeIsWait)'
<1>1. \A g \in events' : g.kind = "MatchFormed" => g \in events
  BY DEF Pop
<1>2. \A m \in MatchIds : Live(m)' => Live(m)
  BY <1>1 DEF Live, Pending
<1>3. \A m : Participants(m)' = Participants(m)
  BY DEF Participants
<1> QED
  BY <1>1, <1>2, <1>3 DEF TimesCopied, QueueTimeIsWait

LEMMA StepQueueTime ==
    Ground /\ TimesCopied /\ QueueTimeIsWait /\ [Next]_vars => (TimesCopied /\ QueueTimeIsWait)'
<1> SUFFICES ASSUME Ground, TimesCopied, QueueTimeIsWait, [Next]_vars
             PROVE  TimesCopied' /\ QueueTimeIsWait'
  OBVIOUS
<1>t. /\ joinedAt \in [Players -> Nat \cup {Unset}] /\ queueTime \in [Players -> Int]
      /\ \A q \in queue : q.player \in Players /\ q.at \in Nat
      /\ \A m \in MatchIds : Participants(m) \subseteq Players
      /\ active \subseteq MatchIds
      /\ Unset \notin Nat
  BY DEF Ground, TypeOK, Participants, Teams, Unset
<1>q. \A p \in Players :
         queueTime[p] = IF Playing(p) THEN lastEntry[p].left - lastEntry[p].at ELSE Unset
  BY DEF QueueTimeIsWait, Playing
<1>1. ASSUME NEW e \in events, PlayerJoin(e) \/ PlayerQueue(e) PROVE TimesCopied' /\ QueueTimeIsWait'
  <2> DEFINE p == e.subject
  <2>1. /\ IsEntry(e) /\ p \in Players /\ e.time \in Nat
        /\ UNCHANGED <<roster, active, lastEntry, queueTime>>
    BY <1>1, Popped DEF PlayerJoin, PlayerQueue, Pop, IsEntry, PlayerKinds, machine, ghosts
  <2>2. \A g \in events' : g.kind = "MatchFormed" => g \in events
    BY <1>1 DEF PlayerJoin, PlayerQueue, Pop, Event
  <2>3. \A m \in MatchIds : Live(m)' => Live(m)
    BY <2>1, <2>2 DEF Live, Pending
  <2>4. /\ \A q \in queue : q.player # p
        /\ \A m \in MatchIds : Live(m) => p \notin Participants(m)
    BY <2>1 DEF Ground, InOnePlace, QueuedOrComing, LiveTeamsElsewhere
  <2>5. /\ joinedAt' = joinedAt \/ joinedAt' = [joinedAt EXCEPT ![p] = e.time]
        /\ \A q \in queue' : q \in queue \/ (q.player = p /\ q.at = e.time /\ joinedAt'[p] = e.time)
    BY <1>1, <1>t, <2>1 DEF PlayerJoin, PlayerQueue, machine
  <2>6. \A r \in Players : r # p => joinedAt'[r] = joinedAt[r]
    BY <1>t, <2>5
  <2>7. \A m : Participants(m)' = Participants(m)
    BY <2>1 DEF Participants
  <2> HIDE DEF p
  <2>8. \A q \in queue' : q.at = joinedAt'[q.player]
    BY <1>t, <2>4, <2>5, <2>6 DEF TimesCopied
  <2>9. \A m \in MatchIds : Live(m)' =>
           \A r \in Participants(m)' : lastEntry'[r].at = joinedAt'[r] /\ joinedAt'[r] # Unset
    BY <1>t, <2>1, <2>3, <2>4, <2>6, <2>7 DEF TimesCopied
  <2>10. TimesCopied'
    BY <2>1, <2>2, <2>7, <2>8, <2>9 DEF TimesCopied
  <2> QED
    BY <2>1, <2>7, <2>10 DEF QueueTimeIsWait
<1>2. ASSUME NEW e \in events, SkillChange(e) PROVE TimesCopied' /\ QueueTimeIsWait'
  BY <1>2, TimesKept DEF SkillChange, Event, machine, ghosts
<1>3. ASSUME NEW e \in events, MatchTimerExpires(e) PROVE TimesCopied' /\ QueueTimeIsWait'
  BY <1>3, TimesKept DEF MatchTimerExpires, observations, machine, ghosts
<1>4. ASSUME NEW e \in events, MatchTimer(e) PROVE TimesCopied' /\ QueueTimeIsWait'
  <2>1. PICK k \in Nat : \E f \in Formations(Waiting, k) : Forming(e, k, f)
    BY <1>4, FormStep
  <2>2. PICK f \in Formations(Waiting, k) : Forming(e, k, f)
    BY <2>1
  <2>3. /\ UNCHANGED <<joinedAt, active, queueTime>> /\ queue' \subseteq queue
        /\ lastEntry' = [p \in Players |->
              IF p \in Matched(f)
              THEN LET q == CHOOSE q \in queue : q.player = p
                   IN  [at |-> q.at, rating |-> q.rating, left |-> e.time]
              ELSE lastEntry[p]]
    BY <2>2 DEF Forming, FormMatches, Matched, observations
  <2>4. \A g \in events' : g.kind = "MatchFormed" =>
           g \in events \/ (g.time = e.time /\ g.subject \in DOMAIN f)
    BY <2>2 DEF Forming, FormMatches, Pop, Event
  <2>5. ASSUME NEW p \in Matched(f)
        PROVE  lastEntry'[p].left = e.time /\ lastEntry'[p].at = joinedAt[p] /\ joinedAt[p] # Unset
    <3> DEFINE q == CHOOSE q \in queue : q.player = p
    <3>1. q \in queue /\ q.player = p
      BY <2>2, <2>5 DEF Forming, Waiting
    <3>2. p \in Players /\ q.at = joinedAt[p] /\ q.at \in Nat
      BY <1>t, <3>1 DEF TimesCopied
    <3>3. lastEntry'[p] = [at |-> q.at, rating |-> q.rating, left |-> e.time]
      BY <2>3, <2>5, <3>2
    <3> HIDE DEF q
    <3> QED
      BY <1>t, <3>2, <3>3
  <2>6. \A p \in Players : p \notin Matched(f) => lastEntry'[p] = lastEntry[p]
    BY <2>3
  <2>7. ASSUME NEW m \in MatchIds, Live(m)
        PROVE  /\ m \notin DOMAIN f /\ Participants(m)' = Participants(m)
               /\ \A p \in Participants(m) : lastEntry'[p] = lastEntry[p]
    BY <1>t, <2>2, <2>6, <2>7 DEF Forming
  <2>8. ASSUME NEW m \in DOMAIN f, NEW p \in Participants(m)' PROVE p \in Matched(f)
    BY <2>2, <2>8 DEF Forming
  <2>9. \A m \in MatchIds : Live(m)' => m \in DOMAIN f \/ Live(m)
    BY <2>2 DEF Forming
  <2>10. \A m \in MatchIds : Live(m)' =>
            \A p \in Participants(m)' : lastEntry'[p].at = joinedAt'[p] /\ joinedAt'[p] # Unset
    <3>1. ASSUME NEW m \in MatchIds, m \in DOMAIN f, NEW p \in Participants(m)'
          PROVE  lastEntry'[p].at = joinedAt'[p] /\ joinedAt'[p] # Unset
      BY <2>3, <2>5, <2>8, <3>1
    <3>2. ASSUME NEW m \in MatchIds, Live(m), NEW p \in Participants(m)'
          PROVE  lastEntry'[p].at = joinedAt'[p] /\ joinedAt'[p] # Unset
      BY <2>3, <2>7, <3>2 DEF TimesCopied
    <3> QED
      BY <2>9, <3>1, <3>2
  <2>11. \A g \in events' : g.kind = "MatchFormed" =>
            \A p \in Participants(g.subject)' : lastEntry'[p].left = g.time
    <3>1. ASSUME NEW g \in events, g.kind = "MatchFormed"
          PROVE  \A p \in Participants(g.subject)' : lastEntry'[p].left = g.time
      BY <2>7, <3>1, StartsFormed DEF TimesCopied
    <3> QED
      BY <2>4, <2>5, <2>8, <3>1
  <2>12. ASSUME NEW p \in Players
         PROVE  queueTime'[p] = IF Playing(p)' THEN lastEntry'[p].left - lastEntry'[p].at ELSE Unset
    <3>1. \A m \in active : m \in MatchIds /\ Live(m)
      BY <1>t DEF Live
    <3>2. Playing(p)' <=> Playing(p)
      BY <2>3, <2>7, <3>1 DEF Playing
    <3>3. Playing(p) => lastEntry'[p] = lastEntry[p]
      BY <2>7, <3>1 DEF Playing
    <3> QED
      BY <1>q, <2>3, <3>2, <3>3
  <2>13. \A q \in queue' : q.at = joinedAt'[q.player]
    BY <2>3 DEF TimesCopied
  <2> QED
    BY <2>10, <2>11, <2>12, <2>13 DEF TimesCopied, QueueTimeIsWait, Playing
<1>5. ASSUME NEW e \in events, MatchFormed(e) PROVE TimesCopied' /\ QueueTimeIsWait'
  <2> DEFINE m == e.subject
  <2>1. PICK d \in Durations : StartMatch(e, d)
    BY <1>5 DEF MatchFormed
  <2>2. /\ e.kind = "MatchFormed"
        /\ active' = active \cup {m}
        /\ queueTime' = [p \in Players |->
              IF p \in Participants(m) /\ joinedAt[p] # Unset
              THEN e.time - joinedAt[p] ELSE queueTime[p]]
        /\ UNCHANGED <<joinedAt, roster, queue, lastEntry>>
    BY <2>1 DEF StartMatch, Pop, observations, ghosts
  <2>3. \A g \in events' : g.kind = "MatchFormed" => g \in events
    BY <2>1 DEF StartMatch, Pop, Event
  <2>4. m \in MatchIds /\ Live(m)
    BY <2>2, StartsFormed
  <2>5. \A n \in MatchIds : Live(n)' => Live(n)
    BY <2>2, <2>3, <2>4 DEF Live, Pending
  <2>6. \A n : Participants(n)' = Participants(n)
    BY <2>2 DEF Participants
  <2>7. \A p \in Participants(m) :
           lastEntry[p].at = joinedAt[p] /\ joinedAt[p] # Unset /\ lastEntry[p].left = e.time
    BY <2>2, <2>4 DEF TimesCopied
  <2> HIDE DEF m
  <2>8. \A p \in Players : Playing(p)' <=> Playing(p) \/ p \in Participants(m)
    BY <2>2, <2>6 DEF Playing
  <2>9. ASSUME NEW p \in Players
        PROVE  queueTime'[p] = IF Playing(p)' THEN lastEntry'[p].left - lastEntry'[p].at ELSE Unset
    BY <1>q, <2>2, <2>7, <2>8
  <2>10. TimesCopied'
    BY <2>2, <2>3, <2>5, <2>6 DEF TimesCopied
  <2> QED
    BY <2>9, <2>10 DEF QueueTimeIsWait, Playing
<1>6. ASSUME NEW e \in events, MatchEnd(e) PROVE TimesCopied' /\ QueueTimeIsWait'
  <2> DEFINE m == e.subject
  <2>1. /\ m \in MatchIds /\ m \in active
        /\ \A n \in MatchIds : Live(n) /\ n # m => Participants(n) \cap Participants(m) = {}
        /\ \A n \in MatchIds : Live(n)' => Live(n) /\ n # m
        /\ \A n : Participants(n)' = Participants(n)
    BY <1>6, EndStep
  <2>2. PICK stay : FinishMatch(e, stay)
    BY <1>6, EndStep
  <2>3. /\ UNCHANGED <<joinedAt, queue, lastEntry>>
        /\ active' = active \ {m}
        /\ queueTime' = [p \in Players |-> IF p \in Participants(m) THEN Unset ELSE queueTime[p]]
    BY <2>2 DEF FinishMatch, ghosts
  <2>4. \A g \in events' : g.kind = "MatchFormed" => g \in events
    BY <2>2 DEF FinishMatch, Pop, AfterMatch, Event
  <2> HIDE DEF m
  <2>5. \A p \in Players : Playing(p)' <=> Playing(p) /\ p \notin Participants(m)
    BY <1>t, <2>1, <2>3 DEF Playing, Live
  <2>6. ASSUME NEW p \in Players
        PROVE  queueTime'[p] = IF Playing(p)' THEN lastEntry'[p].left - lastEntry'[p].at ELSE Unset
    BY <1>q, <2>3, <2>5
  <2>7. TimesCopied'
    BY <2>1, <2>3, <2>4 DEF TimesCopied
  <2> QED
    BY <2>6, <2>7 DEF QueueTimeIsWait, Playing
<1>7. ASSUME NEW e \in events, DetectionCheck(e) PROVE TimesCopied' /\ QueueTimeIsWait'
  BY <1>7, TimesKept DEF DetectionCheck, Event, observations, machine, ghosts
<1>8. ASSUME NEW e \in events, RatingUpdate(e) PROVE TimesCopied' /\ QueueTimeIsWait'
  BY <1>8, TimesKept DEF RatingUpdate, machine, ghosts
<1>9. ASSUME NEW e \in events, PlayerQuit(e) PROVE TimesCopied' /\ QueueTimeIsWait'
  BY <1>9, TimesKept DEF PlayerQuit, observations, machine
<1>10. CASE UNCHANGED vars
  BY <1>10 DEF vars, observations, machine, ghosts, TimesCopied, QueueTimeIsWait, Live, Pending,
               Participants
<1> QED
  BY <1>1, <1>2, <1>3, <1>4, <1>5, <1>6, <1>7, <1>8, <1>9, <1>10 DEF Next, Tick, Return

(* The queue time collect_post_match gives the satisfaction model is what  *)
(* the player waited for this match, although it is computed from a field  *)
(* that PlayerJoin and PlayerQueue both overwrite, one tick after the      *)
(* queue entry was removed; and the entry is gone once the match is over.  *)
THEOREM QueueTimeIsWaitCorrect == Spec => []QueueTimeIsWait
<1>1. Init => TimesCopied /\ QueueTimeIsWait
  BY DEF Init, TimesCopied, QueueTimeIsWait, Live, Pending, Event
<1> QED
  BY <1>1, StepQueueTime, GroundHolds, PTL DEF Spec

-----------------------------------------------------------------------------
(* The recorded history.                                                   *)

(* The matches of player p among the first n recorded.                     *)
RecordedOf(p, n) == { j \in 1 .. n : \E t \in history[j].seen : t[1] = p }

ChainHolds ==
    \A i \in 1 .. Len(history) : \A s \in history[i].seen :
        s[2] = Cardinality(RecordedOf(s[1], i - 1))

(* A rating, being the number of updates it has received, is the number of *)
(* the player's recorded matches; a player who has yet to join, and whose  *)
(* rating will then start again from the population's, has none.           *)
RatingsRecorded ==
    /\ Len(history) = completed
    /\ \A p \in Players : rating[p] = Cardinality(RecordedOf(p, Len(history)))
    /\ \A e \in events : e.kind = "PlayerJoin" => RecordedOf(e.subject, Len(history)) = {}

LEMMA HistoryKept ==
    ASSUME ChainHolds, RatingsRecorded, UNCHANGED <<rating, history, completed>>,
           \A g \in events' : g.kind = "PlayerJoin" => g \in events
    PROVE  (ChainHolds /\ RatingsRecorded)'
BY DEF ChainHolds, RatingsRecorded, RecordedOf

LEMMA StepHistory ==
    ASSUME Ground, ChainHolds, RatingsRecorded, [Next]_vars, "history" \in Features
    PROVE  (ChainHolds /\ RatingsRecorded)'
<1> DEFINE Goal == (ChainHolds /\ RatingsRecorded)'
<1>1. ASSUME NEW e \in events, PlayerJoin(e) PROVE Goal
  <2> DEFINE p == e.subject
  <2>1. /\ e.kind = "PlayerJoin" /\ p \in Players
        /\ rating' = [rating EXCEPT ![p] = 0]
        /\ UNCHANGED <<history, completed>>
    BY <1>1, Popped DEF PlayerJoin, Pop, PlayerKinds, machine
  <2>2. RecordedOf(p, Len(history)) = {}
    BY <2>1 DEF RatingsRecorded
  <2>3. rating[p] = 0 /\ rating \in [Players -> Nat]
    BY <2>1, <2>2, FS_EmptySet DEF RatingsRecorded, Ground, TypeOK
  <2>4. rating' = rating
    BY <2>1, <2>3
  <2>5. \A g \in events' : g.kind = "PlayerJoin" => g \in events
    BY <1>1 DEF PlayerJoin, Pop, Event
  <2> QED
    BY <2>1, <2>4, <2>5, HistoryKept
<1>2. ASSUME NEW e \in events, PlayerQueue(e) PROVE Goal
  <2>1. \A g \in events' : g.kind = "PlayerJoin" => g \in events
    BY <1>2 DEF PlayerQueue, Pop
  <2> QED
    BY <1>2, <2>1, HistoryKept DEF PlayerQueue
<1>3. ASSUME NEW e \in events, SkillChange(e) PROVE Goal
  <2>1. \A g \in events' : g.kind = "PlayerJoin" => g \in events
    BY <1>3 DEF SkillChange, Pop, Event
  <2> QED
    BY <1>3, <2>1, HistoryKept DEF SkillChange, machine
<1>4. ASSUME NEW e \in events, MatchTimerExpires(e) PROVE Goal
  <2>1. \A g \in events' : g.kind = "PlayerJoin" => g \in events
    BY <1>4 DEF MatchTimerExpires, Pop
  <2> QED
    BY <1>4, <2>1, HistoryKept DEF MatchTimerExpires, observations, machine
<1>5. ASSUME NEW e \in events, MatchTimer(e) PROVE Goal
  <2>1. PICK k, f : FormMatches(e, k, f)
    BY <1>5 DEF MatchTimer
  <2>2. \A g \in events' : g.kind = "PlayerJoin" => g \in events
    BY <2>1 DEF FormMatches, Pop, Event
  <2> QED
    BY <2>1, <2>2, HistoryKept DEF FormMatches, observations
<1>6. ASSUME NEW e \in events, MatchFormed(e) PROVE Goal
  <2>1. PICK d \in Durations : StartMatch(e, d)
    BY <1>6 DEF MatchFormed
  <2>2. \A g \in events' : g.kind = "PlayerJoin" => g \in events
    BY <2>1 DEF StartMatch, Pop, Event
  <2> QED
    BY <2>1, <2>2, HistoryKept DEF StartMatch, observations
<1>7. ASSUME NEW e \in events, MatchEnd(e) PROVE Goal
  <2> DEFINE P == Participants(e.subject)
             r == [match |-> e.subject, seen |-> { <<p, rating[p]>> : p \in P }]
  <2>1. /\ P \subseteq Players
        /\ \A g \in events : IsEntry(g) => g.subject \notin P
    BY <1>7, EndStep
  <2>2. PICK stay : FinishMatch(e, stay)
    BY <1>7, EndStep
  <2>3. /\ history' = Append(history, r)
        /\ completed' = completed + 1
        /\ rating' = [p \in Players |-> IF p \in P THEN rating[p] + 1 ELSE rating[p]]
    BY <2>2 DEF FinishMatch
  <2>4. \A g \in events' : g.kind = "PlayerJoin" => g \in events
    BY <2>2 DEF FinishMatch, Pop, AfterMatch, Event
  <2>5. \A s \in r.seen : s[1] \in P /\ s[2] = rating[s[1]]
    OBVIOUS
  <2>6. \A p \in P : \E s \in r.seen : s[1] = p
    <3>1. \A p \in P : <<p, rating[p]>> \in r.seen /\ <<p, rating[p]>>[1] = p
      OBVIOUS
    <3> QED
      BY <3>1
  <2>n. PICK n \in Nat : n = Len(history)
    BY DEF Ground, TypeOK
  <2>7. /\ Len(history') = n + 1 /\ history'[n + 1] = r
        /\ \A j \in 1 .. n : history'[j] = history[j]
    <3> HIDE DEF r
    <3>1. history \in Seq([match : MatchIds, seen : SUBSET (Players \X Nat)])
      BY DEF Ground, TypeOK
    <3> QED
      BY <2>3, <2>n, <3>1
  <2>8. rating \in [Players -> Nat] /\ completed = n
    BY <2>n DEF Ground, TypeOK, RatingsRecorded
  <2> HIDE DEF r, P
  <2>9. \A p, i : i \in 0 .. n => RecordedOf(p, i)' = RecordedOf(p, i)
    BY <2>7 DEF RecordedOf
  <2>10. ASSUME NEW p PROVE RecordedOf(p, n + 1)' = IF p \in P THEN RecordedOf(p, n) \cup {n + 1}
                                                              ELSE RecordedOf(p, n)
    <3>1. (\E t \in history'[n + 1].seen : t[1] = p) <=> p \in P
      BY <2>5, <2>6, <2>7
    <3>2. 1 .. n + 1 = (1 .. n) \cup {n + 1} /\ n + 1 \notin 1 .. n
      BY <2>7
    <3>3. ASSUME NEW j \in 1 .. n PROVE j \in RecordedOf(p, n + 1)' <=> j \in RecordedOf(p, n)
      BY <2>7, <3>2 DEF RecordedOf
    <3>4. n + 1 \in RecordedOf(p, n + 1)' <=> p \in P
      BY <3>1, <3>2 DEF RecordedOf
    <3>5. RecordedOf(p, n) \subseteq 1 .. n /\ RecordedOf(p, n + 1)' \subseteq 1 .. n + 1
      BY DEF RecordedOf
    <3> DEFINE before == RecordedOf(p, n)
               after  == RecordedOf(p, n + 1)'
    <3>6. \A j \in 1 .. n : j \in after <=> j \in before
      BY <3>3
    <3>7. before \subseteq 1 .. n /\ after \subseteq (1 .. n) \cup {n + 1}
      BY <3>2, <3>5
    <3>8. n + 1 \in after <=> p \in P
      BY <3>4
    <3> HIDE DEF before, after
    <3>9. ASSUME p \in P PROVE after = before \cup {n + 1}
      BY <3>6, <3>7, <3>8, <3>9
    <3>10. ASSUME p \notin P PROVE after = before
      BY <3>6, <3>7, <3>8, <3>10
    <3> QED
      BY <3>9, <3>10 DEF before, after
  <2>11. ASSUME NEW p \in Players PROVE rating'[p] = Cardinality(RecordedOf(p, n + 1)')
    <3>1. IsFiniteSet(RecordedOf(p, n)) /\ n + 1 \notin RecordedOf(p, n)
      BY <2>7, FS_Interval, FS_Subset DEF RecordedOf
    <3>2. Cardinality(RecordedOf(p, n) \cup {n + 1}) = Cardinality(RecordedOf(p, n)) + 1
      BY <3>1, FS_AddElement
    <3>3. rating[p] = Cardinality(RecordedOf(p, n))
      BY <2>n DEF RatingsRecorded
    <3> QED
      BY <2>3, <2>10, <3>2, <3>3
  <2>12. ChainHolds'
    <3> SUFFICES ASSUME NEW i \in 1 .. n + 1, NEW s \in history'[i].seen
                 PROVE  s[2] = Cardinality(RecordedOf(s[1], i - 1)')
      BY <2>7 DEF ChainHolds, RecordedOf
    <3>1. CASE i \in 1 .. n
      BY <2>7, <2>9, <2>n, <3>1 DEF ChainHolds
    <3>2. CASE i = n + 1
      <4>1. s[1] \in P /\ s[2] = rating[s[1]]
        BY <2>5, <2>7, <3>2
      <4>2. s[2] = Cardinality(RecordedOf(s[1], n))
        BY <2>1, <2>n, <4>1 DEF RatingsRecorded
      <4> QED
        BY <2>7, <2>9, <3>2, <4>2
    <3> QED
      BY <2>7, <3>1, <3>2
  <2>13. \A g \in events' : g.kind = "PlayerJoin" => RecordedOf(g.subject, n + 1)' = {}
    <3>1. ASSUME NEW g \in events, g.kind = "PlayerJoin" PROVE RecordedOf(g.subject, n + 1)' = {}
      <4>1. g.subject \notin P
        BY <2>1, <3>1 DEF IsEntry
      <4> QED
        BY <2>10, <3>1, <2>n, <4>1 DEF RatingsRecorded
    <3> QED
      BY <2>4, <3>1
  <2>14. Len(history') = completed'
    BY <2>3, <2>7, <2>8
  <2> QED
    BY <2>7, <2>11, <2>12, <2>13, <2>14 DEF RatingsRecorded
<1>8. ASSUME NEW e \in events, DetectionCheck(e) PROVE Goal
  <2>1. \A g \in events' : g.kind = "PlayerJoin" => g \in events
    BY <1>8 DEF DetectionCheck, Pop, Event
  <2> QED
    BY <1>8, <2>1, HistoryKept DEF DetectionCheck, observations, machine
<1>9. ASSUME NEW e \in events, RatingUpdate(e) PROVE Goal
  <2>1. \A g \in events' : g.kind = "PlayerJoin" => g \in events
    BY <1>9 DEF RatingUpdate, Pop
  <2> QED
    BY <1>9, <2>1, HistoryKept DEF RatingUpdate, machine
<1>10. ASSUME NEW e \in events, PlayerQuit(e) PROVE Goal
  <2>1. \A g \in events' : g.kind = "PlayerJoin" => g \in events
    BY <1>10 DEF PlayerQuit, Pop
  <2> QED
    BY <1>10, <2>1, HistoryKept DEF PlayerQuit, observations, machine
<1>11. CASE UNCHANGED vars
  BY <1>11, HistoryKept DEF vars, observations, machine
<1> QED
  BY <1>1, <1>2, <1>3, <1>4, <1>5, <1>6, <1>7, <1>8, <1>9, <1>10, <1>11
     DEF Next, Tick, Return

(* The ratings recorded with a player's i-th match are the ratings left by *)
(* the i-1 before it: a replay of the history updates every rating from    *)
(* where the live run did, whichever of two matches that end in one tick   *)
(* the heap pops first, and although PlayerJoin resets the rating.         *)
THEOREM HistoryChainCorrect == Spec => []HistoryChain
<1> DEFINE IInv == "history" \in Features => ChainHolds /\ RatingsRecorded
<1>1. Init => IInv
  <2> SUFFICES ASSUME Init PROVE ChainHolds /\ RatingsRecorded
    OBVIOUS
  <2>1. history = <<>> /\ completed = 0 /\ \A p \in Players : rating[p] = 0
    BY DEF Init
  <2>2. Len(history) = 0 /\ \A p : RecordedOf(p, 0) = {}
    BY <2>1 DEF RecordedOf
  <2>3. ChainHolds
    BY <2>1, <2>2 DEF ChainHolds
  <2>4. \A p : RecordedOf(p, Len(history)) = {}
    BY <2>2
  <2> QED
    BY <2>1, <2>2, <2>3, <2>4, FS_EmptySet DEF RatingsRecorded
<1>2. Ground /\ IInv /\ [Next]_vars => IInv'
  BY StepHistory
<1>3. IInv => HistoryChain
  BY DEF HistoryChain, ChainHolds, RatingsRecorded, RecordedOf
<1> QED
  BY <1>1, <1>2, <1>3, GroundHolds, PTL DEF Spec

-----------------------------------------------------------------------------
(* Players who leave.                                                      *)

(* Not queued, not on the way to the queue, not in a live match.           *)
Away(p) ==
    /\ \A q \in queue : q.player # p
    /\ \A e \in events : IsEntry(e) => e.subject # p
    /\ \A m \in MatchIds : Live(m) => p \notin Participants(m)

(* A step that brings nobody back but players who were in some place.      *)
LEMMA AwayKept ==
    ASSUME NEW p, Away(p),
           \A q \in queue' : q \in queue \/ q.player # p,
           NEW e \in events, NEW kind, NEW emitted, Pop(e, kind, emitted),
           \A g \in emitted : g.kind # "MatchFormed" /\ (IsEntry(g) => g.subject # p),
           active' \subseteq active, roster' = roster
    PROVE  Away(p)'
<1>1. \A g \in events' : IsEntry(g) => g.subject # p
  BY DEF Pop, Away
<1>2. \A m \in MatchIds : Live(m)' => Live(m)
  BY DEF Pop, Live, Pending
<1>3. \A m : Participants(m)' = Participants(m)
  BY DEF Participants
<1> QED
  BY <1>1, <1>2, <1>3 DEF Away, IsEntry

(* A player who is nowhere stays nowhere: there is no way back.            *)
LEMMA AwayForever ==
    ASSUME Ground, [Next]_vars, NEW p, Away(p)
    PROVE  Away(p)'
<1>1. ASSUME NEW e \in events, PlayerJoin(e) PROVE Away(p)'
  <2>1. e.subject # p
    BY <1>1 DEF Away, IsEntry, PlayerJoin, Pop
  <2> QED
    BY <1>1, <2>1, AwayKept DEF PlayerJoin, machine, Event
<1>2. ASSUME NEW e \in events, PlayerQueue(e) PROVE Away(p)'
  <2>1. e.subject # p
    BY <1>2 DEF Away, IsEntry, PlayerQueue, Pop
  <2>2. \A q \in queue' : q \in queue \/ q.player # p
    BY <1>2, <2>1 DEF PlayerQueue
  <2> QED
    BY <1>2, <2>2, AwayKept DEF PlayerQueue
<1>3. ASSUME NEW e \in events, SkillChange(e) PROVE Away(p)'
  BY <1>3, AwayKept DEF SkillChange, machine, Event, IsEntry
<1>4. ASSUME NEW e \in events, MatchTimerExpires(e) PROVE Away(p)'
  BY <1>4, AwayKept DEF MatchTimerExpires, machine
<1>5. ASSUME NEW e \in events, MatchTimer(e) PROVE Away(p)'
  <2>1. PICK k \in Nat : \E f \in Formations(Waiting, k) : Forming(e, k, f)
    BY <1>5, FormStep
  <2>2. PICK f \in Formations(Waiting, k) : Forming(e, k, f)
    BY <2>1
  <2>3. p \notin Matched(f)
    BY <2>2 DEF Forming, Waiting, Away
  <2>4. \A m \in MatchIds : Live(m)' => p \notin Participants(m)'
    BY <2>2, <2>3 DEF Forming, Away
  <2>5. /\ queue' \subseteq queue
        /\ \A g \in events' : IsEntry(g) => g \in events
    BY <2>2 DEF Forming, FormMatches, Pop, Event, IsEntry
  <2> QED
    BY <2>4, <2>5 DEF Away, IsEntry
<1>6. ASSUME NEW e \in events, MatchFormed(e) PROVE Away(p)'
  <2>1. PICK d \in Durations : StartMatch(e, d)
    BY <1>6 DEF MatchFormed
  <2>2. /\ e.kind = "MatchFormed" /\ active' = active \cup {e.subject}
        /\ UNCHANGED <<queue, roster>>
        /\ \A g \in events' : g \in events \/ g.kind = "MatchEnd"
    BY <2>1 DEF StartMatch, Pop, Event
  <2>3. \A m \in MatchIds : Live(m)' => Live(m)
    BY <2>2, StartsFormed DEF Live, Pending
  <2> QED
    BY <2>2, <2>3 DEF Away, IsEntry, Participants
<1>7. ASSUME NEW e \in events, MatchEnd(e) PROVE Away(p)'
  <2>1. p \notin Participants(e.subject)
    BY <1>7, EndStep DEF Away
  <2>2. PICK stay \in SUBSET Participants(e.subject) : FinishMatch(e, stay)
    BY <1>7, EndStep
  <2>3. \A g \in AfterMatch(e.subject, e.time, stay) :
           g.kind # "MatchFormed" /\ (IsEntry(g) => g.subject # p)
    BY <2>1 DEF AfterMatch, Event, IsEntry
  <2> QED
    BY <2>2, <2>3, AwayKept DEF FinishMatch
<1>8. ASSUME NEW e \in events, DetectionCheck(e) PROVE Away(p)'
  BY <1>8, AwayKept DEF DetectionCheck, machine, Event, IsEntry
<1>9. ASSUME NEW e \in events, RatingUpdate(e) PROVE Away(p)'
  BY <1>9, AwayKept DEF RatingUpdate, machine
<1>10. ASSUME NEW e \in events, PlayerQuit(e) PROVE Away(p)'
  BY <1>10, AwayKept DEF PlayerQuit, machine
<1>11. CASE UNCHANGED vars
  BY <1>11 DEF vars, machine, Away, Live, Pending, Participants
<1> QED
  BY <1>1, <1>2, <1>3, <1>4, <1>5, <1>6, <1>7, <1>8, <1>9, <1>10, <1>11
     DEF Next, Tick, Return

(* Without a detector only players who are not retained quit, and they do  *)
(* not come back to the queue in between.                                  *)
LeftForGood ==
    /\ \A e \in events : e.kind # "DetectionCheck"
    /\ \A p \in Players : p \in gone \/ Pending("PlayerQuit", p) => Away(p)

LEMMA StepLeftForGood ==
    ASSUME Ground, LeftForGood, [Next]_vars, "detection" \notin Features
    PROVE  LeftForGood'
<1>t. gone \subseteq Players
  BY DEF Ground, TypeOK
<1>k. ASSUME \A g \in events' : g \in events \/ g.kind \notin {"DetectionCheck", "PlayerQuit"},
             gone' = gone
      PROVE  LeftForGood'
  BY <1>k, AwayForever DEF LeftForGood, Pending
<1>1. ASSUME NEW e \in events, PlayerJoin(e) \/ PlayerQueue(e) \/ SkillChange(e)
             \/ MatchTimerExpires(e) \/ RatingUpdate(e)
      PROVE  LeftForGood'
  BY <1>1, <1>k DEF PlayerJoin, PlayerQueue, SkillChange, MatchTimerExpires, RatingUpdate, Pop,
                    Event, ghosts
<1>2. ASSUME NEW e \in events, MatchTimer(e) PROVE LeftForGood'
  <2>1. PICK k, f : FormMatches(e, k, f)
    BY <1>2 DEF MatchTimer
  <2> QED
    BY <2>1, <1>k DEF FormMatches, Pop, Event
<1>3. ASSUME NEW e \in events, MatchFormed(e) PROVE LeftForGood'
  BY <1>3, <1>k DEF MatchFormed, StartMatch, Pop, Event, ghosts
<1>4. ASSUME NEW e \in events, MatchEnd(e) PROVE LeftForGood'
  <2> DEFINE m == e.subject
  <2>1. /\ \A q \in queue : q.player \notin Participants(m)
        /\ \A g \in events : IsEntry(g) => g.subject \notin Participants(m)
        /\ \A n \in MatchIds : Live(n) /\ n # m => Participants(n) \cap Participants(m) = {}
        /\ \A n \in MatchIds : Live(n)' => Live(n) /\ n # m
        /\ \A n : Participants(n)' = Participants(n)
    BY <1>4, EndStep
  <2>2. PICK stay \in SUBSET Participants(m) : FinishMatch(e, stay)
    BY <1>4, EndStep
  <2> DEFINE after == AfterMatch(m, e.time, stay)
  <2>3. /\ events' = (events \ {e}) \cup after
        /\ queue' = queue /\ gone' = gone
    BY <2>2 DEF FinishMatch, Pop, ghosts
  <2>4. /\ \A g \in after : g.kind # "DetectionCheck"
        /\ \A g \in after : IsEntry(g) => g.subject \in stay
        /\ \A g \in after : g.kind = "PlayerQuit" => g.subject \in Participants(m) \ stay
    BY DEF AfterMatch, Event, IsEntry
  <2> HIDE DEF m, after
  <2>5. ASSUME NEW p \in Participants(m) \ stay PROVE Away(p)'
    <3>1. \A q \in queue' : q.player # p
      BY <2>1, <2>3
    <3>2. \A g \in events' : IsEntry(g) => g.subject # p
      BY <2>1, <2>3, <2>4
    <3>3. \A n \in MatchIds : Live(n)' => p \notin Participants(n)'
      BY <2>1
    <3> QED
      BY <3>1, <3>2, <3>3 DEF Away, IsEntry
  <2>6. ASSUME NEW p \in Players, p \in gone' \/ Pending("PlayerQuit", p)' PROVE Away(p)'
    <3>1. CASE p \in gone \/ Pending("PlayerQuit", p)
      BY <3>1, AwayForever DEF LeftForGood
    <3>2. CASE ~(p \in gone \/ Pending("PlayerQuit", p))
      <4>1. p \in Participants(m) \ stay
        BY <2>3, <2>4, <2>6, <3>2 DEF Pending
      <4> QED
        BY <2>5, <4>1
    <3> QED
      BY <3>1, <3>2
  <2>7. \A g \in events' : g.kind # "DetectionCheck"
    BY <2>3, <2>4 DEF LeftForGood
  <2> QED
    BY <2>6, <2>7 DEF LeftForGood
<1>5. ASSUME NEW e \in events, DetectionCheck(e) PROVE LeftForGood'
  BY <1>5 DEF DetectionCheck, Pop, LeftForGood
<1>6. ASSUME NEW e \in events, PlayerQuit(e) PROVE LeftForGood'
  <2>1. /\ e.kind = "PlayerQuit" /\ events' = events \ {e} /\ gone' = gone \cup {e.subject}
    BY <1>6 DEF PlayerQuit, Pop
  <2>2. Pending("PlayerQuit", e.subject)
    BY <2>1 DEF Pending
  <2> QED
    BY <2>1, <2>2, AwayForever DEF LeftForGood, Pending
<1>7. CASE UNCHANGED vars
  BY <1>7, <1>k DEF vars, ghosts
<1> QED
  BY <1>1, <1>2, <1>3, <1>4, <1>5, <1>6, <1>7 DEF Next, Tick, Return

(* Nothing handles PlayerQuit.  That a player who has quit is out of the   *)
(* simulation all the same rests on handle_match_end not re-queueing the   *)
(* players it has scheduled to quit; a ban, which schedules one for a      *)
(* player already re-queued, breaks it: hence the hypothesis.              *)
THEOREM QuitIsFinalCorrect == ASSUME "detection" \notin Features PROVE Spec => []QuitIsFinal
<1>1. Init => LeftForGood
  BY DEF Init, LeftForGood, Pending, Event
<1>2. Ground /\ LeftForGood /\ [Next]_vars => LeftForGood'
  BY StepLeftForGood
<1>3. Ground /\ LeftForGood => QuitIsFinal
  BY DEF Ground, TypeOK, LeftForGood, QuitIsFinal, Away
<1> QED
  BY <1>1, <1>2, <1>3, GroundHolds, PTL DEF Spec

-----------------------------------------------------------------------------
(* Detection checks.                                                       *)

(* A pending check is of this very tick, and what would bring its player   *)
(* back to the queue lies after it.                                        *)
ChecksDue ==
    \A e \in events : e.kind = "DetectionCheck" =>
        /\ e.time = now
        /\ \A q \in queue : q.player # e.subject
        /\ \A g \in events : IsEntry(g) /\ g.subject = e.subject => g.time > e.time
        /\ \A m \in MatchIds : Live(m) => e.subject \notin Participants(m)

(* While a check is pending only events of its time are popped; if these   *)
(* bring nobody to the queue or into a match, what is said of the checks   *)
(* stays true.                                                             *)
LEMMA ChecksKept ==
    ASSUME Ground, ChecksDue,
           NEW e \in events, NEW kind, NEW emitted, Pop(e, kind, emitted),
           \A g \in emitted : /\ ~IsEntry(g)
                              /\ g.kind \notin {"DetectionCheck", "MatchFormed"},
           queue' \subseteq queue, roster' = roster,
           \A m \in MatchIds : Live(m)' => Live(m)
    PROVE  ChecksDue'
<1>1. ASSUME NEW g \in events, g.kind = "DetectionCheck" PROVE g.time = now'
  <2>1. now' = e.time /\ e.time <= g.time /\ g.time = now
    BY <1>1 DEF Pop, IsNext, ChecksDue
  <2> QED
    BY <2>1, Popped
<1>2. \A g \in events' : IsEntry(g) \/ g.kind = "DetectionCheck" => g \in events
  BY DEF Pop
<1>3. \A m : Participants(m)' = Participants(m)
  BY DEF Participants
<1> QED
  BY <1>1, <1>2, <1>3 DEF ChecksDue, IsEntry

LEMMA StepChecksDue ==
    ASSUME Ground, ChecksDue, [Next]_vars, RejoinDelay > 0
    PROVE  ChecksDue'
<1>c. ASSUME NEW e \in events, IsNext(e), now' = e.time, NEW g \in events, g.kind = "DetectionCheck"
      PROVE  g.time = now' /\ e.time = g.time /\ (IsEntry(e) => e.subject # g.subject)
  <2>1. e.time <= g.time /\ g.time = now
    BY <1>c DEF IsNext, ChecksDue
  <2>2. e.time = g.time
    BY <2>1, Popped
  <2>3. IsEntry(e) /\ e.subject = g.subject => e.time > g.time
    BY <1>c DEF ChecksDue
  <2> QED
    BY <1>c, <2>2, <2>3, Popped
<1>1. ASSUME NEW e \in events, PlayerJoin(e) PROVE ChecksDue'
  <2> DEFINE new == Event(e.time, "PlayerQueue", e.subject)
  <2>1. /\ IsNext(e) /\ now' = e.time /\ IsEntry(e)
        /\ events' = (events \ {e}) \cup {new}
        /\ UNCHANGED <<queue, roster, active>>
    BY <1>1 DEF PlayerJoin, Pop, IsEntry, machine
  <2>2. new.kind = "PlayerQueue" /\ new.subject = e.subject
    BY DEF Event
  <2> HIDE DEF new
  <2>3. \A m \in MatchIds : Live(m)' => Live(m)
    BY <2>1, <2>2 DEF Live, Pending
  <2>4. \A g \in events' : g.kind = "DetectionCheck" => g \in events
    BY <2>1, <2>2
  <2>5. \A m : Participants(m)' = Participants(m)
    BY <2>1 DEF Participants
  <2> QED
    BY <1>c, <2>1, <2>2, <2>3, <2>4, <2>5 DEF ChecksDue, IsEntry
<1>2. ASSUME NEW e \in events, PlayerQueue(e) PROVE ChecksDue'
  <2>1. /\ IsNext(e) /\ now' = e.time /\ IsEntry(e)
        /\ events' = events \ {e}
        /\ \A q \in queue' : q \in queue \/ q.player = e.subject
        /\ UNCHANGED <<roster, active>>
    BY <1>2 DEF PlayerQueue, Pop, IsEntry
  <2>2. \A m \in MatchIds : Live(m)' => Live(m)
    BY <2>1 DEF Live, Pending
  <2>3. \A m : Participants(m)' = Participants(m)
    BY <2>1 DEF Participants
  <2> QED
    BY <1>c, <2>1, <2>2, <2>3 DEF ChecksDue, IsEntry
<1>3. ASSUME NEW e \in events, SkillChange(e) PROVE ChecksDue'
  <2>1. \A m \in MatchIds : Live(m)' => Live(m)
    BY <1>3 DEF SkillChange, Pop, Event, machine, Live, Pending
  <2> QED
    BY <1>3, <2>1, ChecksKept DEF SkillChange, machine, Event, IsEntry
<1>4. ASSUME NEW e \in events, MatchTimerExpires(e) PROVE ChecksDue'
  <2>1. \A m \in MatchIds : Live(m)' => Live(m)
    BY <1>4 DEF MatchTimerExpires, Pop, machine, Live, Pending
  <2> QED
    BY <1>4, <2>1, ChecksKept DEF MatchTimerExpires, machine
<1>5. ASSUME NEW e \in events, MatchTimer(e) PROVE ChecksDue'
  <2>1. PICK k \in Nat : \E f \in Formations(Waiting, k) : Forming(e, k, f)
    BY <1>5, FormStep
  <2>2. PICK f \in Formations(Waiting, k) : Forming(e, k, f)
    BY <2>1
  <2>3. /\ IsNext(e) /\ now' = e.time /\ queue' \subseteq queue
        /\ \A g \in events' : IsEntry(g) \/ g.kind = "DetectionCheck" => g \in events
    BY <2>2 DEF Forming, FormMatches, Pop, Event, IsEntry
  <2>4. ASSUME NEW g \in events, g.kind = "DetectionCheck", NEW m \in MatchIds, Live(m)'
        PROVE  g.subject \notin Participants(m)'
    <3>1. g.subject \notin Matched(f)
      BY <2>2, <2>4 DEF Forming, Waiting, ChecksDue
    <3> QED
      BY <2>2, <2>4, <3>1 DEF Forming, ChecksDue
  <2> QED
    BY <1>c, <2>3, <2>4 DEF ChecksDue, IsEntry
<1>6. ASSUME NEW e \in events, MatchFormed(e) PROVE ChecksDue'
  <2>1. PICK d \in Durations : StartMatch(e, d)
    BY <1>6 DEF MatchFormed
  <2>2. \A m \in MatchIds : Live(m)' => Live(m)
    BY <2>1, StartsFormed DEF StartMatch, Pop, Event, Live, Pending
  <2> QED
    BY <2>1, <2>2, ChecksKept DEF StartMatch, Event, IsEntry
<1>7. ASSUME NEW e \in events, MatchEnd(e) PROVE ChecksDue'
  <2> DEFINE m == e.subject
  <2>1. /\ m \in MatchIds /\ Live(m)
        /\ \A q \in queue : q.player \notin Participants(m)
        /\ \A g \in events : IsEntry(g) => g.subject \notin Participants(m)
        /\ \A n \in MatchIds : Live(n) /\ n # m => Participants(n) \cap Participants(m) = {}
        /\ \A n \in MatchIds : Live(n)' => Live(n) /\ n # m
        /\ \A n : Participants(n)' = Participants(n)
    BY <1>7, EndStep
  <2>2. PICK stay \in SUBSET Participants(m) : FinishMatch(e, stay)
    BY <1>7, EndStep
  <2> DEFINE after == AfterMatch(m, e.time, stay)
  <2>3. /\ IsNext(e) /\ now' = e.time
        /\ events' = (events \ {e}) \cup after
        /\ queue' = queue
    BY <2>2 DEF FinishMatch, Pop
  <2>4. /\ \A g \in after : g.kind = "DetectionCheck" =>
              g.time = e.time /\ g.subject \in Participants(m)
        /\ \A g \in after : IsEntry(g) =>
              g.time = e.time + RejoinDelay /\ g.subject \in Participants(m)
    BY DEF AfterMatch, Event, IsEntry
  <2>5. e.time + RejoinDelay > e.time
    BY Popped, ClockAssumption
  <2> HIDE DEF m, after
  <2>6. ASSUME NEW g \in events', g.kind = "DetectionCheck"
        PROVE  /\ g.time = now'
               /\ \A q \in queue' : q.player # g.subject
               /\ \A h \in events' : IsEntry(h) /\ h.subject = g.subject => h.time > g.time
               /\ \A n \in MatchIds : Live(n)' => g.subject \notin Participants(n)'
    <3>1. CASE g \in events
      <4>1. g.subject \notin Participants(m)
        BY <2>1, <2>6, <3>1 DEF ChecksDue
      <4> QED
        BY <1>c, <2>1, <2>3, <2>4, <2>6, <3>1, <4>1 DEF ChecksDue
    <3>2. CASE g \in after
      BY <2>1, <2>3, <2>4, <2>5, <2>6, <3>2
    <3> QED
      BY <2>3, <3>1, <3>2
  <2> QED
    BY <2>6 DEF ChecksDue, IsEntry
<1>8. ASSUME NEW e \in events, DetectionCheck(e) PROVE ChecksDue'
  <2>1. \A m \in MatchIds : Live(m)' => Live(m)
    BY <1>8 DEF DetectionCheck, Pop, Event, machine, Live, Pending
  <2> QED
    BY <1>8, <2>1, ChecksKept DEF DetectionCheck, machine, Event, IsEntry
<1>9. ASSUME NEW e \in events, RatingUpdate(e) PROVE ChecksDue'
  <2>1. \A m \in MatchIds : Live(m)' => Live(m)
    BY <1>9 DEF RatingUpdate, Pop, machine, Live, Pending
  <2> QED
    BY <1>9, <2>1, ChecksKept DEF RatingUpdate, machine
<1>10. ASSUME NEW e \in events, PlayerQuit(e) PROVE ChecksDue'
  <2>1. \A m \in MatchIds : Live(m)' => Live(m)
    BY <1>10 DEF PlayerQuit, Pop, machine, Live, Pending
  <2> QED
    BY <1>10, <2>1, ChecksKept DEF PlayerQuit, machine
<1>11. CASE UNCHANGED vars
  BY <1>11 DEF vars, machine, ChecksDue, Live, Pending, Participants
<1> QED
  BY <1>1, <1>2, <1>3, <1>4, <1>5, <1>6, <1>7, <1>8, <1>9, <1>10, <1>11
     DEF Next, Tick, Return

(* With a positive rejoin delay a DetectionCheck is handled while its      *)
(* player is still between matches: it is scheduled for the tick of the    *)
(* MatchEnd, the return to the queue for a later one, and the engine pops  *)
(* no later event before it.                                               *)
THEOREM CheckedBeforeRequeueCorrect == Spec => []CheckedBeforeRequeue
<1> DEFINE IInv == RejoinDelay > 0 => ChecksDue
<1>1. Init => IInv
  BY DEF Init, ChecksDue, Event
<1>2. Ground /\ IInv /\ [Next]_vars => IInv'
  BY StepChecksDue
<1>3. IInv => CheckedBeforeRequeue
  BY DEF ChecksDue, CheckedBeforeRequeue
<1> QED
  BY <1>1, <1>2, <1>3, GroundHolds, PTL DEF Spec

-----------------------------------------------------------------------------
(* MatchLoop implements MatchPool.  Enqueue needs InOnePlace; Start needs  *)
(* the contract of the matchmaker and that the ids are fresh; Finish needs *)
(* Lifecycle, by which a MatchEnd always meets an active match.            *)

(* Counting is the same in both modules.                                   *)
LEMMA SameCardinality == \A S : Pool!Cardinality(S) = Cardinality(S)
BY DEF Pool!Cardinality, Cardinality, Pool!IsFiniteSet, IsFiniteSet

(* What the pool knows of the match of id m.                               *)
AsPlayed(m) == [id |-> m, a |-> roster[m].a, b |-> roster[m].b]

LEMMA LiveMatchesAre ==
    /\ \A r : r \in LiveMatches <=> \E m \in MatchIds : Live(m) /\ r = AsPlayed(m)
    /\ \A r : r \in LiveMatches' <=> \E m \in MatchIds : Live(m)' /\ r = AsPlayed(m)'
    /\ \A m, n : AsPlayed(m) = AsPlayed(n) => m = n
<1>1. \A r : r \in LiveMatches <=> \E m \in MatchIds : Live(m) /\ r = AsPlayed(m)
  BY DEF LiveMatches, AsPlayed, Live, Pending
<1>2. \A r : r \in LiveMatches' <=> \E m \in MatchIds : Live(m)' /\ r = AsPlayed(m)'
  BY DEF LiveMatches, AsPlayed, Live, Pending
<1>3. \A m : AsPlayed(m).id = m
  BY DEF AsPlayed
<1> QED
  BY <1>1, <1>2, <1>3

(* A step that moves no roster and makes no match live or over.            *)
LEMMA LiveMatchesKept ==
    ASSUME roster' = roster, \A m \in MatchIds : Live(m)' <=> Live(m)
    PROVE  LiveMatches' = LiveMatches
<1>1. \A m : AsPlayed(m)' = AsPlayed(m)
  BY DEF AsPlayed
<1>2. \A r : r \in LiveMatches' <=> r \in LiveMatches
  BY <1>1, LiveMatchesAre
<1>3. LiveMatches = { r \in LiveMatches : TRUE } /\ LiveMatches' = { r \in LiveMatches' : TRUE }
  OBVIOUS
<1> QED
  BY <1>2, <1>3

LEMMA Stutters ==
    ASSUME UNCHANGED <<queue, roster, active, formed, completed>>,
           NEW e \in events, NEW kind, NEW emitted, Pop(e, kind, emitted),
           kind # "MatchFormed",
           \A g \in emitted : g.kind # "MatchFormed"
    PROVE  UNCHANGED Pool!pool
<1>1. \A m \in MatchIds : Live(m)' <=> Live(m)
  BY DEF Pop, Live, Pending
<1> QED
  BY <1>1, LiveMatchesKept DEF Pool!pool, Waiting

(* The players the pool holds to be busy are those of the live matches.    *)
LEMMA BusyAre == \A p : p \in Pool!Busy <=> \E m \in MatchIds : Live(m) /\ p \in Participants(m)
<1>1. \A m : AsPlayed(m).a \cup AsPlayed(m).b = Participants(m)
  BY DEF AsPlayed, Participants
<1>2. Pool!Busy = UNION { r.a \cup r.b : r \in LiveMatches }
  BY DEF Pool!Busy
<1>3. \A p : p \in Pool!Busy <=> \E r \in LiveMatches : p \in r.a \cup r.b
  BY <1>2
<1> QED
  BY <1>1, <1>3, LiveMatchesAre

-----------------------------------------------------------------------------
LEMMA QueueEnqueues ==
    ASSUME Ground, NEW e \in events, PlayerQueue(e)
    PROVE  Pool!Enqueue(e.subject) \/ UNCHANGED Pool!pool
<1> DEFINE p == e.subject
<1>1. /\ IsEntry(e) /\ e.kind = "PlayerQueue" /\ events' = events \ {e}
      /\ UNCHANGED <<roster, active, formed, completed>>
  BY DEF PlayerQueue, Pop, IsEntry
<1>2. \A m \in MatchIds : Live(m)' <=> Live(m)
  BY <1>1 DEF Live, Pending
<1>3. LiveMatches' = LiveMatches
  BY <1>1, <1>2, LiveMatchesKept
<1>4. CASE p \in observed
  <2> DEFINE q == [player |-> p, at |-> e.time, rating |-> rating[p]]
  <2>1. queue' = queue \cup {q}
    BY <1>4 DEF PlayerQueue
  <2>2. q.player = p
    OBVIOUS
  <2> HIDE DEF q
  <2>3. Waiting' = Waiting \cup {p}
    BY <2>1, <2>2 DEF Waiting
  <2>4. p \notin Waiting
    BY <1>1 DEF Ground, InOnePlace, QueuedOrComing, Waiting
  <2>5. p \notin Pool!Busy
    BY <1>1, BusyAre DEF Ground, InOnePlace, LiveTeamsElsewhere
  <2> QED
    BY <1>1, <1>3, <2>3, <2>4, <2>5 DEF Pool!Enqueue
<1>5. CASE p \notin observed
  BY <1>1, <1>3, <1>5 DEF PlayerQueue, Pool!pool, Waiting
<1> QED
  BY <1>4, <1>5

LEMMA TimerStarts ==
    ASSUME Ground, NEW e \in events, MatchTimer(e)
    PROVE  Pool!Start(LiveMatches' \ LiveMatches)
<1>1. PICK k \in Nat : \E f \in Formations(Waiting, k) : Forming(e, k, f)
  BY FormStep
<1>2. PICK f \in Formations(Waiting, k) : Forming(e, k, f)
  BY <1>1
<1> DEFINE Ids == formed .. formed + k - 1
           Made(m) == [id |-> m, a |-> f[m].a, b |-> f[m].b]
           new == { Made(m) : m \in Ids }
<1>3. DOMAIN f = Ids /\ Ids \subseteq MatchIds /\ formed \in Nat
  BY <1>2 DEF Forming, Ground, TypeOK
<1>4. /\ roster' = [m \in MatchIds |-> IF m \in DOMAIN f THEN f[m] ELSE roster[m]]
      /\ formed' = formed + k /\ completed' = completed
      /\ queue' = { q \in queue : q.player \notin Matched(f) }
  BY <1>2 DEF Forming, FormMatches, Matched
<1>5. LiveMatches' \ LiveMatches = new
  <2>1. \A m \in MatchIds : Live(m)' <=> m \in Ids \/ Live(m)
    BY <1>2, <1>3 DEF Forming
  <2>2. \A m \in Ids : ~Live(m) /\ AsPlayed(m)' = Made(m)
    BY <1>2, <1>3, <1>4 DEF Forming, AsPlayed
  <2>3. \A m \in MatchIds : Live(m) => AsPlayed(m)' = AsPlayed(m)
    BY <1>3, <1>4, <2>2 DEF AsPlayed
  <2>4. \A m : Made(m).id = m /\ AsPlayed(m).id = m
    BY DEF AsPlayed
  <2> HIDE DEF Made, Ids
  <2>5. \A r : r \in LiveMatches' <=> r \in new \/ r \in LiveMatches
    BY <1>3, <2>1, <2>2, <2>3, LiveMatchesAre
  <2>6. \A r \in new : r \notin LiveMatches
    BY <2>2, <2>4, LiveMatchesAre
  <2> HIDE DEF new
  <2> QED
    BY <2>5, <2>6
<1>6. Cardinality(new) = k
  <2>1. IsFiniteSet(Ids) /\ Cardinality(Ids) = k
    BY <1>3, FS_Interval
  <2> DEFINE g == [m \in Ids |-> Made(m)]
  <2>2. g \in Bijection(Ids, new)
    <3>1. \A m : Made(m).id = m
      OBVIOUS
    <3> HIDE DEF Made
    <3>2. g \in [Ids -> new]
      OBVIOUS
    <3>3. \A m, n \in Ids : g[m] = g[n] => m = n
      BY <3>1
    <3>4. \A r \in new : \E m \in Ids : g[m] = r
      OBVIOUS
    <3> QED
      BY <3>2, <3>3, <3>4 DEF Bijection, Injection, Surjection, IsInjective
  <2>3. ExistsBijection(Ids, new)
    BY <2>2 DEF ExistsBijection
  <2> HIDE DEF Ids, new, g
  <2> QED
    BY <2>1, <2>3, FS_Bijection
<1>7. { r.id : r \in new } = formed .. formed + Cardinality(new) - 1
  <2>1. \A m : Made(m).id = m
    OBVIOUS
  <2> HIDE DEF Made
  <2>2. { r.id : r \in new } = Ids
    BY <2>1
  <2> QED
    BY <1>6, <2>2
<1>8. formed + Cardinality(new) <= MaxMatches
  <2>1. formed' \in 0 .. MaxMatches
    <3>1. [Next]_vars
      BY DEF Next, Tick
    <3> QED
      BY <3>1, StepTypeOK DEF Ground, TypeOK
  <2> QED
    BY <1>4, <1>6, <2>1, BudgetAssumption
<1>9. \A r \in new : Pool!IsTeam(r.a, SizeA) /\ Pool!IsTeam(r.b, SizeB) /\ r.a \cap r.b = {}
  <2>1. \A m \in Ids : /\ f[m].a \subseteq Waiting /\ Cardinality(f[m].a) = SizeA
                      /\ f[m].b \subseteq Waiting /\ Cardinality(f[m].b) = SizeB
                      /\ f[m].a \cap f[m].b = {}
    BY <1>3 DEF Formations, Proposals
  <2> HIDE DEF Ids
  <2> QED
    BY <2>1, SameCardinality DEF Pool!IsTeam
<1>10. \A r, s \in new : r # s => (r.a \cup r.b) \cap (s.a \cup s.b) = {}
  <2>1. \A m, n \in Ids : m # n => (f[m].a \cup f[m].b) \cap (f[n].a \cup f[n].b) = {}
    BY <1>3 DEF Formations
  <2> HIDE DEF Ids
  <2> QED
    BY <2>1
<1>11. UNION { r.a \cup r.b : r \in new } = Matched(f)
  <2>1. \A m : Made(m).a \cup Made(m).b = f[m].a \cup f[m].b
    OBVIOUS
  <2> HIDE DEF Made, Ids
  <2> QED
    BY <1>3, <2>1 DEF Matched
<1>12. Waiting' = Waiting \ Matched(f)
  BY <1>4 DEF Waiting
<1>13. LiveMatches' = LiveMatches \cup new
  <2>1. \A m \in MatchIds : Live(m) => Live(m)' /\ AsPlayed(m)' = AsPlayed(m)
    BY <1>2, <1>3, <1>4 DEF Forming, AsPlayed
  <2>2. LiveMatches \subseteq LiveMatches'
    BY <2>1, LiveMatchesAre
  <2> HIDE DEF new
  <2> QED
    BY <1>5, <2>2
<1> HIDE DEF new, Ids, Made
<1>14. Pool!Start(new)
  BY <1>4, <1>6, <1>7, <1>8, <1>9, <1>10, <1>11, <1>12, <1>13, SameCardinality DEF Pool!Start
<1> QED
  BY <1>5, <1>14

LEMMA EndFinishes ==
    ASSUME Ground, NEW e \in events, MatchEnd(e)
    PROVE  \E r \in LiveMatches : Pool!Finish(r)
<1> DEFINE m == e.subject
<1>1. /\ m \in MatchIds /\ Live(m)
      /\ \A n \in MatchIds : Live(n)' => Live(n) /\ n # m
  BY EndStep
<1>2. PICK stay \in SUBSET Participants(m) : FinishMatch(e, stay)
  BY EndStep
<1>3. /\ e.kind = "MatchEnd" /\ active' = active \ {m} /\ \A g \in events : g # e => g \in events'
      /\ UNCHANGED <<queue, roster, formed>> /\ completed' = completed + 1
  BY <1>2 DEF FinishMatch, Pop
<1>4. \A n \in MatchIds : Live(n) /\ n # m => Live(n)'
  BY <1>3 DEF Live, Pending
<1> HIDE DEF m
<1>5. LiveMatches' = LiveMatches \ {AsPlayed(m)} /\ AsPlayed(m) \in LiveMatches
  <2>1. \A n : AsPlayed(n)' = AsPlayed(n)
    BY <1>3 DEF AsPlayed
  <2>2. \A r : r \in LiveMatches' <=> r \in LiveMatches /\ r # AsPlayed(m)
    BY <1>1, <1>4, <2>1, LiveMatchesAre
  <2>3. AsPlayed(m) \in LiveMatches
    BY <1>1, LiveMatchesAre
  <2> QED
    BY <2>2, <2>3
<1>6. Pool!Finish(AsPlayed(m))
  BY <1>3, <1>5 DEF Pool!Finish, Waiting
<1> QED
  BY <1>5, <1>6

LEMMA StepImplements == Ground /\ [Next]_vars => [Pool!PoolNext]_Pool!pool
<1> SUFFICES ASSUME Ground, [Next]_vars PROVE Pool!PoolNext \/ UNCHANGED Pool!pool
  OBVIOUS
<1>1. ASSUME NEW e \in events, PlayerJoin(e) PROVE UNCHANGED Pool!pool
  BY <1>1, Stutters DEF PlayerJoin, machine, Event
<1>2. ASSUME NEW e \in events, PlayerQueue(e) PROVE Pool!PoolNext \/ UNCHANGED Pool!pool
  <2>1. e.subject \in Players
    BY <1>2, Popped DEF PlayerQueue, Pop, PlayerKinds
  <2> QED
    BY <1>2, <2>1, QueueEnqueues DEF Pool!PoolNext
<1>3. ASSUME NEW e \in events, SkillChange(e) PROVE UNCHANGED Pool!pool
  BY <1>3, Stutters DEF SkillChange, machine, Event
<1>4. ASSUME NEW e \in events, MatchTimerExpires(e) PROVE UNCHANGED Pool!pool
  BY <1>4, Stutters DEF MatchTimerExpires, machine
<1>5. ASSUME NEW e \in events, MatchTimer(e) PROVE Pool!PoolNext
  BY <1>5, TimerStarts DEF Pool!PoolNext
<1>6. ASSUME NEW e \in events, MatchFormed(e) PROVE UNCHANGED Pool!pool
  <2>1. PICK d \in Durations : StartMatch(e, d)
    BY <1>6 DEF MatchFormed
  <2>2. /\ e.kind = "MatchFormed" /\ active' = active \cup {e.subject}
        /\ events' = (events \ {e}) \cup { Event(e.time + d, "MatchEnd", e.subject) }
        /\ UNCHANGED <<queue, roster, formed, completed>>
    BY <2>1 DEF StartMatch, Pop
  <2>3. Event(e.time + d, "MatchEnd", e.subject).kind = "MatchEnd"
    BY DEF Event
  <2>4. Live(e.subject)
    BY <2>2, StartsFormed
  <2>5. \A m \in MatchIds : Live(m)' <=> Live(m)
    BY <2>2, <2>3, <2>4 DEF Live, Pending
  <2> QED
    BY <2>2, <2>5, LiveMatchesKept DEF Pool!pool, Waiting
<1>7. ASSUME NEW e \in events, MatchEnd(e) PROVE Pool!PoolNext
  BY <1>7, EndFinishes DEF Pool!PoolNext
<1>8. ASSUME NEW e \in events, DetectionCheck(e) PROVE UNCHANGED Pool!pool
  BY <1>8, Stutters DEF DetectionCheck, machine, Event
<1>9. ASSUME NEW e \in events, RatingUpdate(e) PROVE UNCHANGED Pool!pool
  BY <1>9, Stutters DEF RatingUpdate, machine
<1>10. ASSUME NEW e \in events, PlayerQuit(e) PROVE UNCHANGED Pool!pool
  BY <1>10, Stutters DEF PlayerQuit, machine
<1>11. CASE UNCHANGED vars
  BY <1>11 DEF vars, machine, Pool!pool, Waiting, LiveMatches, Live, Pending
<1> QED
  BY <1>1, <1>2, <1>3, <1>4, <1>5, <1>6, <1>7, <1>8, <1>9, <1>10, <1>11
     DEF Next, Tick, Return

(* The event-driven loop implements the pool of players: whatever order    *)
(* the heap pops the events of a tick in, a player is enqueued only from   *)
(* outside the queue and every match, matches take disjoint full teams out *)
(* of the queue within the budget, and each finishes once.                 *)
THEOREM ImplementsPoolCorrect == Spec => ImplementsPool
<1>1. Init => Pool!PoolInit
  BY DEF Init, Pool!PoolInit, Waiting, LiveMatches, Live, Pending, Event
<1> QED
  BY <1>1, StepImplements, GroundHolds, PTL DEF Spec, ImplementsPool, Pool!PoolSpec
=============================================================================
