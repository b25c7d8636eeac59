----------------------------- MODULE MatchLoop -----------------------------
(***************************************************************************)
(* One simulation of matchlab: the discrete-event engine                   *)
(* (matchlab-core/src/event.rs) running the handlers that MatchLoop        *)
(* registers (matchlab-loop/src/lib.rs, machine.rs) until run_until        *)
(* returns.                                                                *)
(*                                                                         *)
(* An action is one engine tick: pop an event of the earliest time, move   *)
(* the clock to it, run the handler of its kind, schedule what it emits.   *)
(* TimestampedEvent is ordered by time alone, so which of several events   *)
(* of the same time is popped first is the heap's choice: any of them.     *)
(*                                                                         *)
(* Abstractions.  A rating is the number of updates it has received, a     *)
(* skill the number of times it has advanced; an outcome is its duration.  *)
(* The plugins (matchmaker, satisfaction model, detector) may return       *)
(* anything of their result type that meets the contract stated below.     *)
(* The heap and the queue are sets: InOnePlace, Lifecycle and              *)
(* CheckedBeforeRequeue show that no handler schedules an event that is    *)
(* already pending or enqueues a player already queued, so that no two     *)
(* equal members would meet in them.                                       *)
(*                                                                         *)
(* An operator whose name begins with Faulty is a variant of the operator  *)
(* that follows it, with a bug the code does not have.  None of them is    *)
(* part of the model: each stands for the change of code that one property *)
(* excludes, and that property fails when the variant takes its place.     *)
(***************************************************************************)
EXTENDS Integers, FiniteSets, Sequences

CONSTANTS
    Players,         \* the population handed to MatchLoop::with_extras
    SizeA, SizeB,    \* LoopConfig.teams
    MaxMatches,      \* LoopConfig.max_matches (duration.matches)
    IntervalParam,   \* matchmaking.params.batch_interval, in ticks
    TicksPerSec,     \* ticks of the clock in a second
    RejoinDelay,     \* LoopConfig.rejoin_delay
    SkillInterval,   \* LoopConfig.skill_update_interval; 0 stands for None
    Durations,       \* the durations the outcome model may return
    Until,           \* the argument of run_until (duration.max_time)
    Features,        \* which optional subsystems the experiment configures
    Eager            \* TRUE: the matchmaker leaves no full match unformed

FeatureNames == {"satisfaction", "detection", "ranking", "completed", "history"}

ASSUME SizesAssumption    == SizeA \in Nat \ {0} /\ SizeB \in Nat \ {0}
ASSUME BudgetAssumption   == MaxMatches \in Nat /\ Until \in Nat
ASSUME ClockAssumption    == /\ IntervalParam \in Nat
                             /\ TicksPerSec \in Nat \ {0}
                             /\ RejoinDelay \in Nat
                             /\ SkillInterval \in Nat
                             /\ Durations \in SUBSET Nat
ASSUME FeaturesAssumption == Features \in SUBSET FeatureNames /\ Eager \in BOOLEAN

Unset == -1          \* None, for a time

(* batch_interval_secs casts the parameter to whole seconds; with_extras   *)
(* turns them back into clock ticks.                                       *)
BatchInterval == (IntervalParam \div TicksPerSec) * TicksPerSec

MatchIds == 0 .. MaxMatches - 1

VARIABLES
    (* EventEngine and World *)
    now,         \* world.time
    events,      \* the engine's heap
    observed,    \* keys of world.players and world.observations
    rating,      \* observation.rating: how many updates it has received
    rank,        \* observation.visible_rank: the rating it was computed from
    joinedAt,    \* observation.queue_joined_at
    flagged,     \* players whose observation.detection_flags is not empty
    skill,       \* reality.skill (and observation.hidden_mmr): advances so far
    matches,     \* world.matches; "None" where there is no entry
    (* MachineState *)
    queue,       \* state.queue
    formed,      \* state.matches_formed and world.next_match_id
    roster,      \* team_a, team_b of each match formed
    active,      \* keys of state.active_matches
    completed,   \* state.matches_completed
    queueTime,   \* state.pending_queue_times; Unset where there is no entry
    buffer,      \* state.completed_buffer
    history,     \* state.history: match and pre-update ratings, in order
    recorded,    \* matches passed to metrics.record_match
    (* History variables: read by properties only *)
    lastEntry,   \* the queue entry each player was last matched from, and when
    shown,       \* completed matches already handed to the matchmaker
    gone         \* players whose PlayerQuit event has been processed

observations == <<observed, rating, rank, joinedAt, flagged, skill>>
machine      == <<queue, formed, roster, active, completed, queueTime,
                  buffer, history, recorded>>
ghosts       == <<lastEntry, shown, gone>>
vars         == <<now, events, observations, matches, machine, ghosts>>

-----------------------------------------------------------------------------
(* The event engine.                                                       *)

PlayerKinds == {"PlayerJoin", "PlayerQueue", "PlayerQuit", "DetectionCheck"}
MatchKinds  == {"MatchFormed", "MatchEnd", "RatingUpdate"}
TimerKinds  == {"MatchTimer", "SkillChange"}

(* An event names the player or the match it is about; a timer carries 0.  *)
Event(t, k, s) == [time |-> t, kind |-> k, subject |-> s]

Events == [time : Nat, kind : PlayerKinds, subject : Players]
          \cup [time : Nat, kind : MatchKinds, subject : MatchIds]
          \cup [time : Nat, kind : TimerKinds, subject : {0}]

Pending(kind, s) == \E e \in events : e.kind = kind /\ e.subject = s

FaultyIsNext(e) == e.time <= Until

(* run_until ticks while the earliest pending event is not after Until.    *)
IsNext(e) == e.time <= Until /\ \A f \in events : e.time <= f.time

Pop(e, kind, emitted) ==
    /\ e.kind = kind
    /\ IsNext(e)
    /\ now' = e.time
    /\ events' = (events \ {e}) \cup emitted

Returned == \A e \in events : e.time > Until

-----------------------------------------------------------------------------
Waiting == { q.player : q \in queue }

Participants(m) == roster[m].a \cup roster[m].b

Teams == [a : SUBSET Players, b : SUBSET Players]

(* The matchmaker's contract: every proposal is two disjoint teams of the  *)
(* configured sizes drawn from the queue, and no player is proposed twice. *)
Proposals(waiting) ==
    { t \in [a : SUBSET waiting, b : SUBSET waiting] :
        /\ Cardinality(t.a) = SizeA
        /\ Cardinality(t.b) = SizeB
        /\ t.a \cap t.b = {} }

FaultyFormations(waiting, k) == [formed .. formed + k - 1 -> Proposals(waiting)]

FaultyFormationIds(waiting, k) ==
    { f \in [0 .. k - 1 -> Proposals(waiting)] :
        \A m, n \in DOMAIN f :
            m # n => (f[m].a \cup f[m].b) \cap (f[n].a \cup f[n].b) = {} }

(* A formation is the first k of its proposals, k being at most the budget *)
(* that remains, keyed by the ids they receive.                            *)
Formations(waiting, k) ==
    { f \in [formed .. formed + k - 1 -> Proposals(waiting)] :
        \A m, n \in DOMAIN f :
            m # n => (f[m].a \cup f[m].b) \cap (f[n].a \cup f[n].b) = {} }

FaultyBatchSizes(n, remaining) == 0 .. n \div (SizeA + SizeB)

(* How many matches a call may form of n waiting players; an Eager         *)
(* matchmaker stops only for want of players or of budget.                 *)
BatchSizes(n, remaining) ==
    { k \in 0 .. remaining :
        /\ k * (SizeA + SizeB) <= n
        /\ Eager /\ k < remaining => (k + 1) * (SizeA + SizeB) > n }

Init ==
    /\ now = 0
    /\ events = { Event(0, "PlayerJoin", p) : p \in Players }
                \cup { Event(BatchInterval, "MatchTimer", 0) }
                \cup (IF SkillInterval = 0 THEN {}
                      ELSE { Event(SkillInterval, "SkillChange", 0) })
    /\ observed = {}
    /\ rating = [p \in Players |-> 0]
    /\ rank = [p \in Players |-> Unset]
    /\ joinedAt = [p \in Players |-> Unset]
    /\ flagged = {}
    /\ skill = [p \in Players |-> 0]
    /\ matches = [m \in MatchIds |-> "None"]
    /\ queue = {}
    /\ formed = 0
    /\ roster = [m \in MatchIds |-> [a |-> {}, b |-> {}]]
    /\ active = {}
    /\ completed = 0
    /\ queueTime = [p \in Players |-> Unset]
    /\ buffer = {}
    /\ history = <<>>
    /\ recorded = {}
    /\ lastEntry = [p \in Players |-> [at |-> Unset, rating |-> 0, left |-> Unset]]
    /\ shown = {}
    /\ gone = {}

-----------------------------------------------------------------------------
(* The handlers, one per event kind.  e is the event popped.               *)

(* handle_player_join inserts the population's own copy of the player.     *)
PlayerJoin(e) ==
    LET p == e.subject IN
    /\ Pop(e, "PlayerJoin", { Event(e.time, "PlayerQueue", p) })
    /\ observed' = observed \cup {p}
    /\ rating' = [rating EXCEPT ![p] = 0]
    /\ rank' = [rank EXCEPT ![p] = Unset]
    /\ skill' = [skill EXCEPT ![p] = 0]
    /\ flagged' = flagged \ {p}
    /\ joinedAt' = [joinedAt EXCEPT ![p] = e.time]
    /\ UNCHANGED <<matches, machine, ghosts>>

FaultyJoined(p, t) == IF joinedAt[p] = Unset THEN [joinedAt EXCEPT ![p] = t] ELSE joinedAt

Joined(p, t) == [joinedAt EXCEPT ![p] = t]

PlayerQueue(e) ==
    LET p == e.subject IN
    /\ Pop(e, "PlayerQueue", {})
    /\ IF p \in observed
       THEN /\ queue' = queue \cup { [player |-> p, at |-> e.time, rating |-> rating[p]] }
            /\ joinedAt' = Joined(p, e.time)
       ELSE UNCHANGED <<queue, joinedAt>>
    /\ UNCHANGED <<observed, rating, rank, flagged, skill, matches, formed, roster,
                   active, completed, queueTime, buffer, history, recorded, ghosts>>

(* Every player present advances, for a player's is_online is true from    *)
(* its creation on and nothing assigns to it; the event reschedules itself *)
(* for ever.                                                               *)
SkillChange(e) ==
    /\ Pop(e, "SkillChange",
           IF SkillInterval = 0 THEN {}
           ELSE { Event(e.time + SkillInterval, "SkillChange", 0) })
    /\ skill' = [p \in Players |-> IF p \in observed THEN skill[p] + 1 ELSE skill[p]]
    /\ UNCHANGED <<observed, rating, rank, joinedAt, flagged, matches, machine, ghosts>>

(* Once max_matches have been formed the timer is not rescheduled.         *)
MatchTimerExpires(e) ==
    /\ Pop(e, "MatchTimer", {})
    /\ formed >= MaxMatches
    /\ UNCHANGED <<observations, matches, machine, ghosts>>

FaultyRemoveBatch(matched) == queue

(* Queue::remove_batch                                                     *)
RemoveBatch(matched) == { q \in queue : q.player \notin matched }

FaultyNextTimer(e) == IF queue = {} THEN {} ELSE { Event(e.time + BatchInterval, "MatchTimer", 0) }
FaultyTimerAtOnce(e) == { Event(e.time, "MatchTimer", 0) }

NextTimer(e) == { Event(e.time + BatchInterval, "MatchTimer", 0) }

FaultyBufferAfter(k) == IF k = 0 THEN buffer ELSE {}

(* The buffer is taken whatever the matchmaker makes of it.                *)
BufferAfter(k) == {}

(* Timer e forms the k matches f: their players leave the queue.           *)
FormMatches(e, k, f) ==
    LET matched == UNION { f[m].a \cup f[m].b : m \in DOMAIN f } IN
    /\ Pop(e, "MatchTimer",
           { Event(e.time, "MatchFormed", m) : m \in DOMAIN f }
           \cup NextTimer(e))
    /\ formed' = formed + k
    /\ roster' = [m \in MatchIds |-> IF m \in DOMAIN f THEN f[m] ELSE roster[m]]
    /\ queue' = RemoveBatch(matched)
    /\ lastEntry' = [p \in Players |->
           IF p \in matched
           THEN LET q == CHOOSE q \in queue : q.player = p
                IN  [at |-> q.at, rating |-> q.rating, left |-> e.time]
           ELSE lastEntry[p]]
    /\ buffer' = BufferAfter(k)
    /\ shown' = shown \cup buffer
    /\ UNCHANGED <<observations, matches, active, completed, queueTime,
                   history, recorded, gone>>

MatchTimer(e) ==
    /\ formed < MaxMatches
    /\ \E k \in BatchSizes(Cardinality(Waiting), MaxMatches - formed) :
       \E f \in Formations(Waiting, k) : FormMatches(e, k, f)

(* The outcome is drawn, and the metrics collected, as the match starts.   *)
StartMatch(e, d) ==
    LET m == e.subject IN
    /\ Pop(e, "MatchFormed", { Event(e.time + d, "MatchEnd", m) })
    /\ queueTime' = [p \in Players |->
           IF p \in Participants(m) /\ joinedAt[p] # Unset
           THEN e.time - joinedAt[p] ELSE queueTime[p]]
    /\ recorded' = recorded \cup {m}
    /\ active' = active \cup {m}
    /\ matches' = [matches EXCEPT ![m] = "InProgress"]
    /\ UNCHANGED <<observations, queue, formed, roster, completed, buffer, history, ghosts>>

MatchFormed(e) == \E d \in Durations : StartMatch(e, d)

FaultyRejoins(m, t, stay) ==
    { Event(t + RejoinDelay, "PlayerQueue", p) : p \in Participants(m) }
    \cup { Event(t + RejoinDelay, "PlayerQuit", p) : p \in Participants(m) \ stay }
FaultyNoRejoin(m, t, stay) == {}

(* While matches may still be formed the players of `stay` come back to    *)
(* the queue and the others quit; after that nobody does either.           *)
Rejoins(m, t, stay) ==
    IF formed < MaxMatches
    THEN { Event(t + RejoinDelay, "PlayerQueue", p) : p \in stay }
         \cup { Event(t + RejoinDelay, "PlayerQuit", p) : p \in Participants(m) \ stay }
    ELSE {}

FaultyChecks(m, t) == { Event(t + RejoinDelay, "DetectionCheck", p) : p \in Participants(m) }

Checks(m, t) ==
    IF "detection" \in Features
    THEN { Event(t, "DetectionCheck", p) : p \in Participants(m) }
    ELSE {}

(* What a finished match schedules, when the players of `stay` are retained. *)
AfterMatch(m, t, stay) ==
    Rejoins(m, t, stay) \cup { Event(t, "RatingUpdate", m) } \cup Checks(m, t)

FaultyMatchRecord(m) == [match |-> m, seen |-> { <<p, rating[p] + 1>> : p \in Participants(m) }]

(* The ratings are captured before the update.                             *)
MatchRecord(m) == [match |-> m, seen |-> { <<p, rating[p]>> : p \in Participants(m) }]

FaultyRankAfter(m) ==
    IF "ranking" \in Features
    THEN [p \in Players |-> IF p \in Participants(m) THEN rating[p] ELSE rank[p]]
    ELSE rank

(* The visible rank is computed from the rating as updated.                *)
RankAfter(m) ==
    IF "ranking" \in Features
    THEN [p \in Players |-> IF p \in Participants(m) THEN rating[p] + 1 ELSE rank[p]]
    ELSE rank

Retained(m) == IF "satisfaction" \in Features THEN SUBSET Participants(m)
               ELSE { Participants(m) }

FinishMatch(e, stay) ==
    LET m == e.subject IN
    /\ Pop(e, "MatchEnd", AfterMatch(m, e.time, stay))
    /\ active' = active \ {m}
    /\ history' = IF "history" \in Features
                  THEN Append(history, MatchRecord(m))
                  ELSE history
    /\ rating' = [p \in Players |-> IF p \in Participants(m) THEN rating[p] + 1 ELSE rating[p]]
    /\ rank' = RankAfter(m)
    /\ matches' = [matches EXCEPT ![m] = "Completed"]
    /\ buffer' = IF "completed" \in Features THEN buffer \cup {m} ELSE buffer
    /\ completed' = completed + 1
    /\ queueTime' = [p \in Players |-> IF p \in Participants(m) THEN Unset ELSE queueTime[p]]
    /\ UNCHANGED <<observed, joinedAt, flagged, skill, queue, formed, roster, recorded, ghosts>>

(* The end of a match that is not in progress is ignored.                  *)
MatchEnd(e) ==
    IF e.subject \in active
    THEN \E stay \in Retained(e.subject) : FinishMatch(e, stay)
    ELSE Pop(e, "MatchEnd", {}) /\ UNCHANGED <<observations, matches, machine, ghosts>>

(* Ban schedules a PlayerQuit; any other action but None flags the player. *)
DetectionCheck(e) ==
    LET p == e.subject IN
    \/ /\ Pop(e, "DetectionCheck", {})
       /\ UNCHANGED <<observations, matches, machine, ghosts>>
    \/ /\ Pop(e, "DetectionCheck", { Event(e.time, "PlayerQuit", p) })
       /\ p \in observed
       /\ UNCHANGED <<observations, matches, machine, ghosts>>
    \/ /\ Pop(e, "DetectionCheck", {})
       /\ p \in observed
       /\ flagged' = flagged \cup {p}
       /\ UNCHANGED <<observed, rating, rank, joinedAt, skill, matches, machine, ghosts>>

RatingUpdate(e) ==
    /\ Pop(e, "RatingUpdate", {})
    /\ rank' = IF "ranking" \in Features
               THEN [p \in Players |-> IF p \in Participants(e.subject) THEN rating[p] ELSE rank[p]]
               ELSE rank
    /\ UNCHANGED <<observed, rating, joinedAt, flagged, skill, matches, machine, ghosts>>

(* No handler is registered for PlayerQuit: the event is popped, no more.  *)
PlayerQuit(e) ==
    /\ Pop(e, "PlayerQuit", {})
    /\ gone' = gone \cup {e.subject}
    /\ UNCHANGED <<observations, matches, machine, lastEntry, shown>>

Tick == \E e \in events :
    \/ PlayerJoin(e) \/ PlayerQueue(e) \/ SkillChange(e)
    \/ MatchTimerExpires(e) \/ MatchTimer(e) \/ MatchFormed(e) \/ MatchEnd(e)
    \/ DetectionCheck(e) \/ RatingUpdate(e) \/ PlayerQuit(e)

(* run_until has returned: nothing moves any more.                         *)
Return == Returned /\ UNCHANGED vars

Next == Tick \/ Return

Spec == Init /\ [][Next]_vars

(* The loop of run_until ticks as long as an event is due.                 *)
FairSpec == Spec /\ WF_vars(Tick)
-----------------------------------------------------------------------------
(* Type invariant: every variable holds what the Rust type of its field    *)
(* allows, and every event names a player or a match of the run.           *)
TypeOK ==
    /\ now \in Nat
    /\ events \in SUBSET Events
    /\ observed \in SUBSET Players
    /\ rating \in [Players -> Nat]
    /\ rank \in [Players -> Nat \cup {Unset}]
    /\ joinedAt \in [Players -> Nat \cup {Unset}]
    /\ flagged \in SUBSET Players
    /\ skill \in [Players -> Nat]
    /\ matches \in [MatchIds -> {"None", "InProgress", "Completed"}]
    /\ queue \in SUBSET [player : Players, at : Nat, rating : Nat]
    /\ formed \in 0 .. MaxMatches
    /\ roster \in [MatchIds -> Teams]
    /\ active \in SUBSET MatchIds
    /\ completed \in Nat
    /\ queueTime \in [Players -> Int]
    /\ buffer \in SUBSET MatchIds
    /\ history \in Seq([match : MatchIds, seen : SUBSET (Players \X Nat)])
    /\ recorded \in SUBSET MatchIds
    /\ lastEntry \in [Players -> [at : Int, rating : Nat, left : Int]]
    /\ shown \in SUBSET MatchIds
    /\ gone \in SUBSET Players

(* The events on their way to enqueue a player.                            *)
IsEntry(e) == e.kind \in {"PlayerJoin", "PlayerQueue"}

(* A match is live from the tick that forms it to the one that ends it.    *)
Live(m) == Pending("MatchFormed", m) \/ m \in active

EntryPendingOnce ==
    \A e, f \in events : IsEntry(e) /\ IsEntry(f) /\ e.subject = f.subject => e = f

QueuedOnce == \A q, r \in queue : q.player = r.player => q = r

QueuedOrComing ==
    \A e \in events : IsEntry(e) => \A q \in queue : q.player # e.subject

LiveTeamsElsewhere ==
    \A m \in MatchIds : Live(m) =>
        /\ roster[m].a \cap roster[m].b = {}
        /\ \A e \in events : IsEntry(e) => e.subject \notin Participants(m)
        /\ \A q \in queue : q.player \notin Participants(m)

LiveDisjoint ==
    \A m, n \in MatchIds :
        m # n /\ Live(m) /\ Live(n) => Participants(m) \cap Participants(n) = {}

(* A player is in one place at a time: on the way to the queue (at most    *)
(* one pending PlayerJoin or PlayerQueue), in the queue (one entry), or in *)
(* one side of one live match.  Nothing in Queue::enqueue or in            *)
(* handle_match_timer tests for it: it rests on every handler that ends a  *)
(* stay in one place being the only one that begins the next.              *)
InOnePlace ==
    /\ EntryPendingOnce
    /\ QueuedOnce
    /\ QueuedOrComing
    /\ LiveTeamsElsewhere
    /\ LiveDisjoint

(* Nothing is known or scheduled of a match that has not been formed.      *)
UnformedUntouched ==
    \A m \in MatchIds : m >= formed =>
        /\ matches[m] = "None"
        /\ m \notin active
        /\ \A e \in events : e.kind \in MatchKinds => e.subject # m

(* What is scheduled for a match, and whether it is active, is what the    *)
(* state of its entry in world.matches says.                               *)
StageScheduled ==
    \A m \in MatchIds : m < formed =>
        /\ (matches[m] = "None") <=> Pending("MatchFormed", m)
        /\ (matches[m] = "InProgress") <=> Pending("MatchEnd", m)
        /\ (matches[m] = "InProgress") <=> (m \in active)

(* A match is neither started nor ended twice.                             *)
OneOfEach ==
    \A e, f \in events :
        e.kind = f.kind /\ e.kind \in {"MatchFormed", "MatchEnd"} /\ e.subject = f.subject
            => e = f

(* The metrics have seen the matches started: those completed, and those   *)
(* in flight, which may never complete.                                    *)
MetricsSeeStarted == \A m \in MatchIds : m \in recorded <=> matches[m] # "None"

Done == { m \in MatchIds : matches[m] = "Completed" }

(* Every match goes through its life once: its MatchFormed is pending;     *)
(* then it is in progress, with exactly one MatchEnd to come; then it is   *)
(* completed and no event can start or end it again.  The counters agree   *)
(* with the matches they count, whatever the order of events of a tick.    *)
Lifecycle ==
    /\ UnformedUntouched
    /\ StageScheduled
    /\ OneOfEach
    /\ MetricsSeeStarted
    /\ completed = Cardinality(Done)

(* world.time is a "monotonic simulation clock" (world.rs:21): no handler  *)
(* schedules in the past, and no event is overtaken by a later one.        *)
ClockMonotone == [][now' >= now]_vars

(* As long as matches may still be formed the matchmaker will be called:   *)
(* one MatchTimer is pending, never two, at most one interval away; after  *)
(* that the timer dies.                                                    *)
MatchmakerScheduled ==
    LET timers == { e \in events : e.kind = "MatchTimer" } IN
    /\ \A e, f \in timers : e = f
    /\ formed < MaxMatches => timers # {}
    /\ \A e \in timers : e.time - now \in 0 .. BatchInterval

(* Every copy of a rating is the rating: the snapshot in a queue entry     *)
(* (LeanObservation), what the matchmaker was shown for the players of a   *)
(* live match, and the visible rank of whoever has played.  The copies are *)
(* taken at other events than the updates.                                 *)
CopiesCurrent ==
    /\ \A q \in queue : q.rating = rating[q.player]
    /\ \A m \in MatchIds : Live(m) =>
          \A p \in Participants(m) : lastEntry[p].rating = rating[p]
    /\ "ranking" \in Features => \A p \in Players : rating[p] > 0 => rank[p] = rating[p]

(* The queue time the satisfaction model is given at the end of a match is *)
(* how long the player's queue entry waited for that match; the entry of   *)
(* pending_queue_times is there for the match's duration and no longer.    *)
QueueTimeIsWait ==
    \A p \in Players :
        queueTime[p] = IF \E m \in active : p \in Participants(m)
                       THEN lastEntry[p].left - lastEntry[p].at
                       ELSE Unset

(* A matchmaker that subscribes to completed matches is shown each of them *)
(* at most once: a match is in the buffer or has been shown, not both.     *)
ShownOnce ==
    "completed" \in Features =>
        /\ buffer \cap shown = {}
        /\ buffer \cup shown = Done

(* The recorded history is a chain for every player: the i-th match it     *)
(* holds of a player shows the rating left by the i-1 before it, so that   *)
(* replaying it in order starts every update from the live run's rating.   *)
HistoryChain ==
    "history" \in Features =>
        /\ Len(history) = completed
        /\ \A i \in 1 .. Len(history) : \A s \in history[i].seen :
              s[2] = Cardinality({ j \in 1 .. i - 1 :
                                     \E t \in history[j].seen : t[1] = s[1] })

(* With a positive rejoin delay a participant's detection check is done    *)
(* before the player can be queued, let alone matched, again: the check is *)
(* of the match that has just ended.                                       *)
CheckedBeforeRequeue ==
    RejoinDelay > 0 =>
        \A e \in events : e.kind = "DetectionCheck" =>
            /\ \A q \in queue : q.player # e.subject
            /\ \A m \in MatchIds : Live(m) => e.subject \notin Participants(m)

(* A player whose PlayerQuit has been processed is out of the simulation:  *)
(* not queued, not on the way to the queue, not in a match.                *)
QuitIsFinal ==
    \A p \in gone :
        /\ \A q \in queue : q.player # p
        /\ \A e \in events : IsEntry(e) => e.subject # p
        /\ \A m \in MatchIds : Live(m) => p \notin Participants(m)

(* run_until returns, whatever the plugins do.                             *)
RunReturns == <>Returned

(* If the horizon leaves the time for it, the match budget is used up:     *)
(* max_matches are formed and every one of them completes.                 *)
BudgetReached == <>(completed = MaxMatches)

-----------------------------------------------------------------------------
(* What the documentation says of the loop and the code does not do.       *)

(* docs/terminology.md:179: "Ban (removal from population)".  PlayerQuit   *)
(* is the event a ban schedules, and the only one handle_detection_check   *)
(* emits: here every quit is a ban.                                        *)
BannedLeaves ==
    \A p \in gone : \A m \in MatchIds :
        Pending("MatchFormed", m) => p \notin Participants(m)

(* docs/methodology.md:79: "The simulation stops when either bound is      *)
(* reached", the bounds being max_time and matches.                        *)
StopsAtEitherBound == <>(Returned \/ completed = MaxMatches)
=============================================================================
