---------------------------- MODULE AgentPolicies ----------------------------
(***************************************************************************)
(* The strategic agents of crates/matchlab-adversarial: the actions they   *)
(* take, their adaptive policies, manipulation strategies and objectives,  *)
(* as functions of what an agent observes and of its history of outcomes.  *)
(* Rates are percentages; a quantity an agent may not know is None.        *)
(***************************************************************************)
EXTENDS Integers, Sequences, SequencesExt, FiniteSets

CONSTANTS MaxQueueTime, MaxConsecutiveLosses, LatencyThreshold, PatternWindow,
          TargetRating, IdealQueueTime, TargetPartySize, TargetWinRate,
          ObservationSet,   \* the observations an agent is asked about
          MaxHistory,       \* bound: outcomes an agent has seen
          None

VARIABLES observations, history

vars == <<observations, history>>

\* AgentOutcome: match_won is unknown for an action that was no match.
Outcome == [match_won : BOOLEAN \cup {None}, rating_change : {0 - 10, 10}]

Action(name) == [action |-> name]
ContinuePlaying == Action("ContinuePlaying")

-----------------------------------------------------------------------------
(* Adaptive policies *)

ThresholdQueue ==
    LET wait == observations.queue_wait_time
    IN IF wait = None \/ wait <= MaxQueueTime THEN Action("Queue") ELSE Action("NoOp")

\* Every loss counts, whatever came after it.
FaultyConsecutiveLosses == Cardinality({i \in DOMAIN history : history[i].match_won = FALSE})

\* The losses at the end of the history; an unknown outcome ends the streak.
ConsecutiveLosses ==
    LET streak[n \in 0..Len(history)] ==
            IF n = 0 THEN 0 ELSE IF history[n].match_won = FALSE THEN streak[n - 1] + 1 ELSE 0
    IN streak[Len(history)]

LossAversion ==
    IF ConsecutiveLosses >= MaxConsecutiveLosses THEN Action("StopPlaying") ELSE ContinuePlaying

RegionSwitch ==
    LET latency == observations.estimated_latency
    IN IF latency # None /\ latency > LatencyThreshold
       THEN Action("SelectRegion") ELSE ContinuePlaying

\* The ids of the invited players are the team sizes of the last two matches.
PartyFormation ==
    LET results == observations.recent_match_results
    IN IF observations.party_size > 1 \/ results = <<>> THEN ContinuePlaying
       ELSE [action |-> "FormParty",
             members |-> {results[i].teammates : i \in DOMAIN results \cap {1, 2}}]

Won(outcomes) == Cardinality({i \in DOMAIN outcomes : outcomes[i].match_won = TRUE})

\* Whether the win rate is outside 0.2 to 0.9: an empty window divides by
\* zero, and NaN is outside as well.
Suspicious(recent) ==
    \/ Len(recent) = 0
    \/ 100 * Won(recent) < 20 * Len(recent)
    \/ 100 * Won(recent) > 90 * Len(recent)

\* The first matches of the history are looked at, not the last.
FaultyPatternDetection ==
    IF Len(history) >= PatternWindow /\ Suspicious(SubSeq(history, 1, PatternWindow))
    THEN Action("LeaveQueue") ELSE ContinuePlaying

PatternDetection ==
    LET recent == SubSeq(history, Len(history) - PatternWindow + 1, Len(history)) IN
    IF Len(history) >= PatternWindow /\ Suspicious(recent)
    THEN Action("LeaveQueue") ELSE ContinuePlaying

\* What the policy of that name decides; "ordinary" is OrdinaryPlayer.
Decide(policy) ==
    CASE policy = "threshold" -> ThresholdQueue
      [] policy = "losses" -> LossAversion
      [] policy = "region" -> RegionSwitch
      [] policy = "party" -> PartyFormation
      [] policy = "pattern" -> PatternDetection
      [] OTHER -> ContinuePlaying

Policies == {"threshold", "losses", "region", "party", "pattern", "ordinary"}

-----------------------------------------------------------------------------
(* Manipulation strategies: the quantity a strategy asks for, or None *)

RatingDump == IF observations.own_rating > TargetRating THEN TargetRating ELSE None

QueueGaming ==
    LET wait == observations.queue_wait_time
    IN IF wait # None /\ wait < IdealQueueTime THEN IdealQueueTime - wait ELSE None

PartyExploit ==
    IF observations.party_size < TargetPartySize /\ observations.party_size > 0
    THEN observations.party_members ELSE None

RegionHopping == "target_region"

RatingChanges == FoldLeft(LAMBDA s, o : s + o.rating_change, 0, history)

\* InformationInferenceStrategy: what can be inferred, by name.
InformationInference ==
    [avg_rating_change |-> IF history = <<>> THEN None ELSE RatingChanges \div Len(history),
     queue_pattern |-> observations.queue_wait_time]

-----------------------------------------------------------------------------
(* Objectives *)

Known(x, otherwise) == IF x = None THEN otherwise ELSE x
OverHistory(total) == IF history = <<>> THEN 0 ELSE total \div Len(history)

WinRateObjective ==
    LET off == observations.own_win_rate - TargetWinRate IN 0 - off * off
RatingGainObjective == OverHistory(RatingChanges)
RatingVarianceObjective == 0 - observations.own_rating_deviation
QueueTimeObjective == 0 - Known(observations.queue_wait_time, 0)
MatchQualityObjective == OverHistory(100 * Won(history))
TimeSpentObjective == observations.own_games_played
LatencyObjective == 0 - Known(observations.estimated_latency, 50)

\* CompositeObjective over <<objective, weight>> pairs.
CompositeObjective(weighted) ==
    LET sum[n \in 0..Len(weighted)] ==
            IF n = 0 THEN 0 ELSE sum[n - 1] + weighted[n][1] * weighted[n][2]
    IN sum[Len(weighted)]

-----------------------------------------------------------------------------

Init == observations \in ObservationSet /\ history = <<>>

Update(outcome) ==
    /\ Len(history) < MaxHistory
    /\ history' = Append(history, outcome)
    /\ UNCHANGED observations

Next == \E outcome \in Outcome : Update(outcome)

Spec == Init /\ [][Next]_vars

\* An agent changes its behaviour on evidence only.  It leaves after losses
\* exactly when its last matches are all known losses, however long ago it
\* won; it leaves a pattern exactly when there is a window of matches and the
\* wins in the last one are too few or too many; and an agent without history is
\* neutral towards everything its history would tell it.
ActsOnEvidence ==
    /\ (LossAversion.action = "StopPlaying") <=>
          /\ Len(history) >= MaxConsecutiveLosses
          /\ \A i \in (Len(history) - MaxConsecutiveLosses + 1)..Len(history) :
                history[i].match_won = FALSE
    /\ (PatternDetection.action = "LeaveQueue") <=>
          LET window == (Len(history) - PatternWindow + 1)..Len(history)
              wins == {i \in window : history[i].match_won = TRUE}
          IN Len(history) >= PatternWindow
             /\ ~(20 * PatternWindow <= 100 * Cardinality(wins) /\ 100 * Cardinality(wins) <= 90 * PatternWindow)
    /\ history = <<>> =>
          /\ \A p \in Policies : Decide(p).action \notin {"StopPlaying", "LeaveQueue"}
          /\ CompositeObjective(<< <<RatingGainObjective, 3>>, <<MatchQualityObjective, 2>> >>) = 0
          /\ InformationInference.avg_rating_change = None
=============================================================================
