-------------------------------- MODULE Plugins --------------------------------
(***************************************************************************)
(* The Lua runtime and the eight adapters that call scripts: loading and   *)
(* validating a script, the tables an adapter builds for a call from the   *)
(* fields the script declares, the persistent context, the guarded draws   *)
(* from the random generator, and what the adapter makes of the answer.    *)
(*                                                                         *)
(* A value given to a script is a datum <<group, field, subject>>, so that *)
(* a table is the set of the data it carries; what a script does with them *)
(* is left open: it may keep any of them, draw, fail, or answer with any   *)
(* part of the result it is asked for.                                     *)
(***************************************************************************)
EXTENDS Integers, Sequences, FiniteSets, TLC

CONSTANTS
    None,
    Adapters,     \* the layers a script may be loaded for
    Scripts,      \* the scripts a manifest may name
    Places,       \* where the script's file may exist
    SampleEvery,  \* sample_every of a metric
    MaxCalls      \* bound on the calls of a loaded script

VARIABLES
    adapter,   \* the layer under study
    vm,        \* the loaded script, an error, or None before loading
    context,   \* what the script's context holds, None before the first call
    calls,     \* calls made (match_count counts those of on_record)
    answer,    \* what the adapter returned from the last call
    panic,     \* why an expect ended the run
    slice      \* the player's behaviour, the part an agent may change

vars == <<adapter, vm, context, calls, answer, panic, slice>>

(***************************************************************************)
(* Declared fields                                                         *)
(***************************************************************************)

KnownFields == [
    observation |-> {"player_id", "rating", "hidden_mmr", "rating_deviation", "volatility",
        "games_played", "win_rate", "tilt_level", "is_online", "recent_performances",
        "queue_joined_at_secs", "queue_joined_at_ticks", "party_id", "role",
        "skill_overall", "skill_vector"},
    match_result |-> {"match_id", "winner", "team_a", "team_b", "team_a_score", "team_b_score",
        "duration_secs", "disconnected", "forfeited", "variance", "performances"},
    queue |-> {"idx", "player_id", "rating", "rating_deviation", "games_played", "win_rate",
        "joined_at_secs", "wait_secs", "region", "party_id", "latency_ms", "game_mode", "role"},
    snapshot |-> {"tick", "time_secs"},
    population |-> {"rating", "skill_overall", "true_skill"},
    reality |-> {"true_skill", "improvement_rate", "reality_games_played", "archetype"},
    behavior |-> {"quit_probability", "tilt_level", "party_id", "win_rate", "is_online"},
    completed_match |-> {"id", "winner", "team_a", "team_b", "time"},
    request |-> {"player_id", "match_id", "now_secs", "teams", "rating", "rank",
        "satisfaction", "experience", "detection_result"}]
Groups == DOMAIN KnownFields

NoRequirements == [g \in Groups |-> {}]

\* The data_requirements global: nil, or a table whose groups are absent or arrays
\* of which only strings count (what is no table is `malformed`, an error).
\* A field nobody knows is kept; a warning is all it gets.
StringArray(value) == {field \in value : field # "not a string"}
FromLuaValue(declared) ==
    IF declared = None THEN NoRequirements
    ELSE [g \in Groups |-> IF g \in DOMAIN declared THEN StringArray(declared[g]) ELSE {}]
\* GlobalSubscription: what the loop prepares is the union of the requirements.
Aggregate(reqs) == [g \in Groups |-> UNION {req[g] : req \in reqs}]

\* MetricsEngine::data_requirements joins six of the groups of its collectors.
JoinCollectors(reqs) ==
    [Aggregate(reqs) EXCEPT !.queue = {}, !.behavior = {}, !.completed_match = {}]

\* What the loop learns of the requirements of the script under study.
Subscription(req) == Aggregate({IF adapter = "metrics" THEN JoinCollectors({req}) ELSE req})

(***************************************************************************)
(* Tables                                                                  *)
(***************************************************************************)

\* Three players: "q" has left the world and kept its place in the match, "r"
\* has an observation but no reality; optional fields of "p" alone are set.
TeamA == <<"p">>
TeamB == <<"q", "r">>
Participants == {TeamA[i] : i \in DOMAIN TeamA} \cup {TeamB[i] : i \in DOMAIN TeamB}
Observed == {"p", "r", "s"}
Real == {"p", "s"}
Optional == {"queue_joined_at_secs", "queue_joined_at_ticks", "party_id", "role"}

Data(group, fields, subject) == {<<group, f, subject>> : f \in fields}
Fair(group, req, subject, absent) ==
    Data(group, (req[group] \cap KnownFields[group]) \ absent, subject)

Unset(player) == IF player = "p" THEN {} ELSE Optional
\* Every field is given, as the converters of the tests do.
FaultyObservationTable(player, req) ==
    Data("observation", KnownFields.observation \ Unset(player), player)
ObservationTable(player, req) == Fair("observation", req, player, Unset(player))
ObservationTables(players, req) == UNION {ObservationTable(p, req) : p \in players}
ParticipantTable(player, req) ==
    ObservationTable(player, req)
        \cup (IF player \in Real THEN Fair("reality", req, player, {}) ELSE {})

\* A performance row carries the player's id, every statistic and the variance.
PerformanceRow(player) ==
    {<<"match_result", "performances", <<player, x>>>> : x \in {"player_id", "stats", "variance"}}
MatchResultTable(req) ==
    Fair("match_result", req, "match", {"performances"})
        \cup (IF "performances" \in req.match_result
              THEN UNION {PerformanceRow(p) : p \in Participants} ELSE {})

\* The snapshot of a metric: the time fields and a row for every participant
\* the world still knows, whatever else was declared.
ParticipantPlayers(req) == UNION {ParticipantTable(p, req) : p \in Participants \cap Observed}
MetricSnapshot(req) == Fair("snapshot", req, "world", {}) \cup ParticipantPlayers(req)

\* One column per field, over every player of the world.
PopulationSnapshot(req) ==
    UNION {Fair("population", req, p, IF p \in Real THEN {} ELSE {"true_skill"}) : p \in Observed}

\* A team of a completed match lists each player's id, rating and deviation.
CompletedMatches(req) ==
    Fair("completed_match", req, "match", {"team_a", "team_b"})
        \cup {<<"completed_match", team, <<p, x>>>> :
                team \in {"team_a", "team_b"} \cap req.completed_match,
                p \in Participants, x \in {"id", "rating", "rd"}}

\* What is declared of an entry is looked up in the player's observation.
FaultyQueueTable(req) ==
    UNION {Data("queue", req.queue \cap (KnownFields.queue \cup KnownFields.observation), p) : p \in Observed}
QueueTable(req) ==
    UNION {Fair("queue", req, p, IF p = "p" THEN {} ELSE {"party_id", "role"}) : p \in Observed}

\* The behaviour comes from the player's reality and, over it, the observation.
BehaviorTable(req, player) ==
    Fair("behavior", req, player,
         (IF player \in Real \cup Observed THEN {} ELSE KnownFields.behavior \ {"quit_probability"})
           \cup (IF slice["party_id"] = None THEN {"party_id"} ELSE {}))

(***************************************************************************)
(* The data of each call                                                   *)
(***************************************************************************)

Request(req, field) == IF field \in req.request THEN {<<"request", field, "call">>} ELSE {}
Structured(req, field, parts) ==
    IF field \in req.request THEN {<<"request", field, x>> : x \in parts} ELSE {}

ExperienceParts == {"recent_match_qualities", "recent_queue_times", "recent_outcomes",
                    "current_streak", "rank_change", "perceived_fairness", "rematch_rate"}
ResultParts == {"player_id", "probability_of_anomaly", "confidence", "evidence"}

\* on_record attaches the population to the first match and every
\* sample_every-th; match_count was just increased.
SamplesPopulation(req, match_count) ==
    req.population # {} /\ (match_count % SampleEvery = 0 \/ match_count = 1)

InMatch(req) == ObservationTables(Participants \cap Observed, req)

RatingData(f, req) ==
    CASE f = "initialize" -> Request(req, "player_id")
      [] f = "predict" -> InMatch(req)
      [] f = "update" -> MatchResultTable(req) \cup InMatch(req)

OutcomeData(f, req) ==
    InMatch(req) \cup (IF f = "simulate" THEN Request(req, "match_id") ELSE {})

DetectionData(f, req) ==
    CASE f = "observe" -> MatchResultTable(req) \cup InMatch(req)
      [] f = "evaluate" -> Request(req, "player_id") \cup ObservationTable("p", req)
      [] f = "recommend_action" -> Structured(req, "detection_result", ResultParts)

MetricData(f, req) ==
    IF f # "on_record" THEN {}
    ELSE MatchResultTable(req) \cup MetricSnapshot(req)
             \cup (IF SamplesPopulation(req, calls + 1) THEN PopulationSnapshot(req) ELSE {})

MatchmakerData(f, req) ==
    QueueTable(req) \cup {<<"request", "teams", "call">>} \cup Request(req, "now_secs")
        \cup (IF Subscription(req).completed_match = {} THEN {} ELSE CompletedMatches(req))

AgentData(f, req) ==
    Request(req, "player_id") \cup BehaviorTable(req, "p") \cup ObservationTable("p", req)

SatisfactionData(f, req) ==
    IF f = "satisfaction" THEN Structured(req, "experience", ExperienceParts)
    ELSE Request(req, "satisfaction")

RankData(f, req) ==
    IF f = "rating_to_rank" THEN Request(req, "rating")
    ELSE Structured(req, "rank", {"tier", "division"})

CallData(f, req) ==
    CASE adapter = "rating" -> RatingData(f, req)
      [] adapter = "game" -> OutcomeData(f, req)
      [] adapter = "detection" -> DetectionData(f, req)
      [] adapter = "metrics" -> MetricData(f, req)
      [] adapter = "matchmaking" -> MatchmakerData(f, req)
      [] adapter = "adversarial" -> AgentData(f, req)
      [] adapter = "utility" -> SatisfactionData(f, req)
      [] adapter = "ranking" -> RankData(f, req)

\* with_rng surrounds the three calls whose script may draw.
Guarded == {"simulate", "find_matches", "tick"}

(***************************************************************************)
(* Answers                                                                 *)
(***************************************************************************)

\* What each call reads from the table it gets back, where the absent fields get
\* a default. A call that returns a number, or whose answer is dropped, reads none.
Read(fields, given) == [x \in fields |-> IF x \in given THEN "returned" ELSE "default"]

RatingState == {"rating", "rating_deviation", "volatility", "games_played"}
MatchResult == {"winner", "team_a", "team_b", "team_a_score", "team_b_score", "duration_secs",
                "variance", "disconnected", "forfeited", "performances"}
DetectionResult == {"probability_of_anomaly", "confidence", "evidence"}
ProposedMatch == {"team_a", "team_b", "quality_score"}

ResultFields(f) ==
    CASE f = "initialize" -> RatingState
      [] f = "update" -> RatingState \cup {"player_id"}
      [] f = "simulate" -> MatchResult
      [] f = "evaluate" -> DetectionResult
      [] f = "recommend_action" -> {"action"}
      [] f = "compute" -> {"kind", "value", "values", "moments"}
      [] f = "find_matches" -> ProposedMatch
      [] f = "tick" -> KnownFields.behavior
      [] f = "rating_to_rank" -> {"tier", "division"}
      [] f = "rank_to_rating_range" -> {"min", "max"}
      [] OTHER -> {}

\* Fields without which the adapter cannot go on: every one of a row of update,
\* the teams of a proposed match.
Needed(f) ==
    CASE f = "update" -> ResultFields(f)
      [] f = "find_matches" -> {"team_a", "team_b"}
      [] OTHER -> {}

\* The kind of a metric's result decides what else is read.
MetricResult(given) ==
    IF "kind" \notin given \/ "values" \in given THEN [result |-> "summary or distribution"]
    ELSE IF "value" \in given THEN [result |-> "scalar"] ELSE [result |-> "moments"]

Parsed(f, given) == IF f = "compute" THEN MetricResult(given) ELSE Read(ResultFields(f), given)

\* write_behavior: numbers are written when they are given; a nil converts to
\* false as a bool and to None as an optional id, and both are written.
WriteBehavior(given) ==
    [f \in KnownFields.behavior |->
        IF f \in given THEN "written"
        ELSE IF f = "is_online" THEN FALSE
        ELSE IF f = "party_id" THEN None
        ELSE slice[f]]

(***************************************************************************)
(* Loading                                                                 *)
(***************************************************************************)

\* Only what an update needs is required.
FaultyRequired ==
    IF adapter = "rating" THEN {"initialize", "update"} ELSE {}

\* The functions each adapter requires at loading.
Required ==
    CASE adapter = "rating" -> {"initialize", "predict", "update"}
      [] adapter = "game" -> {"win_probability", "simulate"}
      [] adapter = "matchmaking" -> {"find_matches"}
      [] adapter = "detection" -> {"observe", "evaluate", "recommend_action"}
      [] adapter = "metrics" -> {"on_record", "compute"}
      [] adapter = "adversarial" -> {"tick", "objective"}
      [] adapter = "utility" -> {"satisfaction", "retention_probability", "rematch_probability"}
      [] adapter = "ranking" -> {"rating_to_rank", "rank_to_rating_range"}

\* The functions the methods of its trait call.
Called ==
    CASE adapter = "rating" -> {"initialize", "predict", "update"}
      [] adapter = "game" -> {"win_probability", "simulate"}
      [] adapter = "matchmaking" -> {"find_matches"}
      [] adapter = "detection" -> {"observe", "evaluate", "recommend_action"}
      [] adapter = "metrics" -> {"on_record", "compute", "time_buckets"}
      [] adapter = "adversarial" -> {"tick"}
      [] adapter = "utility" -> {"satisfaction", "retention_probability", "rematch_probability"}
      [] adapter = "ranking" -> {"rating_to_rank", "rank_to_rating_range"}
      [] OTHER -> {}

\* resolve_script_path: where it stands, the crate's directory, else the root
\* of the workspace, where it may not exist.
Resolve(path) ==
    IF <<"cwd", path>> \in Places THEN <<"cwd", path>>
    ELSE IF <<"manifest", path>> \in Places THEN <<"manifest", path>>
    ELSE <<"workspace", path>>

\* resolve_plugin: the name as a path, then as a file of the plugin directory.
ResolvePlugin ==
    IF Resolve("input") \in Places THEN Resolve("input")
    ELSE IF Resolve("plugin_dir/input.lua") \in Places THEN Resolve("plugin_dir/input.lua")
    ELSE None

\* validate_script, and what the adapter checks once the source has run again.
LoadError(script) ==
    IF ResolvePlugin = None THEN "cannot find plugin"
    ELSE IF script.bans THEN "banned math.random"
    ELSE IF ~script.runs THEN "lua error"
    ELSE IF ~(Required \subseteq script.defines) THEN "missing required function"
    ELSE IF adapter = "metrics" /\ ~script.named THEN "must declare name"
    ELSE IF script.malformed THEN "data_requirements must be a table"
    ELSE IF adapter = "adversarial" /\ ~script.objective THEN "unknown objective kind"
    ELSE None

\* Loading an agent calls `objective`, which creates the context.
Load(script) ==
    /\ vm = None
    /\ IF LoadError(script) # None
       THEN vm' = [error |-> LoadError(script)] /\ UNCHANGED context
       ELSE /\ vm' = [error |-> None, script |-> script, path |-> ResolvePlugin,
                      req |-> FromLuaValue(script.declares)]
            /\ context' = IF adapter = "adversarial" THEN {} ELSE context
    /\ UNCHANGED <<adapter, calls, answer, panic, slice>>

(***************************************************************************)
(* Calls                                                                   *)
(***************************************************************************)

Loaded == vm # None /\ vm.error = None /\ panic = None
Started(f) == Loaded /\ f \in Called /\ calls < MaxCalls

\* time_buckets is optional: no global, no call; a global that is no function
\* does not convert, and the expect fails.
TimeBucketsAbsent ==
    /\ Started("time_buckets") /\ "time_buckets" \notin vm.script.defines
    /\ calls' = calls + 1
    /\ IF vm.script.time_buckets = "no function"
       THEN panic' = "read time_buckets global" /\ UNCHANGED answer
       ELSE answer' = None /\ UNCHANGED panic
    /\ UNCHANGED <<adapter, vm, context, slice>>

Defined(f) == f \in vm.script.defines
Stray(f) == f \in vm.script.draws \ Guarded

\* The context as the script finds it, and as it leaves it: it may have put
\* any of the data into it by reference, before an error too.
Before == IF context = None THEN {} ELSE context
Kept(f) == {Before, Before \cup CallData(f, vm.req)}

\* A call ends the run when the function is missing, the script fails, a
\* draw finds no generator, nothing is returned, or the value does not convert.
Fail(f, reason) ==
    /\ Started(f)
    /\ reason = "not defined" <=> ~Defined(f)
    /\ reason = "outside a guarded region" => Stray(f)
    /\ reason \in {"failed", "no value"} => ~Stray(f)
    /\ reason = "not defined" => f # "time_buckets"
    /\ panic' = reason
    /\ context' \in IF reason = "not defined" THEN {context} ELSE Kept(f)
    /\ calls' = calls + 1
    /\ UNCHANGED <<adapter, vm, answer, slice>>

\* A call that answers with the fields `given`. A table returned second
\* replaces the context: a new one holds at most what the script could see.
Return(f, given, replaces) ==
    /\ Started(f) /\ Defined(f) /\ ~Stray(f)
    /\ calls' = calls + 1
    /\ context' \in IF replaces THEN {{}, CallData(f, vm.req)} ELSE Kept(f)
    /\ IF Needed(f) \subseteq given
       THEN answer' = Parsed(f, given) /\ UNCHANGED panic
       ELSE panic' = "expected field" /\ UNCHANGED answer
    /\ UNCHANGED <<adapter, vm>>

Answer(f, given, replaces) == f # "tick" /\ Return(f, given, replaces) /\ UNCHANGED slice

\* An agent's tick writes the behaviour it returns back into the world.
Tick(given, replaces) ==
    /\ Return("tick", given, replaces)
    /\ slice' = WriteBehavior(given)

\* reset_context, for tests and callers that start over.
ResetContext ==
    /\ Loaded /\ calls < MaxCalls
    /\ context' = {} /\ calls' = calls + 1
    /\ UNCHANGED <<adapter, vm, answer, panic, slice>>

Init ==
    /\ adapter \in Adapters
    /\ vm = None /\ context = None /\ calls = 0
    /\ answer = None /\ panic = None
    /\ slice = [f \in KnownFields.behavior |-> "own"]

Next ==
    \/ \E script \in Scripts : Load(script)
    \/ TimeBucketsAbsent
    \/ \E f \in Called, reason \in {"not defined", "outside a guarded region", "failed", "no value"} :
           Fail(f, reason)
    \/ \E f \in Called : \E given \in {{}, ResultFields(f)}, replaces \in BOOLEAN :
           Answer(f, given, replaces)
    \/ \E given \in {{}, {"quit_probability"}, KnownFields.behavior}, replaces \in BOOLEAN :
           Tick(given, replaces)
    \/ ResetContext

Spec == Init /\ [][Next]_vars
--------------------------------------------------------------------------------

\* The fields that carry a player's true skill, also in an observation.
GroundTruth == {"true_skill", "skill_overall", "skill_vector", "hidden_mmr"}

\* What a script may know after any calls: the fields it declared, and the team
\* sizes a matchmaker always gets. Reality, population and clock are for metrics
\* only, whatever else is declared (participant_to_table, "Metrics only"), the
\* queue for matchmakers, who see no observation and no true skill. Any other
\* script shown observations is shown the true skill in them if it declares it:
\* what the documents say of that is GroundTruthHidden.
Budgeted(d) ==
    /\ d[2] \in vm.req[d[1]] \/ d = <<"request", "teams", "call">>
    /\ d[1] \in {"reality", "population", "snapshot"} => adapter = "metrics"
    /\ d[1] = "behavior" => adapter = "adversarial"
    /\ d[1] = "queue" => adapter = "matchmaking"
    /\ d[1] = "observation" => adapter \notin {"matchmaking", "utility", "ranking"}
    /\ adapter = "matchmaking" => d[2] \notin GroundTruth
BudgetKept == context # None => \A d \in context : Budgeted(d)

\* Rating systems, matchmakers, detection and agents are never shown true skill.
GroundTruthHidden ==
    (adapter \in {"rating", "matchmaking", "detection", "adversarial"} /\ context # None) =>
        \A d \in context : d[2] \notin GroundTruth

\* A script that loaded is never called a function it does not define: what the
\* adapters call in the middle of a run is what they require at loading.
CallsAreDefined == panic # "not defined"
===============================================================================
