----------------------------- MODULE MCComponents -----------------------------
(***************************************************************************)
(* The parts of Components on small inputs, and the algorithms that turn   *)
(* one input into one output (variables input and output; LuaValues,       *)
(* MCPlans, MCOptimizer, MCAnalysis).                                      *)
(***************************************************************************)
EXTENDS Components

CONSTANT NoName

VARIABLES input, output

algorithmVars == <<input, output>>

(***************************************************************************)
(* Inputs of the components                                                *)
(***************************************************************************)

\* Five players rated 0..2, two of them in a party or none, in two regions.
SomeWorlds ==
    {[p \in 0..4 |-> [rating |-> r[p], deviation |-> p % 2,
                      party |-> IF p \in pair THEN 1 ELSE None,
                      role |-> IF p = 0 THEN "tank" ELSE None,
                      region |-> IF p < 2 THEN "na" ELSE "eu"]] :
       r \in [0..4 -> 0..2], pair \in {{0, 1}, {1, 2}}}

\* Queues with more and fewer players than a match, one with a player twice;
\* the copied ratings are not the current ones.
Waiting(s) == [i \in DOMAIN s |-> [player |-> s[i], rating |-> s[i] % 3, waited |-> Len(s) - i]]
SomeQueues == {Waiting(<<0, 1, 2, 3, 4>>), Waiting(<<4, 3, 0>>), Waiting(<<0, 1, 0, 2>>)}

SomePairs == {<<"eu", "na">>, <<"na", "na">>}
SomeRoles == {[role |-> "tank", min_count |-> 0, max_count |-> 1]}

TwoOrAny == {None, 2}

SomeObservations ==
    [own_rating : {0, 30}, own_rating_deviation : {5}, own_games_played : {3},
     own_win_rate : {50}, queue_wait_time : {None, 30, 90},
     recent_match_results : {<<>>, <<[teammates |-> 2]>>},
     party_members : {{1}}, party_size : {1, 2}, estimated_latency : {None, 120}]

\* Scripts that ask for ground truth, for little, or for nothing; one that
\* draws where it may not, and scripts that do not load.
Asks == [observation |-> {"rating", "skill_overall", "shoe size"}, match_result |-> {"winner", "performances"},
         reality |-> {"true_skill"}, population |-> {"true_skill"}, snapshot |-> {"tick"},
         queue |-> {"idx", "rating", "skill_overall"}, completed_match |-> {"team_a"}, behavior |-> {"party_id"},
         request |-> {"player_id", "experience", "not a string"}]
AllFunctions == {"initialize", "predict", "update", "win_probability", "simulate", "find_matches",
    "observe", "evaluate", "recommend_action", "on_record", "compute", "time_buckets", "tick",
    "objective", "satisfaction", "retention_probability", "rematch_probability",
    "rating_to_rank", "rank_to_rating_range"}
Good == [bans |-> FALSE, runs |-> TRUE, defines |-> AllFunctions, named |-> TRUE,
         declares |-> Asks, malformed |-> FALSE, objective |-> TRUE, draws |-> {"simulate", "predict"},
         time_buckets |-> "function"]
SomeScripts ==
    {Good, [Good EXCEPT !.declares = None, !.draws = {}],
     [Good EXCEPT !.defines = AllFunctions \ {"time_buckets"}, !.time_buckets = "no function"],
     [Good EXCEPT !.defines = AllFunctions \ {"time_buckets"}, !.time_buckets = "nil",
                  !.declares = [queue |-> {"rating"}]],
     [Good EXCEPT !.bans = TRUE], [Good EXCEPT !.runs = FALSE],
     [Good EXCEPT !.defines = {"initialize", "update"}], [Good EXCEPT !.named = FALSE],
     [Good EXCEPT !.malformed = TRUE], [Good EXCEPT !.objective = FALSE]}

SomePlaces == {<<"workspace", "plugin_dir/input.lua">>}

\* Two or three jobs, for at most two workers, each retried up to twice.
Job(id) == [id |-> id, replication |-> "rep", seed |-> 7, checkpoint |-> None]
SomeBatches == {<<Job(1), Job(2)>>, <<Job(1), Job(2), Job(3)>>}
SomeNames == <<4, 5, 4>>

\* Command lines of up to three words, and the two longest that are legal.
CommandWords ==
    {"run", "study", "compare", "package", "analyze", "compare-stats", "power", "optimize", "a.yaml",
     "3", "--json", "--threads", "--verbose", "--replicates", "-o", "--sd", "--effect", "--gp-threads",
     "--unpaired"}
SomeArguments ==
    UNION {[1..n -> CommandWords] : n \in 0..3}
    \cup {<<"power", "--sd", "3", "--effect", "3">>,
          <<"optimize", "a.yaml", "--gp-threads", "3", "--json">>}
SomeFormats == {<<>>, <<"xml">>, <<"json", "xml", "yaml">>}

(***************************************************************************)
(* Algorithms                                                              *)
(***************************************************************************)

\* Scalars, and sequences and mappings of them, of sequences, and of nulls.
Whole(i) == [kind |-> "int", v |-> 2 * i]
Half == [kind |-> "float", v |-> 3]
Str(x) == [kind |-> "string", v |-> x]
Null == [kind |-> "null"]
Seq2(a, b) == [kind |-> "sequence", v |-> <<a, b>>]
Map(f) == [kind |-> "mapping", v |-> f]
Empty == [kind |-> "sequence", v |-> <<>>]
Scalars == {Whole(1), Half, Str(0), [kind |-> "float", v |-> 4], [kind |-> "bool", v |-> 1]}
\* Integers and floats about the limits of the narrow and of the wide integers.
Numerals ==
    {[kind |-> "int", v |-> 2 * i] : i \in {-17, -9, -5, -4, 3, 4, 8, 9, 11, 15, 16, 20}}
        \cup {[kind |-> "float", v |-> v] : v \in {-40, -32, -10, -8, -7, 6, 7, 16, 20, 32, 40}}
Pairs2 == {Seq2(a, b) : a \in Scalars, b \in Scalars}
SomeValues ==
    Scalars \cup Numerals \cup {Seq2(x, Str(0)) : x \in Numerals} \cup {Map([k \in {x} |-> x]) : x \in Numerals}
        \cup {Null, Empty, Map(<<>>), Seq2(Null, Str(0)), Seq2(Str(0), Null)} \cup Pairs2
        \cup {Map([x \in keys |-> v]) : keys \in {{Whole(1)}, {Whole(2)}, {Whole(1), Whole(2)}, {Str(0), Str(1)},
                                                {Half}, {Str(0), Whole(1)}},
                  v \in Scalars \cup {Empty, Null, Map(<<>>), Seq2(Half, Str(0))}}
        \cup {[kind |-> "tagged", v |-> Str(1)], Map([x \in {Null} |-> Half]), Seq2(Empty, Empty)}

\* Integers narrower than a double's mantissa, and wider ones.
Narrow == INSTANCE LuaValues WITH Inputs <- SomeValues, IntegerLimit <- 4, ExactLimit <- 8
Wide == INSTANCE LuaValues WITH Inputs <- SomeValues, IntegerLimit <- 16, ExactLimit <- 8

Plans == INSTANCE MCPlans
Trials == INSTANCE MCOptimizer
Findings == INSTANCE MCAnalysis

AlgorithmInit ==
    \/ focus = "values" /\ Narrow!Init
    \/ focus = "wide values" /\ Wide!Init
    \/ focus = "manifest" /\ Plans!Configuration!Init
    \/ focus = "designs" /\ Plans!Design!Init
    \/ focus = "population" /\ Plans!Players!Init
    \/ focus = "analysis" /\ Findings!Statistics!Init
    \/ focus = "optimizer" /\ Trials!Sequential!Init

AlgorithmNext ==
    \/ focus = "values" /\ Narrow!Next
    \/ focus = "wide values" /\ Wide!Next
    \/ focus = "manifest" /\ Plans!Configuration!Next
    \/ focus = "designs" /\ Plans!Design!Next
    \/ focus = "population" /\ Plans!Players!Next
    \/ focus = "analysis" /\ Findings!Statistics!Next
    \/ focus = "optimizer" /\ Trials!Sequential!Next

IdleComponents ==
    /\ queue = <<>> /\ IdleLibrary /\ IdleEcosystem /\ IdleExecution

AllInit ==
    \/ ComponentsInit /\ input = None /\ output = None
    \/ AlgorithmInit /\ IdleComponents

AllNext ==
    \/ ComponentsNext /\ UNCHANGED algorithmVars
    \/ AlgorithmNext /\ UNCHANGED componentVars

AllSpec == AllInit /\ [][AllNext]_<<componentVars, algorithmVars>>

\* The plugins alone.
PluginsSpec == focus = "plugins" /\ AllInit /\ [][AllNext]_<<componentVars, algorithmVars>>

(***************************************************************************)
(* Properties of the algorithms                                            *)
(***************************************************************************)

\* LuaValues: a context is read back as it was put in.
ContextRoundTrips ==
    /\ focus = "values" => Narrow!ContextRoundTrips
    /\ focus = "wide values" => Wide!ContextRoundTrips

\* Manifest: an arm's overrides hold in what it runs, and a package has its scripts.  Designs: assignments are
\* balanced and labels tell conditions apart.  Population: shares and skills.
\* Optimizer: every trial is accounted for, and the front is what nothing dominates.
StudiesAsPlanned ==
    /\ focus = "manifest" => Plans!Configuration!OverridesHold /\ Plans!Configuration!PackageHolds
    /\ focus = "designs" => Plans!Design!DesignIsSound
    /\ focus = "population" => Plans!Players!PlayersAsPlanned
    /\ focus = "optimizer" => Trials!Sequential!TrialsAreHonest

\* Analysis: two ways to one number agree, and intervals hold their estimates.
AnalysesAgree == focus = "analysis" => Findings!Statistics!AnalysesAgree
===============================================================================
