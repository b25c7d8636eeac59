-------------------------------- MODULE MCPlans --------------------------------
(***************************************************************************)
(* Instances of what a manifest is made of: files and overrides, designs   *)
(* and populations.                                                        *)
(***************************************************************************)
EXTENDS Integers, Sequences, TLC

CONSTANT None

VARIABLES input, output

(***************************************************************************)
(* Manifests: a base of bases, one more file, and the overrides of an arm  *)
(***************************************************************************)

Leaf(x) == [kind |-> "leaf", v |-> x]
Null == [kind |-> "null", v |-> None]
List(s) == [kind |-> "sequence", v |-> s]
Map(f) == [kind |-> "mapping", v |-> f]
NoKeys == Map(<<>>)

Archetype ==
    Map([name |-> Leaf("casual"), proportion |-> Leaf("1"), skill_volatility |-> Leaf("1"),
         skill_distribution |-> Map([type |-> Leaf("normal"), mean |-> Leaf("1"), stddev |-> Leaf("2")]),
         improvement_rate |-> Leaf("1"), play_frequency |-> Leaf("1"),
         session_length |-> Leaf("1"), quit_probability |-> Leaf("0")])
BaseFile ==
    Map([experiment |-> Map([
        name |-> Leaf("base"), seed |-> Leaf("7"), game |-> NoKeys,
        population |-> Map([archetypes |-> List(<<Archetype>>)]),
        matchmaking |-> Map([max_queue_time |-> Leaf("60")]),
        rating |-> Map([name |-> Leaf("elo"), k |-> Leaf("32")]),
        output |-> Map([directory |-> Leaf("out"), plots |-> Leaf("true")]),
        cohorts |-> List(<<Map([name |-> Leaf("c"),
                                filter |-> Map([type |-> Leaf("party_size"), size |-> Leaf("2")])])>>),
        adversarial |-> Map([agents |-> List(<<Map([script |-> Leaf("afk.lua")]),
                                               Map([script |-> Leaf("afk.lua"), x |-> Leaf("2")])>>)])])])
MiddleFile ==
    Map([base |-> Leaf(<<"base.yaml">>),
         experiment |-> Map([rating |-> Map([k |-> Leaf("16"), script |-> Leaf("elo.lua")]),
                             duration |-> Map([matches |-> Leaf("5"), max_time |-> Leaf("9")]),
                             output |-> Map([plots |-> Leaf("false")])])])
TopFile(experiment) == Map([base |-> Leaf(<<"lib", "mid.yaml">>), experiment |-> experiment])
TopExperiments ==
    {NoKeys, Map([name |-> Leaf("top"), rating |-> Map([k |-> Leaf("8")])]), Map([rating |-> Null]),
     Map([metrics |-> List(<<Leaf("m"), Map([script |-> Leaf("m.lua"), p |-> Leaf("1")])>>)]),
     Map([game |-> Map([teams |-> Map([a |-> Leaf("2"), b |-> Map([size |-> Leaf("1")])]), beta |-> Leaf("1")]),
          ranking |-> NoKeys]),
     Map([output |-> Leaf("wrong")]), Map([typo |-> Leaf("1")])}
Files(experiment) ==
    (<<"lib", "base.yaml">> :> BaseFile) @@ (<<"lib", "mid.yaml">> :> MiddleFile)
        @@ (<<"top.yaml">> :> TopFile(experiment))

In(path) == <<"experiment">> \o path
OverrideSets ==
    {<<>>, In(<<"rating", "k">>) :> Leaf("64"), In(<<"seed">>) :> Leaf("1"),
     (In(<<"rating">>) :> Map([script |-> Leaf("glicko")])) @@ (In(<<"rating", "k">>) :> Leaf("64")),
     In(<<"population", "archetypes", "0", "proportion">>) :> Leaf("2"),
     In(<<"population", "archetypes", "1", "role">>) :> Leaf("k"),
     In(<<"ranking", "script">>) :> Leaf("r.lua"),
     (In(<<"detection">>) :> Map([script |-> Leaf("d.lua"), t |-> Leaf("2")]))
         @@ (In(<<"game", "teams", "a">>) :> Leaf("3")),
     In(<<"game", "typo">>) :> Leaf("3"), In(<<"output", "typo">>) :> Leaf("3"),
     In(<<"duration", "matches">>) :> Leaf("wrong")}
Studies ==
    {[arms |-> <<a, b>>, metrics |-> m, cohorts |-> List(<<>>)] :
       a \in OverrideSets, b \in {<<>>, In(<<"name">>) :> Leaf("b")},
       m \in {List(<<>>), List(<<Leaf("queue_time")>>)}}

Configuration == INSTANCE Manifest WITH
    LuaPaths <- {"logistic.lua", "batch.lua", "smurf.lua", "brackets.lua", "satisfaction.lua",
                 "afk.lua", "m.lua", "r.lua", "d.lua", "elo.lua"},
    IndexOf <- ("0" :> 0 @@ "1" :> 1),
    Inputs <- {[files |-> Files(x), path |-> <<"top.yaml">>, study |-> s] :
                 x \in TopExperiments, s \in Studies \cup {None}}
              \cup {[files |-> Files(NoKeys), path |-> p, study |-> None] :
                      p \in {<<"none.yaml">>, <<"lib", "base.yaml">>}}

(***************************************************************************)
(* Designs: grids of up to two factors, one name twice, labels that clash  *)
(***************************************************************************)

Level(label, value) == [label |-> label, value |-> value]
LevelSets ==
    {<<>>, <<Level(<<"a">>, 1)>>, <<Level(<<"a">>, 1), Level(<<"b">>, 2)>>,
     <<Level(<<"a">>, 1), Level(<<"a">>, 2)>>, <<Level(<<"a">>, 1), Level(<<"b">>, 1)>>, <<Level(<<"b", "x", "a">>, 3), Level(<<"a">>, 1)>>,
     <<Level(<<"b">>, 1), Level(<<"a", "x", "b">>, 2), Level(<<"c">>, 3)>>}
Grids ==
    {<<>>} \cup {<<[name |-> 1, levels |-> l]>> : l \in LevelSets}
        \cup {<<[name |-> 2, levels |-> l], [name |-> n, levels |-> k]>> :
                n \in {1, 2, 3}, l, k \in LevelSets}
Crn == [kind |-> "crn", parent |-> None]

Design == INSTANCE Designs WITH
    Times <- "x",
    Inputs <- [grid : Grids, total : {0, 1, 5}, randomized : BOOLEAN,
               draw : {<<0, 0, 0, 0, 0>>, <<1, 0, 2, 1, 3>>, <<4, 4, 4, 4, 4>>},
               design : {Crn, [kind |-> "counterfactual", parent |-> None],
                         [kind |-> "counterfactual", parent |-> 1],
                         [kind |-> "blocked", factor |-> 1, levels |-> 2, inner |-> Crn],
                         [kind |-> "blocked", factor |-> None, levels |-> 0, inner |-> Crn]}]

(***************************************************************************)
(* Populations: shares that do not divide, dynamics, and a leaderboard     *)
(***************************************************************************)

Normal(mean, stddev) == [type |-> "normal", mean |-> mean, stddev |-> stddev]
Kind(name, proportion, distribution) ==
    [name |-> name, proportion |-> proportion, skill_distribution |-> distribution,
     initial_rating |-> None, skill_volatility |-> 5, role |-> None, skill_dimensions |-> None]
People(size, archetypes) ==
    [size |-> size, archetypes |-> archetypes, dynamics |-> None, recording |-> FALSE]
Shares ==
    {People(n, <<Kind("a", x, Normal(1, 0)), Kind("b", y, Normal(1, 0)),
                 [Kind("c", z, Normal(1, 0)) EXCEPT !.initial_rating = 0, !.role = "tank"]>>) :
       n \in {0, 1, 3, 4}, x, y, z \in 0..3}
Skilled ==
    {People(2, <<Kind("a", 1, d),
                 [Kind("b", 2, d) EXCEPT !.skill_volatility = 120,
                      !.skill_dimensions = [aim |-> Normal(2, 1), movement |-> Normal(4, 2)]]>>) :
       d \in {Normal(1, 1), [type |-> "uniform", low |-> 1, high |-> 3],
              [type |-> "log_normal", mean |-> 0, stddev |-> 1]}}
Changing ==
    {[People(2, <<Kind("a", 1, Normal(4, 1))>>) EXCEPT !.dynamics = d, !.recording = r] : r \in BOOLEAN,
       d \in {[type |-> "process", improvement_rate |-> 1, volatility |-> 2],
              [type |-> "linear", improvement_rate |-> 1, decline_rate |-> 2, volatility |-> 0],
              [type |-> "experience", learning_rate |-> 4, plateau_games |-> 2, volatility |-> 0],
              [type |-> "decay", decay_rate |-> 50, inactive_threshold |-> 1, min_skill |-> 2],
              [type |-> "stationary"]}}

Players == INSTANCE Population WITH
    spec <- input, world <- output, Ratings <- 0..2, MaxTime <- 3, MaxSteps <- 3,
    Specs <- Shares \cup Skilled \cup Changing \cup {People(2, <<>>)}

===============================================================================
