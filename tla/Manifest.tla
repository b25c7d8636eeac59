-------------------------------- MODULE Manifest --------------------------------
(***************************************************************************)
(* From the YAML of a manifest to the configurations that are run: the     *)
(* chain of bases, the typed schema that drops what it does not know, the  *)
(* dotted overrides of a study's arms, the scripts a run loads and those   *)
(* its fingerprint and its reproduction package hold.                      *)
(*                                                                         *)
(* A tree is [kind |-> "leaf" | "null" | "sequence" | "mapping", v |-> x];  *)
(* the leaf "wrong" has no type the schema accepts.  Paths of files and    *)
(* overrides are sequences of names.                                       *)
(***************************************************************************)
EXTENDS Integers, Sequences, FiniteSets, SequencesExt, Functions, TLC

CONSTANTS
    None,
    LuaPaths,    \* the leaves that end in .lua
    IndexOf,     \* the path segments that are numbers, with their number
    Inputs       \* [files, path, study]: a file system, a manifest, a study or None

VARIABLES input, output

vars == <<input, output>>

Leaf(x) == [kind |-> "leaf", v |-> x]
Null == [kind |-> "null", v |-> None]
Seq0(s) == [kind |-> "sequence", v |-> s]
Map(f) == [kind |-> "mapping", v |-> f]
NoKeys == Map(<<>>)
Failure(kind) == [kind |-> kind, v |-> None]
Failed(tree) == tree.kind \in {"error", "panic"}
Given(tree, key) == tree.kind = "mapping" /\ key \in DOMAIN tree.v

(***************************************************************************)
(* Schema                                                                  *)
(***************************************************************************)

Struct(required, optional, default, open) ==
    [required |-> required, optional |-> optional, default |-> default, open |-> open]

ExperimentSpec == Struct(
    {"name", "seed", "population", "game", "matchmaking", "rating", "output"},
    {"description", "detection", "ranking", "objectives", "adversarial", "satisfaction", "replication"},
    [x \in {"metrics", "cohorts", "duration"} |-> x], FALSE)
PopulationSpec == Struct({"archetypes"}, {}, [x \in {"size"} |-> Leaf("1000")], FALSE)
ArchetypeSpec == Struct(
    {"name", "proportion", "skill_distribution", "skill_volatility", "improvement_rate",
     "play_frequency", "session_length", "quit_probability"}, {"initial_rating", "role"}, <<>>, FALSE)
GameSpec == Struct({}, {"skill_update_interval_secs"}, [x \in {"teams", "script"} |-> x], TRUE)
TeamSpecs == Struct({"a", "b"}, {}, <<>>, FALSE)
TeamSpec == Struct({"size"}, {"role"}, <<>>, FALSE)
MatchmakingSpec ==
    Struct({"max_queue_time"}, {}, [x \in {"script"} |-> Leaf("batch.lua")], TRUE)
RatingSpec == Struct({}, {"name", "script"}, <<>>, TRUE)
DetectionSpec == Struct({}, {}, [x \in {"script"} |-> Leaf("smurf.lua")], TRUE)
RankingSpec == Struct({}, {}, [x \in {"script"} |-> Leaf("brackets.lua")], TRUE)
AdversarialSpec == Struct({}, {}, [x \in {"agents"} |-> Seq0(<<>>)], FALSE)
AdversarialAgentSpec == Struct({"script"}, {"player"}, <<>>, TRUE)
SatisfactionSpec == Struct({}, {}, [x \in {"script"} |-> Leaf("satisfaction.lua")], TRUE)
ObjectiveWeightsSpec == Struct({},
    {"match_quality", "queue_time", "rating_accuracy", "convergence_speed", "smurf_damage",
     "false_positive_rate", "streak_frustration"}, <<>>, FALSE)
CohortSpec == Struct({"name", "filter"}, {}, <<>>, FALSE)
DurationSpec == Struct({"matches", "max_time"}, {}, <<>>, FALSE)
MetricEntry == Struct({"script"}, {}, <<>>, TRUE)
OutputSpec == Struct({}, {}, [directory |-> Leaf("results/"), formats |-> Seq0(<<Leaf("json")>>),
                              plots |-> Leaf("false"), report |-> Leaf("false")], FALSE)
\* The variants of a tagged field, by the value of its `type`.
Tagged(tag) ==
    IF tag \in {"normal", "log_normal"} THEN Struct({"type", "mean", "stddev"}, {}, <<>>, FALSE)
    ELSE IF tag = "uniform" THEN Struct({"type", "low", "high"}, {}, <<>>, FALSE)
    ELSE Struct({"type"}, {}, <<>>, FALSE)
CohortFilterSpec(tag) ==
    CASE tag = "archetype" -> Struct({"type", "value"}, {}, <<>>, FALSE)
      [] tag = "smurf_by_properties" ->
             Struct({"type"}, {}, [min_skill |-> Leaf("1300"), max_games |-> Leaf("20")], FALSE)
      [] tag \in {"games_played_range", "skill_range"} -> Struct({"type", "low", "high"}, {}, <<>>, FALSE)
      [] tag = "party_size" -> Struct({"type", "size"}, {}, <<>>, FALSE)
      [] tag = "session_length" -> Struct({"type", "min", "max"}, {}, <<>>, FALSE)
      [] OTHER -> Struct({"type"}, {}, <<>>, FALSE)

Structs == [config |-> Struct({"experiment"}, {}, <<>>, FALSE), experiment |-> ExperimentSpec,
    population |-> PopulationSpec, archetypes |-> ArchetypeSpec, game |-> GameSpec,
    teams |-> TeamSpecs, a |-> TeamSpec, b |-> TeamSpec, matchmaking |-> MatchmakingSpec,
    rating |-> RatingSpec, detection |-> DetectionSpec, ranking |-> RankingSpec,
    adversarial |-> AdversarialSpec, agents |-> AdversarialAgentSpec,
    satisfaction |-> SatisfactionSpec, objectives |-> ObjectiveWeightsSpec,
    cohorts |-> CohortSpec, duration |-> DurationSpec, metrics |-> MetricEntry, output |-> OutputSpec]
\* The fields that hold a sequence of structs, and the untagged ones a leaf may stand for.
Lists == {"archetypes", "agents", "cohorts", "metrics"}
Untagged == {"a", "b", "metrics"}

\* The defaults that are sections of their own.
Default(value) ==
    CASE value = "metrics" ->
             Seq0(<<Leaf("match_quality"), Leaf("queue_time"), Leaf("rating_accuracy")>>)
      [] value = "cohorts" -> Seq0(<<>>)
      [] value = "duration" -> Map([matches |-> Leaf("100000"), max_time |-> Leaf("604800")])
      [] value = "teams" -> Map([a |-> Leaf("5"), b |-> Leaf("5")])
      [] value = "script" -> Leaf("logistic.lua")
DefaultOf(name, struct, key) ==
    IF name \in {"experiment", "game"} THEN Default(struct.default[key]) ELSE struct.default[key]

RECURSIVE ParseStruct(_, _), ParseField(_, _)
\* serde: absent or null options are null when written again, a missing field
\* has its default or is an error, and an unknown one is dropped unless the
\* struct keeps the rest as parameters.
ParseStruct(name, tree) ==
    LET struct == Structs[name]
        known == struct.required \cup struct.optional \cup DOMAIN struct.default
        fields == [key \in (IF struct.open /\ tree.kind = "mapping" THEN known \cup DOMAIN tree.v ELSE known) |->
            IF ~Given(tree, key)
            THEN IF key \in struct.optional THEN Null
                 ELSE IF key \in DOMAIN struct.default THEN DefaultOf(name, struct, key)
                 ELSE Failure("error")
            ELSE IF key \notin known \/ (key \in struct.optional /\ tree.v[key] = Null) THEN tree.v[key]
                 ELSE ParseField(key, tree.v[key])]
    IN IF tree.kind # "mapping" \/ \E key \in DOMAIN fields : Failed(fields[key])
       THEN Failure("error") ELSE Map(fields)
ParseField(key, tree) ==
    LET one(x) == IF x.kind = "leaf" /\ key \in Untagged THEN x ELSE ParseStruct(key, x)
        tag(x) == IF Given(x, "type") THEN x.v["type"].v ELSE "none"
        variant(x) == IF key = "filter" THEN CohortFilterSpec(tag(x)) ELSE Tagged(tag(x))
    IN IF tree = Leaf("wrong") THEN Failure("error")
       ELSE IF key \in Lists
       THEN IF tree.kind # "sequence" \/ \E i \in DOMAIN tree.v : Failed(one(tree.v[i]))
            THEN Failure("error") ELSE Seq0([i \in DOMAIN tree.v |-> one(tree.v[i])])
       ELSE IF key \in DOMAIN Structs THEN one(tree)
       ELSE IF key \in {"filter", "skill_distribution"}
       THEN IF \E k \in variant(tree).required : ~Given(tree, k) THEN Failure("error")
            ELSE Map([k \in variant(tree).required \cup DOMAIN variant(tree).default |->
                         IF Given(tree, k) THEN tree.v[k] ELSE variant(tree).default[k]])
       ELSE IF tree.kind \in {"null", "mapping"} THEN Failure("error") ELSE tree
Parse(tree) == ParseStruct("config", tree)

(***************************************************************************)
(* Inheritance                                                             *)
(***************************************************************************)

\* The base wins over what overrides it.
FaultyDeepMerge(base, over) == Map(base.v @@ over.v)
RECURSIVE DeepMerge(_, _)
\* Mappings merge key by key; anything else is replaced by the override.
DeepMerge(base, over) ==
    IF base.kind = "mapping" /\ over.kind = "mapping"
    THEN Map([key \in DOMAIN base.v \cup DOMAIN over.v |->
                 IF ~Given(over, key) THEN base.v[key]
                 ELSE IF ~Given(base, key) THEN over.v[key]
                 ELSE DeepMerge(base.v[key], over.v[key])])
    ELSE over

RECURSIVE LoadValue(_, _)
\* resolve_value, load_value: `base` is relative to the directory of the file
\* that names it; a base that is no string stays in the tree.
LoadValue(files, path) ==
    IF path \notin DOMAIN files THEN Failure("error")
    ELSE LET doc == files[path]
             rest == Map([key \in DOMAIN doc.v \ {"base"} |-> doc.v[key]])
         IN IF ~Given(doc, "base") \/ doc.v["base"].kind # "leaf" THEN doc
            ELSE LET base == LoadValue(files, Front(path) \o doc.v["base"].v)
                 IN IF Failed(base) THEN base ELSE DeepMerge(base, rest)
Load(files, path) ==
    LET tree == LoadValue(files, path) IN IF Failed(tree) THEN tree ELSE Parse(tree)

(***************************************************************************)
(* Overrides                                                               *)
(***************************************************************************)

RECURSIVE SetAt(_, _, _)
\* An index pads its sequence with nulls on the way, but must exist at the end;
\* a section that is absent is written as null, and a path through it panics.
SetAt(tree, path, value) ==
    LET part == Head(path)
        index == part \in DOMAIN IndexOf
        at == IF index THEN IndexOf[part] + 1 ELSE 0
        below(child) == IF Len(path) = 1 THEN value ELSE SetAt(child, Tail(path), value)
        child == IF index
                 THEN IF at <= Len(tree.v) THEN tree.v[at] ELSE Null
                 ELSE IF part \in DOMAIN tree.v THEN tree.v[part] ELSE NoKeys
        padded == [i \in 1..(IF at > Len(tree.v) THEN at ELSE Len(tree.v)) |->
                      IF i <= Len(tree.v) THEN tree.v[i] ELSE Null]
    IN IF tree.kind # (IF index THEN "sequence" ELSE "mapping") THEN Failure("panic")
       ELSE IF index /\ Len(path) = 1 /\ at > Len(tree.v) THEN Failure("panic")
       ELSE IF Failed(below(child)) THEN below(child)
       ELSE IF index THEN Seq0([padded EXCEPT ![at] = below(child)])
       ELSE Map((part :> below(child)) @@ tree.v)

SetNestedValue(config, path, value) ==
    LET tree == SetAt(config, path, value)
    IN IF Failed(tree) \/ Failed(Parse(tree)) THEN Failure("panic") ELSE Parse(tree)

\* The longest path first: a section replaces what was set inside it.
FaultyNextPath(overrides) ==
    CHOOSE p \in DOMAIN overrides : \A q \in DOMAIN overrides : Len(p) >= Len(q)
\* BTreeMap order, as far as it matters: a path comes before those it leads to.
NextPath(overrides) ==
    CHOOSE p \in DOMAIN overrides : \A q \in DOMAIN overrides : Len(p) <= Len(q)

RECURSIVE ApplyOverrides(_, _)
ApplyOverrides(config, overrides) ==
    IF DOMAIN overrides = {} \/ Failed(config) THEN config
    ELSE LET path == NextPath(overrides)
         IN IF path \in {<<"experiment", "seed">>, <<"seed">>} THEN Failure("error")
            ELSE ApplyOverrides(SetNestedValue(config, path, overrides[path]),
                                Restrict(overrides, DOMAIN overrides \ {path}))

\* StudyRunner::run: the study's metrics and cohorts, absent ones too, replace
\* those of the base before the overrides of an arm apply.
StudyBase(base, study) ==
    Map([base.v EXCEPT !["experiment"] = Map([@.v EXCEPT !["metrics"] = study.metrics, !["cohorts"] = study.cohorts])])
ArmConfig(base, study, arm) == ApplyOverrides(StudyBase(base, study), study.arms[arm])

\* The first arm that fails is the answer of the study.
Arms(base, study) ==
    LET arms == [i \in DOMAIN study.arms |-> ArmConfig(base, study, i)]
        failed == {i \in DOMAIN arms : Failed(arms[i])}
    IN IF failed = {} THEN [kind |-> "arms", v |-> arms]
       ELSE arms[CHOOSE i \in failed : \A j \in failed : i <= j]

(***************************************************************************)
(* Scripts                                                                 *)
(***************************************************************************)

\* resolve_plugin: a path is a script, a bare name one of the layer's plugins.
Script(layer, leaf) == IF leaf.v \in LuaPaths THEN <<"path", leaf.v>> ELSE <<layer, leaf.v>>

RatingScript(spec) == IF spec.v["script"] # Null THEN spec.v["script"] ELSE spec.v["name"]
MetricScript(entry) == IF entry.kind = "leaf" THEN entry ELSE entry.v["script"]
\* One agent for each player: the last one named, for those who name none player 0.
AdversarialAgents(spec) ==
    LET agents == IF spec = Null THEN <<>> ELSE spec.v["agents"].v
        player(a) == IF a.v["player"] = Null THEN "0" ELSE a.v["player"].v
        last(i) == \A j \in i + 1..Len(agents) : player(agents[j]) # player(agents[i])
    IN {agents[i] : i \in {i \in DOMAIN agents : last(i)}}
AgentScripts(spec) == IF spec = Null THEN {} ELSE {a.v["script"] : a \in Range(spec.v["agents"].v)}

Layers == {"game", "matchmaking", "detection", "ranking", "satisfaction"}
\* ExperimentRunner: a rating system with neither name nor script is an error.
LoadedScripts(config) ==
    LET e == config.v["experiment"].v
    IN {Script("rating", RatingScript(e["rating"]))}
        \cup {Script(layer, e[layer].v["script"]) : layer \in {l \in Layers : e[l] # Null}}
        \cup {Script("metrics", MetricScript(m)) : m \in Range(e["metrics"].v)}
        \cup {Script("adversarial", s) : s \in AgentScripts(e["adversarial"])}
Runs(config) == RatingScript(config.v["experiment"].v["rating"]) # Null

RECURSIVE LuaLeaves(_)
LuaLeaves(tree) ==
    CASE tree.kind = "leaf" -> {tree.v} \cap LuaPaths
      [] tree.kind = "sequence" -> UNION {LuaLeaves(tree.v[i]) : i \in DOMAIN tree.v}
      [] tree.kind = "mapping" -> UNION {LuaLeaves(tree.v[k]) : k \in DOMAIN tree.v}
      [] OTHER -> {}
\* A metric given by its bare name is overlooked.
FaultyCollectScriptPaths(config) == {<<"path", s>> : s \in LuaLeaves(config)}

\* The .lua values anywhere in the configuration, and its metrics by name.
CollectScriptPaths(config) ==
    {<<"path", s>> : s \in LuaLeaves(config)}
        \cup {Script("metrics", MetricScript(m)) : m \in Range(config.v["experiment"].v["metrics"].v)}
\* The hash covers the configuration and the text of these scripts; the package
\* of a run holds the scripts themselves and this hash.
HashConfig(config) == [config |-> config, scripts |-> CollectScriptPaths(config)]
Package(config) == [scripts |-> CollectScriptPaths(config), hash |-> HashConfig(config)]
\* A package matches a configuration, at one commit, when the hashes do.
Verify(package, config) == package.hash = HashConfig(config)

(***************************************************************************)
(* Specification                                                           *)
(***************************************************************************)

Init == input \in Inputs /\ output = None

\* `matchlab run` or `matchlab study`, up to the configurations it runs.
LoadManifest ==
    /\ output = None
    /\ LET base == Load(input.files, input.path)
       IN output' = IF Failed(base) THEN base
                    ELSE IF input.study = None THEN [kind |-> "arms", v |-> <<base>>]
                    ELSE Arms(base, input.study)
    /\ UNCHANGED input

Next == LoadManifest
Spec == Init /\ [][Next]_vars

(***************************************************************************)
(* Properties                                                              *)
(***************************************************************************)

RECURSIVE At(_, _)
\* What a tree holds at a path, None when it ends before.
At(tree, path) ==
    IF path = <<>> THEN tree
    ELSE IF Head(path) \in DOMAIN IndexOf
    THEN IF tree.kind = "sequence" /\ IndexOf[Head(path)] < Len(tree.v)
         THEN At(tree.v[IndexOf[Head(path)] + 1], Tail(path)) ELSE Failure("absent")
    ELSE IF Given(tree, Head(path)) THEN At(tree.v[Head(path)], Tail(path)) ELSE Failure("absent")

RECURSIVE Leaves(_)
\* The paths of the leaves of a tree, sequences taken as wholes.
Leaves(tree) ==
    IF tree.kind = "mapping"
    THEN UNION {{<<key>> \o p : p \in Leaves(tree.v[key])} : key \in DOMAIN tree.v}
    ELSE {<<>>}

RECURSIVE Chain(_, _)
\* The manifest and its bases, the nearest first.
Chain(files, path) ==
    LET doc == files[path]
    IN IF Given(doc, "base") THEN <<doc>> \o Chain(files, Front(path) \o doc.v["base"].v) ELSE <<doc>>

\* A leaf of a manifest is what the nearest file of the chain that mentions it
\* or a part of its path says; the rest are defaults.
Inherited(files, path, config) ==
    LET chain == Chain(files, path)
        says(i, p) == \E n \in 1..Len(p) : At(chain[i], SubSeq(p, 1, n)).kind \in {"leaf", "null", "sequence"}
    IN \A p \in Leaves(config) :
           LET saying == {i \in DOMAIN chain : says(i, p)}
               nearest == CHOOSE i \in saying : \A j \in saying : i <= j
           IN (saying # {} /\ At(config, p).kind = "leaf") => At(chain[nearest], p) = At(config, p)

\* An arm differs from the study's base exactly where it says so: a leaf of the
\* arm is the value of the longest override that leads to it, and the base's
\* where none does; an override of what the base has is not lost.
Controlled(base, overrides, arm) ==
    /\ \A q \in DOMAIN overrides :
           (overrides[q].kind = "leaf" /\ At(base, q).kind # "absent") => At(arm, q) = overrides[q]
    /\ \A p \in Leaves(arm) :
           LET leading == {q \in DOMAIN overrides : IsPrefix(q, p)}
               longest == CHOOSE q \in leading : \A r \in leading : Len(r) <= Len(q)
               set == At(overrides[longest], SubSeq(p, Len(longest) + 1, Len(p)))
           IN IF leading = {}
              THEN (\A q \in DOMAIN overrides : ~IsPrefix(p, q)) => At(arm, p) = At(base, p)
              ELSE set.kind = "leaf" => At(arm, p) = set

\* Overrides and inheritance do what they say and nothing else.
OverridesHold ==
    (output # None /\ output.kind = "arms") =>
        LET base == Load(input.files, input.path)
        IN /\ Inherited(input.files, input.path, base)
           /\ input.study # None =>
                  \A i \in DOMAIN output.v :
                      Controlled(StudyBase(base, input.study), input.study.arms[i], output.v[i])

\* A reproduction package holds every script its run loads by its path, wherever
\* the configuration names it, and the metrics given by a bare name as well. (The
\* other layers' are missing: a rating system may be given that way.)
PackageHolds ==
    (output # None /\ output.kind = "arms") =>
        \A i \in DOMAIN output.v :
            Runs(output.v[i]) =>
                {s \in LoadedScripts(output.v[i]) : s[1] \in {"path", "metrics"}}
                    \subseteq Package(output.v[i]).scripts
===============================================================================
