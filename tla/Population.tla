------------------------------- MODULE Population -------------------------------
(***************************************************************************)
(* The players of an experiment: the population generated from archetypes, *)
(* how skill changes over time and what a world remembers of it, and the   *)
(* leaderboard.                                                            *)
(*                                                                         *)
(* A number is known to the whole number below it.  A skill vector is      *)
(* [dimensions, inline], inline being its value when it is one-dimensional.*)
(***************************************************************************)
EXTENDS Integers, Sequences, FiniteSets, SequencesExt, FiniteSetsExt, Functions, TLC

CONSTANTS
    None,
    Specs,     \* [size, archetypes, dynamics, recording]: what a manifest asks for
    Ratings,   \* the ratings a leaderboard is updated with
    MaxTime,   \* bound on the clock
    MaxSteps   \* bound on the changes of skill and of the leaderboard

VARIABLES
    spec,
    world      \* None, and then the players and what is known of them

vars == <<spec, world>>

(***************************************************************************)
(* Skill vectors                                                           *)
(***************************************************************************)

OneDimensional(v) == [dimensions |-> [overall |-> v], inline |-> v]
MultiDimensional(dimensions) == [dimensions |-> dimensions, inline |-> None]

Total(f) == FoldFunction(LAMBDA a, b : a + b, 0, f)
Overall(skill) ==
    IF skill.inline # None THEN skill.inline
    ELSE IF DOMAIN skill.dimensions = {} THEN 0
    ELSE Total(skill.dimensions) \div Cardinality(DOMAIN skill.dimensions)

\* A dimension without a weight weighs 1.
WeightedOverall(skill, weights) ==
    LET weight == [d \in DOMAIN skill.dimensions |-> IF d \in DOMAIN weights THEN weights[d] ELSE 1]
    IN IF DOMAIN skill.dimensions = {} THEN 0
       ELSE Total([d \in DOMAIN weight |-> weight[d] * skill.dimensions[d]]) \div Total(weight)

Clamp(v, low, high) == Max({low, Min({v, high})})
\* normalize: a share of the range, as [num, den]; a dimension without bounds is
\* left as it is, and one without a range is 0.
Normalize(skill, bounds) ==
    [d \in DOMAIN skill.dimensions |->
        IF d \notin DOMAIN bounds THEN [num |-> skill.dimensions[d], den |-> 1]
        ELSE LET range == bounds[d].max - bounds[d].min
             IN IF range = 0 THEN [num |-> 0, den |-> 1]
                ELSE [num |-> Clamp(skill.dimensions[d] - bounds[d].min, 0, range), den |-> range]]
Denormalize(normalized, bounds) ==
    MultiDimensional([d \in DOMAIN normalized |->
        IF d \notin DOMAIN bounds THEN normalized[d].num \div normalized[d].den
        ELSE bounds[d].min
                 + (normalized[d].num * (bounds[d].max - bounds[d].min)) \div normalized[d].den])
Validate(skill, bounds) ==
    \A d \in DOMAIN skill.dimensions \cap DOMAIN bounds :
        skill.dimensions[d] \in bounds[d].min..bounds[d].max

(***************************************************************************)
(* Generation                                                              *)
(***************************************************************************)

\* Rounded e ** x.
Exp(x) == CASE x < 0 -> 0 [] x = 0 -> 1 [] x = 1 -> 3 [] x = 2 -> 7 [] OTHER -> 20
SampleDistribution(d) ==
    CASE d.type = "normal" -> {d.mean - d.stddev, d.mean, d.mean + d.stddev}
      [] d.type = "uniform" -> d.low..d.high - 1
      [] d.type = "log_normal" -> {Exp(x) : x \in {d.mean - d.stddev, d.mean, d.mean + d.stddev}}

\* What is left over goes to the first archetypes.
FaultyInOrder(exact, i, j) == i < j
\* The largest remainder first, the first of equal ones.
InOrder(exact, i, j) == exact[i].rest > exact[j].rest \/ (exact[i].rest = exact[j].rest /\ i < j)

\* allocate_counts: the whole part of each exact share, and one more in order of
\* remainder until the size is reached.
AllocateCounts(size, archetypes) ==
    LET total == FoldLeft(LAMBDA sum, a : sum + a.proportion, 0, archetypes)
        exact == [i \in DOMAIN archetypes |->
                    [floor |-> (archetypes[i].proportion * size) \div total,
                     rest |-> (archetypes[i].proportion * size) % total]]
        left == size - FoldLeft(LAMBDA sum, e : sum + e.floor, 0, exact)
        before(i) == {j \in DOMAIN archetypes \ {i} : InOrder(exact, j, i)}
    IN IF total <= 0 THEN [i \in DOMAIN archetypes |-> 0]
       ELSE [i \in DOMAIN archetypes |->
                exact[i].floor + (IF Cardinality(before(i)) < left THEN 1 ELSE 0)]

\* The skills an archetype may draw; the manifest never sets skill_dimensions.
Skills(archetype) ==
    IF archetype.skill_dimensions = None
    THEN {OneDimensional(v) : v \in SampleDistribution(archetype.skill_distribution)}
    ELSE LET dims == archetype.skill_dimensions
         IN {MultiDimensional(f) :
               f \in {g \in [DOMAIN dims -> UNION {SampleDistribution(dims[d]) : d \in DOMAIN dims}] :
                        \A d \in DOMAIN dims : g[d] \in SampleDistribution(dims[d])}}

\* A player: ground truth, and what the rest of the system observes of it.
NewPlayer(id, archetype, skill) ==
    [reality |-> [id |-> id, skill |-> skill, archetype |-> archetype.name, role |-> archetype.role,
                  consistency |-> Max({100 - archetype.skill_volatility, 0}), party_id |-> None],
     observation |-> [id |-> id, role |-> archetype.role, hidden_mmr |-> Overall(skill),
                      skill_vector |-> OneDimensional(Overall(skill)), party_id |-> None,
                      rating |-> IF archetype.initial_rating = None THEN Overall(skill)
                                 ELSE archetype.initial_rating]]

\* The archetype of each identifier, in the order of the archetypes.
ArchetypeOf(size, archetypes) ==
    LET counts == AllocateCounts(size, archetypes)
    IN FoldLeft(LAMBDA ids, i : ids \o [n \in 1..counts[i] |-> i], <<>>, [i \in DOMAIN archetypes |-> i])

\* PopulationGenerator::generate, World::add_player for each.
Generate ==
    /\ world = None
    /\ LET of == ArchetypeOf(spec.size, spec.archetypes)
           archetype(n) == spec.archetypes[of[n]]
       IN \E skills \in {s \in [DOMAIN of -> UNION {Skills(spec.archetypes[i]) : i \in Range(of)}] :
                           \A n \in DOMAIN of : s[n] \in Skills(archetype(n))} :
            LET players == [n \in DOMAIN of |-> NewPlayer(n - 1, archetype(n), skills[n])]
            IN world' = [players |-> players, time |-> 0, steps |-> 0, entries |-> <<>>,
                         skill_history |-> [n \in DOMAIN of |-> <<>>],
                         was |-> << [n \in DOMAIN of |-> skills[n]] >>]
    /\ UNCHANGED spec

(***************************************************************************)
(* Skill over time                                                         *)
(***************************************************************************)

Noise(volatility) == IF volatility > 0 THEN {-volatility, 0, volatility} ELSE {0}

RECURSIVE Decayed(_, _, _)
\* decay_rate of every inactive step is lost, in percent.
Decayed(v, rate, steps) == IF steps = 0 THEN v ELSE Decayed((v * (100 - rate)) \div 100, rate, steps - 1)

\* What one step makes of one dimension: SkillProcess, which the loop uses, and
\* the models of dynamics.rs.  Only SkillProcess stops at 0, and the floor of a
\* decay lifts a skill that was below it.
AdvanceValue(dynamics, v, context) ==
    CASE dynamics.type = "process" ->
             {Max({v + dynamics.improvement_rate + n, 0}) : n \in Noise(dynamics.volatility)}
      [] dynamics.type = "linear" ->
             {v + dynamics.improvement_rate - dynamics.decline_rate + n : n \in Noise(dynamics.volatility)}
      [] dynamics.type = "experience" ->
             LET played == Min({context.games_played, dynamics.plateau_games})
                 rate == (dynamics.learning_rate * (dynamics.plateau_games - played))
                             \div dynamics.plateau_games
             IN {v + rate + n : n \in Noise(dynamics.volatility)}
      [] dynamics.type = "decay" ->
             LET steps == context.time_inactive - dynamics.inactive_threshold
             IN {IF steps <= 0 THEN v ELSE Max({Decayed(v, dynamics.decay_rate, steps), dynamics.min_skill})}
      [] dynamics.type = "stationary" -> {v}
Advance(dynamics, skill, context) ==
    IF dynamics.type = "stationary"
        \/ (dynamics.type = "decay" /\ context.time_inactive <= dynamics.inactive_threshold)
    THEN {skill}
    ELSE {MultiDimensional(f) :
            f \in {g \in [DOMAIN skill.dimensions ->
                            UNION {AdvanceValue(dynamics, skill.dimensions[d], context) : d \in DOMAIN skill.dimensions}] :
                     \A d \in DOMAIN skill.dimensions : g[d] \in AdvanceValue(dynamics, skill.dimensions[d], context)}}

\* Snapshots are not in order of time: the last one written is found first.
FaultyRecordSnapshot(history, time, skill) == <<[time |-> time, skill |-> skill]>> \o history
\* record_skill_snapshot; time never goes back, so that its sort moves nothing.
RecordSnapshot(history, time, skill) == Append(history, [time |-> time, skill |-> skill])

\* player_skill_at: the last snapshot that is not later; without one, even if
\* there are later ones, the skill of now.
PlayerSkillAt(n, time) ==
    LET history == world.skill_history[n]
        earlier == {i \in DOMAIN history : history[i].time <= time}
    IN IF earlier = {} THEN world.players[n].reality.skill ELSE history[Max(earlier)].skill

Step == world # None /\ world.steps < MaxSteps

\* The skill of a player changes, and the snapshot is taken when recording.
ChangeSkill(n) ==
    /\ Step /\ spec.dynamics # None
    /\ \E skill \in Advance(spec.dynamics, world.players[n].reality.skill,
                            [games_played |-> world.steps, time_inactive |-> world.time]) :
         world' = [world EXCEPT !.steps = @ + 1, !.players[n].reality.skill = skill,
                      !.players[n].observation.skill_vector = OneDimensional(Overall(skill)),
                      !.players[n].observation.hidden_mmr = Overall(skill),
                      !.skill_history[n] = IF spec.recording THEN RecordSnapshot(@, world.time, skill) ELSE @,
                      !.was[world.time + 1][n] = skill]
    /\ UNCHANGED spec

Tick ==
    /\ world # None /\ spec.dynamics # None /\ world.time < MaxTime
    /\ world' = [world EXCEPT !.time = @ + 1, !.was = Append(@, Last(@))]
    /\ UNCHANGED spec

(***************************************************************************)
(* The leaderboard                                                         *)
(***************************************************************************)

\* A player who is on the board is entered again.
FaultyReplaceOrPush(entries, entry) == Append(entries, entry)
ReplaceOrPush(entries, entry) ==
    IF \E i \in DOMAIN entries : entries[i].player_id = entry.player_id
    THEN [i \in DOMAIN entries |-> IF entries[i].player_id = entry.player_id THEN entry ELSE entries[i]]
    ELSE Append(entries, entry)

\* update: a stable sort by rating, the best first.
Update(id, rating) ==
    LET entries == ReplaceOrPush(world.entries, [player_id |-> id, rating |-> rating])
        before(i) == {j \in DOMAIN entries : entries[j].rating > entries[i].rating
                                                \/ (entries[j].rating = entries[i].rating /\ j < i)}
    IN [n \in DOMAIN entries |-> entries[CHOOSE i \in DOMAIN entries : Cardinality(before(i)) = n - 1]]
RankOf(id) ==
    LET at == {i \in DOMAIN world.entries : world.entries[i].player_id = id}
    IN IF at = {} THEN None ELSE Min(at) - 1
TopN(n) == SubSeq(world.entries, 1, Min({n, Len(world.entries)}))

Rate(n) ==
    /\ Step /\ spec.dynamics = None
    /\ \E rating \in Ratings :
           world' = [world EXCEPT !.steps = @ + 1, !.players[n].observation.rating = rating,
                                  !.entries = Update(n - 1, rating)]
    /\ UNCHANGED spec

(***************************************************************************)
(* Specification                                                           *)
(***************************************************************************)

Init == spec \in Specs /\ world = None
Next ==
    \/ Generate
    \/ Tick
    \/ \E n \in (IF world = None THEN {} ELSE DOMAIN world.players) : ChangeSkill(n) \/ Rate(n)
Spec == Init /\ [][Next]_vars

(***************************************************************************)
(* Properties                                                              *)
(***************************************************************************)

\* As many players as asked for, their identifiers in a row; of every archetype
\* the exact share, rounded down or up.
Apportioned ==
    LET total == FoldLeft(LAMBDA sum, a : sum + a.proportion, 0, spec.archetypes)
        of(i) == {n \in DOMAIN world.players : world.players[n].reality.archetype = spec.archetypes[i].name}
    IN total > 0 =>
        /\ Len(world.players) = spec.size
        /\ \A n \in DOMAIN world.players : world.players[n].reality.id = n - 1
        /\ \A i \in DOMAIN spec.archetypes :
               LET off == Cardinality(of(i)) * total - spec.archetypes[i].proportion * spec.size
               IN off < total /\ -off < total

\* What is observed follows the truth: the skill of outcome models is the true
\* one, and what a world remembers from the first snapshot on is what was.
SkillIsTrue ==
    \A n \in DOMAIN world.players :
        LET player == world.players[n]
            history == world.skill_history[n]
        IN /\ Overall(player.observation.skill_vector) = Overall(player.reality.skill)
           /\ \A t \in 0..world.time :
                  (history # <<>> /\ history[1].time <= t) => PlayerSkillAt(n, t) = world.was[t + 1][n]

\* A player is on the board once, with the rating it has; nobody is ahead of a
\* player who is rated higher.
BoardIsRanked ==
    /\ \A i, j \in DOMAIN world.entries :
           i < j => /\ world.entries[i].player_id # world.entries[j].player_id
                    /\ world.entries[i].rating >= world.entries[j].rating
    /\ \A i \in DOMAIN world.entries :
           LET entry == world.entries[i]
           IN /\ entry.rating = world.players[entry.player_id + 1].observation.rating
              /\ RankOf(entry.player_id) = i - 1 /\ Last(TopN(i)) = entry

\* A skill within its bounds survives normalization, and weights of 1 change nothing.
NormalizationInverts ==
    \A n \in DOMAIN world.players :
        LET skill == world.players[n].reality.skill
            bounds == [d \in DOMAIN skill.dimensions |-> [min |-> 0, max |-> 4]]
        IN /\ Validate(skill, bounds) <=>
                  Denormalize(Normalize(skill, bounds), bounds).dimensions = skill.dimensions
           /\ WeightedOverall(skill, [d \in DOMAIN skill.dimensions |-> 1]) = Overall(skill)

\* The players are those that were asked for, and what is said of them is true.
PlayersAsPlanned ==
    world # None => Apportioned /\ SkillIsTrue /\ BoardIsRanked /\ NormalizationInverts
===============================================================================
