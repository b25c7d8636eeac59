-------------------------------- MODULE Optimizer --------------------------------
(***************************************************************************)
(* matchlab-optimize beside optimize_async: the search space, the designs  *)
(* that sample it, and optimize_sequential (threads <= 1) from the first   *)
(* point to the result.                                                    *)
(*                                                                         *)
(* A space is a sequence of parameters, a point the sequence of their      *)
(* values; a float is known to the whole number below it, a category is    *)
(* its index.  What the Gaussian process makes of the trials is left open: *)
(* a suggestion is any point of the space.  Of eta only the sign is known. *)
(***************************************************************************)
EXTENDS Integers, Sequences, FiniteSets, SequencesExt, FiniteSetsExt

CONSTANTS
    None,            \* an absent option, and a float that is no number
    Infinity,        \* the infinite float
    FallbackOffset,  \* FALLBACK_SEED_OFFSET
    Outcomes,        \* what a run may give: its metrics by name, or None for an error
    Configs          \* the optimizations

VARIABLES
    config,
    search           \* the state of the run, None before it

vars == <<config, search>>

(***************************************************************************)
(* The configuration and the search space                                  *)
(***************************************************************************)

Or(option, default) == IF option = None THEN default ELSE option
MaxFailures == Or(config.max_consecutive_failures, 10)
MinTraining == Or(config.min_gp_training_points, 2)
Candidates == Or(config.k_dpp_candidates, 1000)
InitialN == Min({config.initial_points, config.budget})
Known == {"matern52", "ei"}

\* SearchSpace::validate: the bounds of a logarithmic scale may be negative.
Valid(space) ==
    \A i \in DOMAIN space :
        IF space[i].type = "float" THEN space[i].low < space[i].high ELSE space[i].values # <<>>

\* resolve_value: an index past the categories is the first of them.
ResolveValue(parameter, value) ==
    IF parameter.type = "float" THEN value
    ELSE IF value < Len(parameter.values) THEN parameter.values[value + 1] ELSE parameter.values[1]

(***************************************************************************)
(* Sampling                                                                *)
(***************************************************************************)

\* random_sample and random_candidates: bounds and categories alike.
RandomValues(parameter) ==
    IF parameter.type = "float" THEN parameter.low..parameter.high - 1
    ELSE 0..Len(parameter.values) - 1
RandomPoints(space) ==
    {p \in [DOMAIN space -> UNION {RandomValues(space[i]) : i \in DOMAIN space}] :
        \A i \in DOMAIN space : p[i] \in RandomValues(space[i])}

\* The value at (stratum + u) / n of a parameter's range, u being 0 or 1/2; the
\* logarithm of a bound that is not positive is no number.
AtStratum(parameter, stratum, half, n) ==
    LET share(width) == (width * (2 * stratum + half)) \div (2 * n)
    IN IF parameter.type = "categorical"
       THEN Min({share(Len(parameter.values)), Len(parameter.values) - 1})
       ELSE IF parameter.log /\ parameter.low <= 0 THEN None
       ELSE parameter.low + share(parameter.high - parameter.low)

\* The strata are drawn anew for every point, not permuted.
FaultyStrata(n) == [1..n -> 0..n - 1]
\* The permutations of fisher_yates.
Strata(n) == {s \in [1..n -> 0..n - 1] : \A i, j \in 1..n : s[i] = s[j] => i = j}

\* Without parameters there is no point at all.
LatinHypercube(space, n) ==
    IF space = <<>> \/ n = 0 THEN {<<>>}
    ELSE {[i \in 1..n |-> [k \in DOMAIN space |-> AtStratum(space[k], strata[k][i], half, n)]] :
             strata \in [DOMAIN space -> Strata(n)], half \in {0, 1}}
InitialPoints ==
    IF config.initial_design = "latin_hypercube" THEN LatinHypercube(config.space, InitialN)
    ELSE [1..InitialN -> RandomPoints(config.space)]

(***************************************************************************)
(* Trials                                                                  *)
(***************************************************************************)

\* A whole quotient, as values are known to the whole number below.
Mean(s) == IF s = <<>> THEN None ELSE FoldLeft(LAMBDA a, b : a + b, 0, s) \div Len(s)
\* extract_metric_value: the mean of no values is NaN; other kinds are an error.
ExtractMetricValue(result) ==
    IF result.kind \in {"scalar", "summary"} THEN result.v[1] ELSE Mean(result.v)
Extracts(metrics, name) ==
    name \in DOMAIN metrics /\ metrics[name].kind \in {"scalar", "summary", "series", "distribution"}

\* evaluate_point, the run of the experiment left open: the objectives, or None.
Evaluate(metrics) ==
    IF metrics = None \/ \E i \in DOMAIN config.objectives : ~Extracts(metrics, config.objectives[i].metric)
    THEN None
    ELSE [i \in DOMAIN config.objectives |-> ExtractMetricValue(metrics[config.objectives[i].metric])]

Trial(t, point, objectives) ==
    [trial_index |-> t, objectives |-> objectives,
     parameters |-> [i \in DOMAIN config.space |-> ResolveValue(config.space[i], point[i])]]

Finite(trial) == \A i \in DOMAIN trial.objectives : trial.objectives[i] \notin {None, Infinity, -Infinity}
Adjusted(trial, i) == (IF config.objectives[i].maximize THEN 1 ELSE -1) * trial.objectives[i]
Dominates(a, b) ==
    /\ Finite(a) /\ Finite(b)
    /\ \A i \in DOMAIN a.objectives : Adjusted(a, i) >= Adjusted(b, i)
    /\ \E i \in DOMAIN a.objectives : Adjusted(a, i) > Adjusted(b, i)

\* Equal trials strike each other off.
FaultyParetoFront(trials) ==
    {i \in DOMAIN trials : Finite(trials[i])
        /\ \A j \in DOMAIN trials \ {i} : Finite(trials[j]) =>
               \E k \in DOMAIN trials[i].objectives : Adjusted(trials[i], k) > Adjusted(trials[j], k)}
\* ParetoFront::update, in order: a trial found dominated no longer dominates.
ParetoFront(trials) ==
    LET dominated == FoldLeft(
            LAMBDA gone, i : IF i \notin gone
                                /\ \E j \in DOMAIN trials \ (gone \cup {i}) : Dominates(trials[j], trials[i])
                             THEN gone \cup {i} ELSE gone,
            {i \in DOMAIN trials : ~Finite(trials[i])}, [i \in DOMAIN trials |-> i])
    IN DOMAIN trials \ dominated

\* parego_scalarize gives a number: no term of its sum is infinite against the
\* greatest, and the greatest is no infinity itself.
Scalarizes(trial) ==
    /\ config.eta # 0 /\ None \notin Range(trial.objectives)
    /\ \A i \in DOMAIN trial.objectives : config.eta * Adjusted(trial, i) > -Infinity
    /\ \E i \in DOMAIN trial.objectives : config.eta * Adjusted(trial, i) < Infinity

\* find_best_trial_index: of one objective, the last of its largest finite values.
\* Of several, the first of the largest scalarizations: which one is up to the
\* weights drawn, to eta and to rounding, but equal trials have equal ones.  When
\* there is nothing to compare it is the first, whether or not there is one.
BestIndices(trials) ==
    LET finite == {i \in DOMAIN trials : Finite(trials[i])}
        numbers == {i \in DOMAIN trials : Scalarizes(trials[i])}
    IN IF Len(config.objectives) = 1
       THEN IF finite = {} THEN {1}
            ELSE {Max({i \in finite : \A j \in finite : Adjusted(trials[j], 1) <= Adjusted(trials[i], 1)})}
       ELSE IF numbers = {} THEN {1}
            ELSE {i \in numbers : \A j \in numbers : trials[j].objectives = trials[i].objectives => i <= j}

\* The remainder by an interval of 0 panics.
NoInterval == config.checkpoint /\ config.checkpoint_interval = 0

\* maybe_write_checkpoint after trial t, by way of a temporary file: if writing
\* fails the old checkpoint stays.
Checkpoints(trials, t) ==
    IF ~config.checkpoint
        \/ (config.checkpoint_interval # None /\ t % Or(config.checkpoint_interval, 1) # 0)
    THEN {search.checkpoint} ELSE {search.checkpoint, trials}

(***************************************************************************)
(* optimize_sequential                                                     *)
(***************************************************************************)

Seed(t) == config.seed + t
FallbackSeed(t) == config.seed + t + FallbackOffset
Ran(t, seed, objectives) == [trial |-> t, seed |-> seed, ok |-> objectives # None]

NoSearch ==
    [phase |-> "initial", next |-> 0, trials |-> <<>>, failures |-> 0, pareto |-> {},
     checkpoint |-> <<>>, ran |-> <<>>, best |-> None]
Stop(phase) == search' = [search EXCEPT !.phase = phase] /\ UNCHANGED config

\* OptConfig::load.
Load ==
    /\ search = None
    /\ search' = [NoSearch EXCEPT !.phase = IF Valid(config.space) THEN "initial" ELSE "error"]
    /\ UNCHANGED config

\* The initial points run in parallel and are taken in order; those that fail
\* count as failures, whatever succeeds among them.
InitialDesign ==
    /\ search # None /\ search.phase = "initial" /\ (InitialN > 0 => ~NoInterval)
    /\ \E points \in InitialPoints : \E outcome \in [DOMAIN points -> Outcomes] :
         LET value(i) == Evaluate(outcome[i])
             ok == SelectSeq([i \in DOMAIN points |-> i], LAMBDA i : value(i) # None)
             trials == [n \in DOMAIN ok |-> Trial(ok[n] - 1, points[ok[n]], value(ok[n]))]
         IN \E file \in (IF InitialN > 0 THEN Checkpoints(trials, InitialN - 1) ELSE {<<>>}) :
              search' = [search EXCEPT
                  !.phase = "search", !.next = InitialN, !.trials = trials, !.pareto = ParetoFront(trials),
                  !.failures = Len(points) - Len(ok), !.checkpoint = file,
                  !.ran = [i \in DOMAIN points |-> Ran(i - 1, Seed(i - 1), value(i))]]
    /\ UNCHANGED config

Searching == search # None /\ search.phase = "search"
More == Searching /\ search.next < config.budget
\* A kernel or acquisition nobody knows is found out at the first suggestion.
Suggests == Len(search.trials) >= MinTraining
SuggestFails == More /\ Suggests /\ Stop("error")
NoCandidate == More /\ Suggests /\ Candidates = 0 /\ Stop("panicked")
\* The experiment may panic, in the initial design or later, and writing a
\* checkpoint may: nothing catches it.
EvaluationPanics ==
    /\ More \/ (search # None /\ search.phase = "initial" /\ InitialN > 0)
    /\ Stop("panicked")

\* A fallback point runs with the seed of the point it replaces.
FaultyRecord(t, seed, point, objectives, failed) ==
    LET trials == Append(search.trials, Trial(t, point, objectives))
    IN ~NoInterval /\ \E file \in Checkpoints(trials, t) :
         search' = [search EXCEPT !.next = t + 1, !.trials = trials, !.failures = 0,
                       !.pareto = ParetoFront(trials), !.checkpoint = file,
                       !.ran = @ \o failed \o <<Ran(t, Seed(t), objectives)>>]
\* What a success of trial t does, after the failures of its first point.
Record(t, seed, point, objectives, failed) ==
    LET trials == Append(search.trials, Trial(t, point, objectives))
    IN ~NoInterval /\ \E file \in Checkpoints(trials, t) :
         search' = [search EXCEPT !.next = t + 1, !.trials = trials, !.failures = 0,
                       !.pareto = ParetoFront(trials), !.checkpoint = file,
                       !.ran = @ \o failed \o <<Ran(t, seed, objectives)>>]

\* The second failure of a trial is not counted.
FaultyGiveUp(first, second) ==
    search' = [search EXCEPT !.next = @ + 1, !.failures = @ + 1, !.ran = @ \o first \o second]
\* Both points of a trial failed: it leaves no record.
GiveUp(first, second) ==
    search' = [search EXCEPT !.next = @ + 1, !.failures = @ + 2, !.ran = @ \o first \o second]

\* One trial: a suggested or random point; when it fails too often the search
\* stops, and otherwise a random point is tried in its place.  A second failure
\* counts too, and does not stop the search itself.
Attempt ==
    LET t == search.next
        first == <<Ran(t, Seed(t), None)>>
        second == <<Ran(t, FallbackSeed(t), None)>>
    IN /\ More /\ (Suggests => Candidates > 0 /\ {config.kernel, config.acquisition} \subseteq Known)
       /\ \E point \in RandomPoints(config.space), outcome \in Outcomes :
            IF Evaluate(outcome) # None THEN Record(t, Seed(t), point, Evaluate(outcome), <<>>)
            ELSE IF search.failures + 1 >= MaxFailures
            THEN search' = [search EXCEPT !.phase = "stopped", !.failures = @ + 1, !.ran = @ \o first]
            ELSE \E other \in RandomPoints(config.space), again \in Outcomes :
                   IF Evaluate(again) # None
                   THEN Record(t, FallbackSeed(t), other, Evaluate(again), first)
                   ELSE GiveUp(first, second)
       /\ UNCHANGED config

Return ==
    /\ search # None
    /\ search.phase = "stopped" \/ (Searching /\ search.next >= config.budget)
    /\ \E best \in BestIndices(search.trials) :
           search' = [search EXCEPT !.phase = "returned", !.best = best]
    /\ UNCHANGED config

(***************************************************************************)
(* Specification                                                           *)
(***************************************************************************)

Init == config \in Configs /\ search = None
Next == Load \/ InitialDesign \/ SuggestFails \/ NoCandidate \/ EvaluationPanics \/ Attempt \/ Return
Spec == Init /\ [][Next]_vars

(***************************************************************************)
(* Properties                                                              *)
(***************************************************************************)

Trials == {search.trials[i].trial_index : i \in DOMAIN search.trials}
RanOf(t) == SelectSeq(search.ran, LAMBDA r : r.trial = t)

\* Every trial below `next` has run, and is recorded once unless all its runs
\* failed; two runs share a seed only where a fallback meets the trial
\* FallbackOffset later; the checkpoint is a beginning of the trials.
TrialsAccounted ==
    /\ \A i, j \in DOMAIN search.trials :
           i < j => search.trials[i].trial_index < search.trials[j].trial_index
    /\ \A t \in 0..search.next - 1 :
           /\ RanOf(t) # <<>> \/ (config.space = <<>> /\ t < InitialN)
           /\ t \in Trials <=> \E i \in DOMAIN RanOf(t) : RanOf(t)[i].ok
    /\ \A i, j \in DOMAIN search.ran :
           (i < j /\ search.ran[i].seed = search.ran[j].seed) =>
               search.ran[j].trial = search.ran[i].trial + FallbackOffset
    /\ IsPrefix(search.checkpoint, search.trials)

\* The search stops before its budget only after as many failures as allowed
\* without a success among them, those of the initial design counted in.
StopsForFailures ==
    LET later == SelectSeq(search.ran, LAMBDA r : r.trial >= InitialN)
        good == {i \in DOMAIN later : later[i].ok}
        initial == Len(SelectSeq(search.ran, LAMBDA r : r.trial < InitialN /\ ~r.ok))
    IN /\ search.failures = IF good = {} THEN initial + Len(later) ELSE Len(later) - Max(good)
       /\ (search.phase = "returned" /\ search.next < config.budget) => search.failures >= MaxFailures

\* The front, found while trials are struck off, is all the trials nothing
\* dominates; of one objective, what is reported as best is on it.
FrontIsExact ==
    /\ search.pareto = {i \in DOMAIN search.trials : Finite(search.trials[i])
           /\ \A j \in DOMAIN search.trials : ~Dominates(search.trials[j], search.trials[i])}
    /\ (search.phase = "returned" /\ search.pareto # {} /\ Len(config.objectives) = 1) =>
           search.best \in search.pareto

\* A Latin hypercube has a point in every stratum of every parameter: a category
\* has its share of them, and no two points share a cell of a float.
StrataCovered ==
    (config.initial_design = "latin_hypercube" /\ Valid(config.space)) =>
        \A points \in InitialPoints : \A k \in DOMAIN config.space :
            LET parameter == config.space[k]
                at(v) == Cardinality({i \in DOMAIN points : points[i][k] = v})
                width == IF parameter.type = "float" THEN parameter.high - parameter.low
                         ELSE Len(parameter.values)
            IN \A v \in RandomValues(parameter) :
                   (~(parameter.type = "float" /\ parameter.log /\ parameter.low <= 0)) =>
                       width * at(v) < Len(points) + width

\* An optimization accounts for its trials, its failures and its front.
TrialsAreHonest ==
    IF search = None THEN StrataCovered ELSE TrialsAccounted /\ StopsForFailures /\ FrontIsExact
===============================================================================
