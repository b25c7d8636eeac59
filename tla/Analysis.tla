------------------------------- MODULE Analysis -------------------------------
(***************************************************************************)
(* The statistics of matchlab-analysis: how the results of the replicates  *)
(* become one value each, which values an effect is estimated over, which  *)
(* interval it is given, and the analyses built on that: estimands,        *)
(* robustness checks, factor effects, data frames, corrections for         *)
(* multiple comparisons and Pareto fronts.                                 *)
(*                                                                         *)
(* A value is a fraction [num, den].  A confidence interval is not         *)
(* computed: it is the method, what it is taken over and its seed, which   *)
(* determine it.                                                           *)
(***************************************************************************)
EXTENDS Integers, Sequences, FiniteSets, SequencesExt, FiniteSetsExt, Functions, TLC

CONSTANTS
    None,
    NoName,    \* the empty condition id, of a file that has none
    Large,     \* the sample size from which an interval is Student's (30)
    One,       \* the p-value 1, in units of a p-value
    Inputs

VARIABLES input, output

vars == <<input, output>>

(***************************************************************************)
(* Fractions and samples                                                   *)
(***************************************************************************)

Frac(n) == [num |-> n, den |-> 1]
Plus(a, b) == [num |-> a.num * b.den + b.num * a.den, den |-> a.den * b.den]
Minus(a, b) == Plus(a, [b EXCEPT !.num = -@])
Less(a, b) == a.num * b.den < b.num * a.den
Same(a, b) == a.num * b.den = b.num * a.den
Over(a, n) == [a EXCEPT !.den = @ * n]
Ratio(a, b) == [num |-> a.num * b.den, den |-> a.den * b.num]
Magnitude(a) == [a EXCEPT !.num = IF @ < 0 THEN -@ ELSE @]
Mean(sample) == Over(FoldLeft(Plus, Frac(0), sample), Len(sample))

Sorted(s, Before(_, _)) ==
    LET order == SetToSortSeq(DOMAIN s, LAMBDA i, j :
                     Before(s[i], s[j]) \/ (~Before(s[j], s[i]) /\ i < j))
    IN [k \in DOMAIN s |-> s[order[k]]]

\* The deviation about the mean is zero: fewer than two values, or all equal.
Constant(sample) == \A i, j \in DOMAIN sample : Same(sample[i], sample[j])

\* Two columns side by side, as far as the shorter one goes.
Deltas(control, treatment) ==
    [i \in 1..Min({Len(control), Len(treatment)}) |-> Minus(treatment[i], control[i])]

(***************************************************************************)
(* From a result to one value of a replicate: [kind, values]               *)
(***************************************************************************)

ExtractScalar(result) ==
    CASE result.kind \in {"scalar", "summary"} -> result.values[1]
      [] result.kind = "series" -> IF result.values = <<>> THEN Frac(0) ELSE Mean(result.values)
      [] OTHER -> None
FromMetric(result) == ExtractScalar(result)
FromDistribution(result) ==
    IF result.kind = "distribution" /\ result.values # <<>> THEN Mean(result.values) ELSE None

\* The other public extraction: no value for a series without buckets.
ReplicationScalar(result) ==
    CASE result.kind \in {"series", "distribution"} -> IF result.values = <<>> THEN None ELSE Mean(result.values)
      [] result.kind \in {"scalar", "summary"} -> result.values[1]
      [] OTHER -> None

Condition(arm) == IF arm.condition = NoName THEN arm.name ELSE arm.condition

ByIndex(a, b) == a.index < b.index

\* One observation per replicate, whether or not it has a value.
ReplicationScalars(arm, metric) ==
    Sorted([i \in DOMAIN arm.replicates |->
               LET replicate == arm.replicates[i] IN
               [condition |-> Condition(arm), index |-> replicate.index, metric |-> metric,
                missing |-> metric \notin DOMAIN replicate.metrics,
                value |-> IF metric \in DOMAIN replicate.metrics
                          THEN FromMetric(replicate.metrics[metric]) ELSE None]], ByIndex)

HasValue(observation) == observation.value # None
Values(observations) ==
    LET valued == SelectSeq(observations, HasValue) IN [i \in DOMAIN valued |-> valued[i].value]

\* The extraction of the module's interface is used for every shape.
FaultyTableScalar(result) == ReplicationScalar(result)
\* Only a distribution is collapsed by its own rule.
TableScalar(result) ==
    IF result.kind = "distribution" THEN FromDistribution(result) ELSE FromMetric(result)

(***************************************************************************)
(* The observation table: by condition and metric, the replicates that     *)
(* have the metric                                                         *)
(***************************************************************************)

Measured(study) ==
    UNION {UNION {DOMAIN study.arms[a].replicates[i].metrics : i \in DOMAIN study.arms[a].replicates}
           : a \in DOMAIN study.arms}
ObservationsOf(arm, metric) ==
    LET with == SelectSeq(arm.replicates, LAMBDA r : metric \in DOMAIN r.metrics)
    IN [i \in DOMAIN with |-> [condition |-> arm.condition, index |-> with[i].index, metric |-> metric,
                               value |-> TableScalar(with[i].metrics[metric])]]
\* Keyed by the condition id as it stands: arms that share one share columns.
ReplicationTable(study) ==
    [key \in {arm.condition : arm \in Range(study.arms)} \X Measured(study) |->
        Sorted(FlattenSeq([a \in DOMAIN study.arms |->
                   IF study.arms[a].condition = key[1] THEN ObservationsOf(study.arms[a], key[2]) ELSE <<>>]),
               ByIndex)]

(***************************************************************************)
(* Confidence intervals                                                    *)
(***************************************************************************)

Interval(method, samples, seed) == [method |-> method, over |-> samples, seed |-> seed, freedom |-> None]
\* An empty sample is given the interval (0, 0).
NoInterval(method) == Interval(method, <<>>, None)

Derive(seed, i) == Append(seed, i)

BootstrapCi(sample, seed) ==
    IF sample = <<>> THEN NoInterval("bootstrap") ELSE Interval("bootstrap", <<sample>>, seed)
PairedBootstrapCi(deltas, seed) == [BootstrapCi(deltas, seed) EXCEPT !.method = "paired_bootstrap"]
TwoSampleBootstrapCi(control, treatment, seed) ==
    IF control = <<>> \/ treatment = <<>> THEN NoInterval("bootstrap")
    ELSE Interval("bootstrap", <<control, treatment>>, seed)
\* A single value has margin zero.
StudentTCi(sample) ==
    IF sample = <<>> THEN NoInterval("student_t")
    ELSE [Interval("student_t", <<sample>>, None) EXCEPT !.freedom = Len(sample) - 1]
\* Welch's degrees of freedom when they are defined, or the pooled ones.
WelchDefined(control, treatment) ==
    /\ ~(Constant(control) /\ Constant(treatment))
    /\ Len(control) > 1 /\ Len(treatment) > 1
WelchCi(control, treatment) ==
    IF control = <<>> \/ treatment = <<>> THEN NoInterval("welch_t")
    ELSE [Interval("welch_t", <<control, treatment>>, None) EXCEPT
             !.freedom = IF WelchDefined(control, treatment) THEN -1 ELSE Len(control) + Len(treatment) - 2]
Ci(control, treatment, seed, paired) ==
    IF paired THEN PairedBootstrapCi(Deltas(control, treatment), seed)
    ELSE IF Len(control) >= Large /\ Len(treatment) >= Large THEN WelchCi(control, treatment)
    ELSE TwoSampleBootstrapCi(control, treatment, seed)
ArmCi(sample, seed) == IF Len(sample) >= Large THEN StudentTCi(sample) ELSE BootstrapCi(sample, seed)

MiddleOf(sample) ==
    LET s == Sorted(sample, Less)  n == Len(sample)
    IN IF n % 2 = 0 THEN Over(Plus(s[n \div 2], s[n \div 2 + 1]), 2) ELSE s[n \div 2 + 1]
ArmStat(sample, seed) ==
    IF sample = <<>> THEN None
    ELSE [n |-> Len(sample), mean |-> Mean(sample), median |-> MiddleOf(sample), ci |-> ArmCi(sample, seed)]

(***************************************************************************)
(* Effect sizes                                                            *)
(***************************************************************************)

Err(why) == [ok |-> FALSE, why |-> why]

\* cohen and dz: whether the deviation they divide by is positive.
EffectSizes(control, treatment, paired, seed) ==
    IF control = <<>> \/ treatment = <<>> THEN Err("empty arms")
    ELSE IF paired /\ Len(control) # Len(treatment) THEN Err("unequal arms")
    ELSE LET delta == Minus(Mean(treatment), Mean(control)) IN
         [ok |-> TRUE, delta |-> delta,
          ci |-> Ci(control, treatment, Derive(seed, 0), paired),
          cohen |-> ~(Constant(control) /\ Constant(treatment)),
          dz |-> paired /\ ~Constant(Deltas(control, treatment)),
          relative |-> IF Mean(control).num = 0 THEN None ELSE Ratio(delta, Magnitude(Mean(control)))]

Compare(control, treatment, metric, paired, seed) ==
    LET c == ReplicationScalars(control, metric)
        t == ReplicationScalars(treatment, metric)
    IN IF \E o \in Range(c) \cup Range(t) : ~HasValue(o) THEN Err("non-scalarizable")
       ELSE IF Len(c) # Len(t) THEN Err("unequal counts")
       ELSE EffectSizes(Values(c), Values(t), paired, seed)

\* The p-value of a paired t-test, p when it is not decided by the sample.
PairedP(deltas, p) ==
    IF Len(deltas) < 2 THEN One
    ELSE IF Constant(deltas) THEN (IF Mean(deltas).num = 0 THEN One ELSE 0) ELSE p

(***************************************************************************)
(* The statistics of a study                                               *)
(***************************************************************************)

StatMetrics(table) == {key[2] : key \in {k \in DOMAIN table : \E o \in Range(table[k]) : HasValue(o)}}

PerArm(study, table, metric) ==
    [a \in DOMAIN study.arms |-> Values(table[<<study.arms[a].condition, metric>>])]

\* Seeds: one per metric, by its place among the metrics; then one per arm,
\* and one per treatment arm whatever its control.
StudyStats(study, place) ==
    LET table == ReplicationTable(study)
        metrics == StatMetrics(table)
        arms == DOMAIN study.arms
        column == [m \in metrics |-> PerArm(study, table, m)]
        seed(m) == <<Cardinality({k \in metrics : place[k] < place[m]})>>
        effect(m, i, j) == EffectSizes(column[m][i], column[m][j], study.paired,
                                       Derive(seed(m), Len(study.arms) + j - 1))
    IN [metrics |-> metrics,
        arms |-> {[metric |-> m, arm |-> a, n |-> Len(column[m][a]), mean |-> Mean(column[m][a]),
                   ci |-> ArmCi(column[m][a], Derive(seed(m), a - 1))]
                  : <<m, a>> \in {x \in metrics \X arms : column[x[1]][x[2]] # <<>>}},
        \* a pair whose effect is an error is left out
        effects |-> {[metric |-> x[1], control |-> x[2], treatment |-> x[3], size |-> effect(x[1], x[2], x[3])]
                     : x \in {y \in metrics \X arms \X arms : y[2] < y[3] /\ effect(y[1], y[2], y[3]).ok}}]

\* Markdown: a section per metric, of its arms and its pairs.
StudyReport(stats) ==
    [m \in stats.metrics |-> [arms |-> {a \in stats.arms : a.metric = m},
                              effects |-> {e \in stats.effects : e.metric = m}]]
\* The research report has no sections: a row does not say its metric.
ResearchReport(stats) ==
    [conditions |-> {[arm |-> a.arm, n |-> a.n, mean |-> a.mean, ci |-> a.ci] : a \in stats.arms},
     effects |-> IF stats.effects = {} THEN None
                 ELSE {[control |-> e.control, treatment |-> e.treatment, size |-> e.size] : e \in stats.effects}]

(***************************************************************************)
(* Estimands and robustness checks                                         *)
(***************************************************************************)

EstimandNames == {"absolute_difference", "relative_difference", "percent_improvement",
                  "mean_paired_difference", "median_paired_difference"}
IsPaired(estimand) == estimand \in {"mean_paired_difference", "median_paired_difference"}

PairedDeltas(control, treatment) ==
    IF Len(control) # Len(treatment) THEN None ELSE Deltas(control, treatment)

\* The nearest rank, not the mean of the two in the middle.
Median(sample) == Sorted(sample, Less)[(Len(sample) - 1) \div 2 + 1]

EstimatePoint(estimand, control, treatment) ==
    LET difference == Minus(Mean(treatment), Mean(control))
        relative == IF Mean(control).num = 0 THEN None ELSE Ratio(difference, Magnitude(Mean(control)))
        deltas == PairedDeltas(control, treatment)
    IN CASE control = <<>> \/ treatment = <<>> -> None
         [] estimand = "absolute_difference" -> difference
         [] estimand = "relative_difference" -> relative
         [] estimand = "percent_improvement" ->
                IF relative = None THEN None ELSE [relative EXCEPT !.num = 100 * @]
         [] IsPaired(estimand) /\ deltas = None -> None
         [] estimand = "mean_paired_difference" -> Mean(deltas)
         [] OTHER -> Median(deltas)

\* Pairs are drawn for a paired estimand, each arm by itself for the others.
BootstrapCiFor(estimand, control, treatment, seed) ==
    IF control = <<>> \/ treatment = <<>> THEN NoInterval("bootstrap")
    ELSE Interval("bootstrap",
                  IF IsPaired(estimand) THEN <<Deltas(control, treatment)>> ELSE <<control, treatment>>,
                  Derive(seed, 0))

EffectFor(estimand, control, treatment, seed) ==
    LET point == EstimatePoint(estimand, control, treatment)
    IN IF (IsPaired(estimand) /\ Len(control) # Len(treatment)) \/ point = None THEN None
       ELSE [estimand |-> estimand, point |-> point, ci |-> BootstrapCiFor(estimand, control, treatment, seed)]

\* Zero is positive.
Sign(a) == IF a.num >= 0 THEN 1 ELSE -1
DeltaOf(effect) == IF effect.ok THEN effect.delta ELSE Frac(0)

\* The median of no deltas is read out of range.
RobustnessPanics(control, treatment, specs) ==
    "mean_vs_median" \in Range(specs) /\ Deltas(control, treatment) = <<>>
RobustnessCheck(spec, control, treatment, p, conf, seed) ==
    LET primary == DeltaOf(EffectSizes(control, treatment, TRUE, seed))
        deltas == Deltas(control, treatment)
        independent == DeltaOf(EffectSizes(control, treatment, FALSE, Append(seed, 1000)))
    IN CASE spec = "mean_vs_median" ->
              [passed |-> Sign(primary) = Sign(MiddleOf(deltas)), alternative |-> MiddleOf(deltas)]
         [] spec = "ci_method" ->
              [passed |-> \/ (IF PairedP(deltas, p) < conf THEN Sign(primary) ELSE 0) = Sign(primary)
                          \/ primary.num = 0,
               alternative |-> primary]
         [] OTHER -> [passed |-> Sign(primary) = Sign(independent), alternative |-> independent]
Robustness(control, treatment, specs, p, conf, seed) ==
    IF RobustnessPanics(control, treatment, specs) THEN [panics |-> TRUE]
    ELSE LET checks == [k \in DOMAIN specs |-> RobustnessCheck(specs[k], control, treatment, p, conf, seed)]
         IN [panics |-> FALSE, checks |-> checks, all_passed |-> \A k \in DOMAIN checks : checks[k].passed]

\* An effect repackaged: always called paired, always 95%.
StatisticalResult(estimand, effect, pairs) ==
    [estimand |-> estimand, estimate |-> effect.delta, method |-> effect.ci.method,
     confidence |-> 95, design |-> "paired", replications |-> pairs,
     standardized |-> IF effect.dz THEN "d_z" ELSE "cohen_d"]

\* Cohorts without values are left out, and those that cannot be paired.
Heterogeneity(cohorts, paired, seed) ==
    {[cohort |-> i, n |-> Len(cohorts[i].control),
      effect |-> EffectSizes(cohorts[i].control, cohorts[i].treatment, paired, Derive(seed, i - 1))]
     : i \in {k \in DOMAIN cohorts :
                 EffectSizes(cohorts[k].control, cohorts[k].treatment, paired, Derive(seed, k - 1)).ok}}

(***************************************************************************)
(* Factors: a design gives each arm, a number, its [factor, level] pairs   *)
(***************************************************************************)

\* terms: a main effect of one factor, or an interaction of a sequence.
ValidTerm(term, factors) ==
    CASE term.kind = "main" -> term.factor \in factors
      [] OTHER -> /\ Len(term.factors) > 1
                  /\ Range(term.factors) \subseteq factors
                  /\ IsInjective(term.factors)
ValidEffects(terms, factors) == \A term \in Range(terms) : ValidTerm(term, factors)

\* A cell is one level of one factor, and belongs to one arm only.
ValidFactorDesign(design, factors) ==
    LET cells(arm) == Range(design[arm])
        places(f, l) == UNION {{<<arm, k>> : k \in {n \in DOMAIN design[arm] :
                            design[arm][n].factor = f /\ design[arm][n].level = l}} : arm \in DOMAIN design}
    IN /\ DOMAIN design # {}
       /\ \A arm \in DOMAIN design :
              /\ Range(factors) \subseteq {c.factor : c \in cells(arm)}
              /\ Len(design[arm]) = Len(factors)
       /\ \A arm \in DOMAIN design : \A c \in cells(arm) : Cardinality(places(c.factor, c.level)) = 1
       /\ \A f \in Range(factors) : \E arm \in DOMAIN design : \E c \in cells(arm) : c.factor = f

\* The level of the first pair with the factor, if the arm has one.
LevelOf(assignments, factor) ==
    LET named == {k \in DOMAIN assignments : assignments[k].factor = factor}
    IN IF named = {} THEN None ELSE assignments[Min(named)].level
\* Per level, the arms with it pooled; seeded by the length of its name.
MainEffects(factor, design, columns, paired, nameLength, seed) ==
    LET armsAt(level) == SetToSortSeq({arm \in DOMAIN design \cap DOMAIN columns :
                                          LevelOf(design[arm], factor) = level}, <)
        pooled(level, side) == FlattenSeq([k \in DOMAIN armsAt(level) |-> columns[armsAt(level)[k]][side]])
        levels == {LevelOf(design[arm], factor) : arm \in DOMAIN design \cap DOMAIN columns} \ {None}
        size(level) == EffectSizes(pooled(level, "control"), pooled(level, "treatment"), paired,
                                   Derive(seed, nameLength[level]))
    IN {[factor |-> factor, level |-> l, delta |-> size(l).delta, ci |-> size(l).ci]
        : l \in {k \in levels : size(k).ok}}

(***************************************************************************)
(* Data frames: [columns, rows], a value being [type, v]                   *)
(***************************************************************************)

ColumnAt(frame, name) == Min({k \in DOMAIN frame.columns : frame.columns[k] = name})
HasColumn(frame, name) == name \in Range(frame.columns)

\* Columns that do not exist are left out.
Select(frame, names) ==
    LET found == SelectSeq(names, LAMBDA n : HasColumn(frame, n))
        at == [k \in DOMAIN found |-> ColumnAt(frame, found[k])]
    IN [columns |-> found, rows |-> [r \in DOMAIN frame.rows |-> [k \in DOMAIN at |-> frame.rows[r][at[k]]]]]
\* A column that does not exist is a panic here and in SortBy.
Filter(frame, name, values) ==
    [frame EXCEPT !.rows = SelectSeq(@, LAMBDA row : row[ColumnAt(frame, name)] \in values)]
\* Values of two types are equal; texts too, the sorted column having one at most.
Precedes(a, b) ==
    CASE a.type = "float" /\ b.type = "float" -> Less(a.v, b.v)
      [] a.type = "int" /\ b.type = "int" -> a.v.num < b.v.num
      [] OTHER -> FALSE
SortBy(frame, name, ascending) ==
    LET at == ColumnAt(frame, name)
    IN [frame EXCEPT !.rows = Sorted(@, LAMBDA r, q : IF ascending THEN Precedes(r[at], q[at])
                                                      ELSE Precedes(q[at], r[at]))]
Limit(frame, n) == [frame EXCEPT !.rows = SubSeq(@, 1, Min({n, Len(@)}))]

Numeric(value) == value.type \in {"float", "int"}
ExtractNumeric(frame, name) ==
    IF ~HasColumn(frame, name) THEN None
    ELSE LET cells == [r \in DOMAIN frame.rows |-> frame.rows[r][ColumnAt(frame, name)]]
             kept == SelectSeq(cells, Numeric)
         IN [k \in DOMAIN kept |-> kept[k].v]
ComputeMean(frame, name) ==
    LET values == ExtractNumeric(frame, name) IN IF values \in {None, <<>>} THEN None ELSE Mean(values)
ComputeCi(frame, name) ==
    LET values == ExtractNumeric(frame, name) IN IF values \in {None, <<>>} THEN None ELSE StudentTCi(values)

ConditionValues(frame, metric, condition) ==
    IF \E name \in {"metric", "value", "condition"} : ~HasColumn(frame, name) THEN <<>>
    ELSE LET rows == SelectSeq(frame.rows, LAMBDA row :
                         /\ row[ColumnAt(frame, "metric")] = metric
                         /\ row[ColumnAt(frame, "condition")] = condition
                         /\ Numeric(row[ColumnAt(frame, "value")]))
         IN [k \in DOMAIN rows |-> rows[k][ColumnAt(frame, "value")].v]
\* Always Welch's interval, whatever the design.
CompareConditions(frame, metric, a, b) ==
    LET va == ConditionValues(frame, metric, a)
        vb == ConditionValues(frame, metric, b)
    IN IF va = <<>> \/ vb = <<>> THEN Err("no data")
       ELSE [ok |-> TRUE, mean_a |-> Mean(va), mean_b |-> Mean(vb),
             difference |-> Minus(Mean(vb), Mean(va)), ci |-> WelchCi(va, vb)]

(***************************************************************************)
(* Corrections and Pareto fronts                                           *)
(***************************************************************************)

ByValue(ps) == SetToSortSeq(DOMAIN ps, LAMBDA i, j : ps[i] < ps[j] \/ (ps[i] = ps[j] /\ i < j))
RankIn(order, i) == CHOOSE k \in DOMAIN order : order[k] = i
\* From the smallest up, the greatest so far of p times those not yet seen.
Holm(ps) ==
    LET order == ByValue(ps)  m == Len(ps)
    IN [i \in DOMAIN ps |-> Min({One, Max({(m - k + 1) * ps[order[k]] : k \in 1..RankIn(order, i)})})]
\* From the greatest down, the smallest so far of p times m over its rank.
BenjaminiHochberg(ps) ==
    LET order == ByValue(ps)  m == Len(ps)
    IN [i \in DOMAIN ps |-> Min({One} \cup {(m * ps[order[k]]) \div k : k \in RankIn(order, i)..m})]

Dominates(a, b, higher) ==
    LET better(i, x, y) == IF higher[i] THEN x[i] > y[i] ELSE x[i] < y[i]
    IN /\ \A i \in DOMAIN higher : ~better(i, b.values, a.values)
       /\ \E i \in DOMAIN higher : better(i, a.values, b.values)
ParetoFront(points, higher) ==
    SelectSeq(points, LAMBDA p : ~\E other \in Range(points) : Dominates(other, p, higher))
\* Every value is to be small; a point is not compared with its namesakes.
ExplorerDominates(a, b) ==
    /\ a.label # b.label
    /\ \A i \in DOMAIN a.values : a.values[i] <= b.values[i]
    /\ \E i \in DOMAIN a.values : a.values[i] < b.values[i]
Explore(points) ==
    LET dominated(p) == \E other \in Range(points) : ExplorerDominates(other, p)
    IN [front |-> SelectSeq(points, LAMBDA p : ~dominated(p)), dominated |-> SelectSeq(points, dominated)]
\* What a unit of one objective costs of another, from the front's extremes.
Tradeoff(front, a, b) ==
    LET spread(k) == Max({p.values[k] : p \in Range(front)}) - Min({p.values[k] : p \in Range(front)})
    IN IF Len(front) < 2 \/ spread(a) = 0 THEN Frac(0) ELSE [num |-> spread(b), den |-> spread(a)]

\* Results that have a utility, the highest first.
Ranking(results) == Sorted(SelectSeq(results, LAMBDA r : r.utility # None), LAMBDA a, b : a.utility > b.utility)

\* n: what the normal approximation asks for, when it is asked.
RequiredReplications(effectSd, minimumEffect, n) ==
    IF minimumEffect = 0 \/ effectSd = 0 THEN 1 ELSE Max({n, 1})
PlanStudy(plan, n) ==
    LET k == Max({plan.conditions, 1})
        each == RequiredReplications(plan.effect_sd, plan.minimum_effect, n)
    IN [per_condition |-> each, total |-> each * k, comparisons |-> k]

(***************************************************************************)
(* Specification                                                           *)
(***************************************************************************)

Init == input \in Inputs /\ output = None

Answered(kind) == output = None /\ input.kind = kind /\ UNCHANGED input

AnalyseStudy ==
    /\ Answered("study")
    /\ LET stats == StudyStats(input, input.place)
           pairs == {<<m, i, j>> \in Measured(input) \X (DOMAIN input.arms) \X (DOMAIN input.arms) : i < j}
       IN output' = [stats |-> stats, report |-> StudyReport(stats), research |-> ResearchReport(stats),
                     compared |-> [x \in pairs |-> Compare(input.arms[x[2]], input.arms[x[3]], x[1],
                                                           input.paired, <<>>)]]

AnalyseSamples ==
    /\ Answered("samples")
    /\ LET c == input.control
           t == input.treatment
           effect == EffectSizes(c, t, input.paired, <<>>)
           specs == <<"mean_vs_median", "ci_method", "paired_vs_independent">>
       IN output' = [effect |-> effect, arm |-> ArmStat(c, <<>>),
                     estimates |-> [e \in EstimandNames |-> EffectFor(e, c, t, <<>>)],
                     robust |-> Robustness(c, t, specs, input.p, input.conf, <<>>),
                     result |-> IF effect.ok THEN StatisticalResult("absolute_difference", effect, Len(c)) ELSE None,
                     cohorts |-> Heterogeneity(<<[control |-> c, treatment |-> t],
                                                 [control |-> t, treatment |-> c]>>, input.paired, <<>>)]

AnalyseFrame ==
    /\ Answered("frame")
    /\ LET f == input.frame
           of(condition) == Filter(Filter(f, "metric", {input.metric}), "condition", {condition})
       IN output' = [compared |-> CompareConditions(f, input.metric, input.a, input.b),
                     means |-> <<ComputeMean(of(input.a), "value"), ComputeMean(of(input.b), "value")>>,
                     ci |-> ComputeCi(f, "value"),
                     first |-> Limit(SortBy(Select(f, <<"value", "none">>), "value", input.ascending), 1)]

AnalysePoints ==
    /\ Answered("points")
    /\ LET explored == Explore(input.points)
       IN output' = [front |-> ParetoFront(input.points, input.higher), explored |-> explored,
                     tradeoff |-> Tradeoff(explored.front, 1, 2)]

Correct ==
    /\ Answered("pvalues")
    /\ output' = [holm |-> Holm(input.ps), bh |-> BenjaminiHochberg(input.ps),
                  ranking |-> Ranking([i \in DOMAIN input.ps |-> [name |-> i, utility |-> input.ps[i]]]),
                  plan |-> PlanStudy(input.plan, Len(input.ps))]

AnalyseFactors ==
    /\ Answered("factors")
    /\ output' = [valid |-> ValidFactorDesign(input.design, input.factors),
                  terms |-> ValidEffects(input.terms, Range(input.factors)),
                  effects |-> MainEffects(input.factors[1], input.design, input.columns, input.paired,
                                          input.nameLength, <<>>)]

Next == AnalyseStudy \/ AnalyseSamples \/ AnalyseFrame \/ AnalysePoints \/ Correct \/ AnalyseFactors
Spec == Init /\ [][Next]_vars

(***************************************************************************)
(* Properties                                                              *)
(***************************************************************************)

Done(kind) == output # None /\ input.kind = kind
OwnConditions(study) ==
    /\ NoName \notin {arm.condition : arm \in Range(study.arms)}
    /\ \A i, j \in DOMAIN study.arms : i # j => study.arms[i].condition # study.arms[j].condition

\* What compare finds between two arms of a study, the study's report says.
CompareAgrees ==
    (Done("study") /\ OwnConditions(input)) =>
        \A x \in DOMAIN output.compared : output.compared[x].ok =>
            \E e \in output.stats.effects :
                /\ <<e.metric, e.control, e.treatment>> = x
                /\ Same(e.size.delta, output.compared[x].delta)
                /\ e.size.ci.method = output.compared[x].ci.method
                /\ e.size.ci.over = output.compared[x].ci.over
\* The paired and the unpaired estimand, and the checks, find the same effect.
EstimandsAgree ==
    Done("samples") =>
        LET said == output.estimates IN
        /\ output.effect.ok => /\ Same(said["absolute_difference"].point, output.effect.delta)
                               /\ Len(input.control) = Len(input.treatment) =>
                                      Same(said["mean_paired_difference"].point, output.effect.delta)
                               /\ output.effect.relative # None =>
                                      Same(said["relative_difference"].point, output.effect.relative)
                               /\ output.effect.ci.over # <<>>
        /\ (~output.robust.panics /\ Len(input.control) = Len(input.treatment)) => output.robust.checks[3].passed
FramesAgree ==
    (Done("frame") /\ output.compared.ok) =>
        Same(output.compared.difference, Minus(output.means[2], output.means[1]))
FrontsAgree ==
    (Done("points") /\ (\A i \in DOMAIN input.higher : ~input.higher[i])
        /\ IsInjective([i \in DOMAIN input.points |-> input.points[i].label])) =>
        output.front = output.explored.front
CorrectionsAgree ==
    Done("pvalues") =>
        \A i, j \in DOMAIN input.ps :
            /\ input.ps[i] <= output.bh[i] /\ output.bh[i] <= output.holm[i] /\ output.holm[i] <= One
            /\ input.ps[i] <= input.ps[j] => output.bh[i] <= output.bh[j] /\ output.holm[i] <= output.holm[j]
FactorsAgree ==
    (Done("factors") /\ output.valid) =>
        \A e \in output.effects : \E arm \in DOMAIN input.columns :
            LET size == EffectSizes(input.columns[arm].control, input.columns[arm].treatment, input.paired, <<>>)
            IN LevelOf(input.design[arm], e.factor) = e.level /\ size.ok /\ Same(size.delta, e.delta)

\* Each number that two analyses compute, both compute alike: compare and the
\* study's statistics, the estimands and the effect size, the comparison of
\* conditions and the means of a frame, the two Pareto fronts, the two
\* corrections (Holm's the stricter), the effect of a level and of its arm.
AnalysesAgree ==
    CompareAgrees /\ EstimandsAgree /\ FramesAgree /\ FrontsAgree /\ CorrectionsAgree /\ FactorsAgree

\* replicate.rs:97-99 of a study saved without condition ids: they "parse to
\* the empty string and fall back to the arm name".  So an arm's statistics
\* are over its own replicates.
ArmsKeptApart ==
    Done("study") =>
        \A a \in output.stats.arms : a.n <= Len(input.arms[a.arm].replicates)
===============================================================================
