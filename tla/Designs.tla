-------------------------------- MODULE Designs --------------------------------
(***************************************************************************)
(* Experimental designs: the conditions of a factor grid, how a condition  *)
(* becomes a configuration, how replications are assigned to conditions,   *)
(* the half fraction of a grid, and the validation of a design.            *)
(*                                                                         *)
(* Names of factors are numbers, in the order of their strings; a label is *)
(* a sequence of symbols.  A configuration is the function of the          *)
(* overrides it was given.                                                 *)
(***************************************************************************)
EXTENDS Integers, Sequences, FiniteSets, SequencesExt, FiniteSetsExt, Functions, TLC

CONSTANTS
    None,
    Times,     \* the symbol that joins the labels of a condition
    Inputs     \* grids, allocations and designs

VARIABLES input, output

vars == <<input, output>>

(***************************************************************************)
(* Factor grids: sequences of [name, levels], of levels [label, value]     *)
(***************************************************************************)

\* BTreeMap of the assignments: a second factor of one name replaces the first.
Assign(condition, factor, level) == (factor.name :> level.label) @@ condition

\* The first level of a factor is left out.
FaultyExtendAll(conditions, factor) ==
    FlattenSeq([i \in DOMAIN conditions |->
        [j \in 1..Len(factor.levels) - 1 |-> Assign(conditions[i], factor, factor.levels[j + 1])]])
\* Every condition so far with every level, the last factor varying fastest.
ExtendAll(conditions, factor) ==
    FlattenSeq([i \in DOMAIN conditions |->
        [j \in DOMAIN factor.levels |-> Assign(conditions[i], factor, factor.levels[j])]])
Conditions(grid) == FoldLeft(ExtendAll, <<<<>>>>, grid)
ConditionCount(grid) == FoldLeft(LAMBDA n, factor : n * Len(factor.levels), 1, grid)

\* The labels by the name of their factor, joined by a times sign.
Label(condition) ==
    LET names == SetToSortSeq(DOMAIN condition, <)
    IN FoldLeft(LAMBDA text, i : text \o (IF i = 1 THEN <<>> ELSE <<Times>>) \o condition[names[i]],
                <<>>, [i \in DOMAIN names |-> i])

\* The first level with the label of the condition, set at the factor's name.
Resolve(grid, condition) ==
    FoldLeft(LAMBDA config, factor :
        LET named == {i \in DOMAIN factor.levels : factor.levels[i].label = condition[factor.name]}
        IN IF factor.name \notin DOMAIN condition \/ named = {} THEN config
           ELSE (factor.name :> factor.levels[Min(named)].value) @@ config,
        <<>>, grid)

Labels(levels) == {levels[i].label : i \in DOMAIN levels}
ValidGrid(grid) ==
    /\ grid # <<>>
    /\ \A i \in DOMAIN grid : grid[i].levels # <<>> /\ Cardinality(Labels(grid[i].levels)) = Len(grid[i].levels)
    /\ Cardinality({Label(c) : c \in Range(Conditions(grid))}) = Len(Conditions(grid))

\* FactorialDesign: the product of values, applied to the base in order.
GenerateConfigs(grid) ==
    FoldLeft(LAMBDA configs, factor :
        FlattenSeq([i \in DOMAIN configs |->
            [j \in DOMAIN factor.levels |-> (factor.name :> factor.levels[j].value) @@ configs[i]]]),
        <<<<>>>>, grid)

\* Every other condition, whatever the resolution and generator asked for.
Fraction(grid) ==
    LET all == Conditions(grid)
    IN [i \in 1..((Len(all) + 1) \div 2) |-> all[2 * i - 1]]

(***************************************************************************)
(* Allocation of replications                                              *)
(***************************************************************************)

Quota(conditions, total, condition) ==
    total \div conditions + (IF condition < total % conditions THEN 1 ELSE 0)
\* Conditions in order, each its quota; replications numbered throughout.
Balanced(conditions, total) ==
    LET conditionOf == FlattenSeq([c \in 1..conditions |-> [i \in 1..Quota(conditions, total, c - 1) |-> c - 1]])
    IN [i \in DOMAIN conditionOf |-> [condition |-> conditionOf[i], replication |-> i - 1]]
\* Fisher-Yates from the last place down, with a place drawn for each.
Randomized(conditions, total, draw) ==
    FoldLeft(LAMBDA s, k :
                 LET i == Len(s) - k + 1  j == (draw[i] % i) + 1
                 IN [s EXCEPT ![i] = s[j], ![j] = s[i]],
             Balanced(conditions, total), [k \in 1..(IF total = 0 THEN 0 ELSE total - 1) |-> k])

(***************************************************************************)
(* Designs: [kind, parent, levels, factor, inner]                          *)
(***************************************************************************)

FromStrategy(strategy) ==
    [kind |-> CASE strategy = "independent" -> "independent" [] strategy = "crn" -> "crn"
                [] OTHER -> "counterfactual",
     parent |-> None]
FromDesignType(type) ==
    [kind |-> IF type = "paired" THEN "crn" ELSE type, parent |-> None]
DefaultDesign == FromDesignType("paired")

RECURSIVE DesignType(_)
DesignType(design) ==
    CASE design.kind = "blocked" -> DesignType(design.inner)
      [] design.kind \in {"paired", "crn"} -> "paired"
      [] OTHER -> design.kind
IsPaired(design) == DesignType(design) # "independent"
IsBlocked(design) == design.kind = "blocked"

\* What the design itself shows; the design inside a block is not looked at.
DesignErrors(design) ==
    CASE design.kind = "counterfactual" -> IF design.parent = None THEN {"no parent"} ELSE {}
      [] IsBlocked(design) -> (IF design.levels = 0 THEN {"no levels"} ELSE {})
             \cup (IF design.factor = None THEN {"no factor"} ELSE {})
      [] OTHER -> {}
DesignWarnings(design, grid) ==
    (IF design.kind \in {"paired", "crn"} THEN {"equal arms"} ELSE {})
        \cup (IF /\ IsBlocked(design) /\ grid # None
                 /\ \E i \in DOMAIN grid : grid[i].name = design.factor
              THEN {"blocks on a factor"} ELSE {})
ValidateDesign(design, grid, perCondition, conditions) ==
    [errors |-> (IF grid # None /\ ~ValidGrid(grid) THEN {"invalid grid"} ELSE {})
                    \cup (IF perCondition < 2 THEN {"too few replications"} ELSE {})
                    \cup (IF conditions = 0 THEN {"no conditions"} ELSE {})
                    \cup DesignErrors(design),
     warnings |-> DesignWarnings(design, grid)]

(***************************************************************************)
(* Specification                                                           *)
(***************************************************************************)

Init == input \in Inputs /\ output = None

\* A design with no conditions is divided by zero.
Generate ==
    /\ output = None
    /\ LET conditions == Conditions(input.grid)
       IN output' = [conditions |-> conditions,
                     fraction |-> Fraction(input.grid),
                     configs |-> [i \in DOMAIN conditions |-> Resolve(input.grid, conditions[i])],
                     generated |-> GenerateConfigs(input.grid),
                     validation |-> ValidateDesign(input.design, input.grid, input.total, Len(conditions)),
                     assignments |-> IF conditions = <<>> THEN None
                                     ELSE IF input.randomized THEN Randomized(Len(conditions), input.total, input.draw)
                                     ELSE Balanced(Len(conditions), input.total)]
    /\ UNCHANGED input

Next == Generate
Spec == Init /\ [][Next]_vars

(***************************************************************************)
(* Properties                                                              *)
(***************************************************************************)

\* A valid grid gives every combination of levels once, with the configuration the
\* untyped design gives it and, where no factor has two levels of one value, its
\* own; replications are numbered without gaps and no condition has two more than
\* another.
DesignIsSound ==
    (output # None /\ ValidGrid(input.grid)) =>
        LET assigned(c) == {i \in DOMAIN output.assignments : output.assignments[i].condition = c}
        IN /\ Len(output.conditions) = ConditionCount(input.grid)
           /\ IsInjective(output.conditions)
           /\ (\A f \in Range(input.grid) : IsInjective([i \in DOMAIN f.levels |-> f.levels[i].value])) =>
                  IsInjective(output.configs)
           /\ output.configs = output.generated
           /\ {output.assignments[i].replication : i \in DOMAIN output.assignments} = 0..input.total - 1
           /\ Len(output.assignments) = input.total
           /\ \A c, d \in 0..Len(output.conditions) - 1 :
                  Cardinality(assigned(c)) <= Cardinality(assigned(d)) + 1
           /\ "invalid grid" \notin output.validation.errors
===============================================================================
