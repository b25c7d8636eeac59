------------------------------ MODULE StudyPlan ------------------------------
(***************************************************************************)
(* What a study promises, without threads, jobs or phases: it is run once, *)
(* with every arm given the same number of replicates under the seed       *)
(* contract of its strategy, and may then be extended, which leaves what   *)
(* it has alone and adds replicates with indices and seeds of their own.   *)
(* Study implements it.                                                    *)
(***************************************************************************)
EXTENDS Integers, Sequences

CONSTANT Arms

VARIABLES
    strategy,   \* "independent", "crn" or "counterfactual"
    count,      \* replicates asked for
    arms,       \* the replicates each arm has: [index, seed, parent, ...]
    total       \* the number of replicates the study says it has

plan == <<strategy, count, arms, total>>

Positions(a) == DOMAIN arms[a]

PlanInit == total = 0 /\ \A a \in Arms : arms[a] = <<>>

(* Every arm has the replicates 0, 1, ..., count - 1, in this order.       *)
Complete == \A a \in Arms : /\ Len(arms[a]) = count
                            /\ \A i \in 1 .. count : arms[a][i].index = i - 1

(* Two runs share their random streams when they are one run, or runs of   *)
(* one replicate under common random numbers; those of one replicate, and  *)
(* only those, have one parent seed.                                       *)
SeedContract ==
    \A a, b \in Arms : \A i \in Positions(a), j \in Positions(b) :
        LET x == arms[a][i]
            y == arms[b][j]
        IN /\ x.seed = y.seed <=> x.index = y.index /\ (a = b \/ strategy = "crn")
           /\ x.parent = y.parent <=> x.index = y.index

Run ==
    /\ PlanInit
    /\ total' = count
    /\ (Complete /\ SeedContract)'
    /\ UNCHANGED <<strategy, count>>

(* The runs arm a has only after the step.                                 *)
Added(a) == { i \in 1 .. Len(arms'[a]) : i > Len(arms[a]) }

Extend ==
    /\ total' >= total
    /\ \A a \in Arms :
           /\ Len(arms'[a]) = Len(arms[a]) + (total' - total)
           /\ SubSeq(arms'[a], 1, Len(arms[a])) = arms[a]
    /\ \A a, b \in Arms : \A i \in Added(a) :
           /\ \A j \in Positions(b) : /\ arms'[a][i].index > arms[b][j].index
                                      /\ arms'[a][i].seed # arms[b][j].seed
           /\ \A j \in Added(b) :
                  /\ arms'[a][i].seed = arms'[b][j].seed <=> <<a, i>> = <<b, j>>
                  /\ a = b /\ i < j => arms'[a][i].index < arms'[a][j].index
    /\ UNCHANGED <<strategy, count>>

PlanNext == Run \/ Extend

PlanSpec == PlanInit /\ [][PlanNext]_plan
=============================================================================
