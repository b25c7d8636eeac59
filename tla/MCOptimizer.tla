------------------------------ MODULE MCOptimizer ------------------------------
(***************************************************************************)
(* Instances of the sequential optimizer: short searches of small spaces.  *)
(***************************************************************************)
EXTENDS Integers, Sequences, TLC

CONSTANT None

VARIABLES input, output

(***************************************************************************)
(* Searches of two or three trials, any of which may fail                  *)
(***************************************************************************)

Infinity == 1000
Scalar(v) == [kind |-> "scalar", v |-> <<v>>]
TrialOutcomes ==
    {None, ("m" :> Scalar(1)) @@ ("w" :> Scalar(0)), ("m" :> Scalar(0)) @@ ("w" :> Scalar(2)),
     ("m" :> Scalar(Infinity)) @@ ("w" :> Scalar(2)),
     ("m" :> [kind |-> "series", v |-> <<>>]) @@ ("w" :> Scalar(1)),
     "m" :> [kind |-> "histogram", v |-> <<>>], "w" :> [kind |-> "distribution", v |-> <<1, 3>>]}

Float(lo, hi, log) == [type |-> "float", low |-> lo, high |-> hi, log |-> log]
Categorical(values) == [type |-> "categorical", values |-> values]
Search ==
    [seed |-> 7, budget |-> 3, initial_points |-> 1, initial_design |-> "random",
     space |-> <<Categorical(<<"a">>)>>, objectives |-> <<[metric |-> "m", maximize |-> TRUE]>>,
     max_consecutive_failures |-> 2, min_gp_training_points |-> None, k_dpp_candidates |-> None,
     eta |-> 1, kernel |-> "matern52", acquisition |-> "ei", checkpoint |-> TRUE, checkpoint_interval |-> None]
Hypercube == [Search EXCEPT !.initial_design = "latin_hypercube", !.budget = 2]
Both == [Search EXCEPT !.objectives = <<[metric |-> "m", maximize |-> FALSE],
                                        [metric |-> "w", maximize |-> TRUE]>>]
Searches ==
    {Search, Both, [Both EXCEPT !.budget = 2, !.eta = 0], [Both EXCEPT !.budget = 2, !.eta = -1],
     [Search EXCEPT !.initial_points = 0], [Search EXCEPT !.checkpoint_interval = 0],
     [Search EXCEPT !.max_consecutive_failures = None, !.initial_points = 2, !.checkpoint_interval = 2],
     [Hypercube EXCEPT !.space = <<Float(0, 4, FALSE), Categorical(<<"true", "x">>)>>, !.initial_points = 5],
     [Hypercube EXCEPT !.space = <<Float(0, 4, TRUE), Categorical(<<"true", "x", "y">>)>>,
                       !.initial_points = 2, !.max_consecutive_failures = 3],
     [Hypercube EXCEPT !.space = <<>>, !.checkpoint = FALSE],
     [Hypercube EXCEPT !.space = <<Float(0, 6, FALSE)>>, !.initial_points = 3, !.budget = 3,
                       !.checkpoint = FALSE],
     [Search EXCEPT !.space = <<Float(1, 1, FALSE)>>], [Search EXCEPT !.space = <<Categorical(<<>>)>>],
     [Search EXCEPT !.budget = 0], [Search EXCEPT !.min_gp_training_points = 1, !.k_dpp_candidates = 0],
     [Search EXCEPT !.kernel = "typo", !.min_gp_training_points = 0]}

\* A fallback of the first of three trials meets the last.
Sequential == INSTANCE Optimizer WITH
    config <- input, search <- output, FallbackOffset <- 2, Outcomes <- TrialOutcomes,
    Configs <- Searches
===============================================================================
