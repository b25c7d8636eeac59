-------------------------------- MODULE Study --------------------------------
(***************************************************************************)
(* ReplicationRunner::run_arms and StudyResult::extend (replicate.rs), and *)
(* the pairing of replicates by the estimators (analysis/study.rs,         *)
(* effect.rs).  A study runs every arm of every replicate on a rayon pool. *)
(* The arms of a counterfactual study after the first replay the matches   *)
(* the first recorded, so they wait for all of its runs.  A run that       *)
(* cannot be done brings the whole study down.                             *)
(*                                                                         *)
(* A job is <<replicate, arm>>.  A seed is the path of derivations it      *)
(* comes from: derive is a 64-bit hash, taken not to collide.  Of a run's  *)
(* metrics one is followed, and of that only whether it has a value.       *)
(*                                                                         *)
(* Operators whose name begins with Faulty are as in MatchLoop.            *)
(***************************************************************************)
EXTENDS Integers, Sequences, FiniteSetsExt

CONSTANTS
    ArmCount,       \* arms.len()
    MaxCount,       \* bound on ReplicationSpec.count
    Strategies,     \* the seed strategies considered
    Threads,        \* threads of the study's pool
    MaxExtra,       \* bound on additional_replications
    MaxExtensions   \* bound on the calls of extend

ASSUME ArmsAssumption == ArmCount \in Nat \ {0} /\ MaxCount \in Nat
ASSUME StrategiesAssumption == Strategies \subseteq {"independent", "crn", "counterfactual"}
ASSUME PoolAssumption == Threads \in Nat \ {0} /\ MaxExtra \in Nat /\ MaxExtensions \in Nat

Arms == 0 .. ArmCount - 1

VARIABLES
    strategy,    \* spec.strategy
    count,       \* spec.count
    phase,       \* where run_arms is: "live", "replay", "all"; or how it ended
    active,      \* jobs the pool's threads are running
    done,        \* jobs that have given their result
    failed,      \* jobs that have panicked
    empty,       \* replicates whose live run completed no match
    missing,     \* jobs whose result has no value for the metric
    arms,        \* StudyResult.arms: the replicates of each arm
    total,       \* StudyResult.replication_count
    extensions   \* calls of extend so far

request == <<strategy, count>>
jobs    == <<active, done, failed, empty, missing>>
result  == <<arms, total, extensions>>
vars    == <<request, phase, jobs, result>>

FaultyReplicates == 0 .. count

Replicates == 0 .. count - 1

(* The runs started together in each phase.                                *)
JobsOf == [ live     |-> Replicates \X {0},
            replay   |-> Replicates \X (Arms \ {0}),
            all      |-> Replicates \X Arms,
            returned |-> {},
            panicked |-> {} ]

Derive(seed, k) == Append(seed, k)

BaseSeed == <<0>>

ReplicateSeed(r) == Derive(BaseSeed, r)

FaultyArmSeed(parent, a) ==
    IF a = 0 THEN parent ELSE Derive(parent, a)

(* Common random numbers share the replicate's seed; so does the live arm  *)
(* of a counterfactual.                                                    *)
ArmSeed(parent, a) ==
    IF strategy = "crn" \/ (strategy = "counterfactual" /\ a = 0)
    THEN parent ELSE Derive(parent, a)

Init ==
    /\ strategy \in Strategies
    /\ count \in 0 .. MaxCount
    /\ phase = IF strategy = "counterfactual" THEN "live" ELSE "all"
    /\ active = {} /\ done = {} /\ failed = {} /\ empty = {} /\ missing = {}
    /\ arms = [a \in Arms |-> <<>>]
    /\ total = 0
    /\ extensions = 0

-----------------------------------------------------------------------------
(* The pool.                                                               *)

(* A thread takes up a job, also after another has panicked: rayon lets    *)
(* some of the others run.                                                 *)
Begin(j) ==
    /\ j \notin active \cup done \cup failed
    /\ Cardinality(active) < Threads
    /\ active' = active \cup {j}
    /\ UNCHANGED <<request, phase, done, failed, empty, missing, result>>

(* The run ends.  A replay needs a recorded match to replay.               *)
Finish(j) ==
    /\ j \in active
    /\ phase = "replay" => j[1] \notin empty
    /\ active' = active \ {j}
    /\ done' = done \cup {j}
    /\ \/ empty' = empty
       \/ phase = "live" /\ empty' = empty \cup {j[1]}
    /\ missing' \in {missing, missing \cup {j}}
    /\ UNCHANGED <<request, phase, failed, result>>

FaultyFail(j) ==
    /\ j \in active
    /\ active' = active \ {j}
    /\ UNCHANGED <<request, phase, done, failed, empty, missing, result>>

(* An Err of run_recording or of replay meets an expect.                   *)
Fail(j) ==
    /\ j \in active
    /\ active' = active \ {j}
    /\ failed' = failed \cup {j}
    /\ UNCHANGED <<request, phase, done, empty, missing, result>>

Work == \E j \in JobsOf[phase] : Begin(j) \/ Finish(j) \/ Fail(j)

-----------------------------------------------------------------------------
(* The thread that called run_arms: it waits for the pool.                 *)

FaultyCollected == failed = {} /\ Replicates \subseteq { j[1] : j \in active \cup done }

Collected == failed = {} /\ JobsOf[phase] \subseteq done

(* Only when all live runs are collected does the replay of any begin.     *)
Replay ==
    /\ phase = "live" /\ Collected
    /\ phase' = "replay"
    /\ UNCHANGED <<request, jobs, result>>

Replicate(r, a) ==
    [ index  |-> r,
      seed   |-> ArmSeed(ReplicateSeed(r), a),
      parent |-> ReplicateSeed(r),
      metric |-> <<r, a>> \notin missing ]

(* Results come back in the order of the jobs, whatever order they ended   *)
(* in, and each arm's are sorted by index.                                 *)
Return ==
    /\ phase \in {"replay", "all"} /\ Collected
    /\ arms' = [a \in Arms |-> [i \in 1 .. count |-> Replicate(i - 1, a)]]
    /\ total' = count
    /\ phase' = "returned"
    /\ UNCHANGED <<request, jobs, extensions>>

(* The panic of a job is passed on once no thread is running one.          *)
Unwind ==
    /\ phase \in {"live", "replay", "all"}
    /\ failed # {} /\ active = {}
    /\ phase' = "panicked"
    /\ UNCHANGED <<request, jobs, result>>

-----------------------------------------------------------------------------
(* Extension.                                                              *)

Indices == UNION { { arms[a][i].index : i \in DOMAIN arms[a] } : a \in Arms }

FaultyLastIndex == total - 1

LastIndex == IF Indices = {} THEN 0 ELSE Max(Indices)

(* Arms are 1000 apart in the numbers their seeds are derived from.        *)
ArmStride == 1000

(* The i-th new replicate of arm a: not a run, its result holds no metric. *)
Placeholder(a, i, seed) ==
    [ index  |-> LastIndex + a + i + 1,
      seed   |-> Derive(seed, a * ArmStride + i),
      parent |-> seed,
      metric |-> FALSE ]

(* Extended by n replicates, with a seed the caller has not used before.   *)
(* Given another number of arms than it has, extend is an Err and leaves   *)
(* the study as it is.                                                     *)
Extend(n) ==
    LET seed == <<extensions + 1>> IN
    /\ phase = "returned" /\ extensions < MaxExtensions
    /\ arms' = [a \in Arms |-> arms[a] \o [i \in 1 .. n |-> Placeholder(a, i - 1, seed)]]
    /\ total' = total + n
    /\ extensions' = extensions + 1
    /\ UNCHANGED <<request, phase, jobs>>

Stop == phase \in {"returned", "panicked"} /\ UNCHANGED vars

Caller == Replay \/ Return \/ Unwind

Next == Work \/ Caller \/ (\E n \in 0 .. MaxExtra : Extend(n)) \/ Stop

Spec == Init /\ [][Next]_vars

(* The pool and the thread waiting for it keep running, and every run ends *)
(* (RunReturns of MatchLoop).                                              *)
FairSpec == Spec /\ WF_vars(Work) /\ WF_vars(Caller)

-----------------------------------------------------------------------------
(* Statistics.                                                             *)

(* The column of an arm in the replication table: where in the arm the     *)
(* replicates are whose metric has a value.                                *)
Column(a) == { i \in DOMAIN arms[a] : arms[a][i].metric }

(* The row of the column that the replicate at i comes to lie in.          *)
Row(a, i) == Cardinality({ j \in Column(a) : j <= i })

Paired == strategy # "independent"

(* What a paired effect size subtracts from what: the columns side by      *)
(* side, when they are equally long.                                       *)
Pairs(a, b) ==
    { <<arms[a][ij[1]], arms[b][ij[2]]>> :
          ij \in { ij \in Column(a) \X Column(b) :
                     /\ Paired /\ Cardinality(Column(a)) = Cardinality(Column(b))
                     /\ Row(a, ij[1]) = Row(b, ij[2]) } }

-----------------------------------------------------------------------------
(* Properties.                                                             *)

(* Type invariant.                                                         *)
TypeOK ==
    LET Runs == (0 .. MaxCount - 1) \X Arms IN
    /\ strategy \in Strategies /\ count \in 0 .. MaxCount
    /\ phase \in {"live", "replay", "all", "returned", "panicked"}
    /\ active \subseteq Runs /\ done \subseteq Runs /\ failed \subseteq Runs
    /\ missing \subseteq done /\ empty \subseteq 0 .. MaxCount - 1
    /\ arms \in [Arms -> Seq([index : Nat, seed : Seq(Nat), parent : Seq(Nat), metric : BOOLEAN])]
    /\ total \in Nat /\ extensions \in 0 .. MaxExtensions

(* A replay reads the history of the live run of its own replicate, which  *)
(* is complete; and a study with a replicate in which no match was played  *)
(* never returns (ReplayEngine::replay refuses an empty history).          *)
ReplayAfterLive ==
    strategy = "counterfactual" =>
        /\ \A j \in active \cup done : j[2] # 0 => <<j[1], 0>> \in done
        /\ phase = "returned" /\ ArmCount > 1 => empty = {}

(* Whatever order the runs end in, and however the study is extended, the  *)
(* estimators of a paired design subtract runs of one replicate, and under *)
(* common random numbers runs with the same random streams; as long as no  *)
(* run lacks the metric.                                                   *)
PairsShareStreams ==
    missing = {} =>
        \A a, b \in Arms : \A pair \in Pairs(a, b) :
            /\ pair[1].index = pair[2].index /\ pair[1].parent = pair[2].parent
            /\ strategy = "crn" => pair[1].seed = pair[2].seed

(* run_arms and extend, in whatever order the runs end, give the study     *)
(* StudyPlan promises.                                                     *)
Plan == INSTANCE StudyPlan

ImplementsPlan == Plan!PlanSpec

(* run_arms ends: it returns, or panics with the first run that fails.     *)
StudyEnds == <>(phase \in {"returned", "panicked"})

-----------------------------------------------------------------------------
(* What is said of the estimators and the code does not do.                *)

(* effect.rs:278-279: "The caller computes the paired differences          *)
(* `treatment - control` (same replicate index)".  effect.rs:579, of the   *)
(* sibling compare: "partial data cannot be paired".                       *)
PairsMatched ==
    \A a, b \in Arms : \A pair \in Pairs(a, b) : pair[1].index = pair[2].index
=============================================================================
