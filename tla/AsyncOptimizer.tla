--------------------------- MODULE AsyncOptimizer ---------------------------
(***************************************************************************)
(* optimize_async (matchlab-optimize/src/optimizer.rs): Bayesian           *)
(* optimization with threads > 1.  The main thread evaluates an initial    *)
(* design, then hands trials to the global rayon pool, one message per     *)
(* trial comes back over an mpsc channel, and each message makes the main  *)
(* thread dispatch another trial until the budget has been handed out.     *)
(*                                                                         *)
(* Actors: the main thread (phase) and the threads of the pool.  A trial   *)
(* is its index; its parameters, objective values and seeds are left out,  *)
(* and evaluating it succeeds or fails (evaluate_point's Err, or a panic   *)
(* that dispatch_worker catches).  Suggesting a point may fail, where the  *)
(* code returns with `?`, or bring the main thread down.                   *)
(*                                                                         *)
(* Operators whose name begins with Faulty are as in MatchLoop.            *)
(***************************************************************************)
EXTENDS Integers, Sequences, FiniteSets

CONSTANTS
    Budget,              \* OptConfig.budget
    InitialPoints,       \* bo.initial_points
    Threads,             \* bo.threads(), at least 2 here
    PoolSize,            \* threads of rayon's global pool
    Candidates,          \* bo.k_dpp_candidates()
    MinTraining,         \* gp.min_gp_training_points()
    MaxFailures,         \* bo.max_consecutive_failures()
    MultiObjective,      \* TRUE: objectives.len() > 1
    CheckpointInterval,  \* output.checkpoint_interval; 1 stands for None
    DiskFaults           \* TRUE: a checkpoint may fail to be written

ASSUME TrialsAssumption     == Budget \in Nat /\ InitialPoints \in Nat /\ MinTraining \in Nat
ASSUME ThreadsAssumption    == /\ Threads \in Nat /\ Threads > 1
                               /\ PoolSize \in Nat \ {0}
                               /\ Candidates \in Nat \ {0}
ASSUME LimitsAssumption     == /\ MaxFailures \in Nat
                               /\ CheckpointInterval \in Nat \ {0}
                               /\ DiskFaults \in BOOLEAN
                               /\ MultiObjective \in BOOLEAN

Least(a, b) == IF a <= b THEN a ELSE b

InitialN == Least(InitialPoints, Budget)

(* workers_to_dispatch                                                     *)
Workers == Least(Threads, Budget - InitialN)

TrialIds == 0 .. Budget - 1

VARIABLES
    phase,       \* where the main thread is
    trials,      \* all_trial_results (and all_params, all_objectives), in order
    next,        \* next_trial
    pending,     \* pending_indices
    count,       \* pending_count
    failures,    \* consecutive_failures
    queued,      \* trials spawned on the pool and not begun
    running,     \* trials the pool's threads are evaluating
    channel,     \* messages sent and not received, in order
    checkpoint,  \* the trials in the checkpoint file, in order
    lost         \* history variable: trials whose evaluation failed

main   == <<trials, next, pending, count, failures, checkpoint, lost>>
pool   == <<queued, running, channel>>
vars   == <<phase, main, pool>>

InChannel == { channel[i].trial : i \in DOMAIN channel }

Recorded == { trials[i] : i \in DOMAIN trials }

(* Trials dispatched of which the main thread has not received a message.  *)
Outstanding == queued \cup running \cup InChannel

Init ==
    /\ phase = "initial"
    /\ trials = <<>>
    /\ next = 0
    /\ pending = {}
    /\ count = 0
    /\ failures = 0
    /\ queued = {}
    /\ running = {}
    /\ channel = <<>>
    /\ checkpoint = <<>>
    /\ lost = {}

-----------------------------------------------------------------------------
FaultyWriteOnlyLast(i) == checkpoint' = <<i>>

(* maybe_write_checkpoint, after the trial i: the file is replaced by a    *)
(* rename, so a write that fails leaves the previous one.                  *)
WriteCheckpoint(i) ==
    IF i % CheckpointInterval = 0
    THEN \/ checkpoint' = trials'
         \/ DiskFaults /\ checkpoint' = checkpoint
    ELSE checkpoint' = checkpoint

(* The initial design is evaluated by a parallel iterator: the results are *)
(* in the order of the points, those that failed left out.                 *)
InitialDesign ==
    /\ phase = "initial"
    /\ \E n \in 0 .. InitialN : \E ok \in [1 .. n -> 0 .. InitialN - 1] :
          /\ \A i, j \in 1 .. n : i < j => ok[i] < ok[j]
          /\ trials' = ok
          /\ lost' = (0 .. InitialN - 1) \ { ok[i] : i \in 1 .. n }
    /\ IF InitialN > 0 THEN WriteCheckpoint(InitialN - 1) ELSE UNCHANGED checkpoint
    /\ next' = InitialN
    /\ phase' = "launch"
    /\ UNCHANGED <<pending, count, failures, pool>>

(* A plugin that panics here is not caught: the iterator panics with it.   *)
InitialPanics ==
    /\ phase = "initial" /\ InitialN > 0
    /\ phase' = "panicked"
    /\ UNCHANGED <<main, pool>>

FaultyDispatch(n) ==
    /\ queued' = queued \cup (next .. next + n - 1)
    /\ pending' = pending \cup (next .. next + n - 1)
    /\ next' = next + n
    /\ count' = count + 1

(* dispatch_worker for the next n trials.                                  *)
Dispatch(n) ==
    /\ queued' = queued \cup (next .. next + n - 1)
    /\ pending' = pending \cup (next .. next + n - 1)
    /\ next' = next + n
    /\ count' = count + n

(* A batch chosen by suggest_batch is no larger than its candidates.       *)
LaunchSize ==
    IF Len(trials) >= MinTraining /\ Workers > 1 THEN Least(Workers, Candidates) ELSE Workers

Launch ==
    /\ phase = "launch"
    /\ Dispatch(LaunchSize)
    /\ phase' = "collect"
    /\ UNCHANGED <<trials, failures, running, channel, checkpoint, lost>>

(* A Gaussian process is fitted once there are points enough, and may      *)
(* fail, before anything is dispatched.                                    *)
LaunchFails ==
    /\ phase = "launch"
    /\ Workers > 0 /\ Len(trials) >= MinTraining
    /\ phase' = "failed"
    /\ UNCHANGED <<main, pool>>

-----------------------------------------------------------------------------
(* The threads of the pool, in whatever order the scheduler runs them.     *)

Begin(t) ==
    /\ t \in queued
    /\ Cardinality(running) < PoolSize
    /\ queued' = queued \ {t}
    /\ running' = running \cup {t}
    /\ UNCHANGED <<phase, main, channel>>

(* A thread whose evaluation panics sends its message all the same.        *)
Report(t, ok) ==
    /\ t \in running
    /\ running' = running \ {t}
    /\ channel' = Append(channel, [trial |-> t, ok |-> ok])
    /\ UNCHANGED <<phase, main, queued>>

Evaluate == \E t \in queued \cup running : Begin(t) \/ \E ok \in BOOLEAN : Report(t, ok)

-----------------------------------------------------------------------------
(* One turn of the loop around rx.recv(): the first message, in channel    *)
(* order, is received and handled to the end of the loop's body.           *)

Received == Head(channel)

(* suggest_next_point_with_pending looks a pending trial up by its number  *)
(* among the n results recorded, which are in order of arrival: it adds a  *)
(* fantasy for each pending trial whose number is less than n.             *)
Fantasies(n) == { t \in pending \ {Received.trial} : t < n }

(* What becomes of a suggestion made with n results recorded.  Before      *)
(* there are enough of them the point is drawn at random.  A fantasy has   *)
(* one value, whatever the number of objectives: parego_scalarize then     *)
(* reads past its end, unless the fit has failed before.                   *)
Suggestion(n) ==
    IF n < MinTraining THEN {"point"}
    ELSE IF MultiObjective /\ Fantasies(n) # {} THEN {"failed", "panicked"}
    ELSE {"failed", "point"}

FaultyAfterSuccess == IF next < Budget - 1 THEN 1 ELSE 0

(* How many trials a success dispatches, and how many a failure: a random  *)
(* fallback point and then a suggested one.                                *)
AfterSuccess == IF next < Budget THEN 1 ELSE 0

FaultyAfterFailure == 2

AfterFailure == Least(2, Budget - next)

FaultyLoopPhase(c) == "collect"

(* The main thread holds a sender itself, so that recv never fails: the    *)
(* loop ends by the count alone.                                           *)
LoopPhase(c) == IF c = 0 THEN "returned" ELSE "collect"

(* Received message removed from the channel and from the pending trials,  *)
(* n more dispatched.                                                      *)
Replace(n) ==
    /\ channel' = Tail(channel)
    /\ queued' = queued \cup (next .. next + n - 1)
    /\ pending' = (pending \ {Received.trial}) \cup (next .. next + n - 1)
    /\ next' = next + n
    /\ count' = count - 1 + n
    /\ UNCHANGED running

(* n trials are dispatched, the last of them at the point suggested: if    *)
(* there is none the function is left, with the others on their way.       *)
Answer(n, suggestion) ==
    IF suggestion = "point"
    THEN Replace(n) /\ phase' = LoopPhase(count')
    ELSE Replace(n - 1) /\ phase' = suggestion

FaultyRecord ==
     trials' = IF Received.trial < Len(trials) THEN trials ELSE Append(trials, Received.trial)

Record == trials' = Append(trials, Received.trial)

ReceiveSuccess ==
    /\ phase = "collect" /\ channel # <<>>
    /\ Received.ok
    /\ failures' = 0
    /\ Record
    /\ WriteCheckpoint(Received.trial)
    /\ \E s \in IF AfterSuccess = 1 THEN Suggestion(Len(trials) + 1) ELSE {"point"} :
          Answer(AfterSuccess, s)
    /\ UNCHANGED lost

ReceiveFailure ==
    /\ phase = "collect" /\ channel # <<>>
    /\ ~Received.ok
    /\ failures + 1 < MaxFailures
    /\ failures' = failures + 1
    /\ lost' = lost \cup {Received.trial}
    /\ \E s \in IF AfterFailure = 2 THEN Suggestion(Len(trials)) ELSE {"point"} :
          Answer(AfterFailure, s)
    /\ UNCHANGED <<trials, checkpoint>>

(* Too many failures in a row: the loop is left at once.                   *)
GiveUp ==
    /\ phase = "collect" /\ channel # <<>>
    /\ ~Received.ok
    /\ failures + 1 >= MaxFailures
    /\ failures' = failures + 1
    /\ lost' = lost \cup {Received.trial}
    /\ Replace(0)
    /\ phase' = "returned"
    /\ UNCHANGED <<trials, checkpoint>>

(* optimize_async has been left: the pool goes on, the main thread does not. *)
Over == phase \in {"returned", "failed", "panicked"}

Stop == Over /\ UNCHANGED vars

Main == \/ InitialDesign \/ InitialPanics \/ Launch \/ LaunchFails
        \/ ReceiveSuccess \/ ReceiveFailure \/ GiveUp

Next == Main \/ Evaluate \/ Stop

Spec == Init /\ [][Next]_vars

(* The main thread and the pool keep running, and every experiment ends    *)
(* (RunReturns of MatchLoop): no thread of the pool is held for ever.      *)
FairSpec == Spec /\ WF_vars(Main) /\ WF_vars(Evaluate)

-----------------------------------------------------------------------------
(* Type invariant.                                                         *)
TypeOK ==
    /\ phase \in {"initial", "launch", "collect", "returned", "failed", "panicked"}
    /\ trials \in Seq(TrialIds)
    /\ next \in 0 .. Budget
    /\ pending \in SUBSET TrialIds
    /\ count \in Nat
    /\ failures \in Nat
    /\ queued \in SUBSET TrialIds
    /\ running \in SUBSET TrialIds
    /\ channel \in Seq([trial : TrialIds, ok : BOOLEAN])
    /\ checkpoint \in Seq(TrialIds)
    /\ lost \in SUBSET TrialIds

OneStage ==
    /\ queued \cap running = {}
    /\ (queued \cup running) \cap InChannel = {}
    /\ \A i, j \in DOMAIN channel : channel[i].trial = channel[j].trial => i = j
    /\ \A i, j \in DOMAIN trials : trials[i] = trials[j] => i = j
    /\ Outstanding \cap (Recorded \cup lost) = {}
    /\ Recorded \cap lost = {}

(* Every trial handed out is somewhere, and in one place: on the pool, in  *)
(* the channel, recorded, or failed.  None is evaluated or recorded twice, *)
(* none is forgotten, whatever the order in which the answers come.        *)
EveryTrialOnce ==
    /\ OneStage
    /\ Outstanding \cup Recorded \cup lost = 0 .. next - 1

(* While the loop waits in rx.recv() the counter and the set the code      *)
(* keeps say what is really outstanding: the counter is what ends the loop *)
(* (the main thread holds a sender, so recv never fails).                  *)
CountsOutstanding ==
    phase = "collect" => pending = Outstanding /\ count = Cardinality(Outstanding)

(* The loop does not wait for nothing: when it waits, an answer is coming. *)
(* It needs the initial design to leave some of the budget.                *)
AnswerComing == InitialPoints < Budget => (phase = "collect" => Outstanding # {})

(* Unless it gives up, the optimizer returns with the budget handed out    *)
(* and every trial of it accounted for.                                    *)
BudgetUsed ==
    phase = "returned" /\ failures < MaxFailures => next = Budget /\ Outstanding = {}

(* The checkpoint, written at intervals and to a disk that may fail, is    *)
(* always the results of some earlier moment, and never goes back to an    *)
(* earlier one: a crash loses the latest results, and only those.          *)
CheckpointGrows ==
    [][ /\ Len(checkpoint) <= Len(trials)
        /\ SubSeq(trials, 1, Len(checkpoint)) = checkpoint
        /\ Len(checkpoint') >= Len(checkpoint) ]_vars

(* optimize_async ends, one way or another: the main thread is not left    *)
(* waiting in rx.recv() for a message nobody will send.                    *)
Returns == <>Over

-----------------------------------------------------------------------------
(* What is said of the optimizer and the code does not do.                 *)

(* README.md:691: "Repeat steps 2-4 until the budget is exhausted."        *)
StopsWhenExhausted == (Recorded \cup lost = TrialIds) ~> Over

(* optimizer.rs:1496 asserts, for one pending trial and one objective,     *)
(* that suggest_next_point_with_pending returns a point; README.md:727     *)
(* runs two objectives with four threads.                                  *)
SuggestReturns == [][phase = "collect" => phase' # "panicked"]_vars
=============================================================================
