# matchlab: specifications, model checking and proofs

matchlab simulates a matchmaking service as a discrete-event system and runs
experiments over it: single runs, replications, studies, optimizations. This
directory specifies the parts of it that have behaviour, that is, state that changes
in an order nobody fixes. Paths below are relative to the repository; `crates/x/y.rs`
stands for `crates/matchlab-x/src/y.rs`.

## 1. Inventory

| component | code | state | operations | interacts with |
|---|---|---|---|---|
| event engine, world | `core/event.rs`, `world.rs`, `time.rs` | heap of timed events, handler table; clock, players, observations, matches, next ids | `schedule`, `tick`, `peek_time`; `add_player`, `next_match_id`, `observe` | runs the loop's handlers |
| match loop | `loop/lib.rs`, `machine.rs`, `history.rs` | `MachineState`: queue, active matches, counters, queue times, completed buffer, history | a handler per event kind, `run_until`, `finalize_metrics` | calls every plugin; shared state behind one mutex, one thread |
| ecosystem loop | `loop/ecosystem.rs` | world, queue, agents, a population beside the world's | `register_agent`, `tick` | agents, population dynamics, matchmaker |
| queue, matchmaker | `matchmaking/queue.rs`, `matchmaker.rs`, `candidate.rs`, `selection.rs`, `search.rs`, `constraint.rs`, `objective.rs`, `latency.rs`, `policy.rs` | queue entries with a snapshot of the observation | `enqueue`, `remove_batch`; generate, filter, score, select | called at each `MatchTimer` |
| parties | `matchmaking/party.rs` | parties by id, next id | `register`, `remove`, `next_id`, integrity check | matchmaking constraints |
| matchmaking plugins | `plugins/matchmaking/*.lua` | context table kept between calls | `find_matches` | through `matchmaking/lua.rs` |
| optimizer | `optimize/optimizer.rs`, `multiobj.rs`, `dpp.rs`, `config.rs` | trials, pending trials, failures, checkpoint file | sequential and asynchronous optimization | runs experiments on rayon's pool |
| surrogate model | `optimize/gp.rs`, `kernel.rs`, `acquisition.rs`, `sampler.rs` | none | numerics | optimizer |
| experiment runner | `experiments/runner.rs`, `config.rs`, `inherit.rs` | none | `run`: manifest to loop to result | loop, plugins |
| replication, studies | `experiments/replicate.rs`, `study.rs`, `seed.rs` | runs of each arm | run arms, extend a study | runner |
| scheduler, checkpoints | `experiments/scheduler.rs`, `checkpoint.rs`, `distributed.rs`, `parallel.rs` | pending units, failures, checkpoint file | run with retries, save, resume | runner |
| stores, identity | `experiments/store.rs`, `identity.rs`, `observation.rs` | rows, run status, buffered records | write, update, flush | runner |
| manifests | `experiments/config.rs`, `inherit.rs`, `study.rs`, `seed.rs`, `package.rs` | none | load, override, expand, hash, package | runner, studies, designs |
| counterfactuals | `experiments/counterfactual.rs` | recorded history | replay | loop history, rating systems |
| designs, validation of manifests | `experiments/factorial.rs`, `design.rs`, `validation.rs` | none | expand a design | studies |
| detection | `detection/*.rs`, `plugins/detection` | plugin's context | observe, evaluate, recommend | loop |
| adversarial agents | `adversarial/*.rs`, `plugins/adversarial` | plugin's context, behaviour fields of a player | tick | loop |
| rating, ranking, satisfaction, game, metrics | `rating`, `ranking`, `utility`, `game`, `metrics`, their plugins | plugins' contexts; metric accumulators | update, map, simulate, record, finalize | loop |
| Lua runtime | `lua/*.rs` | one VM per plugin | load, convert, call | every adapter |
| population | `players/*.rs` | skills | generate, advance | loop |
| analysis | `analysis/*.rs` | none | statistics over finished results | command line |
| validation, command line | `validation`, `src/main.rs` | none | tests; arguments, printing | everything |

**What is hard here.** The simulation is single-threaded, and yet its order is not
fixed by the code: `TimestampedEvent` is ordered by time alone (`event.rs:64`), and many
events share a time (all joins are at 0; a match's end, its rating update and its
detection checks are one instant; timers and rejoins fall on the same grid). Handlers
communicate by events only and rely on each other without testing: `Queue::enqueue` does
not look for duplicates, `handle_match_timer` does not look for players in a match,
`tick` does not look at the clock. Copies are taken at one event and read at another
(queue snapshots, queue times, visible ranks, the completed buffer). The optimizer is
truly concurrent: workers on rayon's pool, messages in any order, hand-kept counters that
alone end a blocking loop. Files are rewritten while runs go on.

**What would make each part correct.** Loop: players in one place, matches live once, copies
current, the run ends and uses its budget. Optimizer: no trial lost or repeated, counters
equal to what is outstanding, it returns. Queue and matchmaking: proposals disjoint, of the
right size and from the queue; parties not split. Ecosystem: an id of the counter names one
player for ever. Replication: run indices and seeds distinct, extension equal to a longer
run. Scheduler: every job run or reported failed. Checkpoints and stores: what is read back
is what was written, or nothing. Plugins: a script sees what it declared and its layer may
know, and is called only what it defines. Manifests: an arm runs with its overrides and
nothing else changed. Command line: failure is not reported as success. `PROJECT.json` lists
the hazards, each at its line.

## 2. Modules

| module | what it is | code |
|---|---|---|
| `MatchLoop` | the engine and the loop: one action per event kind | `event.rs`, `world.rs`, `lib.rs`, `machine.rs`, `history.rs`, `queue.rs`, `runner.rs:258` |
| `MatchPool` | abstract: players wait, are taken into disjoint teams, finish | none: what the loop promises |
| `MatchLoopRefinement` | `MatchLoop` implements `MatchPool` | the mapping |
| `MCMatchLoop` | instances for TLC, symmetry of players | |
| `MatchLoopProofs` | theorems: safety and the refinement of `MatchPool` | |
| `AsyncOptimizer` | `optimize_async` and its workers | `optimizer.rs:249-1162` |
| `AsyncOptimizerProofs` | theorems | |
| `Study` | `run_arms`, its pool, `extend`, and the pairing of replicates | `replicate.rs`, `analysis/study.rs`, `effect.rs`, `aggregation.rs`, `counterfactual.rs` |
| `StudyPlan` | abstract: a study is run once and then extended | none: what a study promises |
| `StudyProofs` | theorems: safety and the refinement of `StudyPlan` | |
| `MatchSearch` | generators, searches, constraints, objectives, selections | `candidate.rs`, `search.rs`, `constraint.rs`, `objective.rs`, `policy.rs`, `selection.rs` |
| `MatchSearchProofs` | theorems | |
| `Parties` | the registry of parties | `party.rs` |
| `Ecosystem` | ticks: agents, population, matchmaker over one queue | `ecosystem.rs`, `population_dynamics.rs`, `world.rs` |
| `EcosystemProofs` | theorems of `Ecosystem` and `AgentPolicies` | |
| `AgentPolicies` | what an adaptive or manipulating agent does next | `adversarial/policy.rs`, `manipulation.rs`, `objectives.rs`, `agent.rs` |
| `Plugins` | loading a script and every call of the eight adapters | `lua/*.rs`, each `*/lua.rs`, `metrics/engine.rs` |
| `LuaValues` | YAML to Lua and back, for integers of two widths | `lua/context.rs` |
| `Persistence` | study store, checkpoints, observation writers | `store.rs`, `identity.rs`, `checkpoint.rs`, `observation.rs` |
| `PersistenceProofs` | theorems | |
| `Scheduler` | jobs, worker pools, retries | `scheduler.rs`, `distributed.rs`, `parallel.rs` |
| `SchedulerProofs` | a theorem | |
| `Optimizer` | the sequential search, its designs, Pareto front, best trial | `optimizer.rs:45-247`, `config.rs`, `sampler.rs`, `multiobj.rs`, `acquisition.rs:106-123` |
| `Manifest` | inheritance, overrides, study expansion, scripts, hash, package | `config.rs`, `inherit.rs`, `study.rs`, `seed.rs`, `package.rs` |
| `Designs` | grids, fractions, blocks, assignments and their validation | `factorial.rs`, `design.rs`, `validation.rs` |
| `Population` | apportionment, generation, dynamics, skill history, leaderboard | `players/*.rs`, `world.rs`, `ranking/leaderboard.rs` |
| `Analysis` | aggregation, pairing, effects, corrections, fronts, tables | `analysis/*.rs` |
| `Cli` | command, flags, steps, exit code | `main.rs`, `formats.rs` |
| `Components` | `MatchSearch` and, one at a time, the parts it is run with: parties, ecosystem, agents, plugins, store, jobs, command line | |
| `ComponentsProofs` | theorems of `Components`: those of `Parties`, `Plugins` and `Cli`, and those of the other parts carried over | |
| `MCComponents` | `Components` with values for its constants, and the recursive algorithms beside it | |
| `MCOptimizer`, `MCPlans`, `MCAnalysis` | instances of those algorithms for TLC | |

**MatchLoop.** An action is one `EventEngine::tick`: pop an event of the earliest time,
set the clock, run the one handler of its kind to its end, schedule what it emits.
`handle_match_timer` is split by its guard (`MatchTimerExpires`, `MatchTimer`);
`handle_match_end` is `MatchEnd`, with `FinishMatch` for a match that is active and the
early return for one that is not (proved never to happen). `PlayerQuit` has no handler:
the event is popped and nothing else changes. Fields of `MachineState` and `World` are
variables under their names; a player's observation is split into the fields handlers
read back (`rating`, `rank`, `joinedAt`, `flagged`).

Abstractions, and why they lose nothing the properties tell apart:

- A rating is the number of updates received, a skill the number of advances: properties
  compare copies, not values. All participants get an update, as the adapters return one
  per participant.
- The heap is a set. Two equal events would merge; `OneOfEach` and `EntryPendingOnce`, and
  the single timer of `MatchmakerScheduled`, say none arise, except detection checks and
  quits of one player at one time, which are idempotent. Ties are popped in any order: the
  heap's own order is some one of these.
- The queue is a set of entries; `QueuedOnce` says a player has at most one.
- Plugins return anything of their result type. The matchmaker is assumed to respect its
  contract (teams of the configured sizes, disjoint, from the queue); the loop relies on
  it and does not test it. `Eager` additionally says no full match is left unformed, as
  with `batch.lua`.
- `matches_formed` and `World::next_match_id` are one variable: they change together.
- A duration is a natural number: `SimTime::from_secs` saturates negative and NaN to 0.
- Durations and budgets are far below 2^64 nanoseconds: `world.time + delay` is not
  wrapped. `SkillInterval = 0` stands for None; `Some(0)` would stop the clock as a zero
  batch interval does.
- `PlayerExperience` is the choice of who is retained. The adversarial agents write
  fields no handler reads. `finalize_metrics` changes nothing the loop reads.
- `SkillChange` skips a player who is offline (`machine.rs:217`), which none is: the loop
  never assigns `reality.is_online` (an agent's `set_online` changes the observation's).
- `lastEntry`, `shown`, `gone` are history variables: no guard reads them.

**AsyncOptimizer.** The main thread (`phase`) and the pool. Between two receptions the main
thread's turn of the loop is one action, since nobody else reads its variables; the workers'
`Begin` and `Report` interleave with it at the channel, which is where the code interleaves.
Trials are indices. `Suggestion` is what `suggest_and_dispatch` may do: give a point, fail
(`?`), or panic. Panics of the initial design are not caught (`InitialPanics`), those of the
workers are. Left out: the values, the seeds, and the checkpoint being switched off.
`checkpoint_interval: 0` divides by zero: it is excluded here by an assumption, and modelled
in `Optimizer`. Main memory and the file are the only state: nothing is resumed from the
checkpoint.

**Study.** The jobs of a phase are taken up by at most `Threads` threads and end in any
order; a counterfactual study has two phases, the live runs and the replays, with a
barrier between. The thread that called `run_arms` collects (`Return`) or, once a run has
met an `expect`, unwinds. Rayon may or may not begin other jobs after a panic, so `Begin`
stays enabled. Results come back in job order (rayon's indexed `collect`), so `Return`
builds each arm by index. A seed is the path of its derivations: `derive` hashes to 64
bits and is taken not to collide. Of a run's metrics one is followed, and only whether
it has a scalar (`missing`): `rating_accuracy_by_time`, for one, is absent from a run
without samples (`metrics/engine.rs:35`). Replicates added by `extend` are placeholders
without metrics, as in the code; the caller is taken to give each extension a fresh seed,
and `extend` with a wrong number of configurations is an error that leaves the study as it is.
A run that can never end is excluded by fairness.

**Matchmaking.** In `MatchSearch` one action is one call of a search or generator, then one
selection among its candidates; random sampling is every sample, sorts are stable as Rust's
are, ratings are small integers and scores exact fractions of `Scale`. A lexicographic
selection keeps, objective after objective, the candidates within `Tolerance` of the best
left (`selection.rs:79`, 0.001 in the code). `Parties` has an action per method of the
registry; `register` takes any party, and its callers give it one of a solo player's own id
or of the counter. A step of `Ecosystem` is one `tick`, with the choices of its agents open
and any set of disjoint matches from its matchmaker. The ids it starts with come from the
counter or from the generator, which numbers players itself and leaves `next_player_id` at
0; an agent may be registered for any id. A history variable, `who`, says which player an id
was meant for. `AgentPolicies` follows one agent through a growing history of results.

**Plugins.** A script is a record: does it load, what does it define and declare, where
does it draw. An action is one crossing of the boundary: loading, a call with the data of
its adapter, its return, its failure, a context reset. The data of a call is a set of
`<<table, field, source>>`, so that "what may be seen" is set inclusion, and `context` is
everything the script has been given so far: a script may keep what it was once shown.
What comes back is any subset of the fields the adapter reads; the reads that are
`expect`ed are `Needed`, and panic without them. `LuaValues` converts trees of at most
two levels; a Lua table that is a sequence by its keys comes back as one, whatever it was.
Numbers count halves. An integer is cast to mlua's `Integer`, which wraps at
`IntegerLimit`, and becomes a double, exact up to `ExactLimit`; a whole double comes back as
an integer when it fits one. The two limits are small, and in both orders.

**Carrying out.** `Persistence` has three parts. The store: a statement is atomic, and one
that fails leaves its table as it was; foreign keys hold where SQLite enforces them, seeds
of 2^63 and more are refused, a status is kept as the text the code gives it. `told` is a
history of what the store accepted, for comparison with what is read back. The checkpoint
file: `save_checkpoint` truncates and then writes, in two actions, with a crash possible
between them. The buffered writer: a drain empties the buffer first and may fail at any
line, which may leave part of that line for the next one to be appended to (`torn`,
`spoilt`). Locks are held over a whole method, so a method is one action. `Scheduler`
executes one attempt per action; the pool chooses a worker by the length of the job's id;
the distributed coordinator asks a worker once and passes its answer on, whatever it is.
`Optimizer` is one action per trial: evaluate, record or fail, checkpoint; what a suggestion
returns is any point, and what an evaluation returns any of `Outcomes`, a panic included.
The best of several objectives is a comparison of float scalarizations with drawn weights:
any trial whose scalarization is a number and that has no earlier equal is possible.

**Plans.** `Manifest` takes YAML as trees of leaves, nulls, sequences and mappings; paths
are sequences of names, the configuration the tree with its defaults filled in; a string
that fits no field is a failed parse. `Designs` computes what a grid expands to and what
is made of it. `Population` generates, then advances a world by matches and inactive
spells; a draw of a distribution is any value of `Ratings`.

**Analysis.** Numbers are fractions, so that two ways to one mean can be compared. What
needs a table or a generator (quantiles, bootstrap resamples, p-values) is an input. An
action reads a whole input (a study, two samples, a table, points, p-values, a design) and
yields what the functions on it return, a panic included.

**Cli.** Words in, a list of steps, then one action per step, each of which may fail with
the exit code the code gives it. A step that simulates, searches or computes statistics
may panic instead (exit code 101): `run_arms` on a run that fails (`replicate.rs:308`), the
optimizer on values that are no numbers, printing the best trial when there is none. The
statistics of a study are computed anew for every format it is written in, so its results
may be lost to a panic after the runs; those of a run or an optimization may not.

Operators named `Faulty...` are variants of the operator that follows, each with the bug
that one property excludes; no specification uses them.

## 3. Runs

Passing runs:

| run | instance | what it shows |
|---|---|---|
| `loop_safety` | 4 players, 1v1, 3 matches of 3 or 4 ticks, any matchmaker, satisfaction, ranking, completed buffer and history on; horizon 11 | the safety of the loop and the refinement of `MatchPool`; 35 681 states up to permutation of players |
| `loop_progress` | 3 players, 2v1, 2 matches of 0 or 3 ticks, detection, skill changes, `FairSpec`; horizon 11 | `RunReturns`, `BudgetReached`, `CheckedBeforeRequeue` |
| `async_trials` | 6 trials, 2 initial, 3 at a time, 2 pool threads, give up after 3 failures, checkpoint every 2 on a failing disk | safety, return and checkpoint of the optimizer |
| `study` | 3 arms, up to 2 replicates, the three seed strategies, 2 threads, up to 2 extensions by up to 2 | the refinement of `StudyPlan`, the barrier of a counterfactual, the pairing of complete columns, termination; 43 839 states |
| `components` | each part below, one at a time (`focus`) | fourteen properties; 2 219 407 states |

The parts of `components` share one state space only so that one run covers them: exactly
one is live in a behaviour, the variables of the others stay at an idle value. They do not
interact in the code except through finished values (a configuration, a result).
`Components` holds the parts theorems are about, for any constants; `MCComponents` extends
it with values, and with the parts made of recursive operators (values, optimizer,
manifest, designs, population, analysis).

| part | instance | property |
|---|---|---|
| search | 5 players rated 0..2, two of them a party or none, two regions, 3 queues (one shorter than two matches, one with a player twice), 2v1 | `ProposalsSound`, `NoMatchLeftUnformed`, `SelectionSound` |
| parties | 3 players, 3 parties, size limit 2 or none | `OnlySolosCollide` |
| ecosystem | 2 players of the counter or of the generator, ids 0..2, 2 ticks, agents with and without a policy | `IdsStayFresh` |
| agents | histories of up to 4 results over 48 observations | `ActsOnEvidence` |
| plugins | 10 scripts under 8 adapters, 2 calls | `BudgetKept`, `CallsAreDefined` |
| values, wide values | scalars, pairs, mappings with whole, fractional, text and null keys; numbers around both limits, integers narrower or wider than a double's mantissa | `ContextRoundTrips` |
| store | 2 ids, 2 results, 2 keys, buffers of 0, 2 and 3, 4 writes | `PersistedIsWhatWasWritten` |
| jobs | 2 or 3 jobs, 0..2 workers, up to 2 retries | `RetriesExhausted` |
| optimizer | 16 configurations, 7 outcomes of a trial, a fallback seed that meets a later trial's | `StudiesAsPlanned` |
| manifest | a base of a base, 7 top files, 11 sets of overrides in 2 arms | `StudiesAsPlanned` |
| designs | up to 2 factors of up to 3 levels, names, labels and values that clash | `StudiesAsPlanned` |
| population | up to 4 players of 3 archetypes; 2 of one over 3 steps | `StudiesAsPlanned` |
| command | every line of up to 3 words out of 19, and two longer ones; 3 lists of formats | `ExitIsHonest` |
| analysis | 2 or 3 arms of up to 2 replicates; samples of up to 3; tables of 3 rows | `AnalysesAgree` |

What they say:

- Proposals are full teams of queued players, nobody is in two of them, and a search
  matches as many as the queue has players for. Both need a queue without duplicates,
  except that greedy and beam search are sound even with them. A selection takes
  candidates only and nothing only if nothing could be taken: the greedy one has the best
  sum; the lexicographic ones lose to none by more than the tolerance in the first
  objective, nor in the second to those as good by the first; the threshold's is the first
  that reaches it; what a policy admits keeps parties together.
- Only a solo player's party can take another party's id. An id of the counter names one
  player for ever, in the world, the population and the queue, whoever leaves and however
  long entries stay; an id of the generator may name a second one, and no other. An agent
  stops or leaves a pattern exactly when its last matches say so, and is neutral without any.
- A script has been shown no more than it declared, within the budget of its layer, and
  is never called a function it was not required to define. A context is read back as it
  was put in if it has a form of its own in Lua; anything else (a null, an empty sequence, a
  mapping numbered from 1, a tag, an integer too wide, a whole float) is changed by the
  first call and by none after it.
- Runs and results are read back from the store as they were last written, alone and by
  experiment, and lead back to their study; a run resumes from
  its own last checkpoint unless its write was cut short; a log holds its observations
  once and in order, all of them and each on its own line unless a write failed or a
  buffer was dropped.
- A job is given up only after every retry, on one worker, with its last error, and by the
  coordinator, which does not retry, after its one answer.
- In the sequential optimizer every
  trial is a result or a counted failure, and the search stops early only after failures in
  a row; two runs share a seed only where a fallback meets the trial
  `FALLBACK_SEED_OFFSET` later; the front is what nothing dominates, and holds the best of
  one objective; a hypercube has its points in every stratum.
- An arm differs from its base in its overrides only, and its package has every script it
  loads by path and the metrics it names. A valid grid yields every
  combination once and balanced assignments. Every archetype has its exact share, rounded;
  what a world remembers of a skill is what it was; the board is in order.
- Exit code 2 means nothing was touched, 1 and 101 that a step was left undone, 0 that
  whatever was made is written: a run and a study in every format asked for and known, an
  optimization, a package. A panic leaves what a run or an optimization had to write, not
  what a study had.
- Two ways to one statistic agree: `compare` and the study's report, the estimands and the
  effect size, a data frame's comparison and its means, the two Pareto fronts, the two
  corrections (Holm's the stricter), the effect of a level and of its arm.

*Why the bounds suffice.* With four players and two durations two matches are live at once
and end in either order, together or at a timer; three matches let some players play again,
so that requeueing, second ratings and stale copies occur; the third match exhausts the
budget while others are in flight; a horizon of 11 stops some runs with a match in flight.
2v1 tells the sides apart. With six trials and three at a time answers overtake each other,
failures come in a row, and the last dispatches meet the budget. With two replicates and two
threads a run overtakes another of its own replicate and one of the other; the third arm
makes two replays share a history; a second extension meets the indices of the first, which
end at another number in each arm.

The properties of `loop_safety`: `InOnePlace` (a player is on the way to the queue, in it,
or on one side of one live match), `Lifecycle` (a match is formed, started, ended once,
the metrics have seen the started ones and the counter counts the completed),
`MatchmakerScheduled` (one timer while there is budget), `CopiesCurrent`,
`QueueTimeIsWait`, `ShownOnce`, `HistoryChain`, `QuitIsFinal`, `ClockMonotone`,
`ImplementsPool`. Of `async_trials`: `EveryTrialOnce`, `CountsOutstanding`,
`AnswerComing`, `BudgetUsed`, `Returns`, `CheckpointGrows`. Of `study`: `ReplayAfterLive`,
`PairsShareStreams`, `ImplementsPlan`, `StudyEnds`.

Runs that find what is said and is not so:

| run | what TLC finds |
|---|---|
| `loop_ban` | a banned player is matched again: `PlayerQuit` has no handler (`docs/terminology.md:179`) |
| `loop_subsecond` | `batch_interval: 0.5` is truncated to 0, the timer returns at the same time for ever (`docs/methodology.md:79`) |
| `async_exhausted` | `initial_points >= budget` with threads > 1 blocks in `recv` for ever (`README.md:691`) |
| `async_pareto` | two objectives: an answer that overtakes an earlier trial panics the main thread (`optimizer.rs:609`, `:666`, `acquisition.rs:120`) |
| `study_pairs` | two arms that lack the metric in different replicates are paired out of step: `compute_study_stats` filters each arm, then pairs by position (`effect.rs:278`: "same replicate index") |
| `ground_truth` | a rating script that declares `skill_overall` is shown the true skill of the players it rates (`convert.rs:347`; `docs/methodology.md:20`: systems operate on observations) |
| `old_studies` | the replication table keys on `condition_id`, empty in old files, and not on `ArmResult::condition`: the arms are merged (`replicate.rs:97`) |

Other divergences met while modelling, visible in the actions and not given a run: metrics
are recorded when a match is formed (`machine.rs:325`, `plugin-cookbook.md:411` says after);
`SkillChange` keeps the loop going after the match budget (`machine.rs:233`); giving up
leaves workers running although the comment at `optimizer.rs:552` says the main thread
always waits; a failure dispatches two trials, so more than `threads` may run
(`optimizer.rs:463-513`); checkpoints are taken by the index of the trial received, so an
interval of 5 may skip more (`optimizer.rs:1132`); when all trials fail `best_index` is 0 of
no trials (`main.rs:700`); the new replicates of an extension have another seed and index in
each arm even under common random numbers (`replicate.rs:428-430`), though they carry no
metric that could be paired. An agent's `LeaveQueue` is recorded and nothing else
(`ecosystem.rs:108`); `rating: {name: elo}` loads `plugins/rating/elo.lua`, which is neither
in the package nor in the hash (`README.md:633`, `package.rs:3`); not every value
"round-trips exactly" (`context.rs:5`); half a fraction keeps every second condition, so
that the last factor of a two-level design never varies (`factorial.rs:187`). A retry goes
to the same worker, an empty pool panics, and the result of an exhausted job has lost its
seed (`scheduler.rs:50`); the buffered writer drops what follows a failed entry. A path
through an absent section panics, a path to an unknown key is dropped in silence, a `base:`
that names itself recurses for ever. A failed fallback point counts towards
`max_consecutive_failures` although the limit is tested only after the trial's own failure;
a log-scaled parameter with a lower bound of 0 gives NaN points; `k_dpp_candidates: 0` and
`checkpoint_interval: 0` panic; of several objectives the best trial may be a dominated one.
Unequal arms are left out of a paired analysis without a word; `validate_factor_design`
refuses any design with a level in two arms. Ids of a generated population do not come from
`World::next_player_id`, whose first ids are then taken (`population.rs:36-40`).

*Fairness.* `FairSpec` of `MatchLoop`: weak fairness of `Tick`, as `run_until` loops while
an event is due and handlers terminate. Nothing is assumed of the order among ties.
`FairSpec` of `AsyncOptimizer`: weak fairness of the main thread and of the pool, as
rayon runs every spawned task and an evaluation ends (a run returns, `RunReturns`).
`FairSpec` of `Study`: the same of `run_arms` and its pool.
`Begin` and `Report` are one action for fairness: the pool makes progress, no thread is
promised a turn; the finitely many trials make that enough.

## 4. Proofs

Each theorem holds for every value of the constants that satisfies the named assumptions
of the module and the hypotheses given here. A theorem module says with every part of an
inductive invariant why it is there.

### MatchLoop (`MatchLoopProofs`)

Assumptions: the named ones on its constants (sizes positive, times natural). No
assumption on the number of players, not even finiteness. What everything else rests on is
`Ground == TypeOK /\ Lifecycle /\ InOnePlace /\ NoneOverdue`, inductive in this order:

- `TypeCorrect`: `TypeOK` is inductive. The one step that needs an argument is
  `FormMatches`: ids stay below `MaxMatches` because `BatchSizes` is bounded by the
  remaining budget (`take(remaining)`).
- `LifecycleCorrect`: `TypeOK /\ Lifecycle` is inductive. It needs its own parts:
  `UnformedUntouched`, so that a new id has no event left over; `StageScheduled`, so that
  `MatchFormed` finds a match in no state and `MatchEnd` an active one; `OneOfEach`, so
  that popping an event leaves none behind. As a corollary the early return of
  `handle_match_end` is dead code.
- `InOnePlaceCorrect`: `TypeOK /\ Lifecycle /\ InOnePlace` is inductive. When a match
  ends its players are nowhere else, by `LiveTeamsElsewhere` and `LiveDisjoint`, so one
  `PlayerQueue` each keeps `EntryPendingOnce`; when matches are formed `remove_batch`
  takes out every entry of a matched player.
- `ClockMonotoneCorrect`: from `NoneOverdue`, no pending event is in the past.

Given `Ground`, each of the next has its own strengthening:

- `MatchmakerScheduledCorrect`: inductive as it stands. The timer popped was the only
  one, and `handle_match_timer` schedules one exactly when budget is left; no other
  handler touches timers, and none can be skipped, since an event of an earlier time is
  popped first.
- `ShownOnceCorrect`: inductive as it stands, because by `Lifecycle` a match completes
  once and `completed_buffer` is taken as a whole.
- `CopiesCurrentCorrect`: inductive as it stands. A rating moves at a `MatchEnd`, and by
  `InOnePlace` its players are then in no queue and no other match, so no copy of theirs
  is left to become stale.
- `QueueTimeIsWaitCorrect` needs `TimesCopied`: the times in a queue entry and in the
  observation agree, also for the entry a live match was formed from, and a match starts
  in the tick that formed it.
- `HistoryChainCorrect` needs `RatingsRecorded`: a rating counts the player's recorded
  matches, and a player still to join, whose rating starts again, has none. The count of
  a player's matches among the first n records (`RecordedOf`) grows by one with a record
  of the player.
- `QuitIsFinalCorrect`, without detection, needs `LeftForGood`: who has quit, or has a
  `PlayerQuit` pending, is in no queue, on no way to it and in no live match (`Away`).
  With detection it is false, which is what `loop_ban` shows: hence the hypothesis
  `"detection" \notin Features`.
- `CheckedBeforeRequeueCorrect` needs `ChecksDue`: a pending check is of this tick, and
  what would bring its player back lies after it.
- `ImplementsPoolCorrect`: by cases over the events, `PlayerJoin` and `PlayerQueue` are
  the pool's arrivals, `FormMatches` its step that takes disjoint full teams within the
  budget, an active match's end its finish, and every other event a stutter. `InOnePlace`
  gives the guard of an arrival, `Lifecycle` that of a finish.

### AsyncOptimizer (`AsyncOptimizerProofs`)

Assumptions: the named ones on its constants; any budget, number of
threads, pool, initial design and checkpoint interval.

- `OptimizerTypeCorrect`, `EveryTrialOnceCorrect`, `CountsOutstandingCorrect`: one inductive
  invariant, `IInv`, their conjunction with `BeforeLoop` (until the loop is entered nothing
  is on its way and only the initial design has been handed out). The steps that need an
  argument are those that receive: the head of the channel is the only message of its trial,
  so replacing it by fresh trials keeps the outstanding set equal to `pending` and moves its
  cardinality, with the code's counter, by as many (`Replaced`). That the loop leaves off
  exactly when the counter is 0 is `TurnKeeps`.
- `BudgetUsedCorrect`, `AnswerComingCorrect`: `Ending` is inductive given `IInv`. A turn
  that dispatches nothing has met the budget; the loop goes on only with a count above 0,
  which by `CountsOutstanding` is a non-empty set; before the first message it is the
  launch that dispatches, which is why `AnswerComing` needs `InitialPoints < Budget`.
- `CheckpointGrowsCorrect`: `CheckpointPrefix`, the file is a prefix of the results, is
  inductive given `IInv`, since results are only appended to.

### Study (`StudyProofs`)

Assumptions: the named ones on its constants; any arms, replicates, threads, extensions.

- One inductive invariant, `IInv`: `TypeOK`; `LiveFirst` (while the live runs of a
  counterfactual go on nothing else does, and every replay that ran found its live run
  done and not empty); `Results` (an arm holds the replicates asked for, in order, and
  then placeholders without a metric); `SeedsUsed` (no seed in use descends from one an
  extension is still to be given); `HasLast` (the indices in use have a greatest, which
  `extend` computes with a maximum).
- `TypeCorrect`, `ReplayAfterLiveCorrect` follow from it at once, `ReplayAfterLive` from
  `LiveFirst`.
- `PairsShareStreamsCorrect`: with no run lacking the metric the column of every arm is
  its first `count` positions, so the row of a replicate is its position (a count of the
  positions up to it), and equal rows are equal replicates.
- `ImplementsPlanCorrect`: a step that collects the last results is the plan's run, an
  extension its extension, everything else a stutter. The seeds of an extension are
  different for all arms and indices only when `a * 1000 + i` is: the hypothesis
  `MaxExtra <= ArmStride` (an extension by at most 1000 replicates) is needed, and is the
  limit of the code (`replicate.rs:428`).

### The other components

- `MatchSearch` (`MatchSearchProofs`), for teams of any size and any queue and world of the
  types the code gives them. One invariant, `IInv`, says of the candidates that they are
  `Promised` by the strategy that found them, and carries `SelectionSound` itself, since a
  choice stays what it must be while world and candidates stay. `ProposalsAreSound`,
  `EveryMatchIsFormed`, `SelectionIsSound` follow from it. The argument for the searches:
  greedy, random and beam search go through the queue by turns of one kind (`Turn`: from an
  anchor, fill a match with players not yet used, or pass on). A turn keeps matches full and
  disjoint (`TurnKeeps`), and an anchor is passed only when fewer than a match's players are
  left, so the matches found are the queue's players divided by the match size
  (`TurnCounts`, `AllTurns`). What is left to show of each search is that its way to fill is
  such a turn: `GreedyTurns`, `BeamTurns`, `RandomTurns`. `EveryMatchIsFormed` assumes
  `Width > 0`, as a beam of width 0 forms no match. That the queue has no duplicates is a
  condition inside the properties, and greedy and beam search are sound without it. The
  generators are shown through what they draw from (`Windows`, `CombinationsAre`,
  `SamplesAreCandidates`), the policies through their sort being a stable permutation
  (`SortIsPermutation`, `Ranks`). A pass of a lexicographic selection keeps what is within
  the tolerance of the best it was given, and all of that, so that the next pass is bound by
  those as good by the first.
- `Parties`, no hypotheses but that ids are numbers. `OnlySolosCollideCorrect`: the
  invariant says that the counter gave each id to one party (`GivenOnce`), that an id which
  is not a player's own is below the counter (`IdsCounted`), and that the registry holds active
  parties only (`Held`). Of two parties with one id, one is then solo. `RegisterKeeps` is
  the argument for both ways to register. That the registry is well typed
  (`PartiesAreTyped`) follows from the same invariant.
- `Plugins`. `BudgetKeptCorrect`, no hypotheses: the data of every adapter's calls is within
  what the script declared and the layer may see (`CallWithin`, by kind of adapter); the
  context only gains such data, whatever the order of calls and failures. It says of true
  skill what the code keeps: no matchmaker has any. That rating, detection and agents have
  none is what the documents ask and `ground_truth` refutes. `CallsAreDefinedCorrect`: a
  script that loaded defines what its adapter requires (`LoadedDefines`), and of the
  functions called only `time_buckets` is not required, and is looked up. Hypothesis: `None`
  is not one of the error messages.
- `Scheduler`. `RetriesExhaustedCorrect`: the attempts of the first waiting job are those
  counted, all failed, and all of one worker (`Tried`, `SameWorker`); the other waiting
  jobs have none, and no result yet (`Waiting`); a result stays honest because the log of
  attempts only grows by attempts of a job without a result (`AllHonest`). Hypothesis
  `BatchesNamed`: the jobs of a batch have names of their own. The scheduler does not test
  it, and with two jobs of one name the counts would be of both.
- `Persistence`. `LogsInOrderCorrect`: a log and what is still buffered are, in this
  order, what was written, each once and ascending (`Sound`), and all of it unless
  something was lost (`Complete`). `ResumeIsOwnCorrect`: `WritesLast`, a write that has
  begun is of the run's last checkpoint, to a file cut short until it ends. Neither has
  hypotheses. `PersistedIsWhatWasWrittenCorrect` adds `StoreKept`: the row of every run is
  the text of the run as registered with the status it was last updated to (`RunsTold`),
  every result the last one stored (`ResultsTold`), every row's parent is there
  (`RowsRefer`), and a run that ended says when. A row is read back as the run it came from
  because the texts of the statuses differ (`TextReads`, `RowReads`); an update changes the
  one row it names (`UpdateKeeps`). Hypothesis `NoneIsNoRun`: `None` is neither a run nor a
  status.
- `Ecosystem`. `TypeCorrect`, `IdsStayFreshCorrect`: the strengthening, `Counted`, ties ids
  to the order in which players came to be. Whoever joined has the id of his number, less
  the generated players if the generator numbered those (`Numbered`), so that two who
  joined and share an id are one; an entry of the queue has such a name too, and keeps it
  when its player leaves. The dynamics keep that, and that nobody is twice in the population
  (`PopulationKept`). Hypothesis: the initial players fit the bound on ids.
- `AgentPolicies`. `ActsOnEvidenceCorrect`: what `ConsecutiveLosses` returns is the length
  of the last unbroken stretch of losses (`CountsAreStreaks`), which reaches the limit
  exactly when the last matches are losses (`StreakReaches`), and as many matches are won
  in a window of the history as in the slice taken of it (`WonInWindow`). Hypothesis
  `Configured`: the limits on losses and on the window are above 0 and waits are numbers
  or unknown. A limit of 0 losses makes an agent stop before its first match, and an empty
  window makes it leave (0/0): both are the code's behaviour.
- `Cli`. `ExitIsHonestCorrect`: a command line that is understood becomes a plan
  (`DispatchPlans`, by command and by flag) that saves whatever it makes (`Saved`: a run and
  a study in every format asked for and known, an optimization, a package) and is in order
  (`Orderly`): it makes one thing at most, and what may panic at the end, a plot or a
  report, comes after what is written. The invariant (`Earned`) says that before there is
  a plan nothing is done (`Undecided`), and that from then on what is done and what is left
  together save what is made, and nothing is made twice (`Decided`, `Accounted`). A step
  moves from what is left to what is done (`StepAccounts`), or is a plot that is skipped
  (`SkipAccounts`); with nothing left everything made is written, and where a panic may
  strike late everything is written already (`EarnedIsHonest`). Hypotheses: command lines
  are sequences of words, lists of formats sequences of names, and `None` is no list of
  steps and no exit code.

Some operators recurse over a sequence (`OfKey`, `Retained`, `ConsecutiveLosses`, the
searches, `ParseArgs`). They are recursive functions, and what they return is proved by
induction on the length: a set of naturals that lacked one would lack a least one (`Least`,
`Induction`, from the well-foundedness of `<`), which needs no induction principle over
predicates. That such a function is the one its equation describes is `Recursion` and `Unique`.

`ComponentsProofs` states the eight properties beside those of the search as the run
`components` checks them, of `ComponentsSpec`. The argument is the same for all: the focus
never moves (`FocusStays`), a behaviour whose focus is on a part is a behaviour of that
part's specification (`JobsInFocus`, `StoresInFocus`, ...), and one whose focus is elsewhere
satisfies the property because it says nothing. The theorems of `SchedulerProofs`,
`PersistenceProofs` and `EcosystemProofs` come in by `INSTANCE`; their hypotheses, and those
of `Plugins` and `Cli`, are named assumptions of `Components` (`JobsAssumption`,
`AgentsAssumption`, `EcosystemAssumption`, `PluginsAssumption`, `StoresAssumption`,
`CommandsAssumption`, `PartiesAssumption`), which TLC evaluates for the instance of the run.
The three properties of the search are proved of `MatchSearch`'s own specification.

Only model-checked:

- `BudgetReached`, `RunReturns`, `Returns`, `StudyEnds`: liveness needs `ENABLED` and
  fairness, beyond the prover.
- `ContextRoundTrips`, `StudiesAsPlanned`, `AnalysesAgree`: they compare what recursive
  operators over trees (values, YAML) and folds over sequences compute. That is induction
  over data, which the library states with an operator as a parameter, and the prover has
  no arithmetic in a module that declares a recursive operator.
- The invariants of the sequential `Optimizer`, a part of `StudiesAsPlanned`: its front and
  its means are folds over the trials.

## 5. Plan

The modules planned at first are written. What is left, in order of importance:

1. Proofs: the trials of the sequential `Optimizer`, with its front as a recursive
   function; then the grids of `Designs`, the same way.
2. `batch.lua`, `hub_spoke.lua` and `information_seeking.lua` as operators, checked
   against the contract `Proposals` of `MatchLoop`.
3. What a counterfactual replay computes from the history (`counterfactual.rs`), and the
   incremental metrics (`metrics/incremental.rs`).

## 6. Not modelled

- Floating-point numerics: rating formulas, game outcomes, Gaussian processes, kernels and
  acquisition functions, distributions, incremental statistics, quantiles, and the diverse
  batches of `dpp.rs`, whose similarities decide what they hold. They have no
  order of steps to get wrong; the modules above take their results as open.
- Reports, plots, exports, logging, and the text of everything printed: pure output.
- The test suites and the reference implementations of `matchlab-validation`.
- The arithmetic of the Lua plugins, which any experiment may replace by its own; what the
  adapters give them and take from them is `Plugins`.
- The Lua language, rayon, serde and the file system, beyond what the code relies on.
