------------------------------ MODULE Components ------------------------------
(***************************************************************************)
(* The parts of MatchLab beside the loop, the optimizer and the studies,   *)
(* one at a time: `focus` names the part whose variables are live, the     *)
(* variables of the others stay idle.  The search of MatchSearch, which    *)
(* this module extends, is one of them; the others are instances.          *)
(***************************************************************************)
EXTENDS MatchSearch

CONSTANTS
    Player, SizeLimits, MaxParties,                                   \* Parties
    InitialPlayers, MaxPlayers, MaxTicks, PartyIds, MatchSize, AgentKinds,   \* Ecosystem
    MaxQueueTime, MaxConsecutiveLosses, LatencyThreshold, PatternWindow,     \* both of these
    TargetRating, IdealQueueTime, TargetPartySize, TargetWinRate,
    ObservationSet, MaxHistory,                                       \* AgentPolicies
    Adapters, Scripts, Places, SampleEvery, MaxCalls,                 \* Plugins
    Ids, Results, Keys, BufferSizes, MaxWrites,                                \* Persistence
    Batches, NameLength, Pools, MaxRetries,                           \* Scheduler
    Arguments, Numbers, Formats                                       \* Cli

VARIABLES
    focus,
    registry, next_id, active,                                        \* Parties
    players, next_player_id, generated, born,                         \* Ecosystem
    population, agents, matches, actions, ticks,
    observations, history,                                            \* AgentPolicies
    adapter, vm, context, calls, answer, panic, slice,                \* Plugins
    part, tables, metadata, told, file, writing, saved, logs, torn, spoilt,
    buffer, bufferSize, written, lost,                                \* Persistence
    jobs, workers, distributed, maxRetries, attempt, results, executions,   \* Scheduler
    words, todo, formats, done, exit                                  \* Cli

searchVars == <<world, strategy, candidates, policy, chosen>>
partyVars == <<registry, next_id, active>>
ecosystemVars ==
    <<players, next_player_id, generated, born, population, agents, matches, actions, ticks>>
agentVars == <<observations, history>>
pluginVars == <<adapter, vm, context, calls, answer, panic, slice>>
storeVars ==
    <<part, tables, metadata, told, file, writing, saved,
      logs, torn, spoilt, buffer, bufferSize, written, lost>>
jobVars == <<jobs, workers, distributed, maxRetries, attempt, results, executions>>
commandVars == <<words, todo, formats, done, exit>>
\* The queue is the search's and the ecosystem's.
componentVars ==
    <<focus, queue, searchVars, partyVars, ecosystemVars, agentVars,
      pluginVars, storeVars, jobVars, commandVars>>

Party == INSTANCE Parties
Loop == INSTANCE Ecosystem WITH Total <- MatchSize
Agent == INSTANCE AgentPolicies
Plugin == INSTANCE Plugins
Store == INSTANCE Persistence
Jobs == INSTANCE Scheduler
Command == INSTANCE Cli

\* What is asked of the inputs: ids are numbers, the bounds are, a streak of
\* losses has a length, and None is none of the values it stands in for.
ASSUME PartiesAssumption   == Player \subseteq Nat /\ MaxParties \in Nat
ASSUME EcosystemAssumption == /\ InitialPlayers \in Nat /\ MaxPlayers \in Nat
                              /\ InitialPlayers <= MaxPlayers /\ MaxTicks \in Nat
ASSUME AgentsAssumption    == /\ MaxConsecutiveLosses \in Nat \ {0} /\ PatternWindow \in Nat \ {0}
ASSUME PluginsAssumption   == None \notin
    {"cannot find plugin", "banned math.random", "lua error", "missing required function",
     "must declare name", "data_requirements must be a table", "unknown objective kind", "not defined"}
ASSUME StoresAssumption    == None \notin Store!RunStatus /\ None \notin
    [run : Ids, replication : Ids, experiment : Ids, study : Ids, parent : {None},
     started : BOOLEAN, finished : BOOLEAN, status : Store!RunStatus]
\* The jobs of a batch have ids of their own.
ASSUME JobsAssumption      ==
    /\ Batches \subseteq Seq(UNION {{batch[i] : i \in DOMAIN batch} : batch \in Batches})
    /\ \A batch \in Batches : \A i, j \in DOMAIN batch : batch[i].id = batch[j].id => i = j
    /\ MaxRetries \in Nat
\* Command lines are sequences of words, lists of formats sequences of names;
\* None is no list of steps and no exit code.
ASSUME CommandsAssumption  ==
    /\ None \notin Seq(Command!Steps)
    /\ None \notin {Command!Ok, Command!Failure, Command!Usage, Command!Panic}
    /\ Arguments \subseteq Seq(UNION {{args[i] : i \in DOMAIN args} : args \in Arguments})
    /\ Formats \subseteq Seq(UNION {{list[i] : i \in DOMAIN list} : list \in Formats})

(***************************************************************************)
(* One part at a time                                                      *)
(***************************************************************************)

IdleSearch ==
    world = <<>> /\ strategy = None /\ candidates = <<>> /\ policy = None /\ chosen = <<>>
IdleParties == registry = <<>> /\ next_id = 0 /\ active = {}
IdleEcosystem ==
    /\ players = <<>> /\ next_player_id = 0 /\ generated = FALSE /\ born = 0
    /\ population = <<>> /\ agents = <<>>
    /\ matches = {} /\ actions = <<>> /\ ticks = 0
IdleAgents == observations = None /\ history = <<>>
IdlePlugins ==
    /\ adapter = None /\ vm = None /\ context = None /\ calls = 0
    /\ answer = None /\ panic = None /\ slice = <<>>
IdleStore ==
    /\ part = None /\ tables = <<>> /\ metadata = <<>> /\ told = <<>> /\ file = None /\ writing = None
    /\ saved = <<>> /\ logs = <<>> /\ torn = {} /\ spoilt = {} /\ buffer = <<>> /\ bufferSize = 0 /\ written = <<>> /\ lost = <<>>
IdleJobs ==
    /\ jobs = <<>> /\ workers = 0 /\ distributed = FALSE /\ maxRetries = 0 /\ attempt = 0
    /\ results = <<>> /\ executions = <<>>
IdleCommand == words = <<>> /\ todo = None /\ formats = <<>> /\ done = FALSE /\ exit = None

IdleLibrary == IdleSearch /\ IdleParties /\ IdleAgents
IdleExecution == IdlePlugins /\ IdleStore /\ IdleJobs /\ IdleCommand

ComponentsInit ==
    \/ focus = "search" /\ Init
       /\ IdleParties /\ IdleEcosystem /\ IdleAgents /\ IdleExecution
    \/ focus = "ecosystem" /\ Loop!Init /\ IdleLibrary /\ IdleExecution
    \/ /\ queue = <<>> /\ IdleSearch /\ IdleEcosystem
       /\ \/ focus = "parties" /\ Party!Init /\ IdleAgents /\ IdleExecution
          \/ focus = "agents" /\ Agent!Init /\ IdleParties /\ IdleExecution
          \/ focus = "plugins" /\ Plugin!Init
             /\ IdleParties /\ IdleAgents /\ IdleStore /\ IdleJobs /\ IdleCommand
          \/ focus = "store" /\ Store!Init
             /\ IdleParties /\ IdleAgents /\ IdlePlugins /\ IdleJobs /\ IdleCommand
          \/ focus = "jobs" /\ Jobs!Init
             /\ IdleParties /\ IdleAgents /\ IdlePlugins /\ IdleStore /\ IdleCommand
          \/ focus = "command" /\ Command!Init
             /\ IdleParties /\ IdleAgents /\ IdlePlugins /\ IdleStore /\ IdleJobs

executionVars == <<pluginVars, storeVars, jobVars, commandVars>>

ComponentsNext ==
    /\ focus' = focus
    /\ \/ focus = "search" /\ Next
          /\ UNCHANGED <<partyVars, ecosystemVars, agentVars, executionVars>>
       \/ focus = "parties" /\ Party!Next
          /\ UNCHANGED <<queue, searchVars, ecosystemVars, agentVars, executionVars>>
       \/ focus = "ecosystem" /\ Loop!Next
          /\ UNCHANGED <<searchVars, partyVars, agentVars, executionVars>>
       \/ focus = "agents" /\ Agent!Next
          /\ UNCHANGED <<queue, searchVars, partyVars, ecosystemVars, executionVars>>
       \/ /\ UNCHANGED <<queue, searchVars, partyVars, ecosystemVars, agentVars>>
          /\ \/ focus = "plugins" /\ Plugin!Next /\ UNCHANGED <<storeVars, jobVars, commandVars>>
             \/ focus = "store" /\ Store!Next /\ UNCHANGED <<pluginVars, jobVars, commandVars>>
             \/ focus = "jobs" /\ Jobs!Next /\ UNCHANGED <<pluginVars, storeVars, commandVars>>
             \/ focus = "command" /\ Command!Next /\ UNCHANGED <<pluginVars, storeVars, jobVars>>

ComponentsSpec == ComponentsInit /\ [][ComponentsNext]_componentVars

(***************************************************************************)
(* Properties, beside those of MatchSearch                                 *)
(***************************************************************************)

\* Parties: only a solo player's id can replace another party.
OnlySolosCollide == focus = "parties" => Party!TypeOK /\ Party!OnlySolosCollide

\* Ecosystem: an id of the counter names one player, whoever leaves or joins.
IdsStayFresh == focus = "ecosystem" => Loop!TypeOK /\ Loop!IdsStayFresh

\* AgentPolicies: a policy reacts to the history it looks at, and to nothing else.
ActsOnEvidence == focus = "agents" => Agent!ActsOnEvidence

\* Plugins: a script knows what it declared, within the budget of its layer.
BudgetKept == focus = "plugins" => Plugin!BudgetKept

\* Plugins: only games and metrics are shown the true skill of players.
GroundTruthHidden == focus = "plugins" => Plugin!GroundTruthHidden

\* Plugins: what is called in the middle of a run was required at loading.
CallsAreDefined == focus = "plugins" => Plugin!CallsAreDefined

\* Persistence: what a store holds is what the run wrote, whatever fails.
PersistedIsWhatWasWritten == focus = "store" => Store!PersistedIsWhatWasWritten

\* Scheduler: a failure is reported only after every retry.
RetriesExhausted == focus = "jobs" => Jobs!RetriesExhausted

\* Cli: a command that failed does not exit with success.
ExitIsHonest == focus = "command" => Command!ExitIsHonest
===============================================================================
