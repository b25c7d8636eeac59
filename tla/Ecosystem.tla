------------------------------- MODULE Ecosystem -------------------------------
(***************************************************************************)
(* EcosystemLoop (matchlab-loop/src/ecosystem.rs) with the population      *)
(* dynamics of matchlab-players/src/population_dynamics.rs: a tick lets    *)
(* every agent act, the population change, and the matchmaker read the     *)
(* queue.  The loop never advances the clock, removes nobody from the      *)
(* queue, and asks every agent with default observations and no history.   *)
(*                                                                         *)
(* An id is a number of the code; `who` is the player it was meant for,    *)
(* which no code reads: players are numbered as they come to be.           *)
(***************************************************************************)
EXTENDS Integers, Sequences, FiniteSets

CONSTANTS
    InitialPlayers,  \* players the world starts with, of ids 0..InitialPlayers-1
    MaxPlayers,      \* bound: ids
    MaxTicks,        \* bound: ticks
    PartyIds,        \* values gen_u64 may give a party
    Total,           \* players of a match
    AgentKinds,      \* the policies agents are registered with
    MaxQueueTime, MaxConsecutiveLosses, LatencyThreshold, PatternWindow, None

VARIABLES
    players,         \* World.players and World.observations: id |-> [who, party_id]
    next_player_id,  \* World.next_player_id
    generated,       \* whether the first players were numbered by the generator
    born,            \* players there have been
    population,      \* EcosystemLoop.population: [id, who, party_id]
    agents,          \* EcosystemLoop.agents: id |-> policy
    queue,           \* EcosystemLoop.queue.entries: [player, who, party_id]
    matches,         \* matches_formed of the last tick, as sets of queue positions
    actions,         \* agent_actions of the last tick: id |-> action
    ticks

vars == <<players, next_player_id, generated, born, population, agents, queue, matches, actions, ticks>>

PlayerId == 0..(MaxPlayers - 1)

\* AgentObservations::default(), what tick passes with an empty history.
DefaultObservations ==
    [own_rating |-> 0, own_rating_deviation |-> 0, own_games_played |-> 0,
     own_win_rate |-> 0, queue_wait_time |-> None, recent_match_results |-> <<>>,
     party_members |-> {}, party_size |-> 0, estimated_latency |-> None]

Agent == INSTANCE AgentPolicies WITH
    observations <- DefaultObservations, history <- <<>>,
    TargetRating <- 0, IdealQueueTime <- 0, TargetPartySize <- 0, TargetWinRate <- 0,
    ObservationSet <- {DefaultObservations}, MaxHistory <- 0

TypeOK ==
    /\ DOMAIN players \subseteq PlayerId
    /\ players \in [DOMAIN players -> [who : Nat, party_id : PartyIds \cup {None}]]
    /\ next_player_id \in 0..MaxPlayers /\ generated \in BOOLEAN /\ born \in Nat
    /\ population \in Seq([id : PlayerId, who : Nat, party_id : PartyIds \cup {None}])
    /\ DOMAIN agents \subseteq PlayerId
    /\ queue \in Seq([player : PlayerId, who : Nat, party_id : PartyIds \cup {None}])
    /\ ticks \in 0..MaxTicks

\* The world's first players got their ids from next_player_id, or they are a
\* generated population, which numbers itself and leaves the counter at 0.  The
\* loop knows of none of them (EcosystemLoop::new) until `population` is set.
Init ==
    /\ players = [p \in 0..(InitialPlayers - 1) |-> [who |-> p, party_id |-> None]]
    /\ generated \in BOOLEAN
    /\ next_player_id = IF generated THEN 0 ELSE InitialPlayers
    /\ born = InitialPlayers
    /\ population \in {<<>>, [i \in 1..InitialPlayers |->
                               [id |-> i - 1, who |-> i - 1, party_id |-> None]]}
    /\ agents = <<>> /\ queue = <<>> /\ matches = {}
    /\ actions = <<>> /\ ticks = 0

\* An agent may be registered for any id, also one no player has yet.
RegisterAgent(p, kind) ==
    /\ agents' = [q \in DOMAIN agents \cup {p} |-> IF q = p THEN kind ELSE agents[q]]
    /\ UNCHANGED <<players, next_player_id, generated, born, population, queue, matches, actions, ticks>>

Orders(S) ==
    {s \in [1..Cardinality(S) -> S] : \A i, j \in DOMAIN s : s[i] = s[j] => i = j}

\* Only Queue has an effect; the other actions are recorded.
ActionNames == {"Queue", "LeaveQueue", "StopPlaying", "ContinuePlaying", "NoOp"}

\* What an agent may choose: its policy's action, or any, if it is of a kind
\* the crate does not define.
ActionsOf(kind) ==
    IF kind \in Agent!Policies THEN {Agent!Decide(kind).action}
    ELSE {"Queue", "LeaveQueue", "StopPlaying"}

\* The agents that choose Queue; only those the world knows get an entry, and
\* nobody looks whether they are queued already.
Queueing(choice) == {p \in DOMAIN choice : choice[p] = "Queue" /\ p \in DOMAIN players}

Entries(order) ==
    [i \in DOMAIN order |-> [player |-> order[i], who |-> players[order[i]].who,
                            party_id |-> players[order[i]].party_id]]

\* The next id is the number of players there are.
FaultyNewId == Cardinality(DOMAIN players)

\* World::next_player_id
NewId == next_player_id

\* The players who stay, in the order they have.
Retained(those, leaving) ==
    LET kept[n \in 0..Len(those)] ==
            IF n = 0 THEN <<>>
            ELSE IF n \in leaving THEN kept[n - 1]
            ELSE Append(kept[n - 1], those[n])
    IN kept[Len(those)]

\* EntryExitDynamics: any players leave the population and, by their ids, the
\* world; one may join, and replaces whoever has the id in the world.
EntryExit ==
    \E leaving \in SUBSET DOMAIN population, joins \in BOOLEAN :
        LET left == {population[i].id : i \in leaving}
            stay == [p \in DOMAIN players \ left |-> players[p]]
            kept == Retained(population, leaving)
            id == NewId
            one == [who |-> born, party_id |-> None]
        IN /\ joins => next_player_id < MaxPlayers
           /\ players' = IF joins
                         THEN [p \in DOMAIN stay \cup {id} |-> IF p = id THEN one ELSE stay[p]]
                         ELSE stay
           /\ population' = IF joins
                            THEN Append(kept, [id |-> id, who |-> born, party_id |-> None])
                            ELSE kept
           /\ next_player_id' = IF joins THEN id + 1 ELSE next_player_id
           /\ born' = IF joins THEN born + 1 ELSE born

\* PartyFormationDynamics: two players of `population` get a party; the world's
\* copy of them, which the queue entries are made from, does not.
PartyFormation ==
    /\ \/ population' = population
       \/ \E i, j \in DOMAIN population, party \in PartyIds :
             /\ i # j
             /\ population' = [population EXCEPT ![i].party_id = party, ![j].party_id = party]
    /\ UNCHANGED <<players, next_player_id, born>>

\* StrategyShiftDynamics only reports, as does a loop without dynamics.
StrategyShift == UNCHANGED <<players, next_player_id, born, population>>

\* The matchmaker sees the whole queue and returns any full matches of it, no
\* entry in two of them.
Proposals(entries) ==
    {found \in SUBSET {s \in SUBSET DOMAIN entries : Cardinality(s) = Total} :
        \A s, t \in found : s = t \/ s \cap t = {}}

Tick ==
    /\ ticks < MaxTicks
    /\ ticks' = ticks + 1
    /\ actions' \in {c \in [DOMAIN agents -> ActionNames] :
                        \A p \in DOMAIN c : c[p] \in ActionsOf(agents[p])}
    /\ \E order \in Orders(Queueing(actions')) : queue' = queue \o Entries(order)
    /\ EntryExit \/ PartyFormation \/ StrategyShift
    /\ matches' \in Proposals(queue')
    /\ UNCHANGED <<agents, generated>>

Next ==
    \/ \E p \in PlayerId, kind \in AgentKinds : RegisterAgent(p, kind)
    \/ Tick

Spec == Init /\ [][Next]_vars

\* Whom an id stands for in the world, in the population and in the queue.
WorldNames == {<<p, players[p].who>> : p \in DOMAIN players}
PopulationNames == {<<population[i].id, population[i].who>> : i \in DOMAIN population}
QueueNames == {<<queue[i].player, queue[i].who>> : i \in DOMAIN queue}

\* A player who was not there at first.
Joined(name) == name[2] >= InitialPlayers

\* An id of the counter names one player for ever, in the world, the population
\* and the queue alike: nobody who joins is taken for a player who is there or
\* whose entry is still queued, unless for one the generator numbered.  Nobody
\* is in the population twice; whoever joined is in the world only as long as in
\* the population; and without generated ids the world knows all the population.
IdsStayFresh ==
    /\ \A r, s \in WorldNames \cup PopulationNames \cup QueueNames :
          r[1] = s[1] => r[2] = s[2] \/ (generated /\ ~(Joined(r) <=> Joined(s)))
    /\ \A i, j \in DOMAIN population : population[i].who = population[j].who => i = j
    /\ {r \in WorldNames : Joined(r)} \subseteq PopulationNames
    /\ ~generated => PopulationNames \subseteq WorldNames
===============================================================================
