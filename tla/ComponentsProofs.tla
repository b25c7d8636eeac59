--------------------------- MODULE ComponentsProofs ---------------------------
(***************************************************************************)
(* What the parts of MatchLab beside the loop, the optimizer and the       *)
(* studies keep, for every value of their constants: the parties, the      *)
(* plugins and the command line are proved here; for the ecosystem, the    *)
(* agents, the stores and the jobs, whose proofs are modules of their own, *)
(* a run of Components with the focus on one of them is a run of it.       *)
(***************************************************************************)
EXTENDS Components, MatchSearchProofs, FiniteSetTheorems, SequenceTheorems, TLAPS

(* The focus never moves, and only the part in focus does.                 *)
LEMMA FocusStays == [ComponentsNext]_componentVars => focus' = focus
BY DEF ComponentsNext, componentVars

-----------------------------------------------------------------------------
(* Parties: only a solo player's party can displace another.  The counter  *)
(* never gives an id twice, so of two parties with one id one took its     *)
(* player's.                                                               *)

\* The counter is a number, and a registered party sits under its id.
Registered ==
    /\ next_id \in Nat /\ next_id <= MaxParties
    /\ registry = [id \in DOMAIN registry |-> registry[id]]
    /\ \A party \in active :
          /\ party = [id |-> party.id, members |-> party.members]
          /\ party.id \in DOMAIN registry

\* What the registry holds was registered and not removed.
Held == \A id \in DOMAIN registry : [id |-> id, members |-> registry[id]] \in active

\* An id that is not a player's own came from the counter.
IdsCounted ==
    \A party \in active :
        \/ party = Party!Solo(party.id)
        \/ party.id \in Nat /\ party.id < next_id

\* The counter gave each id to one party.
GivenOnce ==
    \A p, q \in active : p.id = q.id => p = q \/ p = Party!Solo(p.id) \/ q = Party!Solo(q.id)

\* The parties of TypeOK.
PartiesTyped == active \subseteq Party!Party

PartiesInv == Registered /\ PartiesTyped /\ Held /\ IdsCounted /\ GivenOnce

(* Of two parties with one id, one in the registry, one is solo.           *)
LEMMA Collision == PartiesInv => Party!OnlySolosCollide
<1> SUFFICES ASSUME PartiesInv, NEW party \in active
             PROVE  \/ party.id \in DOMAIN registry /\ registry[party.id] = party.members
                    \/ \E other \in active \ {party} :
                          /\ other.id = party.id /\ registry[party.id] = other.members
                          /\ party = Party!Solo(party.id) \/ other = Party!Solo(party.id)
    BY DEF Party!OnlySolosCollide
<1> DEFINE other == [id |-> party.id, members |-> registry[party.id]]
<1>1. party.id \in DOMAIN registry /\ party = [id |-> party.id, members |-> party.members]
    BY DEF PartiesInv, Registered
<1>2. other \in active /\ other.id = party.id /\ other.members = registry[party.id]
    BY <1>1 DEF PartiesInv, Held
<1>3. CASE other = party
    BY <1>1, <1>2, <1>3
<1>4. CASE other # party
    <2>1. party = Party!Solo(party.id) \/ other = Party!Solo(party.id)
        BY <1>2, <1>4 DEF PartiesInv, GivenOnce
    <2> QED
        BY <1>2, <1>4, <2>1
<1> QED
    BY <1>3, <1>4

(* Every party registered is one, and the counter is within its bound.     *)
LEMMA PartiesAreTyped == PartiesInv => Party!TypeOK
<1> SUFFICES ASSUME PartiesInv PROVE Party!TypeOK
    OBVIOUS
<1>1. next_id \in 0 .. MaxParties
    BY PartiesAssumption DEF PartiesInv, Registered
<1>2. \A id \in DOMAIN registry : [id |-> id, members |-> registry[id]] \in Party!Party
    BY DEF PartiesInv, PartiesTyped, Held
<1> QED
    BY <1>1, <1>2 DEF Party!TypeOK, PartiesInv, PartiesTyped

(* A registered party replaces what had its id, solo or fresh.             *)
LEMMA RegisterKeeps ==
    ASSUME PartiesInv, NEW id \in Nat, NEW members \in (SUBSET Player) \ {{}},
           Party!Register([id |-> id, members |-> members]),
           \/ [id |-> id, members |-> members] = Party!Solo(id) /\ next_id' = next_id
           \/ id = next_id /\ next_id' = next_id + 1 /\ next_id < MaxParties
    PROVE  PartiesInv'
<1> DEFINE party == [id |-> id, members |-> members]
<1>1. /\ registry' = [i \in DOMAIN registry \cup {id} |-> IF i = id THEN members ELSE registry[i]]
      /\ active' = active \cup {party}
    BY DEF Party!Register
<1>2. next_id \in Nat /\ next_id' \in Nat /\ next_id' <= MaxParties
    BY PartiesAssumption DEF PartiesInv, Registered
<1>3. Registered'
    <2>1. DOMAIN registry' = DOMAIN registry \cup {id}
        BY <1>1
    <2>2. registry' = [i \in DOMAIN registry' |-> registry'[i]]
        BY <1>1
    <2>3. \A p \in active' : p = [id |-> p.id, members |-> p.members] /\ p.id \in DOMAIN registry'
        BY <1>1, <2>1 DEF PartiesInv, Registered
    <2> QED
        BY <1>2, <2>2, <2>3 DEF Registered
<1>4. Held'
    <2> SUFFICES ASSUME NEW i \in DOMAIN registry'
                 PROVE  [id |-> i, members |-> registry'[i]] \in active'
        BY DEF Held
    <2>1. CASE i = id
        BY <1>1, <2>1
    <2>2. CASE i # id
        BY <1>1, <2>2 DEF PartiesInv, Held
    <2> QED
        BY <2>1, <2>2
<1>5. IdsCounted'
    BY <1>1, <1>2 DEF PartiesInv, IdsCounted
<1>6. GivenOnce'
    <2> SUFFICES ASSUME NEW p \in active', NEW q \in active', p.id = q.id
                 PROVE  p = q \/ p = Party!Solo(p.id) \/ q = Party!Solo(q.id)
        BY DEF GivenOnce
    <2>1. CASE p \in active /\ q \in active
        BY <2>1 DEF PartiesInv, GivenOnce
    <2>2. CASE p = party \/ q = party
        BY <1>1, <1>2, <2>2 DEF PartiesInv, IdsCounted
    <2> QED
        BY <1>1, <2>1, <2>2
<1>7. PartiesTyped'
    BY <1>1 DEF PartiesInv, PartiesTyped, Party!Party
<1> QED
    BY <1>3, <1>4, <1>5, <1>6, <1>7 DEF PartiesInv

(* Removing takes every party of the id with it.                           *)
LEMMA RemoveKeeps ==
    ASSUME PartiesInv, NEW id, Party!RemoveParty(id)
    PROVE  PartiesInv'
<1>1. /\ registry' = [i \in {j \in DOMAIN registry : j # id} |-> registry[i]]
      /\ active' = {party \in active : party.id # id}
      /\ next_id' = next_id
    BY DEF Party!RemoveParty, Party!RestrictDomain, Party!Restrict
<1>2. Registered'
    BY <1>1 DEF PartiesInv, Registered
<1>3. Held'
    BY <1>1 DEF PartiesInv, Held
<1>4. IdsCounted' /\ GivenOnce'
    BY <1>1 DEF PartiesInv, IdsCounted, GivenOnce
<1>5. PartiesTyped'
    BY <1>1 DEF PartiesInv, PartiesTyped
<1> QED
    BY <1>2, <1>3, <1>4, <1>5 DEF PartiesInv


LEMMA PartiesNext ==
    ASSUME PartiesInv, Party!Next PROVE PartiesInv'
<1>1. CASE \E p \in Player : Party!RegisterSolo(p)
    <2>1. PICK p \in Player : Party!RegisterSolo(p)
        BY <1>1
    <2>2. p \in Nat /\ {p} \in (SUBSET Player) \ {{}}
        BY PartiesAssumption
    <2>3. Party!Register([id |-> p, members |-> {p}]) /\ next_id' = next_id
        BY <2>1 DEF Party!RegisterSolo, Party!Solo
    <2> QED
        BY <2>2, <2>3, RegisterKeeps DEF Party!Solo
<1>2. CASE \E members \in SUBSET Player, limit \in SizeLimits : Party!FormParty(members, limit)
    <2>1. PICK members \in SUBSET Player, limit \in SizeLimits : Party!FormParty(members, limit)
        BY <1>2
    <2>2. next_id' = next_id + 1 /\ next_id < MaxParties /\ next_id \in Nat
        BY <2>1 DEF Party!FormParty, Party!NextId, PartiesInv, Registered
    <2>3. CASE Party!Formable(members, limit)
        BY <2>1, <2>2, <2>3, RegisterKeeps DEF Party!FormParty, Party!Formable
    <2>4. CASE ~Party!Formable(members, limit)
        BY <2>1, <2>2, <2>4, PartiesAssumption
        DEF Party!FormParty, PartiesInv, Registered, PartiesTyped, Held, IdsCounted, GivenOnce
    <2> QED
        BY <2>3, <2>4
<1>3. CASE \E id \in Nat \cap DOMAIN registry : Party!RemoveParty(id)
    BY <1>3, RemoveKeeps
<1> QED
    BY <1>1, <1>2, <1>3 DEF Party!Next

\* A party keeps its place unless a solo player's id is the number the counter
\* gave to another (PartyRegistry::register inserts by id, Party::solo).
THEOREM OnlySolosCollideCorrect == ComponentsSpec => []OnlySolosCollide
<1> DEFINE Inv == focus = "parties" => PartiesInv
<1>1. ComponentsInit => Inv
    BY PartiesAssumption
    DEF ComponentsInit, Party!Init, PartiesInv, Registered, PartiesTyped, Held, IdsCounted, GivenOnce
<1>2. Inv /\ [ComponentsNext]_componentVars => Inv'
    <2> SUFFICES ASSUME Inv, [ComponentsNext]_componentVars, focus = "parties", focus' = "parties"
                 PROVE  PartiesInv'
        BY FocusStays
    <2>1. CASE Party!Next
        BY <2>1, PartiesNext
    <2>2. CASE UNCHANGED partyVars
        BY <2>2 DEF partyVars, PartiesInv, Registered, PartiesTyped, Held, IdsCounted, GivenOnce
    <2> QED
        BY <2>1, <2>2 DEF ComponentsNext, componentVars
<1>3. Inv => OnlySolosCollide
    BY Collision, PartiesAreTyped DEF OnlySolosCollide
<1> QED
    BY <1>1, <1>2, <1>3, PTL DEF ComponentsSpec


-----------------------------------------------------------------------------
(* Plugins: what a script may know, and which of its functions are called. *)

LEMMA PluginMoves ==
    focus = "plugins" /\ [ComponentsNext]_componentVars => [Plugin!Next]_(Plugin!vars)
BY DEF ComponentsNext, componentVars, pluginVars, Plugin!vars

(* Budgeted, of the requirements a call is made under.                     *)
Within(d, req) ==
    /\ d[2] \in req[d[1]] \/ d = <<"request", "teams", "call">>
    /\ d[1] \in {"reality", "population", "snapshot"} => adapter = "metrics"
    /\ d[1] = "behavior" => adapter = "adversarial"
    /\ d[1] = "queue" => adapter = "matchmaking"

AllWithin(data, req) == \A d \in data : Within(d, req)

(* Every layer may see these; the others belong to one layer.              *)
Common == {"observation", "match_result", "completed_match", "request"}

(* The tables hold what was declared.                                      *)

LEMMA DataWithin ==
    ASSUME NEW group, NEW req, NEW fields \in SUBSET req[group], NEW subject,
           \/ group \in Common
           \/ group \in {"reality", "population", "snapshot"} /\ adapter = "metrics"
           \/ group = "behavior" /\ adapter = "adversarial"
           \/ group = "queue" /\ adapter = "matchmaking"
    PROVE  AllWithin(Plugin!Data(group, fields, subject), req)
<1> SUFFICES ASSUME NEW d \in Plugin!Data(group, fields, subject) PROVE Within(d, req)
  BY DEF AllWithin
<1>1. d[1] = group /\ d[2] \in req[group]
  BY DEF Plugin!Data
<1> QED
  BY <1>1 DEF Within, Common

LEMMA FairWithin ==
    ASSUME NEW group, NEW req, NEW subject, NEW absent,
           \/ group \in Common
           \/ group \in {"reality", "population", "snapshot"} /\ adapter = "metrics"
           \/ group = "behavior" /\ adapter = "adversarial"
           \/ group = "queue" /\ adapter = "matchmaking"
    PROVE  AllWithin(Plugin!Fair(group, req, subject, absent), req)
BY DataWithin DEF Plugin!Fair

LEMMA Unions ==
    ASSUME NEW req
    PROVE  /\ AllWithin({}, req)
           /\ \A S, T : AllWithin(S, req) /\ AllWithin(T, req) => AllWithin(S \cup T, req)
           /\ \A SS : (\A S \in SS : AllWithin(S, req)) => AllWithin(UNION SS, req)
BY DEF AllWithin

LEMMA TablesWithin ==
    ASSUME NEW req
    PROVE  /\ \A p : AllWithin(Plugin!ObservationTable(p, req), req)
           /\ AllWithin(Plugin!InMatch(req), req)
           /\ AllWithin(Plugin!MatchResultTable(req), req)
           /\ AllWithin(Plugin!CompletedMatches(req), req)
           /\ \A field : AllWithin(Plugin!Request(req, field), req)
           /\ \A field, parts : AllWithin(Plugin!Structured(req, field, parts), req)
<1>1. \A p : AllWithin(Plugin!ObservationTable(p, req), req)
  BY FairWithin DEF Plugin!ObservationTable, Common
<1>2. AllWithin(Plugin!InMatch(req), req)
  BY <1>1 DEF Plugin!InMatch, Plugin!ObservationTables, AllWithin
<1>3. AllWithin(Plugin!MatchResultTable(req), req)
  <2>1. AllWithin(Plugin!Fair("match_result", req, "match", {"performances"}), req)
    BY FairWithin DEF Common
  <2>2. ASSUME "performances" \in req.match_result, NEW p
        PROVE  AllWithin(Plugin!PerformanceRow(p), req)
    BY <2>2 DEF Plugin!PerformanceRow, AllWithin, Within
  <2>3. "performances" \in req.match_result =>
            AllWithin(UNION {Plugin!PerformanceRow(p) : p \in Plugin!Participants}, req)
    BY <2>2 DEF AllWithin
  <2> QED
    BY <2>1, <2>3, Unions DEF Plugin!MatchResultTable
<1>4. AllWithin(Plugin!CompletedMatches(req), req)
  <2>1. AllWithin(Plugin!Fair("completed_match", req, "match", {"team_a", "team_b"}), req)
    BY FairWithin DEF Common
  <2>2. AllWithin({<<"completed_match", team, <<p, x>>>> :
                      team \in {"team_a", "team_b"} \cap req.completed_match,
                      p \in Plugin!Participants, x \in {"id", "rating", "rd"}}, req)
    BY DEF AllWithin, Within
  <2> QED
    BY <2>1, <2>2, Unions DEF Plugin!CompletedMatches
<1>5. \A field : AllWithin(Plugin!Request(req, field), req)
  BY DEF Plugin!Request, AllWithin, Within
<1>6. \A field, parts : AllWithin(Plugin!Structured(req, field, parts), req)
  BY DEF Plugin!Structured, AllWithin, Within
<1> QED
  BY <1>1, <1>2, <1>3, <1>4, <1>5, <1>6

LEMMA MetricWithin ==
    ASSUME NEW req, NEW f, adapter = "metrics"
    PROVE  AllWithin(Plugin!MetricData(f, req), req)
<1>1. \A p : AllWithin(Plugin!ParticipantTable(p, req), req)
  BY FairWithin, TablesWithin, Unions DEF Plugin!ParticipantTable
<1>2. AllWithin(Plugin!MetricSnapshot(req), req)
  <2>1. AllWithin(Plugin!ParticipantPlayers(req), req)
    BY <1>1 DEF Plugin!ParticipantPlayers, AllWithin
  <2> QED
    BY <2>1, FairWithin, Unions DEF Plugin!MetricSnapshot
<1>3. AllWithin(Plugin!PopulationSnapshot(req), req)
  <2>1. \A p : AllWithin(Plugin!Fair("population", req, p, IF p \in Plugin!Real THEN {} ELSE {"true_skill"}), req)
    BY FairWithin
  <2> QED
    BY <2>1 DEF Plugin!PopulationSnapshot, AllWithin
<1> QED
  BY <1>2, <1>3, TablesWithin, Unions DEF Plugin!MetricData

LEMMA MatchmakerWithin ==
    ASSUME NEW req, NEW f, adapter = "matchmaking"
    PROVE  AllWithin(Plugin!MatchmakerData(f, req), req)
<1>1. AllWithin(Plugin!QueueTable(req), req)
  <2>1. \A p : AllWithin(Plugin!Fair("queue", req, p, IF p = "p" THEN {} ELSE {"party_id", "role"}), req)
    BY FairWithin
  <2> QED
    BY <2>1 DEF Plugin!QueueTable, AllWithin
<1>2. AllWithin({<<"request", "teams", "call">>}, req)
  BY DEF AllWithin, Within
<1> QED
  BY <1>1, <1>2, TablesWithin, Unions DEF Plugin!MatchmakerData

LEMMA AgentWithin ==
    ASSUME NEW req, NEW f, adapter = "adversarial"
    PROVE  AllWithin(Plugin!AgentData(f, req), req)
<1>1. AllWithin(Plugin!BehaviorTable(req, "p"), req)
  BY FairWithin DEF Plugin!BehaviorTable
<1> QED
  BY <1>1, TablesWithin, Unions DEF Plugin!AgentData

(* Observations are not for all layers, true skill not for matchmakers.    *)
Layered(d) ==
    /\ d[1] = "observation" => adapter \notin {"matchmaking", "utility", "ranking"}
    /\ adapter = "matchmaking" => d[2] \notin Plugin!GroundTruth

Allowed(data, req) == AllWithin(data, req) /\ \A d \in data : Layered(d)

LEMMA CallLayered ==
    ASSUME NEW req, NEW f \in Plugin!Called
    PROVE  \A d \in Plugin!CallData(f, req) : Layered(d)
<1>1. /\ \A field : \A d \in Plugin!Request(req, field) : d[1] = "request" /\ d[2] = field
      /\ \A field, parts : \A d \in Plugin!Structured(req, field, parts) : d[1] = "request"
  BY DEF Plugin!Request, Plugin!Structured
<1>2. CASE adapter = "matchmaking"
  <2>1. \A d \in Plugin!QueueTable(req) : d[1] = "queue" /\ d[2] \in Plugin!KnownFields.queue
    <3> SUFFICES ASSUME NEW p, NEW absent, NEW d \in Plugin!Fair("queue", req, p, absent)
                 PROVE  d[1] = "queue" /\ d[2] \in Plugin!KnownFields.queue
      BY DEF Plugin!QueueTable
    <3> QED
      BY DEF Plugin!Fair, Plugin!Data, Plugin!KnownFields
  <2>2. \A d \in Plugin!CompletedMatches(req) :
           d[1] = "completed_match" /\ d[2] \in Plugin!KnownFields.completed_match
    BY DEF Plugin!CompletedMatches, Plugin!Fair, Plugin!Data, Plugin!KnownFields
  <2>3. "teams" \notin Plugin!GroundTruth /\ "now_secs" \notin Plugin!GroundTruth
    BY DEF Plugin!GroundTruth
  <2>4. /\ Plugin!KnownFields.queue \cap Plugin!GroundTruth = {}
        /\ Plugin!KnownFields.completed_match \cap Plugin!GroundTruth = {}
    BY DEF Plugin!KnownFields, Plugin!GroundTruth
  <2>5. \A d \in Plugin!MatchmakerData(f, req) : d[1] # "observation" /\ d[2] \notin Plugin!GroundTruth
    BY <1>1, <2>1, <2>2, <2>3, <2>4 DEF Plugin!MatchmakerData
  <2> QED
    BY <1>2, <2>5 DEF Plugin!CallData, Layered
<1>3. CASE adapter = "utility"
  BY <1>1, <1>3 DEF Plugin!CallData, Plugin!SatisfactionData, Layered
<1>4. CASE adapter = "ranking"
  BY <1>1, <1>4 DEF Plugin!CallData, Plugin!RankData, Layered
<1> QED
  BY <1>2, <1>3, <1>4 DEF Layered

(* Whatever call an adapter makes.                                         *)
LEMMA CallWithin ==
    ASSUME NEW req, NEW f \in Plugin!Called
    PROVE  AllWithin(Plugin!CallData(f, req), req)
<1>1. CASE adapter = "rating"
  <2>1. f \in {"initialize", "predict", "update"}
    BY <1>1 DEF Plugin!Called
  <2>2. AllWithin(Plugin!RatingData(f, req), req)
    BY <2>1, TablesWithin, Unions DEF Plugin!RatingData
  <2> QED
    BY <1>1, <2>2 DEF Plugin!CallData
<1>2. CASE adapter = "game"
  BY <1>2, TablesWithin, Unions DEF Plugin!CallData, Plugin!OutcomeData
<1>3. CASE adapter = "detection"
  <2>1. f \in {"observe", "evaluate", "recommend_action"}
    BY <1>3 DEF Plugin!Called
  <2>2. AllWithin(Plugin!DetectionData(f, req), req)
    BY <2>1, TablesWithin, Unions DEF Plugin!DetectionData
  <2> QED
    BY <1>3, <2>2 DEF Plugin!CallData
<1>4. CASE adapter = "metrics"
  BY <1>4, MetricWithin DEF Plugin!CallData
<1>5. CASE adapter = "matchmaking"
  BY <1>5, MatchmakerWithin DEF Plugin!CallData
<1>6. CASE adapter = "adversarial"
  BY <1>6, AgentWithin DEF Plugin!CallData
<1>7. CASE adapter = "utility"
  BY <1>7, TablesWithin DEF Plugin!CallData, Plugin!SatisfactionData
<1>8. CASE adapter = "ranking"
  BY <1>8, TablesWithin DEF Plugin!CallData, Plugin!RankData
<1>9. adapter \in {"rating", "game", "detection", "metrics", "matchmaking", "adversarial",
                   "utility", "ranking"}
  BY DEF Plugin!Called
<1> QED
  BY <1>1, <1>2, <1>3, <1>4, <1>5, <1>6, <1>7, <1>8, <1>9

(* What a script knows.                                                    *)

(* A context comes into being when the script has loaded.                  *)
ContextOfScript == vm = None => context \in {None, {}}

Knows == ContextOfScript /\ Plugin!BudgetKept

(* What a call leaves of the context, and what it puts in.                 *)
LEMMA CallKnows ==
    ASSUME Knows, NEW f \in Plugin!Called, Plugin!Loaded,
           UNCHANGED <<adapter, vm>>,
           context' \in {{}, context, Plugin!CallData(f, vm.req)} \cup Plugin!Kept(f)
    PROVE  Knows'
<1>1. Allowed(Plugin!CallData(f, vm.req), vm.req)
  BY CallWithin, CallLayered DEF Allowed
<1>2. context # None => Allowed(context, vm.req)
  BY DEF Knows, Plugin!BudgetKept, Plugin!Budgeted, Allowed, AllWithin, Within, Layered
<1>3. Allowed(Plugin!Before, vm.req)
  BY <1>2, Unions DEF Plugin!Before, Allowed
<1>4. context' # None => Allowed(context', vm.req)
  <2>1. Allowed({}, vm.req) /\ Allowed(Plugin!Before \cup Plugin!CallData(f, vm.req), vm.req)
    BY <1>1, <1>3, Unions DEF Allowed
  <2>2. context' \in {{}, context, Plugin!CallData(f, vm.req), Plugin!Before,
                      Plugin!Before \cup Plugin!CallData(f, vm.req)}
    BY DEF Plugin!Kept
  <2> QED
    BY <1>1, <1>2, <1>3, <2>1, <2>2
<1>5. Plugin!BudgetKept'
  BY <1>4 DEF Plugin!BudgetKept, Plugin!Budgeted, Allowed, AllWithin, Within, Layered
<1> QED
  BY <1>5 DEF Knows, ContextOfScript, Plugin!Loaded

LEMMA NextKnows == Knows /\ [Plugin!Next]_(Plugin!vars) => Knows'
<1> SUFFICES ASSUME Knows, [Plugin!Next]_(Plugin!vars) PROVE Knows'
  OBVIOUS
<1>1. ASSUME NEW script, Plugin!Load(script) PROVE Knows'
  <2>1. context' \in {None, {}}
    BY <1>1 DEF Knows, ContextOfScript, Plugin!Load
  <2> QED
    BY <2>1 DEF Knows, ContextOfScript, Plugin!BudgetKept
<1>2. (UNCHANGED <<adapter, vm, context>>) => Knows'
  BY DEF Knows, ContextOfScript, Plugin!BudgetKept, Plugin!Budgeted
<1>3. CASE Plugin!TimeBucketsAbsent
  BY <1>2, <1>3 DEF Plugin!TimeBucketsAbsent
<1>4. ASSUME NEW f \in Plugin!Called, NEW reason, Plugin!Fail(f, reason) PROVE Knows'
  BY <1>4, CallKnows DEF Plugin!Fail, Plugin!Started
<1>5. ASSUME NEW f \in Plugin!Called, NEW given, NEW replaces, Plugin!Return(f, given, replaces) PROVE Knows'
  BY <1>5, CallKnows DEF Plugin!Return, Plugin!Started
<1>6. ASSUME NEW given, NEW replaces, Plugin!Tick(given, replaces) PROVE Knows'
  BY <1>5, <1>6 DEF Plugin!Tick, Plugin!Return, Plugin!Started
<1>7. CASE Plugin!ResetContext
  BY <1>7 DEF Plugin!ResetContext, Knows, ContextOfScript, Plugin!BudgetKept, Plugin!Loaded
<1> QED
  BY <1>1, <1>2, <1>3, <1>4, <1>5, <1>6, <1>7 DEF Plugin!Next, Plugin!Answer, Plugin!vars

(* Whatever a script is called with and keeps, it holds only fields it     *)
(* declared, of the layers' own data only its layer's, and a matchmaker no *)
(* true skill whatever it declares (the adapters of crates/matchlab-lua,   *)
(* which filter each table by the requirements).                           *)
THEOREM BudgetKeptCorrect == ComponentsSpec => []BudgetKept
<1> DEFINE Inv == focus = "plugins" => Knows
<1>1. ComponentsInit => Inv
  BY DEF ComponentsInit, Plugin!Init, Knows, ContextOfScript, Plugin!BudgetKept
<1>2. Inv /\ [ComponentsNext]_componentVars => Inv'
  BY FocusStays, PluginMoves, NextKnows
<1>3. Inv => BudgetKept
  BY DEF Knows, BudgetKept
<1> QED
  BY <1>1, <1>2, <1>3, PTL DEF ComponentsSpec

(* What is called.                                                         *)

(* A script that loaded defines what its adapter requires.                 *)
LoadedDefines == vm # None /\ vm.error = None => Plugin!Required \subseteq vm.script.defines

Defines == LoadedDefines /\ Plugin!CallsAreDefined

(* Of the functions an adapter calls, only time_buckets is not required.   *)
LEMMA CalledRequired == Plugin!Called \subseteq Plugin!Required \cup {"time_buckets"}
BY DEF Plugin!Called, Plugin!Required

LEMMA LoadDefines ==
    ASSUME Defines, NEW script, Plugin!Load(script)
    PROVE  Defines'
<1>1. adapter' = adapter /\ panic' = panic /\ Plugin!Required' = Plugin!Required
  BY DEF Plugin!Load, Plugin!Required
<1>2. CASE Plugin!LoadError(script) # None
  <2>1. vm'.error # None
    BY <1>2 DEF Plugin!Load
  <2> QED
    BY <1>1, <2>1 DEF Defines, LoadedDefines, Plugin!CallsAreDefined
<1>3. CASE Plugin!LoadError(script) = None
  <2>1. Plugin!Required \subseteq script.defines
    BY <1>3, PluginsAssumption DEF Plugin!LoadError
  <2>2. vm'.script = script
    BY <1>3 DEF Plugin!Load
  <2> QED
    BY <1>1, <2>1, <2>2 DEF Defines, LoadedDefines, Plugin!CallsAreDefined
<1> QED
  BY <1>2, <1>3

LEMMA NextDefines == Defines /\ [Plugin!Next]_(Plugin!vars) => Defines'
<1> SUFFICES ASSUME Defines, [Plugin!Next]_(Plugin!vars) PROVE Defines'
  OBVIOUS
<1>1. ASSUME NEW script, Plugin!Load(script) PROVE Defines'
  BY <1>1, LoadDefines
<1>2. ASSUME UNCHANGED <<adapter, vm>>, panic' # "not defined" PROVE Defines'
  <2>1. Plugin!Required' = Plugin!Required
    BY <1>2 DEF Plugin!Required
  <2> QED
    BY <1>2, <2>1 DEF Defines, LoadedDefines, Plugin!CallsAreDefined
<1>3. panic # "not defined"
  BY DEF Defines, Plugin!CallsAreDefined
<1>4. CASE Plugin!TimeBucketsAbsent
  BY <1>2, <1>3, <1>4 DEF Plugin!TimeBucketsAbsent
<1>5. ASSUME NEW f \in Plugin!Called, NEW reason, Plugin!Fail(f, reason) PROVE Defines'
  <2>1. f # "time_buckets" => f \in vm.script.defines
    BY <1>5, CalledRequired DEF Plugin!Fail, Plugin!Started, Plugin!Loaded, Defines, LoadedDefines
  <2>2. reason # "not defined"
    BY <1>5, <2>1 DEF Plugin!Fail, Plugin!Defined
  <2> QED
    BY <1>2, <1>5, <2>2 DEF Plugin!Fail
<1>6. ASSUME NEW f, NEW given, NEW replaces, Plugin!Return(f, given, replaces) PROVE Defines'
  BY <1>2, <1>3, <1>6 DEF Plugin!Return
<1>7. CASE Plugin!ResetContext
  BY <1>2, <1>3, <1>7 DEF Plugin!ResetContext
<1>8. CASE UNCHANGED Plugin!vars
  BY <1>2, <1>3, <1>8 DEF Plugin!vars
<1> QED
  BY <1>1, <1>4, <1>5, <1>6, <1>7, <1>8 DEF Plugin!Next, Plugin!Answer, Plugin!Tick

(* A script that loaded is never called a function it does not define: the *)
(* functions validate_script asks for are those the traits call, and       *)
(* time_buckets is looked up before it is called.                          *)
THEOREM CallsAreDefinedCorrect == ComponentsSpec => []CallsAreDefined
<1> DEFINE Inv == focus = "plugins" => Defines
<1>1. ComponentsInit => Inv
  BY PluginsAssumption
  DEF ComponentsInit, Plugin!Init, Defines, LoadedDefines, Plugin!CallsAreDefined
<1>2. Inv /\ [ComponentsNext]_componentVars => Inv'
  BY FocusStays, PluginMoves, NextDefines
<1>3. Inv => CallsAreDefined
  BY DEF Defines, CallsAreDefined
<1> QED
  BY <1>1, <1>2, <1>3, PTL DEF ComponentsSpec


-----------------------------------------------------------------------------
(* Jobs: with the focus on them, Components is the scheduler that          *)
(* SchedulerProofs is about.                                               *)

JobProofs == INSTANCE SchedulerProofs

LEMMA JobsStart == Jobs!Init => JobProofs!Init
  BY DEF Jobs!Init, JobProofs!Init

LEMMA JobsMove == Jobs!Next => JobProofs!Next
  BY DEF Jobs!Next, JobProofs!Next, Jobs!Execute, JobProofs!Execute, Jobs!ExecuteDistributed,
      JobProofs!ExecuteDistributed, Jobs!Return, JobProofs!Return, Jobs!RetriesLeft,
      JobProofs!RetriesLeft, Jobs!WorkerIndex, JobProofs!WorkerIndex, Jobs!CoordinatorIndex,
      JobProofs!CoordinatorIndex, Jobs!WorkerResult, JobProofs!WorkerResult,
      Jobs!Exhausted, JobProofs!Exhausted, Jobs!Metadata,
      JobProofs!Metadata, Jobs!Statuses, JobProofs!Statuses, Jobs!Errors, JobProofs!Errors,
      Jobs!Completed, JobProofs!Completed, Jobs!Failed, JobProofs!Failed

LEMMA JobsHold == JobProofs!RetriesExhausted => Jobs!RetriesExhausted
  BY DEF Jobs!RetriesExhausted, JobProofs!RetriesExhausted, Jobs!Attempts, JobProofs!Attempts,
      Jobs!Retries, JobProofs!Retries, Jobs!Cardinality, JobProofs!Cardinality

LEMMA JobsInFocus ==
    focus = "jobs" /\ [ComponentsNext]_componentVars => [JobProofs!Next]_(JobProofs!vars)
BY JobsMove DEF ComponentsNext, componentVars, jobVars, JobProofs!vars

(* A job is given up only after all its attempts have failed, on one       *)
(* worker and with the error of the last (scheduler.rs, execute_batch).    *)
THEOREM RetriesExhaustedCorrect == ComponentsSpec => []RetriesExhausted
<1> DEFINE On == focus = "jobs"
<1>1. ComponentsInit /\ On => JobProofs!Init
  BY JobsStart DEF ComponentsInit
<1>2. On /\ [ComponentsNext]_componentVars => On' /\ [JobProofs!Next]_(JobProofs!vars)
  BY FocusStays, JobsInFocus
<1>3. ~On /\ [ComponentsNext]_componentVars => ~On'
  BY FocusStays
<1>4. JobProofs!Spec => []JobProofs!RetriesExhausted
  <2>1. JobProofs!BatchesNamed /\ MaxRetries \in Nat
    BY JobsAssumption DEF JobProofs!BatchesNamed, JobProofs!Job
  <2> QED
    BY <2>1, JobProofs!RetriesExhaustedCorrect
<1>5. (JobProofs!RetriesExhausted => RetriesExhausted) /\ (~On => RetriesExhausted)
  BY JobsHold DEF RetriesExhausted
<1>6. ComponentsSpec /\ On => JobProofs!Spec
  <2>1. On /\ [][ComponentsNext]_componentVars => [][JobProofs!Next]_(JobProofs!vars)
    BY <1>2, PTL
  <2> QED
    BY <1>1, <2>1, PTL DEF ComponentsSpec, JobProofs!Spec
<1>7. ComponentsSpec /\ ~On => []~On
  BY <1>3, PTL DEF ComponentsSpec
<1> QED
  BY <1>4, <1>5, <1>6, <1>7, PTL

-----------------------------------------------------------------------------
(* Stores, checkpoints and logs, as PersistenceProofs has them.            *)

StoreProofs == INSTANCE PersistenceProofs

LEMMA StoresStart == Store!Init => StoreProofs!Init
  BY DEF Store!Init, StoreProofs!Init, Store!NoRows, StoreProofs!NoRows

LEMMA TablesMove == Store!StoreNext => StoreProofs!StoreNext
<1>1. \A status : Store!Transition(status) = StoreProofs!Transition(status)
  BY Zenon
  DEF Store!Transition, StoreProofs!Transition, Store!Terminal, StoreProofs!Terminal
<1>2. Store!ChangeStatus => StoreProofs!ChangeStatus
  BY <1>1
  DEF Store!ChangeStatus, StoreProofs!ChangeStatus, Store!RunStatus, StoreProofs!RunStatus
<1>3. Store!Build => StoreProofs!Build
  BY DEF Store!Build, StoreProofs!Build, Store!RunMetadata, StoreProofs!RunMetadata
<1>4. \A table, id, parent, row :
          Store!Insert(table, id, parent, row) = StoreProofs!Insert(table, id, parent, row)
  BY Zenon
  DEF Store!Insert, StoreProofs!Insert, Store!Put, StoreProofs!Put, Store!ReferenceHolds,
      StoreProofs!ReferenceHolds, Store!Refers, StoreProofs!Refers
<1>5. \A status : Store!StatusText(status) = StoreProofs!StatusText(status)
  BY Zenon DEF Store!StatusText, StoreProofs!StatusText
<1>6. Store!RegisterRun => StoreProofs!RegisterRun
  BY <1>4, <1>5, Zenon DEF Store!RegisterRun, StoreProofs!RegisterRun
<1>7. \A id, status : Store!UpdateRunStatus(id, status) => StoreProofs!UpdateRunStatus(id, status)
  BY <1>5, Zenon
  DEF Store!UpdateRunStatus, StoreProofs!UpdateRunStatus, Store!FinishedAt, Store!Where,
      StoreProofs!Where, StoreProofs!FinishedAt, Store!Terminal, StoreProofs!Terminal
<1>8. \A id, json : Store!StoreResult(id, json) => StoreProofs!StoreResult(id, json)
  BY Zenon
  DEF Store!StoreResult, StoreProofs!StoreResult, Store!PutResult, StoreProofs!PutResult,
      Store!Put, StoreProofs!Put,
      Store!ReferenceHolds, StoreProofs!ReferenceHolds, Store!Refers, StoreProofs!Refers
<1> QED
  BY <1>2, <1>3, <1>4, <1>6, <1>7, <1>8
  DEF Store!StoreNext, StoreProofs!StoreNext, Store!RegisterStudy,
      StoreProofs!RegisterStudy, Store!RegisterExperiment, StoreProofs!RegisterExperiment,
      Store!RegisterReplication, StoreProofs!RegisterReplication, Store!RunStatus, StoreProofs!RunStatus, Store!checkpointVars,
      StoreProofs!checkpointVars, Store!logVars, StoreProofs!logVars

LEMMA CheckpointsMove == Store!CheckpointNext => StoreProofs!CheckpointNext
  BY DEF Store!CheckpointNext, StoreProofs!CheckpointNext, Store!BeginCheckpoint,
      StoreProofs!BeginCheckpoint, Store!EndCheckpoint, StoreProofs!EndCheckpoint,
      Store!Crash, StoreProofs!Crash, Store!CheckpointPath, StoreProofs!CheckpointPath,
      Store!CutShort, StoreProofs!CutShort, Store!storeVars, StoreProofs!storeVars,
      Store!logVars, StoreProofs!logVars

LEMMA KeysAgree == \A lines, key : Store!OfKey(lines, key) = StoreProofs!OfKey(lines, key)
  BY DEF Store!OfKey, StoreProofs!OfKey

LEMMA LogsMove == Store!LogNext => StoreProofs!LogNext
<1>1. \A lines : Store!Drain(lines) => StoreProofs!Drain(lines)
  BY KeysAgree
  DEF Store!Drain, StoreProofs!Drain, Store!Fails, StoreProofs!Fails, Store!WriteLines, StoreProofs!WriteLines
<1> QED
  BY <1>1
  DEF Store!LogNext, StoreProofs!LogNext, Store!AddAndMaybeFlush,
      StoreProofs!AddAndMaybeFlush, Store!Flush, StoreProofs!Flush, Store!DropWriter,
      StoreProofs!DropWriter, Store!storeVars, StoreProofs!storeVars, Store!checkpointVars,
      StoreProofs!checkpointVars

LEMMA StoresHold ==
    StoreProofs!PersistedIsWhatWasWritten => Store!PersistedIsWhatWasWritten
<1>1. StoreProofs!StoreIsTraceable => Store!StoreIsTraceable
  <2>1. \A text : Store!StatusOf(text) = StoreProofs!StatusOf(text)
    BY Zenon
    DEF Store!StatusOf, StoreProofs!StatusOf, Store!StatusText, StoreProofs!StatusText,
        Store!RunStatus, StoreProofs!RunStatus
  <2>2. \A row : Store!Read(row) = StoreProofs!Read(row)
    BY <2>1, Zenon DEF Store!Read, StoreProofs!Read
  <2>3. \A id : /\ Store!GetRun(id) = StoreProofs!GetRun(id) /\ Store!Latest(id) = StoreProofs!Latest(id)
               /\ Store!GetResult(id) = StoreProofs!GetResult(id)
    BY <2>2, Zenon
    DEF Store!GetRun, StoreProofs!GetRun, Store!Latest, StoreProofs!Latest, Store!GetResult,
        StoreProofs!GetResult, Store!Terminal, StoreProofs!Terminal
  <2>4. \A experiment : Store!ListRuns(experiment) = StoreProofs!ListRuns(experiment)
    BY <2>2, Zenon
    DEF Store!ListRuns, StoreProofs!ListRuns, Store!Range, StoreProofs!Range
  <2> QED
    BY <2>3, <2>4, Zenon
    DEF Store!StoreIsTraceable, StoreProofs!StoreIsTraceable, Store!Terminal, StoreProofs!Terminal,
        Store!Refers, StoreProofs!Refers
<1>2. StoreProofs!ResumeIsOwn => Store!ResumeIsOwn
  BY DEF Store!ResumeIsOwn, StoreProofs!ResumeIsOwn, Store!LoadCheckpoint,
      StoreProofs!LoadCheckpoint, Store!CheckpointPath, StoreProofs!CheckpointPath,
      Store!CutShort, StoreProofs!CutShort
<1>3. StoreProofs!LogsInOrder => Store!LogsInOrder
  BY KeysAgree DEF Store!LogsInOrder, StoreProofs!LogsInOrder
<1> QED
  BY <1>1, <1>2, <1>3 DEF Store!PersistedIsWhatWasWritten, StoreProofs!PersistedIsWhatWasWritten

LEMMA StoresInFocus ==
    focus = "store" /\ [ComponentsNext]_componentVars => [StoreProofs!Next]_(StoreProofs!vars)
BY TablesMove, CheckpointsMove, LogsMove
DEF ComponentsNext, componentVars, storeVars, Store!Next, StoreProofs!Next, StoreProofs!vars

(* What is read back from the store, the checkpoints and the logs is what  *)
(* was written (store.rs, checkpoint.rs, observation.rs).                  *)
THEOREM PersistedIsWhatWasWrittenCorrect == ComponentsSpec => []PersistedIsWhatWasWritten
<1> DEFINE On == focus = "store"
<1>1. ComponentsInit /\ On => StoreProofs!Init
  BY StoresStart DEF ComponentsInit
<1>2. On /\ [ComponentsNext]_componentVars => On' /\ [StoreProofs!Next]_(StoreProofs!vars)
  BY FocusStays, StoresInFocus
<1>3. ~On /\ [ComponentsNext]_componentVars => ~On'
  BY FocusStays
<1>4. StoreProofs!Spec => []StoreProofs!PersistedIsWhatWasWritten
  <2>1. StoreProofs!NoneIsNoRun
    BY StoresAssumption
    DEF StoreProofs!NoneIsNoRun, StoreProofs!Run, StoreProofs!RunStatus, Store!RunStatus
  <2> QED
    BY <2>1, StoreProofs!PersistedIsWhatWasWrittenCorrect
<1>5. /\ StoreProofs!PersistedIsWhatWasWritten => PersistedIsWhatWasWritten
      /\ ~On => PersistedIsWhatWasWritten
  BY StoresHold DEF PersistedIsWhatWasWritten
<1>6. ComponentsSpec /\ On => StoreProofs!Spec
  <2>1. On /\ [][ComponentsNext]_componentVars => [][StoreProofs!Next]_(StoreProofs!vars)
    BY <1>2, PTL
  <2> QED
    BY <1>1, <2>1, PTL DEF ComponentsSpec, StoreProofs!Spec
<1>7. ComponentsSpec /\ ~On => []~On
  BY <1>3, PTL DEF ComponentsSpec
<1> QED
  BY <1>4, <1>5, <1>6, <1>7, PTL

-----------------------------------------------------------------------------
(* The ecosystem loop and its agents, as EcosystemProofs has them.         *)

LoopProofs == INSTANCE EcosystemProofs WITH Total <- MatchSize

LEMMA DecisionsAgree == \A kind : Loop!ActionsOf(kind) = LoopProofs!ActionsOf(kind)
<1> USE DEF Loop!DefaultObservations, LoopProofs!DefaultObservations, Loop!Agent!Action,
            LoopProofs!Agent!Action, Loop!Agent!ContinuePlaying, LoopProofs!Agent!ContinuePlaying
<1>1. Loop!Agent!ThresholdQueue = LoopProofs!Agent!ThresholdQueue
  BY DEF Loop!Agent!ThresholdQueue, LoopProofs!Agent!ThresholdQueue
<1>2. Loop!Agent!LossAversion = LoopProofs!Agent!LossAversion
  <2>1. Loop!Agent!ConsecutiveLosses = LoopProofs!Agent!ConsecutiveLosses
    BY DEF Loop!Agent!ConsecutiveLosses, LoopProofs!Agent!ConsecutiveLosses
  <2> QED
    BY <2>1 DEF Loop!Agent!LossAversion, LoopProofs!Agent!LossAversion
<1>3. Loop!Agent!RegionSwitch = LoopProofs!Agent!RegionSwitch
  BY DEF Loop!Agent!RegionSwitch, LoopProofs!Agent!RegionSwitch
<1>4. Loop!Agent!PartyFormation = LoopProofs!Agent!PartyFormation
  BY DEF Loop!Agent!PartyFormation, LoopProofs!Agent!PartyFormation
<1>5. Loop!Agent!PatternDetection = LoopProofs!Agent!PatternDetection
  <2>1. \A outcomes : Loop!Agent!Won(outcomes) = LoopProofs!Agent!Won(outcomes)
    BY DEF Loop!Agent!Won, LoopProofs!Agent!Won, Loop!Agent!Cardinality,
        LoopProofs!Agent!Cardinality
  <2> QED
    BY <2>1 DEF Loop!Agent!PatternDetection, LoopProofs!Agent!PatternDetection,
                Loop!Agent!Suspicious, LoopProofs!Agent!Suspicious
<1>6. \A kind : Loop!Agent!Decide(kind) = LoopProofs!Agent!Decide(kind)
  BY <1>1, <1>2, <1>3, <1>4, <1>5 DEF Loop!Agent!Decide, LoopProofs!Agent!Decide
<1> QED
  BY <1>6 DEF Loop!ActionsOf, LoopProofs!ActionsOf, Loop!Agent!Policies, LoopProofs!Agent!Policies

LEMMA LoopStarts == Loop!Init => LoopProofs!Init
BY DEF Loop!Init, LoopProofs!Init

LEMMA LoopMoves == Loop!Next => LoopProofs!Next
<1>1. Loop!EntryExit => LoopProofs!EntryExit
  <2>1. \A those, leaving : Loop!Retained(those, leaving) = LoopProofs!Retained(those, leaving)
    BY DEF Loop!Retained, LoopProofs!Retained
  <2> QED
    BY <2>1 DEF Loop!EntryExit, LoopProofs!EntryExit, Loop!NewId, LoopProofs!NewId
<1>2. Loop!PartyFormation => LoopProofs!PartyFormation
  BY DEF Loop!PartyFormation, LoopProofs!PartyFormation
<1>3. \A S : Loop!Orders(S) = LoopProofs!Orders(S)
  BY DEF Loop!Orders, LoopProofs!Orders, Loop!Cardinality, LoopProofs!Cardinality
<1>4. \A entries : Loop!Proposals(entries) = LoopProofs!Proposals(entries)
  BY DEF Loop!Proposals, LoopProofs!Proposals, Loop!Cardinality, LoopProofs!Cardinality
<1>5. Loop!Queueing(actions') = LoopProofs!Queueing(actions')
  BY DEF Loop!Queueing, LoopProofs!Queueing
<1>6. \A order : Loop!Entries(order) = LoopProofs!Entries(order)
  BY DEF Loop!Entries, LoopProofs!Entries
<1>7. Loop!ActionNames = LoopProofs!ActionNames
  BY DEF Loop!ActionNames, LoopProofs!ActionNames
<1>8. Loop!Tick => LoopProofs!Tick
  BY <1>1, <1>2, <1>3, <1>4, <1>5, <1>6, <1>7, DecisionsAgree
  DEF Loop!Tick, LoopProofs!Tick, Loop!StrategyShift, LoopProofs!StrategyShift
<1> QED
  BY <1>8 DEF Loop!Next, LoopProofs!Next, Loop!RegisterAgent, LoopProofs!RegisterAgent,
              Loop!PlayerId, LoopProofs!PlayerId

LEMMA LoopHolds ==
    LoopProofs!TypeOK /\ LoopProofs!IdsStayFresh => Loop!TypeOK /\ Loop!IdsStayFresh
  BY DEF Loop!TypeOK, LoopProofs!TypeOK, Loop!IdsStayFresh, LoopProofs!IdsStayFresh,
      Loop!PlayerId, LoopProofs!PlayerId, Loop!WorldNames, LoopProofs!WorldNames,
      Loop!PopulationNames, LoopProofs!PopulationNames, Loop!QueueNames, LoopProofs!QueueNames,
      Loop!Joined, LoopProofs!Joined

LEMMA LoopInFocus ==
    focus = "ecosystem" /\ [ComponentsNext]_componentVars => [LoopProofs!Next]_(LoopProofs!vars)
BY LoopMoves DEF ComponentsNext, componentVars, ecosystemVars, LoopProofs!vars

(* An id names one player for ever, whoever leaves, joins, forms a party   *)
(* or queues as an agent (ecosystem.rs, tick).                             *)
THEOREM IdsStayFreshCorrect == ComponentsSpec => []IdsStayFresh
<1> DEFINE On == focus = "ecosystem"
<1>1. ComponentsInit /\ On => LoopProofs!Init
  BY LoopStarts DEF ComponentsInit
<1>2. On /\ [ComponentsNext]_componentVars => On' /\ [LoopProofs!Next]_(LoopProofs!vars)
  BY FocusStays, LoopInFocus
<1>3. ~On /\ [ComponentsNext]_componentVars => ~On'
  BY FocusStays
<1>4. LoopProofs!Spec => []LoopProofs!TypeOK /\ []LoopProofs!IdsStayFresh
  <2>1. LoopProofs!Bounds
    BY EcosystemAssumption DEF LoopProofs!Bounds
  <2>2. LoopProofs!Spec => []LoopProofs!TypeOK
    BY <2>1, LoopProofs!TypeCorrect
  <2>3. LoopProofs!Spec => []LoopProofs!IdsStayFresh
    BY <2>1, LoopProofs!IdsStayFreshCorrect
  <2> QED
    BY <2>2, <2>3, PTL
<1>5. /\ LoopProofs!TypeOK /\ LoopProofs!IdsStayFresh => IdsStayFresh
      /\ ~On => IdsStayFresh
  BY LoopHolds DEF IdsStayFresh
<1>6. ComponentsSpec /\ On => LoopProofs!Spec
  <2>1. On /\ [][ComponentsNext]_componentVars => [][LoopProofs!Next]_(LoopProofs!vars)
    BY <1>2, PTL
  <2> QED
    BY <1>1, <2>1, PTL DEF ComponentsSpec, LoopProofs!Spec
<1>7. ComponentsSpec /\ ~On => []~On
  BY <1>3, PTL DEF ComponentsSpec
<1> QED
  BY <1>4, <1>5, <1>6, <1>7, PTL

LEMMA AgentsMove == Agent!Next => LoopProofs!Policy!Next
  BY DEF Agent!Next, LoopProofs!Policy!Next, Agent!Update, LoopProofs!Policy!Update,
      Agent!Outcome, LoopProofs!Policy!Outcome

LEMMA AgentsHold == LoopProofs!Policy!ActsOnEvidence => Agent!ActsOnEvidence
<1> USE DEF Agent!Action, LoopProofs!Policy!Action, Agent!ContinuePlaying,
            LoopProofs!Policy!ContinuePlaying
<1>1. Agent!LossAversion = LoopProofs!Policy!LossAversion
  <2>1. Agent!ConsecutiveLosses = LoopProofs!Policy!ConsecutiveLosses
    BY DEF Agent!ConsecutiveLosses, LoopProofs!Policy!ConsecutiveLosses
  <2> QED
    BY <2>1 DEF Agent!LossAversion, LoopProofs!Policy!LossAversion
<1>2. Agent!PatternDetection = LoopProofs!Policy!PatternDetection
  <2>1. \A outcomes : Agent!Won(outcomes) = LoopProofs!Policy!Won(outcomes)
    BY DEF Agent!Won, LoopProofs!Policy!Won, Agent!Cardinality, LoopProofs!Policy!Cardinality
  <2> QED
    BY <2>1 DEF Agent!PatternDetection, LoopProofs!Policy!PatternDetection,
                Agent!Suspicious, LoopProofs!Policy!Suspicious
<1>3. \A outcomes : Agent!Suspicious(outcomes) = LoopProofs!Policy!Suspicious(outcomes)
  BY DEF Agent!Suspicious, LoopProofs!Policy!Suspicious, Agent!Won, LoopProofs!Policy!Won,
      Agent!Cardinality, LoopProofs!Policy!Cardinality
<1>4. \A kind : Agent!Decide(kind) = LoopProofs!Policy!Decide(kind)
  <2>1. Agent!ThresholdQueue = LoopProofs!Policy!ThresholdQueue
    BY DEF Agent!ThresholdQueue, LoopProofs!Policy!ThresholdQueue
  <2>2. Agent!RegionSwitch = LoopProofs!Policy!RegionSwitch
    BY DEF Agent!RegionSwitch, LoopProofs!Policy!RegionSwitch
  <2>3. Agent!PartyFormation = LoopProofs!Policy!PartyFormation
    BY DEF Agent!PartyFormation, LoopProofs!Policy!PartyFormation
  <2> QED
    BY <1>1, <1>2, <2>1, <2>2, <2>3 DEF Agent!Decide, LoopProofs!Policy!Decide
<1>5. ASSUME history = <<>>
      PROVE  /\ Agent!RatingGainObjective = LoopProofs!Policy!RatingGainObjective
             /\ Agent!MatchQualityObjective = LoopProofs!Policy!MatchQualityObjective
             /\ Agent!InformationInference.avg_rating_change
                    = LoopProofs!Policy!InformationInference.avg_rating_change
  BY <1>5
  DEF Agent!RatingGainObjective, LoopProofs!Policy!RatingGainObjective,
      Agent!MatchQualityObjective, LoopProofs!Policy!MatchQualityObjective,
      Agent!OverHistory, LoopProofs!Policy!OverHistory, Agent!InformationInference,
      LoopProofs!Policy!InformationInference
<1>6. \A weighted : Agent!CompositeObjective(weighted)
                       = LoopProofs!Policy!CompositeObjective(weighted)
  BY DEF Agent!CompositeObjective, LoopProofs!Policy!CompositeObjective
<1> QED
  BY <1>1, <1>2, <1>3, <1>4, <1>5, <1>6
  DEF Agent!ActsOnEvidence, LoopProofs!Policy!ActsOnEvidence, Agent!Policies,
      LoopProofs!Policy!Policies, Agent!Cardinality, LoopProofs!Policy!Cardinality

LEMMA AgentsInFocus ==
    focus = "agents" /\ [ComponentsNext]_componentVars
        => [LoopProofs!Policy!Next]_(LoopProofs!Policy!vars)
BY AgentsMove DEF ComponentsNext, componentVars, agentVars, LoopProofs!Policy!vars

LEMMA AgentsStart == Agent!Init => LoopProofs!Policy!Init
BY DEF Agent!Init, LoopProofs!Policy!Init

(* An adaptive agent leaves for the losses and the pattern it observes and *)
(* stays without them, and without history infers nothing (policy.rs,      *)
(* manipulation.rs, objectives.rs).                                        *)
THEOREM ActsOnEvidenceCorrect == ComponentsSpec => []ActsOnEvidence
<1> DEFINE On == focus = "agents"
<1>1. ComponentsInit /\ On => LoopProofs!Policy!Init
  BY AgentsStart DEF ComponentsInit
<1>2. On /\ [ComponentsNext]_componentVars => On' /\ [LoopProofs!Policy!Next]_(LoopProofs!Policy!vars)
  BY FocusStays, AgentsInFocus
<1>3. ~On /\ [ComponentsNext]_componentVars => ~On'
  BY FocusStays
<1>4. LoopProofs!Policy!Spec => []LoopProofs!Policy!ActsOnEvidence
  <2>1. LoopProofs!Configured
    BY AgentsAssumption DEF LoopProofs!Configured
  <2> QED
    BY <2>1, LoopProofs!ActsOnEvidenceCorrect
<1>5. (LoopProofs!Policy!ActsOnEvidence => ActsOnEvidence) /\ (~On => ActsOnEvidence)
  BY AgentsHold DEF ActsOnEvidence
<1>6. ComponentsSpec /\ On => LoopProofs!Policy!Spec
  <2>1. On /\ [][ComponentsNext]_componentVars => [][LoopProofs!Policy!Next]_(LoopProofs!Policy!vars)
    BY <1>2, PTL
  <2> QED
    BY <1>1, <2>1, PTL DEF ComponentsSpec, LoopProofs!Policy!Spec
<1>7. ComponentsSpec /\ ~On => []~On
  BY <1>3, PTL DEF ComponentsSpec
<1> QED
  BY <1>4, <1>5, <1>6, <1>7, PTL


-----------------------------------------------------------------------------
(* The command line: an exit code is earned.  What a command has done and  *)
(* what it still has to do save what it makes, and what may bring it down  *)
(* comes first or last.                                                    *)

(* The words left when the flags are taken out are words.                  *)

Parsed(X) == [flag : X \cup {None}, values : Seq((X \cup {None}) \X X), rest : Seq(X)]

LEMMA WordTaken ==
    ASSUME NEW X, NEW parsed \in Parsed(X), NEW word \in X, NEW switches, NEW valued
    PROVE  Command!TakeWord(parsed, word, switches, valued) \in Parsed(X)
<1>1. /\ parsed.flag \in X \cup {None} /\ parsed.rest \in Seq(X)
      /\ parsed.values \in Seq((X \cup {None}) \X X)
      /\ parsed = [flag |-> parsed.flag, values |-> parsed.values, rest |-> parsed.rest]
  BY DEF Parsed
<1>2. Append(parsed.rest, word) \in Seq(X)
  BY <1>1, AppendProperties
<1>3. Append(parsed.values, <<parsed.flag, word>>) \in Seq((X \cup {None}) \X X)
  <2>1. <<parsed.flag, word>> \in (X \cup {None}) \X X
    BY <1>1
  <2> HIDE <1>2
  <2> QED
    BY <1>1, <2>1, AppendProperties
<1>4. [flag |-> None, values |-> Append(parsed.values, <<parsed.flag, word>>), rest |-> parsed.rest]
          \in Parsed(X)
  BY <1>1, <1>3 DEF Parsed
<1>5. [parsed EXCEPT !.flag = word] \in Parsed(X)
  BY <1>1 DEF Parsed
<1>6. [parsed EXCEPT !.rest = Append(@, word)] \in Parsed(X)
  BY <1>1, <1>2 DEF Parsed
<1> QED
  BY <1>4, <1>5, <1>6 DEF Command!TakeWord

LEMMA WordsLeft ==
    ASSUME NEW X, NEW args \in Seq(X), NEW switches, NEW valued
    PROVE  Command!ParseArgs(args, switches, valued).rest \in Seq(X)
<1>1. PICK N \in Nat : N = Len(args) /\ DOMAIN args = 1 .. N
  BY LenProperties
<1> DEFINE T == Parsed(X)
           start == [flag |-> None, values |-> <<>>, rest |-> <<>>]
           Of(h) == [n \in 0 .. Len(args) |->
                        IF n = 0 THEN [flag |-> None, values |-> <<>>, rest |-> <<>>]
                        ELSE Command!TakeWord(h[n - 1], args[n], switches, valued)]
<1>2. PICK first : first = start
  OBVIOUS
<1>3. first \in T
  BY <1>2 DEF Parsed
<1>4. PICK step : step = [n \in 1 .. N |-> [t \in T |-> Command!TakeWord(t, args[n], switches, valued)]]
  OBVIOUS
<1>5. step \in [1 .. N -> [T -> T]]
  <2>1. ASSUME NEW n \in 1 .. N, NEW t \in T
        PROVE  Command!TakeWord(t, args[n], switches, valued) \in T
    <3>1. args[n] \in X
      BY <1>1, ElementOfSeq
    <3> QED
      BY <3>1, WordTaken
  <2> HIDE DEF T
  <2> QED
    BY <1>4, <2>1
<1> HIDE DEF T
<1>6. PICK f : Solves(f, N, T, first, step)
  BY <1>3, <1>5, Recursion
<1>7. \A n \in 1 .. N : n \in 0 .. N /\ n - 1 \in 0 .. N /\ n # 0
  BY <1>1
<1>8. /\ f \in [0 .. N -> T] /\ f[0] = first
      /\ \A n \in 1 .. N : f[n] = Command!TakeWord(f[n - 1], args[n], switches, valued)
  BY <1>4, <1>6, <1>7 DEF Solves
<1>9. f = Of(f)
  <2>1. \A n \in 0 .. N : n = 0 \/ n \in 1 .. N
    BY <1>1
  <2>2. \A n \in 0 .. N : f[n] = Of(f)[n]
    BY <1>1, <1>2, <1>7, <1>8, <2>1
  <2> QED
    BY <1>1, <1>8, <2>2
<1>10. PICK g : g = CHOOSE h : h = Of(h)
  OBVIOUS
<1>11. g = Of(g)
  BY <1>9, <1>10
<1>12. Command!ParseArgs(args, switches, valued) = g[N]
  BY <1>1, <1>10 DEF Command!ParseArgs
<1>13. \A n \in 0 .. N : f[n] = g[n]
  <2>1. f[0] = g[0]
    BY <1>1, <1>2, <1>8, <1>11
  <2>2. \A n \in 1 .. N : f[n - 1] = g[n - 1] => f[n] = g[n]
    BY <1>1, <1>7, <1>8, <1>11
  <2> HIDE DEF Of
  <2> QED
    BY <2>1, <2>2, Unique
<1>14. N \in 0 .. N
  BY <1>1
<1>15. Command!ParseArgs(args, switches, valued) \in T
  BY <1>8, <1>12, <1>13, <1>14
<1> QED
  BY <1>15 DEF T, Parsed


(* What the steps of two lists joined are, and of one taken apart.         *)

LEMMA ListsJoined ==
    ASSUME NEW X, NEW s \in Seq(X), NEW t \in Seq(X)
    PROVE  /\ s \o t \in Seq(X)
           /\ ToSet(s \o t) = ToSet(s) \cup ToSet(t)
           /\ \A i \in DOMAIN (s \o t) :
                  \/ i \in DOMAIN s /\ (s \o t)[i] = s[i]
                  \/ (i - Len(s)) \in DOMAIN t /\ (s \o t)[i] = t[i - Len(s)] /\ i > Len(s)
<1>1. PICK m \in Nat : m = Len(s) /\ DOMAIN s = 1 .. m
  BY LenProperties
<1>2. PICK n \in Nat : n = Len(t) /\ DOMAIN t = 1 .. n
  BY LenProperties
<1>3. PICK u \in Seq(X) : u = s \o t
  BY ConcatProperties
<1>4. /\ Len(u) = m + n
      /\ \A i \in 1 .. m + n : u[i] = IF i <= m THEN s[i] ELSE t[i - m]
  BY <1>1, <1>2, <1>3, ConcatProperties
<1>5. DOMAIN u = 1 .. m + n
  BY <1>4, LenProperties
<1>6. /\ \A i \in 1 .. m : i \in 1 .. m + n /\ u[i] = s[i]
      /\ \A j \in 1 .. n : m + j \in 1 .. m + n /\ u[m + j] = t[j]
  BY <1>4
<1>7. ASSUME NEW i \in 1 .. m + n
      PROVE  \/ i \in 1 .. m /\ u[i] = s[i]
             \/ i - m \in 1 .. n /\ u[i] = t[i - m] /\ i > m
  BY <1>4
<1>8. ToSet(u) = ToSet(s) \cup ToSet(t)
  <2>1. /\ \A i \in 1 .. m : s[i] \in ToSet(s)
        /\ \A j \in 1 .. n : t[j] \in ToSet(t)
        /\ \A i \in 1 .. m + n : u[i] \in ToSet(u)
    BY <1>1, <1>2, <1>5 DEF ToSet
  <2>2. ASSUME NEW x \in ToSet(u) PROVE x \in ToSet(s) \cup ToSet(t)
    <3>1. PICK i \in 1 .. m + n : u[i] = x
      BY <1>5 DEF ToSet
    <3> QED
      BY <1>7, <2>1, <3>1
  <2>3. ASSUME NEW x \in ToSet(s) PROVE x \in ToSet(u)
    <3>1. PICK i \in 1 .. m : s[i] = x
      BY <1>1 DEF ToSet
    <3> QED
      BY <1>6, <2>1, <3>1
  <2>4. ASSUME NEW x \in ToSet(t) PROVE x \in ToSet(u)
    <3>1. PICK j \in 1 .. n : t[j] = x
      BY <1>2 DEF ToSet
    <3> QED
      BY <1>6, <2>1, <3>1
  <2> QED
    BY <2>2, <2>3, <2>4
<1>9. \A i \in DOMAIN u :
           \/ i \in DOMAIN s /\ u[i] = s[i]
           \/ i - m \in DOMAIN t /\ u[i] = t[i - m] /\ i > m
  BY <1>1, <1>2, <1>5, <1>7
<1>10. /\ s \o t \in Seq(X)
       /\ ToSet(s \o t) = ToSet(s) \cup ToSet(t)
  BY <1>3, <1>8
<1>11. \A i \in DOMAIN (s \o t) :
           \/ i \in DOMAIN s /\ (s \o t)[i] = s[i]
           \/ i - Len(s) \in DOMAIN t /\ (s \o t)[i] = t[i - Len(s)] /\ i > Len(s)
  BY <1>1, <1>3, <1>9
<1> QED
  BY <1>10, <1>11

LEMMA ListOfOne ==
    ASSUME NEW X, NEW x \in X
    PROVE  <<x>> \in Seq(X) /\ DOMAIN <<x>> = {1} /\ <<x>>[1] = x /\ ToSet(<<x>>) = {x}
<1>1. <<x>> \in Seq(X) /\ DOMAIN <<x>> = {1} /\ <<x>>[1] = x
  OBVIOUS
<1>2. PICK s : s = <<x>> /\ DOMAIN s = {1} /\ s[1] = x
  BY <1>1, Zenon
<1>3. ToSet(s) = {x}
  BY <1>2 DEF ToSet
<1>4. ToSet(<<x>>) = {x}
  BY <1>2, <1>3
<1> QED
  BY <1>1, <1>4

(* A list of steps in order: one of them makes something at most, and what *)
(* may bring the program down at the end comes after what is written.      *)

Work == {"run", "runStudy", "optimize", "package"}
Late == {"plot", "writeReport", "report", "reportBest"}
Products == Command!Writes \cup {"writePackage"}

Clash(x, y) == (x \in Work /\ y \in Work) \/ (x \in Late /\ y \in Products)

Orderly(steps) == \A i, j \in DOMAIN steps : i < j => ~Clash(steps[i], steps[j])

Part(steps) == steps \in Seq(Command!Steps) /\ Orderly(steps)

(* A plan of a command, which saves what it makes.                         *)
Planned(steps) == Part(steps) /\ Command!Saved(ToSet(steps))

LEMMA PartsJoin ==
    ASSUME NEW s, Part(s), NEW t, Part(t), \A x \in ToSet(s), y \in ToSet(t) : ~Clash(x, y)
    PROVE  Part(s \o t) /\ ToSet(s \o t) = ToSet(s) \cup ToSet(t)
<1>1. s \in Seq(Command!Steps) /\ t \in Seq(Command!Steps)
  BY DEF Part
<1>2. PICK m \in Nat : m = Len(s) /\ DOMAIN s = 1 .. m
  BY <1>1, LenProperties
<1>3. PICK n \in Nat : n = Len(t) /\ DOMAIN t = 1 .. n
  BY <1>1, LenProperties
<1>4. PICK u \in Seq(Command!Steps) :
          /\ u = s \o t /\ ToSet(u) = ToSet(s) \cup ToSet(t)
          /\ \A i \in DOMAIN u : \/ i \in 1 .. m /\ u[i] = s[i]
                                 \/ i - m \in 1 .. n /\ u[i] = t[i - m] /\ i > m
  <2>1. /\ s \o t \in Seq(Command!Steps) /\ ToSet(s \o t) = ToSet(s) \cup ToSet(t)
        /\ \A i \in DOMAIN (s \o t) :
               \/ i \in DOMAIN s /\ (s \o t)[i] = s[i]
               \/ i - Len(s) \in DOMAIN t /\ (s \o t)[i] = t[i - Len(s)] /\ i > Len(s)
    BY <1>1, ListsJoined
  <2>2. \A i \in DOMAIN (s \o t) :
               \/ i \in 1 .. m /\ (s \o t)[i] = s[i]
               \/ i - m \in 1 .. n /\ (s \o t)[i] = t[i - m] /\ i > m
    BY <1>2, <1>3, <2>1, Zenon
  <2> QED
    BY <2>1, <2>2, Zenon
<1>5. DOMAIN u \subseteq Nat
  BY <1>4, LenProperties
<1>6. ASSUME NEW i \in DOMAIN u, NEW j \in DOMAIN u, i < j PROVE ~Clash(u[i], u[j])
  <2>1. CASE i \in 1 .. m /\ u[i] = s[i] /\ j \in 1 .. m /\ u[j] = s[j]
    BY <1>2, <1>6, <2>1 DEF Part, Orderly
  <2>2. CASE i \in 1 .. m /\ u[i] = s[i] /\ j - m \in 1 .. n /\ u[j] = t[j - m]
    <3>1. u[i] \in ToSet(s) /\ u[j] \in ToSet(t)
      BY <1>2, <1>3, <2>2 DEF ToSet
    <3> QED
      BY <3>1
  <2>3. CASE i - m \in 1 .. n /\ u[i] = t[i - m] /\ j - m \in 1 .. n /\ u[j] = t[j - m]
    <3>1. i - m < j - m
      BY <1>5, <1>6
    <3> QED
      BY <1>3, <2>3, <3>1 DEF Part, Orderly
  <2>4. ~(i > m /\ j \in 1 .. m)
    BY <1>5, <1>6
  <2> QED
    BY <1>4, <2>1, <2>2, <2>3, <2>4
<1> QED
  BY <1>4, <1>6 DEF Part, Orderly

LEMMA PartOfOne ==
    ASSUME NEW x \in Command!Steps
    PROVE  Part(<<x>>) /\ ToSet(<<x>>) = {x}
<1>1. <<x>> \in Seq(Command!Steps) /\ DOMAIN <<x>> = {1} /\ ToSet(<<x>>) = {x}
  BY ListOfOne
<1>2. \A i, j \in {1} : ~(i < j)
  OBVIOUS
<1> QED
  BY <1>1, <1>2 DEF Part, Orderly

(* Steps none of which is work or may bring the program down.              *)
LEMMA CalmIsPart ==
    ASSUME NEW s \in Seq(Command!Steps), ToSet(s) \cap (Work \cup Late) = {}
    PROVE  Part(s)
<1>1. \A i \in DOMAIN s : s[i] \in ToSet(s)
  BY DEF ToSet
<1> QED
  BY <1>1 DEF Part, Orderly, Clash

LEMMA NothingYet == ToSet(<<>>) = {} /\ Part(<<>>)
<1>1. ToSet(<<>>) = {} /\ <<>> \in Seq(Command!Steps)
  BY DEF ToSet
<1> QED
  BY <1>1, CalmIsPart

LEMMA PartOfTwo ==
    ASSUME NEW x \in Command!Steps, NEW y \in Command!Steps, ~Clash(x, y)
    PROVE  Part(<<x, y>>) /\ ToSet(<<x, y>>) = {x, y}
<1>1. <<x, y>> \in Seq(Command!Steps)
  OBVIOUS
<1>2. PICK s : s = <<x, y>> /\ DOMAIN s = {1, 2} /\ s[1] = x /\ s[2] = y
  <2>1. DOMAIN <<x, y>> = {1, 2} /\ <<x, y>>[1] = x /\ <<x, y>>[2] = y
    OBVIOUS
  <2> QED
    BY <2>1, Zenon
<1>3. ToSet(s) = {x, y}
  BY <1>2 DEF ToSet
<1>4. \A i, j \in {1, 2} : i < j => i = 1 /\ j = 2
  OBVIOUS
<1>5. Orderly(s)
  BY <1>2, <1>4 DEF Orderly
<1> QED
  BY <1>1, <1>2, <1>3, <1>5 DEF Part

LEMMA PartOfThree ==
    ASSUME NEW x \in Command!Steps, NEW y \in Command!Steps, NEW z \in Command!Steps,
           ~Clash(x, y), ~Clash(x, z), ~Clash(y, z)
    PROVE  Part(<<x, y, z>>) /\ ToSet(<<x, y, z>>) = {x, y, z}
<1>1. <<x, y, z>> \in Seq(Command!Steps)
  OBVIOUS
<1>2. PICK s : s = <<x, y, z>> /\ DOMAIN s = {1, 2, 3} /\ s[1] = x /\ s[2] = y /\ s[3] = z
  <2>1. DOMAIN <<x, y, z>> = {1, 2, 3} /\ <<x, y, z>>[1] = x /\ <<x, y, z>>[2] = y /\ <<x, y, z>>[3] = z
    OBVIOUS
  <2> QED
    BY <2>1, Zenon
<1>3. ToSet(s) = {x, y, z}
  BY <1>2 DEF ToSet
<1>4. \A i, j \in {1, 2, 3} : i < j => (i = 1 /\ j = 2) \/ (i = 1 /\ j = 3) \/ (i = 2 /\ j = 3)
  OBVIOUS
<1>5. Orderly(s)
  BY <1>2, <1>4 DEF Orderly
<1> QED
  BY <1>1, <1>2, <1>3, <1>5 DEF Part

LEMMA PartOfFour ==
    ASSUME NEW w \in Command!Steps, NEW x \in Command!Steps, NEW y \in Command!Steps, NEW z \in Command!Steps,
           ~Clash(w, x), ~Clash(w, y), ~Clash(w, z), ~Clash(x, y), ~Clash(x, z), ~Clash(y, z)
    PROVE  Part(<<w, x, y, z>>) /\ ToSet(<<w, x, y, z>>) = {w, x, y, z}
<1>1. <<w, x, y, z>> \in Seq(Command!Steps)
  OBVIOUS
<1>2. PICK s : /\ s = <<w, x, y, z>> /\ DOMAIN s = {1, 2, 3, 4}
               /\ s[1] = w /\ s[2] = x /\ s[3] = y /\ s[4] = z
  <2>1. /\ DOMAIN <<w, x, y, z>> = {1, 2, 3, 4} /\ <<w, x, y, z>>[1] = w /\ <<w, x, y, z>>[2] = x
        /\ <<w, x, y, z>>[3] = y /\ <<w, x, y, z>>[4] = z
    OBVIOUS
  <2> QED
    BY <2>1, Zenon
<1>3. ToSet(s) = {w, x, y, z}
  BY <1>2 DEF ToSet
<1>4. \A i, j \in {1, 2, 3, 4} : i < j =>
          \/ i = 1 /\ j \in {2, 3, 4}
          \/ i = 2 /\ j \in {3, 4}
          \/ i = 3 /\ j = 4
  OBVIOUS
<1>5. Orderly(s)
  BY <1>2, <1>4 DEF Orderly
<1> QED
  BY <1>1, <1>2, <1>3, <1>5 DEF Part

(* A result in every format asked for.                                     *)
LEMMA WriteEachIs ==
    ASSUME NEW X, NEW list \in Seq(X)
    PROVE  /\ Part(Command!WriteEach(list))
           /\ ToSet(Command!WriteEach(list)) \subseteq Command!Writes \cup {"skipFormat"}
           /\ Command!Asked(list) \subseteq ToSet(Command!WriteEach(list))
<1>1. CASE Command!Known(list) = {}
  <2>1. "writeJson" \in Command!Steps /\ "writeJson" \in Command!Writes
    BY DEF Command!Steps, Command!Writes
  <2> QED
    BY <1>1, <2>1, PartOfOne DEF Command!WriteEach, Command!Asked
<1>2. CASE Command!Known(list) # {}
  <2>1. PICK m \in Nat : m = Len(list) /\ DOMAIN list = 1 .. m
    BY LenProperties
  <2>2. PICK s : s = [i \in 1 .. m |-> Command!WriteOf(list[i])] /\ s = Command!WriteEach(list)
    BY <1>2, <2>1 DEF Command!WriteEach
  <2>3. \A i \in 1 .. m : Command!WriteOf(list[i]) \in Command!Writes \cup {"skipFormat"}
    BY DEF Command!WriteOf, Command!Writes
  <2>4. Command!Writes \cup {"skipFormat"} \subseteq Command!Steps
    BY DEF Command!Steps, Command!Writes
  <2>5. s \in Seq(Command!Steps)
    BY <2>2, <2>3, <2>4
  <2>6. ToSet(s) \subseteq Command!Writes \cup {"skipFormat"}
    BY <2>2, <2>3 DEF ToSet
  <2>7. (Command!Writes \cup {"skipFormat"}) \cap (Work \cup Late) = {}
    BY DEF Command!Writes, Work, Late
  <2>8. Part(s)
    BY <2>5, <2>6, <2>7, CalmIsPart
  <2>9. Command!Asked(list) \subseteq ToSet(s)
    BY <1>2, <2>1, <2>2 DEF Command!Asked, Command!Known, ToSet
  <2> QED
    BY <2>2, <2>6, <2>8, <2>9
<1> QED
  BY <1>1, <1>2

LEMMA StudyIsPlanned ==
    ASSUME NEW X, formats \in Seq(X)
    PROVE  Planned(<<"load", "runStudy">> \o Command!FinishStudy(formats))
<1>1. PICK W : /\ W = Command!WriteEach(formats) /\ Part(W)
               /\ ToSet(W) \subseteq Command!Writes \cup {"skipFormat"}
               /\ Command!Asked(formats) \subseteq ToSet(W)
  BY WriteEachIs
<1>2. PICK end : end = <<"report">> /\ Part(end) /\ ToSet(end) = {"report"}
  BY PartOfOne DEF Command!Steps
<1>3. PICK start : start = <<"load", "runStudy">> /\ Part(start) /\ ToSet(start) = {"load", "runStudy"}
  BY PartOfTwo DEF Command!Steps, Clash, Work, Late
<1>4. PICK s : s = W \o end /\ Part(s) /\ ToSet(s) = ToSet(W) \cup {"report"}
  <2>1. \A x \in ToSet(W), y \in ToSet(end) : ~Clash(x, y)
    BY <1>1, <1>2 DEF Clash, Work, Late, Command!Writes
  <2> QED
    BY <1>1, <1>2, <2>1, PartsJoin
<1>5. PICK t : t = start \o s /\ Part(t) /\ ToSet(t) = {"load", "runStudy"} \cup ToSet(s)
  <2>1. \A x \in ToSet(start), y \in ToSet(s) : ~Clash(x, y)
    BY <1>1, <1>3, <1>4 DEF Clash, Work, Late, Command!Writes
  <2>2. Part(start \o s) /\ ToSet(start \o s) = ToSet(start) \cup ToSet(s)
    BY <1>3, <1>4, <2>1, PartsJoin
  <2> QED
    BY <1>3, <2>2
<1>6. Command!Saved(ToSet(t))
  BY <1>1, <1>4, <1>5 DEF Command!Saved, Command!Writes
<1> QED
  BY <1>1, <1>2, <1>3, <1>4, <1>5, <1>6 DEF Command!FinishStudy, Planned

Extras == {<<>>, <<"plot">>, <<"writeReport">>, <<"plot", "writeReport">>}

LEMMA RunIsPlanned ==
    ASSUME NEW X, formats \in Seq(X), NEW extras \in Extras
    PROVE  Planned(<<"load", "run">> \o Command!WriteEach(formats) \o extras)
<1>1. PICK W : /\ W = Command!WriteEach(formats) /\ Part(W)
               /\ ToSet(W) \subseteq Command!Writes \cup {"skipFormat"}
               /\ Command!Asked(formats) \subseteq ToSet(W)
  BY WriteEachIs
<1>2. PICK start : start = <<"load", "run">> /\ Part(start) /\ ToSet(start) = {"load", "run"}
  BY PartOfTwo DEF Command!Steps, Clash, Work, Late
<1>3. Part(extras) /\ ToSet(extras) \subseteq {"plot", "writeReport"}
  <2>1. /\ Part(<<"plot">>) /\ ToSet(<<"plot">>) = {"plot"}
        /\ Part(<<"writeReport">>) /\ ToSet(<<"writeReport">>) = {"writeReport"}
    BY PartOfOne DEF Command!Steps
  <2>2. Part(<<"plot", "writeReport">>) /\ ToSet(<<"plot", "writeReport">>) = {"plot", "writeReport"}
    BY PartOfTwo DEF Command!Steps, Clash, Work, Late, Products, Command!Writes
  <2> QED
    BY <2>1, <2>2, NothingYet DEF Extras
<1>4. PICK s : s = start \o W /\ Part(s) /\ ToSet(s) = {"load", "run"} \cup ToSet(W)
  <2>1. \A x \in ToSet(start), y \in ToSet(W) : ~Clash(x, y)
    BY <1>1, <1>2 DEF Clash, Work, Late, Command!Writes
  <2> QED
    BY <1>1, <1>2, <2>1, PartsJoin
<1>5. PICK t : t = s \o extras /\ Part(t) /\ ToSet(t) = ToSet(s) \cup ToSet(extras)
  <2>1. \A x \in ToSet(s), y \in ToSet(extras) : ~Clash(x, y)
    BY <1>1, <1>3, <1>4 DEF Clash, Work, Late, Products, Command!Writes
  <2> QED
    BY <1>3, <1>4, <2>1, PartsJoin
<1>6. Command!Saved(ToSet(t))
  BY <1>1, <1>3, <1>4, <1>5 DEF Command!Saved, Command!Writes
<1> QED
  BY <1>1, <1>2, <1>4, <1>5, <1>6 DEF Planned

LEMMA ReadsArePlanned ==
    ASSUME NEW n \in Nat
    PROVE  Planned(Command!Reads(n) \o <<"report">>)
<1>1. PICK s : s = [i \in 1 .. n |-> "load"] /\ s = Command!Reads(n)
  BY DEF Command!Reads
<1>2. s \in Seq(Command!Steps) /\ ToSet(s) \subseteq {"load"}
  <2>1. "load" \in Command!Steps
    BY DEF Command!Steps
  <2> QED
    BY <1>1, <2>1 DEF ToSet
<1>3. Part(s)
  BY <1>2, CalmIsPart DEF Work, Late
<1>4. PICK end : end = <<"report">> /\ Part(end) /\ ToSet(end) = {"report"}
  BY PartOfOne DEF Command!Steps
<1>5. PICK t : t = s \o end /\ Part(t) /\ ToSet(t) = ToSet(s) \cup {"report"}
  <2>1. \A x \in ToSet(s), y \in ToSet(end) : ~Clash(x, y)
    BY <1>2, <1>4 DEF Clash, Work, Late
  <2> QED
    BY <1>3, <1>4, <2>1, PartsJoin
<1>6. Command!Saved(ToSet(t))
  BY <1>2, <1>5 DEF Command!Saved
<1> QED
  BY <1>1, <1>4, <1>5, <1>6 DEF Planned

LEMMA PlainPlans ==
    /\ Planned(<<"help">>) /\ Planned(<<"report">>) /\ Planned(<<"load", "report">>)
    /\ Planned(<<"load", "package", "writePackage">>)
<1>1. /\ Part(<<"help">>) /\ ToSet(<<"help">>) = {"help"}
      /\ Part(<<"report">>) /\ ToSet(<<"report">>) = {"report"}
  BY PartOfOne DEF Command!Steps
<1>2. Part(<<"load", "report">>) /\ ToSet(<<"load", "report">>) = {"load", "report"}
  BY PartOfTwo DEF Command!Steps, Clash, Work, Late
<1>3. /\ Part(<<"load", "package", "writePackage">>)
      /\ ToSet(<<"load", "package", "writePackage">>) = {"load", "package", "writePackage"}
  BY PartOfThree DEF Command!Steps, Clash, Work, Late
<1>4. /\ Command!Saved({"help"}) /\ Command!Saved({"report"}) /\ Command!Saved({"load", "report"})
      /\ Command!Saved({"load", "package", "writePackage"})
  BY DEF Command!Saved
<1> QED
  BY <1>1, <1>2, <1>3, <1>4 DEF Planned

(* An optimization writes its result before it prints the best.            *)
LEMMA OptimizeIsPlanned ==
    /\ Planned(<<"load", "optimize", "createDirectory", "writeJson">> \o <<"report">>)
    /\ Planned(<<"load", "optimize", "createDirectory", "writeJson">> \o <<"reportBest">>)
<1>1. PICK s : /\ s = <<"load", "optimize", "createDirectory", "writeJson">> /\ Part(s)
               /\ ToSet(s) = {"load", "optimize", "createDirectory", "writeJson"}
  <2>1. PICK w, x, y, z : w = "load" /\ x = "optimize" /\ y = "createDirectory" /\ z = "writeJson"
    OBVIOUS
  <2>2. {w, x, y, z} \subseteq Command!Steps
    BY <2>1 DEF Command!Steps, Command!Writes
  <2>3. ~Clash(w, x) /\ ~Clash(w, y) /\ ~Clash(w, z) /\ ~Clash(x, y) /\ ~Clash(x, z) /\ ~Clash(y, z)
    BY <2>1 DEF Clash, Work, Late
  <2>4. Part(<<w, x, y, z>>) /\ ToSet(<<w, x, y, z>>) = {w, x, y, z}
    BY <2>2, <2>3, PartOfFour
  <2> QED
    BY <2>1, <2>4, Zenon
<1>2. ASSUME NEW x \in {"report", "reportBest"} PROVE Planned(s \o <<x>>)
  <2>1. PICK end : end = <<x>> /\ Part(end) /\ ToSet(end) = {x}
    BY PartOfOne DEF Command!Steps
  <2>2. \A a \in ToSet(s), b \in ToSet(end) : ~Clash(a, b)
    BY <1>1, <2>1 DEF Clash, Work, Late, Products, Command!Writes
  <2>3. PICK t : t = s \o end /\ Part(t) /\ ToSet(t) = ToSet(s) \cup {x}
    BY <1>1, <2>1, <2>2, PartsJoin
  <2>4. Command!Saved(ToSet(t))
    BY <1>1, <2>3 DEF Command!Saved
  <2> QED
    BY <2>1, <2>3, <2>4 DEF Planned
<1>3. Planned(s \o <<"report">>) /\ Planned(s \o <<"reportBest">>)
  BY <1>2
<1> QED
  BY <1>1, <1>3, Zenon


(* Every command line is refused or comes to a plan.                       *)
LEMMA DispatchPlans ==
    ASSUME NEW X, formats \in Seq(X), NEW Y, NEW args \in Seq(Y),
           NEW steps \in Command!Dispatch(args)
    PROVE  steps = Command!Bad \/ Planned(steps)
<1> DEFINE Fine(S) == S \subseteq {Command!Bad} \cup {s \in S : Planned(s)}
<1>1. CASE args = <<>> \/ Head(args) \in {"--version", "-V", "--help", "-h"}
  BY <1>1, PlainPlans DEF Command!Dispatch
<1>2. CASE /\ args # <<>> /\ Head(args) \notin {"--version", "-V", "--help", "-h"}
           /\ Head(args) \notin Command!Commands
  BY <1>2 DEF Command!Dispatch
<1>3. CASE /\ args # <<>> /\ Head(args) \notin {"--version", "-V", "--help", "-h"}
           /\ Head(args) \in Command!Commands
  <2>1. PICK rest \in Seq(Y) : rest = Tail(args)
    BY <1>3, HeadTailProperties
  <2>2. Fine(Command!Run(rest))
    <3> DEFINE OfStudy == <<"load", "runStudy">> \o Command!FinishStudy(formats)
               OfRun(extras) == <<"load", "run">> \o Command!WriteEach(formats) \o extras
    <3>1. Planned(OfStudy) /\ \A extras \in Extras : Planned(OfRun(extras))
      BY StudyIsPlanned, RunIsPlanned
    <3>2. Command!Run(rest) \subseteq
              {Command!Bad} \cup ({OfStudy} \cup {OfRun(extras) : extras \in Extras})
      BY DEF Command!Run, Extras
    <3> HIDE DEF OfStudy, OfRun
    <3> QED
      BY <3>1, <3>2
  <2>3. Fine(Command!Study(rest))
    BY StudyIsPlanned DEF Command!Study
  <2>4. Fine(Command!Compare(rest))
    <3>1. PICK paths \in Seq(Y) : paths = Command!ParseArgs(rest, {"--json"}, {}).rest
      BY WordsLeft
    <3>2. Len(paths) \in Nat
      BY LenProperties
    <3>3. Planned(Command!Reads(Len(paths)) \o <<"report">>)
      BY <3>2, ReadsArePlanned
    <3> QED
      BY <3>1, <3>3 DEF Command!Compare
  <2>5. Fine(Command!Package(rest)) /\ Fine(Command!Analyze(rest)) /\ Fine(Command!Power(rest))
    BY PlainPlans DEF Command!Package, Command!Analyze, Command!Power
  <2>6. Fine(Command!CompareStats(rest))
    <3>1. PICK m \in Nat : m = Len(rest) /\ DOMAIN rest = 1 .. m
      BY LenProperties
    <3>2. PICK S \in SUBSET (1 .. m) : S = {i \in DOMAIN rest : ~Command!IsFlag(rest[i])}
      BY <3>1
    <3>3. PICK n \in Nat : n = Command!Cardinality(S)
      <4>1. 1 \in Int /\ m \in Int
        OBVIOUS
      <4>2. IsFiniteSet(1 .. m)
        BY <4>1, FS_Interval
      <4>3. IsFiniteSet(S)
        BY <4>2, FS_Subset
      <4>4. Command!Cardinality(S) = Cardinality(S)
        BY DEF Command!Cardinality, Cardinality
      <4> QED
        BY <4>3, <4>4, FS_CardinalityType
    <3>4. Planned(Command!Reads(n) \o <<"report">>)
      BY ReadsArePlanned
    <3> QED
      BY <3>2, <3>3, <3>4 DEF Command!CompareStats
  <2>7. Fine(Command!Optimize(rest))
    BY OptimizeIsPlanned DEF Command!Optimize
  <2>8. steps \in UNION {Command!Run(rest), Command!Study(rest), Command!Compare(rest),
                         Command!Package(rest), Command!Analyze(rest),
                         Command!CompareStats(rest), Command!Power(rest), Command!Optimize(rest)}
    BY <1>3, <2>1, Zenon DEF Command!Dispatch, Command!Commands
  <2> QED
    BY <2>2, <2>3, <2>4, <2>5, <2>6, <2>7, <2>8
<1> QED
  BY <1>1, <1>2, <1>3


(* What a command has done and what it still has to do: together they save *)
(* what it makes, and it makes nothing twice.                              *)

Accounted(past, ahead) ==
    /\ Command!Saved(ToSet(past) \cup ToSet(ahead))
    /\ ToSet(ahead) \cap Work # {} => ToSet(past) \cap Work = {}

(* The first step, done or skipped, and the rest.                          *)
LEMMA HeadAndTail ==
    ASSUME NEW s, Part(s), s # <<>>
    PROVE  /\ Head(s) \in Command!Steps /\ Part(Tail(s))
           /\ ToSet(s) = {Head(s)} \cup ToSet(Tail(s))
           /\ \A y \in ToSet(Tail(s)) : ~Clash(Head(s), y)
<1>1. s \in Seq(Command!Steps)
  BY DEF Part
<1>2. PICK x \in Command!Steps, t \in Seq(Command!Steps) : x = Head(s) /\ t = Tail(s)
  BY <1>1, HeadTailProperties
<1>3. PICK m \in Nat : m = Len(s) /\ DOMAIN s = 1 .. m /\ m # 0
  BY <1>1, LenProperties, EmptySeq
<1>4. Len(t) = m - 1 /\ \A i \in 1 .. m - 1 : t[i] = s[i + 1]
  BY <1>1, <1>2, <1>3, HeadTailProperties
<1>5. DOMAIN t = 1 .. m - 1
  BY <1>4, LenProperties
<1>6. s[1] = x /\ 1 \in 1 .. m
  BY <1>1, <1>2, <1>3
<1>7. \A i \in 1 .. m - 1 : i + 1 \in 1 .. m /\ t[i] = s[i + 1] /\ 1 < i + 1
  BY <1>3, <1>4
<1>8. Part(t)
  <2>1. ASSUME NEW i \in 1 .. m - 1, NEW j \in 1 .. m - 1, i < j PROVE ~Clash(t[i], t[j])
    <3>1. i + 1 < j + 1
      BY <2>1
    <3>2. ~Clash(s[i + 1], s[j + 1])
      BY <1>3, <1>7, <3>1 DEF Part, Orderly
    <3> QED
      BY <1>7, <3>2
  <2> QED
    BY <1>5, <2>1 DEF Part, Orderly
<1>9. ASSUME NEW y \in ToSet(t) PROVE ~Clash(x, y) /\ y \in ToSet(s)
  <2>1. PICK i \in 1 .. m - 1 : y = t[i]
    BY <1>5 DEF ToSet
  <2>2. y = s[i + 1] /\ i + 1 \in 1 .. m /\ 1 < i + 1
    BY <1>7, <2>1
  <2>3. y \in ToSet(s)
    BY <1>3, <2>2 DEF ToSet
  <2>4. ~Clash(s[1], s[i + 1])
    BY <1>3, <1>6, <2>2 DEF Part, Orderly
  <2> QED
    BY <1>6, <2>2, <2>3, <2>4
<1>10. x \in ToSet(s)
  BY <1>3, <1>6 DEF ToSet
<1>11. ASSUME NEW y \in ToSet(s) PROVE y = x \/ y \in ToSet(t)
  <2>1. PICK i \in 1 .. m : y = s[i]
    BY <1>3 DEF ToSet
  <2>2. CASE i = 1
    BY <1>6, <2>1, <2>2
  <2>3. CASE i # 1
    <3>1. i - 1 \in 1 .. m - 1 /\ (i - 1) + 1 = i
      BY <2>3
    <3>2. y = t[i - 1]
      BY <1>7, <2>1, <3>1
    <3> QED
      BY <1>5, <3>1, <3>2 DEF ToSet
  <2> QED
    BY <2>2, <2>3
<1> QED
  BY <1>2, <1>8, <1>9, <1>10, <1>11

LEMMA StepAccounts ==
    ASSUME NEW past \in Seq(Command!Steps), NEW ahead, Part(ahead), ahead # <<>>,
           Accounted(past, ahead)
    PROVE  /\ Append(past, Head(ahead)) \in Seq(Command!Steps)
           /\ Accounted(Append(past, Head(ahead)), Tail(ahead))
<1>1. PICK x, rest :
          /\ x = Head(ahead) /\ rest = Tail(ahead) /\ x \in Command!Steps
          /\ ToSet(ahead) = {x} \cup ToSet(rest) /\ \A y \in ToSet(rest) : ~Clash(x, y)
  BY HeadAndTail
<1>2. /\ Append(past, x) \in Seq(Command!Steps)
      /\ ToSet(Append(past, x)) = ToSet(past) \cup {x}
  <2>1. <<x>> \in Seq(Command!Steps) /\ ToSet(<<x>>) = {x}
    BY <1>1, ListOfOne
  <2>2. Append(past, x) = past \o <<x>>
    BY <1>1, AppendIsConcat
  <2>3. past \o <<x>> \in Seq(Command!Steps) /\ ToSet(past \o <<x>>) = ToSet(past) \cup ToSet(<<x>>)
    BY <2>1, ListsJoined
  <2> QED
    BY <2>1, <2>2, <2>3, Zenon
<1>3. PICK now : now = Append(past, x) /\ now \in Seq(Command!Steps) /\ ToSet(now) = ToSet(past) \cup {x}
  BY <1>2
<1>4. ToSet(now) \cup ToSet(rest) = ToSet(past) \cup ToSet(ahead)
  BY <1>1, <1>3
<1>5. ToSet(rest) \cap Work # {} => ToSet(now) \cap Work = {}
  BY <1>1, <1>3 DEF Accounted, Clash
<1>6. Accounted(now, rest)
  BY <1>4, <1>5 DEF Accounted
<1> QED
  BY <1>1, <1>3, <1>6

LEMMA SkipAccounts ==
    ASSUME NEW past, NEW ahead, Part(ahead), ahead # <<>>, Accounted(past, ahead), Head(ahead) = "plot"
    PROVE  Accounted(past, Tail(ahead))
<1>1. PICK rest : rest = Tail(ahead) /\ ToSet(ahead) = {"plot"} \cup ToSet(rest)
  <2>1. ToSet(ahead) = {Head(ahead)} \cup ToSet(Tail(ahead))
    BY HeadAndTail
  <2> QED
    BY <2>1
<1>2. PICK all : all = ToSet(past) \cup ToSet(rest) /\ ToSet(past) \cup ToSet(ahead) = all \cup {"plot"}
  <2>1. ToSet(past) \cup ToSet(ahead) = (ToSet(past) \cup ToSet(rest)) \cup {"plot"}
    BY <1>1
  <2> QED
    BY <2>1
<1>3. "plot" \notin Command!Asked(formats)
  BY DEF Command!Asked, Command!Known, Command!Writes
<1>4. Command!Saved(all \cup {"plot"}) => Command!Saved(all)
  BY <1>3 DEF Command!Saved
<1> QED
  BY <1>1, <1>2, <1>4 DEF Accounted


Word == UNION {{args[i] : i \in DOMAIN args} : args \in Arguments}
Format == UNION {{list[i] : i \in DOMAIN list} : list \in Formats}

\* Before the command is known nothing is done; afterwards what is done and
\* what is left account for what it makes, and the exit code says where it ended.
Undecided == done = <<>> /\ exit \in {None, Command!Usage}
Decided ==
    /\ Part(todo) /\ Accounted(done, todo)
    /\ exit \in {None, Command!Ok, Command!Failure, Command!Panic}
    /\ exit = Command!Ok => todo = <<>>
    /\ exit = Command!Failure => todo # <<>>
    /\ exit = Command!Panic => todo # <<>> /\ Command!MayPanic(Head(todo))
Earned ==
    /\ words \in Seq(Word) /\ formats \in Seq(Format) /\ done \in Seq(Command!Steps)
    /\ IF todo = None THEN Undecided ELSE Decided

LEMMA CommandMoves ==
    focus = "command" /\ [ComponentsNext]_componentVars => [Command!Next]_(Command!vars)
BY DEF ComponentsNext, componentVars, commandVars, Command!vars

LEMMA EarnedStart == Command!Init => Earned
<1> SUFFICES ASSUME Command!Init PROVE Earned
  OBVIOUS
<1>1. words \in Seq(Word) /\ formats \in Seq(Format)
  BY CommandsAssumption DEF Command!Init, Word, Format
<1>2. <<>> \in Seq(Command!Steps)
  OBVIOUS
<1> QED
  BY <1>1, <1>2 DEF Command!Init, Earned, Undecided

(* With the formats as they were, an account stays what it was.            *)
LEMMA AccountsStay ==
    ASSUME formats' = formats, Accounted(done', todo'), Part(todo')
    PROVE  Accounted(done, todo)' /\ Part(todo)'
BY DEF Accounted, Part, Orderly, Clash, Work, Late, Products, Command!Saved, Command!Asked,
       Command!Known, ToSet

LEMMA ExitCodes ==
    /\ None \notin {Command!Ok, Command!Failure, Command!Usage, Command!Panic}
    /\ Command!Usage \notin {Command!Ok, Command!Failure, Command!Panic}
    /\ Command!Ok # Command!Failure /\ Command!Ok # Command!Panic /\ Command!Failure # Command!Panic
<1>1. None \notin {Command!Ok, Command!Failure, Command!Usage, Command!Panic}
  BY CommandsAssumption
<1>2. /\ Command!Usage \notin {Command!Ok, Command!Failure, Command!Panic}
      /\ Command!Ok # Command!Failure /\ Command!Ok # Command!Panic /\ Command!Failure # Command!Panic
  BY DEF Command!Ok, Command!Failure, Command!Usage, Command!Panic
<1> QED
  BY <1>1, <1>2

LEMMA NextEarns == Earned /\ [Command!Next]_(Command!vars) => Earned'
<1> SUFFICES ASSUME Earned, [Command!Next]_(Command!vars) PROVE Earned'
  OBVIOUS
<1>1. /\ None \notin {Command!Ok, Command!Failure, Command!Usage, Command!Panic}
      /\ Command!Ok # Command!Failure /\ Command!Ok # Command!Panic /\ Command!Failure # Command!Panic
  BY ExitCodes
<1>2. None \notin Seq(Command!Steps)
  BY CommandsAssumption
<1>3. words \in Seq(Word) /\ formats \in Seq(Format) /\ done \in Seq(Command!Steps)
  BY DEF Earned
<1>4. CASE Command!Main
  <2>1. PICK steps : /\ steps \in Command!Dispatch(Command!Positional(words))
                     /\ IF steps = Command!Bad THEN exit' = Command!Usage /\ UNCHANGED todo
                        ELSE todo' = steps /\ UNCHANGED exit
    BY <1>4 DEF Command!Main
  <2>2. exit = None /\ todo = None /\ done = <<>> /\ UNCHANGED <<words, formats, done>>
    BY <1>4 DEF Command!Main, Earned, Undecided
  <2>3. Command!Positional(words) \in Seq(Word)
    BY <1>3, WordsLeft DEF Command!Positional
  <2>4. steps = Command!Bad \/ Planned(steps)
    BY <1>3, <2>1, <2>3, DispatchPlans
  <2>5. CASE steps = Command!Bad
    BY <1>3, <2>1, <2>2, <2>5 DEF Earned, Undecided
  <2>6. CASE steps # Command!Bad
    <3>1. todo' = steps /\ exit' = None /\ done' = <<>>
      BY <2>1, <2>2, <2>6
    <3>2. Part(steps) /\ Accounted(<<>>, steps)
      <4>1. {} \cup ToSet(steps) = ToSet(steps) /\ {} \cap Work = {}
        OBVIOUS
      <4> QED
        BY <2>4, <2>6, <4>1, NothingYet DEF Planned, Accounted
    <3>3. Accounted(done, todo)' /\ Part(todo)'
      <4>1. Accounted(done', todo') /\ Part(todo')
        BY <3>1, <3>2, Zenon
      <4> QED
        BY <2>2, <4>1, AccountsStay
    <3>4. Decided'
      BY <1>1, <3>1, <3>3 DEF Decided
    <3>5. todo' # None
      BY <1>2, <3>1, <3>2 DEF Part
    <3> QED
      BY <1>3, <2>2, <3>4, <3>5 DEF Earned
  <2> QED
    BY <2>5, <2>6
<1>5. ASSUME exit = None, exit' = None, todo # None, todo # <<>>, todo' = Tail(todo),
             UNCHANGED <<words, formats>>, done' \in Seq(Command!Steps), Accounted(done', todo')
      PROVE  Earned'
  <2>1. Part(todo)
    BY <1>5 DEF Earned, Decided
  <2>2. Part(todo')
    BY <1>5, <2>1, HeadAndTail
  <2>3. Accounted(done, todo)' /\ Part(todo)'
    BY <1>5, <2>2, AccountsStay
  <2>4. Decided'
    BY <1>1, <1>5, <2>3 DEF Decided
  <2>5. todo' # None
    BY <1>2, <2>2 DEF Part
  <2> QED
    BY <1>3, <1>5, <2>4, <2>5 DEF Earned
<1>6. CASE Command!Step
  <2>1. /\ exit = None /\ todo # None /\ todo # <<>>
        /\ done' = Append(done, Head(todo)) /\ todo' = Tail(todo)
        /\ UNCHANGED <<words, formats, exit>>
    BY <1>6 DEF Command!Step
  <2>2. Part(todo) /\ Accounted(done, todo)
    BY <2>1 DEF Earned, Decided
  <2>3. done' \in Seq(Command!Steps) /\ Accounted(done', todo')
    BY <1>3, <2>1, <2>2, StepAccounts
  <2> QED
    BY <1>5, <2>1, <2>3
<1>7. CASE Command!PlotFails
  <2>1. /\ exit = None /\ todo # None /\ todo # <<>> /\ Head(todo) = "plot"
        /\ todo' = Tail(todo) /\ UNCHANGED <<words, formats, done, exit>>
    BY <1>7 DEF Command!PlotFails
  <2>2. Part(todo) /\ Accounted(done, todo)
    BY <2>1 DEF Earned, Decided
  <2>3. Accounted(done, Tail(todo))
    BY <2>1, <2>2, SkipAccounts
  <2>4. done' = done /\ Accounted(done', todo')
    BY <2>1, <2>3
  <2> QED
    BY <1>3, <1>5, <2>1, <2>4
<1>8. ASSUME UNCHANGED <<words, formats, done, todo>>, todo # None,
             \/ exit' = Command!Failure /\ todo # <<>>
             \/ exit' = Command!Panic /\ todo # <<>> /\ Command!MayPanic(Head(todo))
             \/ exit' = Command!Ok /\ todo = <<>>
             \/ exit' = exit
      PROVE  Earned'
  <2>1. Decided
    BY <1>8 DEF Earned
  <2>2. Accounted(done, todo)' /\ Part(todo)'
    <3>1. Accounted(done', todo') /\ Part(todo')
      BY <1>8, <2>1 DEF Decided
    <3> QED
      BY <1>8, <3>1, AccountsStay
  <2>3. todo' = todo /\ (Command!MayPanic(Head(todo)) => Command!MayPanic(Head(todo))')
    BY <1>8 DEF Command!MayPanic, Command!Writes, Command!ToSet
  <2>4. Decided'
    <3>1. CASE exit' = Command!Failure /\ todo # <<>>
      BY <1>1, <2>2, <2>3, <3>1, Zenon DEF Decided
    <3>2. CASE exit' = Command!Panic /\ todo # <<>> /\ Command!MayPanic(Head(todo))
      BY <1>1, <2>2, <2>3, <3>2, Zenon DEF Decided
    <3>3. CASE exit' = Command!Ok /\ todo = <<>>
      BY <1>1, <2>2, <2>3, <3>3, Zenon DEF Decided
    <3>4. CASE exit' = exit
      BY <2>1, <2>2, <2>3, <3>4, Zenon DEF Decided
    <3> QED
      BY <1>8, <3>1, <3>2, <3>3, <3>4
  <2> QED
    BY <1>3, <1>8, <2>4 DEF Earned
<1>9. CASE Command!Fail
  BY <1>8, <1>9 DEF Command!Fail
<1>10. CASE Command!Panics
  BY <1>8, <1>10 DEF Command!Panics
<1>11. CASE Command!Return
  <2>1. todo # None
    <3>1. <<>> \in Seq(Command!Steps)
      OBVIOUS
    <3> QED
      BY <1>2, <1>11, <3>1 DEF Command!Return
  <2> QED
    BY <1>8, <1>11, <2>1 DEF Command!Return
<1>12. CASE UNCHANGED Command!vars
  <2>1. CASE todo # None
    BY <1>8, <1>12, <2>1 DEF Command!vars
  <2>2. CASE todo = None
    BY <1>12, <2>2 DEF Command!vars, Earned, Undecided
  <2> QED
    BY <2>1, <2>2
<1> QED
  BY <1>4, <1>6, <1>7, <1>9, <1>10, <1>11, <1>12 DEF Command!Next

LEMMA EarnedIsHonest == Earned => Command!ExitIsHonest
<1> SUFFICES ASSUME Earned PROVE Command!ExitIsHonest
  OBVIOUS
<1>1. Command!ToSet(done) = ToSet(done)
  BY DEF Command!ToSet, ToSet
<1>2. /\ Command!Usage \notin {Command!Ok, Command!Failure, Command!Panic}
      /\ None \notin {Command!Ok, Command!Failure, Command!Usage, Command!Panic}
      /\ Command!Ok # Command!Failure /\ Command!Ok # Command!Panic /\ Command!Failure # Command!Panic
  BY ExitCodes
<1>3. /\ exit = Command!Usage => done = <<>>
      /\ exit \in {Command!Failure, Command!Panic} => todo # <<>>
  BY <1>2 DEF Earned, Undecided, Decided
<1>4. ASSUME exit = Command!Ok PROVE Command!Saved(ToSet(done))
  <2>1. Accounted(done, todo) /\ todo = <<>>
    BY <1>2, <1>4 DEF Earned, Undecided, Decided
  <2>2. ToSet(done) \cup {} = ToSet(done)
    OBVIOUS
  <2> QED
    BY <2>1, <2>2, NothingYet DEF Accounted
<1>5. ASSUME exit = Command!Panic, "runStudy" \notin ToSet(done) PROVE Command!Saved(ToSet(done))
  <2>1. Part(todo) /\ Accounted(done, todo) /\ todo # <<>> /\ Command!MayPanic(Head(todo))
    BY <1>2, <1>5 DEF Earned, Undecided, Decided
  <2>2. PICK x, rest : /\ x = Head(todo) /\ rest = Tail(todo)
                       /\ ToSet(todo) = {x} \cup ToSet(rest) /\ \A y \in ToSet(rest) : ~Clash(x, y)
    BY <2>1, HeadAndTail
  <2>3. x \in Work \cup Late
    BY <1>1, <1>5, <2>1, <2>2 DEF Command!MayPanic, Work, Late
  <2>4. CASE x \in Work
    <3>1. ToSet(done) \cap Work = {}
      BY <2>1, <2>2, <2>4 DEF Accounted
    <3> QED
      BY <3>1 DEF Command!Saved, Work
  <2>5. CASE x \in Late
    <3>1. ToSet(todo) \cap Products = {}
      <4>1. x \notin Products
        BY <2>5 DEF Late, Products, Command!Writes
      <4> QED
        BY <2>2, <2>5, <4>1 DEF Clash
    <3>2. Command!Asked(formats) \subseteq Products
      BY DEF Command!Asked, Command!Known, Command!Writes, Products
    <3>3. {"writeJson", "writePackage"} \subseteq Products
      BY DEF Products, Command!Writes
    <3>4. ToSet(todo) \cap {"run", "runStudy", "optimize", "package"} = {} \/ ToSet(done) \cap Work = {}
      BY <2>1 DEF Accounted, Work
    <3> QED
      BY <2>1, <3>1, <3>2, <3>3 DEF Accounted, Command!Saved
  <2> QED
    BY <2>3, <2>4, <2>5
<1> QED
  BY <1>1, <1>3, <1>4, <1>5 DEF Command!ExitIsHonest

(* The exit code of a command is earned: 0 when all that it made has been  *)
(* written, in every known format asked for, 2 when nothing was touched, 1 *)
(* and 101 before its end; and a panic leaves what a run or an             *)
(* optimization wrote (main.rs).                                           *)
THEOREM ExitIsHonestCorrect == ComponentsSpec => []ExitIsHonest
<1> DEFINE Inv == focus = "command" => Earned
<1>1. ComponentsInit => Inv
  BY EarnedStart DEF ComponentsInit
<1>2. Inv /\ [ComponentsNext]_componentVars => Inv'
  BY FocusStays, CommandMoves, NextEarns
<1>3. Inv => ExitIsHonest
  BY EarnedIsHonest DEF ExitIsHonest
<1> QED
  BY <1>1, <1>2, <1>3, PTL DEF ComponentsSpec
=============================================================================
