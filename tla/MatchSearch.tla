----------------------------- MODULE MatchSearch -----------------------------
(***************************************************************************)
(* The native matchmaking library (crates/matchlab-matchmaking): the three *)
(* search strategies and three candidate generators that turn a queue into *)
(* proposed matches, the objectives and constraints that judge a proposal, *)
(* and the policies that choose among the candidates.                      *)
(*                                                                         *)
(* Ratings are small naturals; an average is kept exact by multiplying by  *)
(* Scale, a common multiple of the team sizes.  A quality 1 - d/400 is the *)
(* scaled distance to the cap, which orders teams in the same way.         *)
(***************************************************************************)
EXTENDS Integers, Sequences, FiniteSets, SequencesExt, FiniteSetsExt

CONSTANTS
    SizeA, SizeB,     \* TeamComposition: at least one a side
    Scale,            \* a common multiple of the sizes of all (partial) teams
    Cap,              \* the rating difference from which quality is 0 (400)
    Width,            \* BeamSearch.width
    MaxCandidates,    \* GreedyNearestGenerator.max_candidates
    MinQuality,       \* ThresholdSelection.min_quality
    Tolerance,        \* what LexicographicSelection takes for equal (0.001)
    Unrated,          \* the rating of a player without observation (1000)
    Worlds, Queues,   \* the worlds and queues the library is called with
    Regions, AllowedPairs, RoleRequirements, None

VARIABLES
    world,       \* player |-> observation; region and location are ground truth
    queue,       \* Queue.entries
    strategy,    \* the strategy or generator that was run, or None
    candidates,  \* what it returned
    policy,      \* the selection policy that was run, or None
    chosen       \* what it returned, or "panic"

vars == <<world, queue, strategy, candidates, policy, chosen>>

Total == SizeA + SizeB

\* What the library reads of a PlayerObservation (and of its region).
Observation == [rating : Nat, deviation : Nat, party : Nat \cup {None},
                role : {"tank", "healer"} \cup {None}, region : Regions]

\* A QueueEntry; `rating` is the copy made when the player was queued.
QueueEntry == [player : Nat, rating : Nat, waited : Nat]

ASSUME SizesAssumption == SizeA \in Nat \ {0} /\ SizeB \in Nat \ {0}
ASSUME LibraryAssumption ==
    /\ Scale \in Nat /\ Cap \in Nat /\ Width \in Nat /\ MaxCandidates \in Nat
    /\ MinQuality \in Int /\ Tolerance \in Nat /\ Unrated \in Nat
ASSUME NoneAssumption ==
    None \notin {"greedy", "random", "beam", "exhaustive", "nearest", "samples",
                 "weighted", "lexicographic", "threshold", "admissible"}
ASSUME InputsAssumption ==
    /\ \A w \in Worlds : DOMAIN w \subseteq Nat /\ \A p \in DOMAIN w : w[p] \in Observation
    /\ Queues \subseteq Seq(QueueEntry)

ProposedMatch(a, b) == [team_a |-> a, team_b |-> b]
All(m) == m.team_a \o m.team_b
Players(m) == ToSet(All(m))
Full(m) == Len(m.team_a) = SizeA /\ Len(m.team_b) = SizeB

Queued == [i \in DOMAIN queue |-> queue[i].player]

\* The elements of s that are in S, in order.
Keep(s, S) ==
    LET kept[n \in 0..Len(s)] ==
            IF n = 0 THEN <<>>
            ELSE IF s[n] \in S THEN Append(kept[n - 1], s[n]) ELSE kept[n - 1]
    IN kept[Len(s)]

-----------------------------------------------------------------------------
(* Ratings, objectives *)

\* The sum of what the players of a team have: who has nothing is left out.
SumOver(team, has) ==
    LET sum[n \in 0..Len(team)] ==
            IF n = 0 THEN 0
            ELSE sum[n - 1] + (IF team[n] \in DOMAIN has THEN has[team[n]] ELSE 0)
    IN sum[Len(team)]
OneIfEmpty(n) == IF n = 0 THEN 1 ELSE n

\* average_rating: players without an observation are left out of the sum only.
Ratings == [p \in DOMAIN world |-> world[p].rating]
Deviations == [p \in DOMAIN world |-> world[p].deviation]
Average(team, has) == (Scale * SumOver(team, has)) \div OneIfEmpty(Len(team))
AverageRating(team) == Average(team, Ratings)

Distance(x, y) == IF x > y THEN x - y ELSE y - x
AtMost(x, y) == IF x < y THEN x ELSE y
AtLeast(x, y) == IF x < y THEN y ELSE x

MatchQuality(a, b) ==
    Scale * Cap - AtMost(Distance(AverageRating(a), AverageRating(b)), Scale * Cap)

\* The entry find() returns for a player: the first.
WaitOf(p) ==
    LET at == {i \in DOMAIN queue : queue[i].player = p}
    IN IF at = {} THEN 0 ELSE queue[Min(at)].waited

LongestWait(team) ==
    LET wait[n \in 0..Len(team)] == IF n = 0 THEN 0 ELSE AtLeast(wait[n - 1], WaitOf(team[n]))
    IN wait[Len(team)]

\* MatchObjective::score with unit weights; ping_cost is 0 in the code.
ObjectiveScore(a, b) == MatchQuality(a, b) - LongestWait(a \o b) - Average(a \o b, Deviations)

SkillBalance(m) == MatchQuality(m.team_a, m.team_b)

\* LatencyObjective scores the ratings of the players, not their latencies.
Latency(m) == Scale * Cap - AtMost(AverageRating(All(m)), Scale * Cap)

WaitTime(m) == 0

\* A match's scores by the soft objectives, in their order of priority.
Objectives(m) == <<SkillBalance(m), Latency(m), WaitTime(m)>>
WeightedSum(m) == SkillBalance(m) + Latency(m) + WaitTime(m)

\* The positions of a sequence of keys in the order a stable descending sort
\* puts them: the k-th is the one with k keys up to and including its own.
StableDescending(key) ==
    LET upTo(j) == {i \in DOMAIN key : key[i] > key[j] \/ (key[i] = key[j] /\ i <= j)}
    IN [k \in DOMAIN key |-> CHOOSE j \in DOMAIN key : Cardinality(upTo(j)) = k]
Pick(s, positions) == [k \in DOMAIN positions |-> s[positions[k]]]

-----------------------------------------------------------------------------
(* GreedySearch *)

Open(used) == {i \in DOMAIN queue : queue[i].player \notin used}
\* pick_nearest: the first of the nearest entries whose player is not used.
PickNearest(anchor, used) ==
    LET off(i) == Distance(anchor, Scale * queue[i].rating)
    IN queue[CHOOSE i \in Open(used) : \A j \in Open(used) :
                 off(i) < off(j) \/ (off(i) = off(j) /\ i <= j)].player

TakesA(a, b) == Len(a) < SizeA /\ (Len(a) <= Len(b) \/ Len(b) = SizeB)

\* A turn of the loop that fills the teams, which takes a player unless it stops.
Fill(f) ==
    LET p == PickNearest(f.anchor, f.used)
        a == Append(f.match.team_a, p)
    IN IF Full(f.match) \/ Open(f.used) = {} THEN f
       ELSE IF TakesA(f.match.team_a, f.match.team_b)
       THEN [match |-> ProposedMatch(a, f.match.team_b), anchor |-> AverageRating(a),
             used |-> f.used \cup {p}]
       ELSE [match |-> ProposedMatch(f.match.team_a, Append(f.match.team_b, p)), anchor |-> f.anchor,
             used |-> f.used \cup {p}]
GreedyFill(entry, used) ==
    LET fill[n \in 0..Total - 1] ==
            IF n = 0 THEN [match |-> ProposedMatch(<<entry.player>>, <<>>),
                           anchor |-> Scale * entry.rating, used |-> used]
            ELSE Fill(fill[n - 1])
    IN fill[Total - 1]

\* The picks of an anchor are forgotten.
FaultyGreedyAnchor(acc, entry) ==
    LET f == GreedyFill(entry, {entry.player})
    IN IF entry.player \in acc.used THEN acc
       ELSE [used  |-> acc.used \cup {entry.player},
             found |-> IF Full(f.match) THEN Append(acc.found, f.match) ELSE acc.found]

\* The anchor and its picks stay used when they form no match.
GreedyAnchor(acc, entry) ==
    IF entry.player \in acc.used THEN acc
    ELSE LET f == GreedyFill(entry, acc.used \cup {entry.player})
         IN [used  |-> f.used,
             found |-> IF Full(f.match) THEN Append(acc.found, f.match) ELSE acc.found]

Nothing == [used |-> {}, found |-> <<>>]
GreedySearch ==
    LET after[n \in 0..Len(queue)] ==
            IF n = 0 THEN Nothing ELSE GreedyAnchor(after[n - 1], queue[n])
    IN after[Len(queue)].found

-----------------------------------------------------------------------------
(* RandomSamplingSearch: any filling of the pool may be the best sampled one *)

\* The entries that may join the anchor; a player queued twice is in it twice.
Pool(anchor, used) ==
    Keep(Queued, ToSet(Queued) \ (used \cup {anchor}))

\* The anchor is counted as one more player it still needs.
FaultyRandomFillings(anchor, used) ==
    LET pool == Pool(anchor, used) IN
    IF Len(pool) < Total THEN {}
    ELSE {LET drawn == <<anchor>> \o Pick(pool, order)
          IN ProposedMatch(SubSeq(drawn, 1, SizeA), SubSeq(drawn, SizeA + 1, Total)) :
          order \in {o \in [1..(Total - 1) -> DOMAIN pool] :
                        \A i, j \in 1..(Total - 1) : o[i] = o[j] => i = j}}

\* `samples` is at least one: with none no match is ever formed.
RandomFillings(anchor, used) ==
    LET pool == Pool(anchor, used) IN
    IF Len(pool) < Total - 1 THEN {}
    ELSE {LET drawn == <<anchor>> \o Pick(pool, order)
          IN ProposedMatch(SubSeq(drawn, 1, SizeA), SubSeq(drawn, SizeA + 1, Total)) :
          order \in {o \in [1..(Total - 1) -> DOMAIN pool] :
                        \A i, j \in 1..(Total - 1) : o[i] = o[j] => i = j}}

RandomAnchor(acc, entry) ==
    IF entry.player \in acc.used THEN {acc}
    ELSE LET used == acc.used \cup {entry.player}
             fillings == RandomFillings(entry.player, used)
         IN IF fillings = {} THEN {[acc EXCEPT !.used = used]}
            ELSE {[used |-> used \cup Players(m), found |-> Append(acc.found, m)] :
                  m \in fillings}

RandomSearches ==
    LET after[n \in 0..Len(queue)] ==
            IF n = 0 THEN {Nothing} ELSE UNION {RandomAnchor(acc, queue[n]) : acc \in after[n - 1]}
    IN {acc.found : acc \in after[Len(queue)]}

-----------------------------------------------------------------------------
(* BeamSearch *)

Extensions(m, used) ==
    IF Full(m) THEN <<m>>
    ELSE LET open == Keep(Queued, ToSet(Queued) \ (used \cup Players(m)))
         IN [i \in DOMAIN open |->
               IF TakesA(m.team_a, m.team_b)
               THEN [m EXCEPT !.team_a = Append(@, open[i])]
               ELSE [m EXCEPT !.team_b = Append(@, open[i])]]

Truncate(s, n) == SubSeq(s, 1, AtMost(n, Len(s)))

AllExtensions(beam, used) ==
    LET upTo[n \in 0..Len(beam)] ==
            IF n = 0 THEN <<>> ELSE upTo[n - 1] \o Extensions(beam[n], used)
    IN upTo[Len(beam)]
\* The best `width` extensions, among equals those generated first.
NextBeam(beam, used) ==
    LET next == AllExtensions(beam, used)
        score == [i \in DOMAIN next |-> ObjectiveScore(next[i].team_a, next[i].team_b)]
    IN Truncate(Pick(next, StableDescending(score)), Width)

\* A turn of the loop gives every match of the beam one more player.
Advance(beam, used) ==
    IF \A i \in DOMAIN beam : Full(beam[i]) THEN beam ELSE NextBeam(beam, used)
RunBeam(player, used) ==
    LET beam[n \in 0..Total - 1] ==
            IF n = 0 THEN <<ProposedMatch(<<player>>, <<>>)>> ELSE Advance(beam[n - 1], used)
    IN beam[Total - 1]

\* An anchor that forms no match may still be picked by a later one.
BeamAnchor(acc, entry) ==
    IF entry.player \in acc.used THEN acc
    ELSE LET beam == RunBeam(entry.player, acc.used \cup {entry.player})
         IN IF beam = <<>> THEN acc
            ELSE [used |-> acc.used \cup {entry.player} \cup Players(beam[1]),
                  found |-> Append(acc.found, beam[1])]

BeamSearch ==
    LET after[n \in 0..Len(queue)] ==
            IF n = 0 THEN Nothing ELSE BeamAnchor(after[n - 1], queue[n])
    IN after[Len(queue)].found

-----------------------------------------------------------------------------
(* Candidate generators *)

Split(players) ==
    ProposedMatch(SubSeq(players, 1, SizeA), SubSeq(players, SizeA + 1, Total))

\* The combinations of k that take an item, those of k - 1 of the items after
\* it being `shorter`.
With(item, shorter) == [i \in DOMAIN shorter |-> <<item>> \o shorter[i]]
\* combinations, from the last items on: of n items, those with the first of
\* them come first.
Combinations(items, size) ==
    LET last[n \in 0..Len(items)] ==
            [k \in 0..size |->
                IF k = 0 THEN << <<>> >>
                ELSE IF n = 0 THEN <<>>
                ELSE With(items[Len(items) - n + 1], last[n - 1][k - 1]) \o last[n - 1][k]]
    IN last[Len(items)][size]

ExhaustiveGenerator ==
    LET combos == Combinations(Queued, Total)
    IN [i \in DOMAIN combos |-> Split(combos[i])]

\* Players sorted by current rating, cut into consecutive matches.
GreedyNearestGenerator ==
    LET rating(p) == IF p \in DOMAIN world THEN world[p].rating ELSE Unrated
        sorted == Pick(Queued, StableDescending([i \in DOMAIN queue |-> 0 - rating(Queued[i])]))
        n == AtMost(MaxCandidates, Len(queue) \div Total)
    IN [i \in 1..n |-> Split(SubSeq(sorted, (i - 1) * Total + 1, i * Total))]

\* One sample: a shuffle's first Total entries.
RandomSamples ==
    IF Len(queue) < Total THEN {<<>>}
    ELSE {<<Split(Pick(Queued, order))>> :
          order \in {o \in [1..Total -> DOMAIN queue] :
                        \A i, j \in 1..Total : o[i] = o[j] => i = j}}

-----------------------------------------------------------------------------
(* Hard constraints *)

Members(id) == {p \in DOMAIN world : world[p].party = id}

\* Only the anchor's team is looked at.
FaultyPartyIntegrity(m) ==
    \A p \in ToSet(m.team_a) \cap DOMAIN world :
        world[p].party # None => Members(world[p].party) \subseteq Players(m)

PartyIntegrity(m) ==
    \A p \in Players(m) \cap DOMAIN world :
        world[p].party # None => Members(world[p].party) \subseteq Players(m)

WithRole(team, role) ==
    Cardinality({i \in DOMAIN team : team[i] \in DOMAIN world /\ world[team[i]].role = role})

MeetsRoles(team) ==
    \A req \in RoleRequirements :
        /\ WithRole(team, req.role) >= req.min_count
        /\ req.max_count # None => WithRole(team, req.role) <= req.max_count

\* TeamConstraint::validate is of one team, RoleConstraint of the whole match.
ValidTeam(team, size) == Len(team) = size /\ MeetsRoles(team)
RoleConstraint(m) == MeetsRoles(All(m))

\* The code asks for positive ratings where its name says latency.
MaxLatency(m) == \A p \in Players(m) \cap DOMAIN world : world[p].rating > 0

RegionConstraint(m) ==
    \A p \in ToSet(m.team_a) \cap DOMAIN world, q \in ToSet(m.team_b) \cap DOMAIN world :
        \E pair \in AllowedPairs :
            pair \in {<<world[p].region, world[q].region>>, <<world[q].region, world[p].region>>}

HardConstraints(m) ==
    /\ Full(m)
    /\ PartyIntegrity(m)
    /\ RoleConstraint(m)
    /\ MaxLatency(m)
    /\ RegionConstraint(m)

\* MatchPolicy::score: None stands for minus infinity.
PolicyScore(m) == IF HardConstraints(m) THEN WeightedSum(m) ELSE None

-----------------------------------------------------------------------------
(* Selection policies *)

\* max_by returns the last of several maxima.
GreedySelection(s) ==
    IF s = <<>> THEN s
    ELSE <<s[Max({i \in DOMAIN s : \A j \in DOMAIN s : WeightedSum(s[i]) >= WeightedSum(s[j])})]>>

\* Candidates are removed by the positions they had before any was removed: a
\* position that is past the end by then panics.
RemoveNext(r, position) ==
    IF r.panicked \/ position > Len(r.left) THEN [r EXCEPT !.panicked = TRUE]
    ELSE [left |-> RemoveAt(r.left, position), taken |-> Append(r.taken, r.left[position]),
          panicked |-> FALSE]
WeightedSelection(s) ==
    LET order == StableDescending([i \in DOMAIN s |-> SkillBalance(s[i])])
        removed[n \in 0..Len(s)] ==
            IF n = 0 THEN [left |-> s, taken |-> <<>>, panicked |-> FALSE]
            ELSE RemoveNext(removed[n - 1], order[n])
    IN IF removed[Len(s)].panicked THEN "panic" ELSE removed[Len(s)].taken

\* The best are kept, and what is better than they are by less than the tolerance.
FaultyKeepBest(s, k) ==
    LET best == Max({Objectives(s[i])[k] : i \in DOMAIN s})
    IN Keep(s, {m \in ToSet(s) : Objectives(m)[k] - Tolerance <= best})

\* Keep, objective after objective, the candidates as good as the best.
KeepBest(s, k) ==
    LET best == Max({Objectives(s[i])[k] : i \in DOMAIN s})
    IN Keep(s, {m \in ToSet(s) : Objectives(m)[k] >= best - Tolerance})
LexicographicSelection(s) ==
    IF s = <<>> THEN s ELSE KeepBest(KeepBest(KeepBest(s, 1), 2), 3)

\* The best candidate, if it reaches the threshold.
FaultyThresholdSelection(s) ==
    LET best == GreedySelection(s)
    IN IF best = <<>> \/ WeightedSum(best[1]) < MinQuality THEN <<>> ELSE best

ThresholdSelection(s) ==
    LET ok == {i \in DOMAIN s : WeightedSum(s[i]) >= MinQuality}
    IN IF ok = {} THEN <<>> ELSE <<s[Min(ok)]>>

-----------------------------------------------------------------------------
(* The library's caller: find candidates, then choose *)

Init ==
    /\ world \in Worlds
    /\ queue \in Queues
    /\ strategy = None /\ candidates = <<>>
    /\ policy = None /\ chosen = <<>>

Find(name, proposals) ==
    /\ strategy = None
    /\ strategy' = name
    /\ candidates' \in proposals
    /\ UNCHANGED <<world, queue, policy, chosen>>

RunGreedySearch == Find("greedy", {GreedySearch})
RunRandomSearch == Find("random", RandomSearches)
RunBeamSearch == Find("beam", {BeamSearch})
RunExhaustive == Find("exhaustive", {ExhaustiveGenerator})
RunGreedyNearest == Find("nearest", {GreedyNearestGenerator})
RunRandomSamples == Find("samples", RandomSamples)

Choose(name, selected) ==
    /\ strategy # None /\ policy = None
    /\ policy' = name
    /\ chosen' = selected
    /\ UNCHANGED <<world, queue, strategy, candidates>>

ChooseGreedy == Choose("greedy", GreedySelection(candidates))
ChooseWeighted == Choose("weighted", WeightedSelection(candidates))
ChooseLexicographic == Choose("lexicographic", LexicographicSelection(candidates))
ChooseThreshold == Choose("threshold", ThresholdSelection(candidates))

\* MatchPolicy: the candidates that satisfy its hard constraints.
ChooseAdmissible ==
    Choose("admissible", Keep(candidates, {m \in ToSet(candidates) : PolicyScore(m) # None}))

Next ==
    \/ RunGreedySearch \/ RunRandomSearch \/ RunBeamSearch
    \/ RunExhaustive \/ RunGreedyNearest \/ RunRandomSamples
    \/ ChooseGreedy \/ ChooseWeighted \/ ChooseLexicographic
    \/ ChooseThreshold \/ ChooseAdmissible

Spec == Init /\ [][Next]_vars

-----------------------------------------------------------------------------
(* Properties *)

NoDuplicates(s) == \A i, j \in DOMAIN s : s[i] = s[j] => i = j
Searches == {"greedy", "random", "beam"}

\* Whatever finds them, proposed matches are full teams of queued players, no
\* player is twice in a match, and a search never proposes a player for two
\* matches.  (The random strategies draw entries, not players: they need a
\* queue without duplicates, which Queue::enqueue does not ensure.)
ProposalsSound ==
    strategy \in {"greedy", "beam"} \/ NoDuplicates(Queued) =>
        /\ \A i \in DOMAIN candidates :
              /\ Full(candidates[i])
              /\ NoDuplicates(All(candidates[i]))
              /\ Players(candidates[i]) \subseteq ToSet(Queued)
        /\ strategy \in Searches =>
              \A i, j \in DOMAIN candidates :
                  i # j => Players(candidates[i]) \cap Players(candidates[j]) = {}

\* A search never leaves enough players for another match unmatched, although
\* an anchor that finds no partners is given up and its picks with it.
NoMatchLeftUnformed ==
    strategy \in Searches /\ NoDuplicates(Queued) =>
        Len(candidates) = Len(queue) \div Total

\* The registry that holds the parties the observations name.
PartyRegistry == INSTANCE Parties WITH
    registry <- [id \in {world[p].party : p \in DOMAIN world} \ {None} |-> Members(id)],
    next_id <- 0, active <- {}, Player <- {}, SizeLimits <- {None}, MaxParties <- 0

\* A candidate as good as any by the first objective.
AsBalanced(m, s) == \A n \in ToSet(s) : SkillBalance(m) >= SkillBalance(n) - Tolerance

\* What a policy chooses are candidates, and the ones it names: the greedy one
\* has the best sum; the lexicographic ones lose no more than the tolerance by the
\* first objective to any candidate, and by the second to any that is as good by
\* the first; the threshold's is the first that reaches it; the admissible ones
\* keep every party of the registry together (check_party_integrity); and nothing
\* is chosen only if nothing could be.
SelectionSound ==
    policy \in {"greedy", "lexicographic", "threshold", "admissible"} =>
        /\ ToSet(chosen) \subseteq ToSet(candidates)
        /\ policy = "greedy" =>
              \A m \in ToSet(chosen), n \in ToSet(candidates) : WeightedSum(m) >= WeightedSum(n)
        /\ policy = "lexicographic" =>
              \A m \in ToSet(chosen), n \in ToSet(candidates) :
                  /\ SkillBalance(m) + Tolerance >= SkillBalance(n)
                  /\ AsBalanced(n, candidates) => Latency(m) + Tolerance >= Latency(n)
        /\ policy = "threshold" /\ chosen # <<>> =>
              \E i \in DOMAIN candidates :
                  /\ chosen = <<candidates[i]>> /\ WeightedSum(candidates[i]) >= MinQuality
                  /\ \A j \in 1..(i - 1) : WeightedSum(candidates[j]) < MinQuality
        /\ chosen = <<>> =>
              \A m \in ToSet(candidates) :
                  \/ policy = "threshold" /\ WeightedSum(m) < MinQuality
                  \/ policy = "admissible" /\ PolicyScore(m) = None
        /\ policy = "admissible" =>
              \A m \in ToSet(chosen) : PartyRegistry!IntegrityKept(Players(m))
=============================================================================
