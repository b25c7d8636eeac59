----------------------------- MODULE MatchPool -----------------------------
(***************************************************************************)
(* What the simulation promises about its players, without clock, events   *)
(* or ratings: they wait, they are taken from the waiting into two         *)
(* disjoint teams of a match, the match finishes, they may wait again.  At *)
(* most MaxMatches are started and each is finished at most once.          *)
(* MatchLoop implements it (MatchLoopRefinement).                          *)
(***************************************************************************)
EXTENDS Integers, FiniteSets

CONSTANTS Players, SizeA, SizeB, MaxMatches

VARIABLES
    waiting,    \* players in the queue
    playing,    \* matches started and not finished
    started,    \* how many matches have been started: also the next id
    finished    \* how many of them have finished

pool == <<waiting, playing, started, finished>>

IsTeam(S, size) == S \subseteq waiting /\ Cardinality(S) = size

Busy == UNION { m.a \cup m.b : m \in playing }

PoolInit == waiting = {} /\ playing = {} /\ started = 0 /\ finished = 0

(* Only a player who neither waits nor plays may begin to wait.            *)
Enqueue(p) ==
    /\ p \notin waiting \cup Busy
    /\ waiting' = waiting \cup {p}
    /\ UNCHANGED <<playing, started, finished>>

(* Matches are started together, with consecutive ids, from the waiting.   *)
Start(new) ==
    LET taken == UNION { m.a \cup m.b : m \in new } IN
    /\ { m.id : m \in new } = started .. started + Cardinality(new) - 1
    /\ started + Cardinality(new) <= MaxMatches
    /\ \A m \in new : IsTeam(m.a, SizeA) /\ IsTeam(m.b, SizeB) /\ m.a \cap m.b = {}
    /\ \A m, n \in new : m # n => (m.a \cup m.b) \cap (n.a \cup n.b) = {}
    /\ playing' = playing \cup new
    /\ waiting' = waiting \ taken
    /\ started' = started + Cardinality(new)
    /\ UNCHANGED finished

Finish(m) ==
    /\ playing' = playing \ {m}
    /\ finished' = finished + 1
    /\ UNCHANGED <<waiting, started>>

PoolNext ==
    \/ \E p \in Players : Enqueue(p)
    \/ Start(playing' \ playing)
    \/ \E m \in playing : Finish(m)

PoolSpec == PoolInit /\ [][PoolNext]_pool
=============================================================================
