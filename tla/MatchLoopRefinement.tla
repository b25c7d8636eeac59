------------------------ MODULE MatchLoopRefinement ------------------------
(***************************************************************************)
(* MatchLoop implements MatchPool.  A player waits while the queue holds   *)
(* an entry of theirs; a match is being played from the MatchTimer tick    *)
(* that forms it to the MatchEnd tick that completes it; every other tick  *)
(* is a stutter.                                                           *)
(***************************************************************************)
EXTENDS MatchLoop

LiveMatches == { [id |-> m, a |-> roster[m].a, b |-> roster[m].b] :
                     m \in { n \in MatchIds : Live(n) } }

Pool == INSTANCE MatchPool WITH
            waiting  <- Waiting,
            playing  <- LiveMatches,
            started  <- formed,
            finished <- completed

(* Every tick of the engine is a step of the pool of players, or leaves it *)
(* as it is: no player is enqueued twice, or while in a match; teams are   *)
(* drawn from the queue and leave it; a match finishes once.               *)
ImplementsPool == Pool!PoolSpec
=============================================================================
