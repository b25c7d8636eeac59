---------------------------- MODULE MCMatchLoop ----------------------------
(* Finite instances of MatchLoop.  Players are interchangeable, so that    *)
(* the runs that check no liveness may identify states up to a permutation *)
(* of them.                                                                *)
EXTENDS MatchLoopRefinement, TLC

PlayerSymmetry == Permutations(Players)
=============================================================================
