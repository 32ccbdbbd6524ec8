-------------------------- MODULE MCScoringPipeline --------------------------
(* Model checking of ScoringPipeline.                                      *)
EXTENDS ScoringPipeline, TLC

Symmetry == Permutations(Finders)
===============================================================================
