------------------------------ MODULE MCUpdater ------------------------------
(* Model checking of Updater.                                              *)
EXTENDS Updater, TLC

Symmetry == Permutations(Workers)
===============================================================================
