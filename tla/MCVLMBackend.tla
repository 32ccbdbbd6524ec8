----------------------------- MODULE MCVLMBackend -----------------------------
(* Model-checking instances of VLMBackend. *)
EXTENDS VLMBackend, TLC

Symmetry == Permutations(Callers) \cup Permutations(Launches)
===============================================================================
