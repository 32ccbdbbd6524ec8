----------------------------- MODULE MCVLMManager -----------------------------
(* Model-checking instances of VLMManager. *)
EXTENDS VLMManager, TLC

\* Callers are interchangeable, and so are monitors (safety runs only).
Symmetry == Permutations(Callers) \cup Permutations(Loops)
===============================================================================
