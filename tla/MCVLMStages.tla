------------------------------ MODULE MCVLMStages ------------------------------
(* Model-checking instances of VLMStages. *)
EXTENDS VLMStages, TLC
CONSTANTS p1, p2, p3, a, b

\* Two photos of one person, one of another.
Person == (p1 :> a) @@ (p2 :> a) @@ (p3 :> b)

Symmetry == Permutations(Runs)
===============================================================================
