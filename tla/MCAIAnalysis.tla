---------------------------- MODULE MCAIAnalysis ----------------------------
EXTENDS AIAnalysis, TLC

CONSTANTS p, q

\* Two photos of two people.
MCPersonOf == [x \in {p, q} |-> x]

Symmetry == Permutations(Photos) \cup Permutations(Runs)
=============================================================================
