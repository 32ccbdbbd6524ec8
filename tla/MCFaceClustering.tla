--------------------------- MODULE MCFaceClustering ---------------------------
(* Model checking of FaceClustering: faces are points of the plane, and two  *)
(* centroids are the more similar the nearer they are.                       *)
EXTENDS FaceClustering, FiniteSetsExt

\* A triangle, and two points beside it.
Points == {<<0, 0>>, <<1, 0>>, <<0, 1>>, <<2, 1>>, <<1, 2>>}

\* 12 times the mean, which is exact for up to four faces.
Mean(at, A, k) == MapThenSumSet(LAMBDA f : 12 * at[f][k], A) \div Cardinality(A)

\* No two of them are farther from each other than 27, so it is positive.
Nearness(at, A, B) ==
    IF A = {} \/ B = {}
    THEN 0
    ELSE LET Off(k) == Mean(at, A, k) - Mean(at, B, k)
         IN  2000 - Off(1) ^ 2 - Off(2) ^ 2

MCSimilarities ==
    {[p \in FaceSets \X FaceSets |-> Nearness(at, p[1], p[2])] : at \in [Taken -> Points]}
===============================================================================
