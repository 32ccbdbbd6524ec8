---------------------------- MODULE FaceClustering ----------------------------
(***************************************************************************)
(* ClusterFacesAgglomerative (scoring/clustering.go): every face begins as *)
(* a cluster, and the closest two are merged as long as they are close     *)
(* enough.  One action is one round of the loop.                           *)
(*                                                                         *)
(* Faces are numbered in the order they are given in.  A centroid is known *)
(* by the faces it is the mean of, and how similar two are is an input, as *)
(* the arithmetic of vectors is left out.                                  *)
(***************************************************************************)
EXTENDS Integers

CONSTANTS
    FaceCount,       \* the faces given
    MaxClusterFaces, \* those that are clustered
    Threshold,       \* the similarity that suffices
    Similarities     \* what CosineSim may be, on pairs of centroids

\* The first maxClusterFaces of them.
Taken == {i \in 1 .. FaceCount : i <= MaxClusterFaces}
FaceSets == SUBSET Taken

\* The cosine of two vectors does not depend on their order.
Symmetric(s) == \A A, B \in FaceSets : s[<<A, B>>] = s[<<B, A>>]

VARIABLES
    similarity, \* CosineSim of two centroids
    members,    \* Faces of every cluster
    centroid,   \* Centroid: the faces it is the mean of
    active,     \* which clusters have not been merged into another
    merging     \* the loop goes on

clusterVars == <<similarity, members, centroid, active, merging>>

ClusterTypeOK ==
    /\ similarity \in {s \in Similarities : Symmetric(s)}
    /\ members \in [Taken -> FaceSets]
    /\ centroid \in [Taken -> FaceSets]
    /\ active \subseteq Taken
    /\ merging \in BOOLEAN

-------------------------------------------------------------------------------

SimOf(A, B) == similarity[<<A, B>>]
Sim(i, j) == SimOf(centroid[i], centroid[j])

Pairs == {p \in active \X active : p[1] < p[2]}

\* The first of the closest pairs, in the order of the two loops.
Before(p, q) == \/ p[1] < q[1]
                \/ p[1] = q[1] /\ p[2] < q[2]
Closest(i, j) ==
    /\ <<i, j>> \in Pairs
    /\ \A p \in Pairs : \/ Sim(p[1], p[2]) < Sim(i, j)
                        \/ Sim(p[1], p[2]) = Sim(i, j) /\ ~Before(p, <<i, j>>)

\* The later cluster goes into the earlier one, whose centroid becomes the
\* mean of all their faces.
Merge(i, j) ==
    /\ merging
    /\ Closest(i, j)
    /\ Sim(i, j) >= Threshold
    /\ members' = [members EXCEPT ![i] = @ \cup members[j]]
    /\ centroid' = [centroid EXCEPT ![i] = members'[i]]
    /\ active' = active \ {j}
    /\ UNCHANGED <<similarity, merging>>

\* No pair is close enough; the active clusters are returned in their order.
Stop ==
    /\ merging
    /\ \A p \in Pairs : Sim(p[1], p[2]) < Threshold
    /\ merging' = FALSE
    /\ UNCHANGED <<similarity, members, centroid, active>>

-------------------------------------------------------------------------------

ClusterInit ==
    /\ similarity \in {s \in Similarities : Symmetric(s)}
    /\ members = [i \in Taken |-> {i}]
    /\ centroid = [i \in Taken |-> {i}]
    /\ active = Taken
    /\ merging = TRUE

ClusterNext == Stop \/ \E i, j \in Taken : Merge(i, j)

ClusterSpec == ClusterInit /\ [][ClusterNext]_clusterVars

ClusterFairSpec == ClusterSpec /\ WF_clusterVars(ClusterNext)

-------------------------------------------------------------------------------
(* What holds.                                                             *)

\* The clusters split the faces, whatever has been merged into what: each is
\* in one, and only in one.  Each has the place of its first face, which is
\* what the numbers of the persons are given by.
FacesAreSplit ==
    /\ \A f \in Taken : \E i \in active : f \in members[i]
    /\ \A i, j \in active : i # j => members[i] \cap members[j] = {}
    /\ \A i \in active : i \in members[i] /\ \A f \in members[i] : i <= f

\* "Until no qualifying pair remains": of the clusters that are returned no
\* two are close by what their faces are now, although similarities are only
\* computed from centroids kept from earlier rounds.
ClustersAreApart ==
    ~merging => \A i, j \in active :
                    i # j => SimOf(members[i], members[j]) < Threshold

\* The loop ends.
ClusteringEnds == <>~merging

\* Why ClustersAreApart holds: the centroid of an active cluster is the mean of
\* all its faces.
CentroidsAreCurrent == \A i \in active : centroid[i] = members[i]

ClusterInv ==
    /\ ClusterTypeOK
    /\ FacesAreSplit
    /\ CentroidsAreCurrent
    /\ ClustersAreApart
===============================================================================
