SPECIFICATION ClusterFairSpec
CONSTANTS
    FaceCount = 5
    MaxClusterFaces = 4
    Threshold = 1600
    Similarities <- MCSimilarities
INVARIANTS
    FacesAreSplit
    ClustersAreApart
PROPERTIES
    ClusteringEnds
CHECK_DEADLOCK FALSE
