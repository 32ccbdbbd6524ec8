SPECIFICATION Spec
CONSTANTS
    p = p
    q = q
    Photos = {p, q}
    PersonOf <- MCPersonOf
    Runs = {r, s}
    NoRun = none
    NoPhoto = nophoto
    Workers = 1
    MaxVersion = 2
    MaxDetections = 6
    MaxClusters = 6
    MaxDisturbances = 2
INVARIANTS ScoredRunsAreThorough ClustersAreExact ShownMeansRunning
SYMMETRY Symmetry
CHECK_DEADLOCK FALSE
