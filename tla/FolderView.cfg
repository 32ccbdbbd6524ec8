SPECIFICATION Spec
CONSTANTS
    a = a
    b = b
    A = A
    B = B
    l1 = l1
    l2 = l2
    w1 = w1
    w2 = w2
    r1 = r1
    r2 = r2
    Photos = {a, b}
    Folders = {A, B}
    Libraries <- SmallLibraries
    FolderOf <- InFolder
    Loads = {l1, l2}
    Workers = {w1, w2}
    WorkersOf <- WorkerOf
    Requests = {r1, r2}
    MaxConnections = 2
    Chunks = 2
    None = None
    MaxVersion = 2
    ScannerWorkers = 1
    BatchSize = 1
    MaxCalls = 4
    MaxDisturbances = 1
SYMMETRY Symmetry
INVARIANTS
    QuietCachesAreWhole
    ThumbsAreCurrent
    FlightsAreLed
    GridIsCurrent
CHECK_DEADLOCK FALSE
