SPECIFICATION EngineFairSpec
CONSTANTS
    Startup = startup
    Requests = {s1, s2}
    Detectors = {detector}
    Embedders = {embedder}
    Sourced = {detector}
    LibChunks = {k1, k2}
INVARIANTS
    SettledLibraryIsWhole
    SuccessMeansAvailable
PROPERTIES
    ModelsInstallAtomically
    SetupsLeaveNoneEmpty
    SetupsEnd
