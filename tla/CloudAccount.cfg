SPECIFICATION AccountFairSpec
CONSTANTS
    Attempts = {t1, t2}
    Contexts = {m1}
    AppContext = app
    Nobody = nobody
    MaxCallbacks = 2
INVARIANTS
    SettledAccountLasts
PROPERTIES
    FlowsEndUnlessHeld
