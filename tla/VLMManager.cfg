SPECIFICATION FairSpec
CONSTANTS
    Callers = {c1}
    Timers = {t1}
    Loops = {l1, l2}
    Providers = {p1}
    NoProvider = nil
    NoLoop = noctx
    KeepAlive = FALSE
    MaxRestarts = 1
INVARIANTS
    ReadyIsMonitored
    ReadyStopsWhenIdle
    RestartBudget
PROPERTIES
    DeadServerNoticed
    TransientStatesEnd
CHECK_DEADLOCK FALSE
