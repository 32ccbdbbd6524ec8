SPECIFICATION Spec
CONSTANTS
    Callers = {c1, c2}
    Timers = {t1}
    Loops = {l1, l2}
    Providers = {p1}
    NoProvider = nil
    NoLoop = noctx
    KeepAlive = FALSE
    MaxRestarts = 1
INVARIANT OffMeansStopped
CHECK_DEADLOCK FALSE
