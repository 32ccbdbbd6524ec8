SPECIFICATION FairSpec
CONSTANTS
    Callers = {c1, c2}
    Launches = {p1, p2, p3}
    NoCaller = nobody
    NoLaunch = nil
    MaxAttempts = 2
    MaxCalls = 3
INVARIANTS
    ServersAreManaged
    FieldsAgree
PROPERTY CallsReturn
CHECK_DEADLOCK FALSE
