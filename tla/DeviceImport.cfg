SPECIFICATION FairSpec
CONSTANTS
    stick = stick
    camera = camera
    n1 = n1
    n2 = n2
    a = a
    b = b
    c = c
    i1 = i1
    i2 = i2
    Devices = {stick, camera}
    Mounted = {stick}
    SerialOf <- Serial
    DirOf <- Directory
    Names = {n1, n2}
    Contents = {a, b, c}
    SizeOf <- Sizes
    Cards <- Files0
    Imports = {i1, i2}
    None = None
    MaxFileCount = 2
    MaxLoads = 2
    MaxDisturbances = 2
INVARIANTS
    ToldOnceEach
    ListIsCurrent
PROPERTIES
    ImportsAreComplete
    DevicesAreNoticed
CHECK_DEADLOCK FALSE
