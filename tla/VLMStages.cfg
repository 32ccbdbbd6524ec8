SPECIFICATION StagesSpec
CONSTANTS
    p1 = p1
    p2 = p2
    p3 = p3
    a = a
    b = b
    Photos = {p1, p2, p3}
    PersonOf <- Person
    Runs = {r1, r2}
    NoRun = norun
    Instructions = {empty, brief}
    Empty = empty
    NoRow = norow
    Tier = "power"
    GroupSize = 2
    LargeBatch = 500
    MaxDisturbances = 3
SYMMETRY Symmetry
INVARIANTS
    RowsAgree
    RankingsAreWhole
PROPERTY SelectedAreDescribed
CHECK_DEADLOCK FALSE
