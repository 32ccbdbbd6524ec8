SPECIFICATION Spec
CONSTANTS
    m = m
    z = z
    a = a
    b = b
    c = c
    Names = {m, z}
    Pictures = {a, b, c}
    None = None
    Torn = Torn
    Near <- Alike
    Libraries <- SmallLibraries
    Deepest = 2
    Walk <- LexicalOrder
    MaxExports = 1
    MaxDisturbances = 2
INVARIANTS
    PicturesSurvive
    GroupsKeepOne
    ResultsAreComplete
    ExportedMeansCopied
CHECK_DEADLOCK FALSE
