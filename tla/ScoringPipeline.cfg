SPECIFICATION PipelineSpec
CONSTANTS
    Finders = {d1, d2}
    Gauges = {sharpness}
    Recognizers = 2
    MaxFaces = 2
INVARIANTS
    OnlyCancellationFails
    ScoresAreComplete
    UnskippedVectorsMatch
CHECK_DEADLOCK FALSE
