SPECIFICATION UpdaterFairSpec
CONSTANTS
    Loop = loop
    Workers = {w1, w2}
PROPERTIES
    RestartsIntoUpdate
    TransientStatesEnd
CHECK_DEADLOCK FALSE
