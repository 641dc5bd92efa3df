SPECIFICATION RotationSpec
CONSTANTS
    Spawners = {s1, s2}
    Inliners = {}
    Syncs = {reload}
    NoTask = NoTask
    RotationInterval = 2
    CommandsMayFail = TRUE
    LeftOverBound = 1
PROPERTIES SkipsOnlyWhenRotated
