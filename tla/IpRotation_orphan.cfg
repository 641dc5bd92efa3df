SPECIFICATION RotationSpec
CONSTANTS
    Spawners = {s1}
    Inliners = {i1}
    Syncs = {reload}
    NoTask = NoTask
    RotationInterval = 1
    CommandsMayFail = FALSE
    LeftOverBound = 1
INVARIANTS TunnelUpWhenDone
