SPECIFICATION FairRotationSpec
CONSTANTS
    Spawners = {s1, s2}
    Inliners = {i1}
    Syncs = {reload}
    NoTask = NoTask
    RotationInterval = 1
    CommandsMayFail = TRUE
    LeftOverBound = 1
INVARIANTS RotationRenews
PROPERTIES RotationsSpaced TasksReturn
