SPECIFICATION Spec
CONSTANTS
    Requests = {r1, r2}
    MaxPairs = 4
    MaxRevocations = 2
    MaxCrashes = 1
INVARIANTS LoginKept RefusalSurvived RenewalsValid
PROPERTIES RequestsEnd
CHECK_DEADLOCK FALSE
