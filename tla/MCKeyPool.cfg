SPECIFICATION Spec
CONSTANTS
    Callers = {c1, c2}
    NumKeys = 2
    Strategies = {"round_robin", "random"}
    CooldownSeconds = 1
    CooldownCap = 2
    MaxConsecutiveErrors = 2
    MaxSameKeyRetries = 0
    EscalationBound = 2
    TotalErrorsBound = 0
SYMMETRY CallerSymmetry
INVARIANTS TypeOK NoKeyStranded ErrorThresholdCools
PROPERTY CooldownRunsOut
