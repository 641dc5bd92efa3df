SPECIFICATION Spec
CONSTANTS
    Callers = {c1, c2}
    NumKeys = 2
    Strategies = {"round_robin"}
    CooldownSeconds = 2
    CooldownCap = 2
    MaxConsecutiveErrors = 2
    MaxSameKeyRetries = 0
    EscalationBound = 1
    TotalErrorsBound = 0
PROPERTY CoolingKeySkipped
