SPECIFICATION FairScanSpec
CONSTANTS
    Callers = {c1, c2}
    NumKeys = 2
    Strategies = {"round_robin", "random", "least_errors"}
    CooldownSeconds = 1
    CooldownCap = 1
    MaxConsecutiveErrors = 1
    MaxSameKeyRetries = 1
    EscalationBound = 0
    TotalErrorsBound = 1
INVARIANTS TypeOK NoKeyStranded ErrorThresholdCools NoUsableKeyMissed
PROPERTIES CooldownRunsOut KeyRejoins
