SPECIFICATION Spec
CONSTANTS
    Requests = {r1, r2}
    Tiers = {"default"}
    Mapping <- MCPair
    Provider <- MCProvider
    Pooled = {"p"}
    Strategies = {"round_robin"}
    CooldownSeconds = 1
    MaxConsecutiveErrors = 2
    ToolRetryMax = 0
SYMMETRY RequestSymmetry
INVARIANTS TypeOK NoModelStranded
PROPERTIES NoFallbackMissed
