SPECIFICATION FairSpec
CONSTANTS
    Requests = {r1, r2}
    Tiers = {"default"}
    Mapping <- MCPair
    Provider <- MCProvider
    Pooled = {"p"}
    Strategies = {"round_robin", "least_errors"}
    CooldownSeconds = 1
    MaxConsecutiveErrors = 1
    ToolRetryMax = 0
INVARIANTS NoModelStranded
PROPERTIES NoFallbackMissed LadderEnds
