SPECIFICATION FairSpec
CONSTANTS
    Requests = {r1}
    Tiers = {"default"}
    Mapping <- MCSingle
    Provider <- MCProvider
    Pooled = {"p"}
    Strategies = {"round_robin", "random", "least_errors"}
    CooldownSeconds = 1
    MaxConsecutiveErrors = 2
    ToolRetryMax = 1
PROPERTIES LadderEnds
