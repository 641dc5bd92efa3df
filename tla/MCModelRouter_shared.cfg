SPECIFICATION FairSpec
CONSTANTS
    Requests = {r1}
    Tiers = {"default", "opus"}
    Mapping <- MCShared
    Provider <- MCProvider
    Pooled = {"p"}
    Strategies = {"round_robin"}
    CooldownSeconds = 1
    MaxConsecutiveErrors = 1
    ToolRetryMax = 1
PROPERTIES LadderEnds
