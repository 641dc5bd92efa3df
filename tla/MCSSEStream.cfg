SPECIFICATION FairSpec
CONSTANTS
    Loops = {"openai_compat", "kimi", "puter"}
    Names <- MCNames
    Task <- MCTask
    MaxAttempts = 2
    MaxHttpRetries = 2
    ArgsBound = 2
    BlocksBound = 4
INVARIANTS TypeOK InputComplete
PROPERTIES StreamProtocol StreamEnds
CHECK_DEADLOCK FALSE
