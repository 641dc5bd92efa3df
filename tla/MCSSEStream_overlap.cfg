SPECIFICATION Spec
CONSTANTS
    Loops = {"openai_compat", "kimi", "puter"}
    Names <- MCNames
    Task <- MCTask
    MaxAttempts = 1
    MaxHttpRetries = 2
    ArgsBound = 1
    BlocksBound = 3
INVARIANT OneBlockAtATime
CHECK_DEADLOCK FALSE
