SPECIFICATION Spec
CONSTANTS
    Names = {"default", "work"}
    Contents = {"keys"}
    NewContent = "keys"
    DefaultConfig <- MCDefault
    EnvConfig <- MCEnv
    InitialFiles <- MCInitial
    Edits <- MCEdits
    Absent = Absent
    Unreadable = Unreadable
    NoConfig = NoConfig
    ChannelCapacity = 4
    MaxChanges = 3
    MaxCrashes = 0
CHECK_DEADLOCK FALSE
PROPERTIES AcknowledgedKept
