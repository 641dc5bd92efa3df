SPECIFICATION Spec
CONSTANTS
    Names = {"default", "work"}
    Contents = {"keys"}
    NewContent = "keys"
    DefaultConfig <- MCDefault
    EnvConfig <- MCEnv
    InitialFiles <- MCInitial
    Edits <- MCEdits
    Absent = Absent
    Unreadable = Unreadable
    NoConfig = NoConfig
    ChannelCapacity = 1
    MaxChanges = 2
    MaxCrashes = 1
CHECK_DEADLOCK FALSE
INVARIANTS TypeOK QuiescentAgreement AckedOnDisk
PROPERTIES SaveAtomic Settles
