CONSTANTS
    ShellCalls = 3
    OutBytes = 1
    ErrBytes = 0
    WideAt = {}
    SessionBytes = 3
    ChunkBytes = 2
    MaxDrops = 2
    MaxSockets = 3
SPECIFICATION ShellSpec
INVARIANTS
    OutputIsOwn
CHECK_DEADLOCK FALSE
