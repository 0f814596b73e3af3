CONSTANTS
    Tiers = {"container", "linux", "process"}
    MaxRunners = 2
    Commanders = {"cli", "web"}
    MaxCommands = 2
    EditorKinds = {"runner", "agent"}
    Pages = {1, 2}
    EntryKeys = {"a"}
    ConfRequests = {1, 2}
    ConfUsers = {"u", "v"}
    ConfPaths = {"p", "q"}
    KeepBackups = 1
    MaxEdits = 2
    Processes = {1, 2, 3}
    Upstream = {1, 2}
    Texts = {1, 2, 4}
    FirstTails = {1}
    PollTail = 2
    Payload = 3
    SeenLimit = 2
    MaxLines = 3
SPECIFICATION MCSpec
INVARIANTS
    EndedRunnersLeaveNothing
PROPERTIES
    CommandsEnd
    ConfigKept
    GuestAsConfigured
    LogsComplete
CHECK_DEADLOCK FALSE
