CONSTANTS
    BotScripts <- MCScripts
    MaxUpdates = 3
    MaxChatSessions = 2
    MaxDeltas = 1
    SplitAt = 1
    MaxPerMessage = 1
    EventCapacity = 3
    MaxTurnsTui = 2
    MaxKeys = 1
    MaxLosses = 1
    WebUsers = {"alice", "bob"}
    Budgets <- MCBudgets
    ShellCalls = 3
    OutBytes = 1
    ErrBytes = 6
    WideAt = {1, 3}
    SessionBytes = 6
    ChunkBytes = 3
    MaxDrops = 2
    MaxSockets = 4
SPECIFICATION MCSpec
INVARIANTS
    ChatsAnswered
    PromptRunsWhereTyped
    PageConsistent
    ShellAnswersSound
PROPERTIES
    ClientsUnblocked
CHECK_DEADLOCK FALSE
