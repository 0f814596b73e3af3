CONSTANTS
    t1 = t1
    t2 = t2
    s1 = s1
    s2 = s2
    Turns <- MCTurns
    Sessions <- MCSessions
    SessionOf <- MCSessionOf
    MaxConcurrent = 1
    MaxQueued = 1
    NoTurn = NoTurn
    NoFrame = NoFrame
    Conns = {c1}
    BufferCapacity = 2
    Notices = {1, 2, 3}
    ChunksOf <- MCChunks
    RemapThreshold = 2
    MediaRetries = 1
    MaxText = 6
    MaxLen = 3
    HtmlInputs <- MCHtmlInputs
    MaxParts = 2
    MaxEvents2 = 6
    MaxHistory = 3
    Visible = 1
    UsizeMax = 9
    MaxInput = 2
SPECIFICATION MCSpec
INVARIANTS
    OutcomesReachClients
    NotificationsDelivered
    AnswerShown
CHECK_DEADLOCK FALSE
