CONSTANTS
    MaxUserTurns = 2
    MaxTurns = 2
    MaxCalls = 3
    Replies <- MCReplies
    Costs = {0, 2}
    Budget = 3
    Modes = {"none", "softFail", "enforce"}
    MinTurns = 3
    MinUnsummarized = 2
    Threads = {t1, t2}
    Amounts = {0, 2}
    InitialBudget = 2
    MaxSettled = 3
    WordSize = 20
    Unset = Unset
    RunTools = {"a", "b", "delegate_to_agent"}
    MaxWord = 9
    GlobalLayers <- MCGlobalLayers
    AgentLayers <- MCAgentLayers
    RunLayers <- MCRunLayers
    ScheduleConfigs <- MCScheduleConfigs
    Requests <- MCRequests
    RunCosts = {0, 1}
    MaxDelegationDepth = 2
    MaxClock = 2
    Apis = {"anthropic", "openai", "gemini", "responses"}
    Answers <- MCAnswers
    MaxAttempts = 2
    ChainSessions = {s1}
    MaxMessages = 7
    MaxResponses = 4
    MaxItems = 3
    Scrubbing = TRUE
    Window = 9
    SafetyBuffer = 1
    SchemaTokens = 1
    Sizes = {1, 3}
    RetrievedSizes = {0, 2}
    TriggerTokens = 6
    TargetTokens = 5
    SummaryMinTurns = 3
    MaxEntries = 3
    MaxDigest = 4
    MaxConvo = 7
SPECIFICATION MCSpec
INVARIANTS
    HistoryUsable
    BudgetConserved
    ProviderAnswerExact
    
    CallerReadsWholeRun
    WindowKeepsPrompt
PROPERTIES
    FailedTurnKeepsHistory
    DelegationConfined
    RuntimeCallsEnd
CHECK_DEADLOCK FALSE
