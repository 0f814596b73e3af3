CONSTANTS
    Openers = {"gateway", "cli"}
    MigrationCount = 3
    Callers = {"c1", "c2"}
    Texts <- MCTexts
    NoteIds = {"n1", "n2"}
    MaxEvents = 2
    TopK = 2
    Ops = {"1", "2"}
    MaxBytes = 3
    BodyChars = {0, 2, 4}
    MaxBody = 5
    SearchCount = 3
    SkillCalls = {"1", "2"}
    MaxStarts = 2
    Scripts = {1, 2}
    MaxTabs = 1
    Ids = {a, b}
    Editors = {e1}
    MaxConcurrent = 1
    MaxSchedules = 2
    DisableAfter = 2
    MaxHistory = 2
    Period = 1
    OnceTimes = {1}
    MaxTime = 2
    MaxFailures = 2
    MaxFaults = 1
    MaxStored = 4
    PageLimit = 1
    MaxChars = 3
    Widths = {1, 2, 3}
    None = None
    Gone = Gone
SPECIFICATION MCSpec
INVARIANTS
    DatabaseComplete
    MemoryConsistent
    FilesSafe
    WebAnswersSound
    LocksReleased
    SchedulesExact
PROPERTIES
    SkillsStored
    ExecutorNeverResumes
    SchedulesServed
CHECK_DEADLOCK FALSE
