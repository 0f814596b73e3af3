CONSTANTS
    t1 = t1
    t2 = t2
    t3 = t3
    s1 = s1
    s2 = s2
    Turns <- MCTurns3
    Sessions <- MCSessions
    SessionOf <- MCSessionOf3
    MaxConcurrent = 1
    MaxQueued = 1
    NoTurn = NoTurn
    NoFrame = NoFrame
SPECIFICATION StuckRuntimeSpec
INVARIANTS
    TypeOK
    PermitsConserved
    QueueCounterExact
    OneTurnPerSession
    TurnFramesOrdered
PROPERTIES
    ImplementsTurnService
    TurnsEnd
