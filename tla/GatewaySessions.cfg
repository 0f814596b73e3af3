CONSTANTS
    Ids = {d, i}
    DefaultId = d
    Objs = {o1, o2}
    Callers = {c1, c2}
    MaxSessions = 1
    MayFail = {"get", "archive"}
    None = None
SPECIFICATION FairSpec
INVARIANTS
    SessionsConsistent
PROPERTIES
    IdleSessionsAloneEvicted
