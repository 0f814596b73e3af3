CONSTANTS
    Ids = {d, i}
    DefaultId = d
    Objs = {o1, o2}
    Callers = {c1, c2}
    MaxSessions = 1
    MayFail = {}
    None = None
SPECIFICATION Spec
INVARIANTS
    OneLiveTurnPerSessionId
