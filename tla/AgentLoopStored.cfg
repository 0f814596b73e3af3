CONSTANTS
    MaxUserTurns = 2
    MaxTurns = 2
    MaxCalls = 3
    Replies <- OneCallReplies
    Costs = {0, 2}
    Budget = 3
    Modes = {"none"}
    MinTurns = 3
    MinUnsummarized = 2
SPECIFICATION Spec
INVARIANTS
    UserMessageStored
