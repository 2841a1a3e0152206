CONSTANTS
    Free = Free
    NoRequest = NoRequest
    Devices = {d1}
    Frames = {f1, f2}
    SequenceNumbers = {1, 2, 3}
    Int64Limit = 3
    Callers = {c1, c2, c3}
SPECIFICATION FairSpec
INVARIANTS TypeOK GrantsIncrease GrantsRemembered
PROPERTIES ImplementsReplayGuard CallsReturn
