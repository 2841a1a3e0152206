CONSTANTS
    Free = Free
    NoRequest = NoRequest
    Devices = {d1, d2}
    Frames = {f1, f2}
    SequenceNumbers = {1, 2}
    Int64Limit = 2
    Callers = {c1, c2}
    MaxMemorySeenFrames = 1
    TestLimits = {0, 2}
SPECIFICATION FairSpec
INVARIANT TypeOK
PROPERTIES ImplementsReplayGuard SeenFramesCapped CallsReturn
