SPECIFICATION FairSpec
CONSTANTS
    Runs = {r1, r2}
    NoKey = NoKey
    TTL = 3
    ClockSkew = 0
    Deadline = 3
    MaxClock = 8
    Devices <- MCDevices
    Frames <- MCFrames
    SequenceNumbers <- MCSequenceNumbers
    NoRequest = NoRequest
    Int64Limit = 64
    AllowedPackages = {"com.android.settings"}
    SensitivePackages = {"com.example.bank"}
    TrimSpace <- MCTrimSpace
    RegexPII = {}
    NEREntities = {}
    NERErrors = {}
    VisionErrors = {}
INVARIANTS
    RunAloneIsServed
    PrintedKeyIsKept
    SensitiveComesSecond
PROPERTIES
    RunsEnd
CHECK_DEADLOCK FALSE
