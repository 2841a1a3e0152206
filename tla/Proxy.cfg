CONSTANTS
    Devices = {"phone", "tablet", "watch"}
    Frames = {"f1", "f2", "f3"}
    SequenceNumbers = {0, 1, 2, 3, 4}
    Int64Limit = 4
    NoRequest = NoRequest
    Registry <- MCRegistry
    PayloadSize <- MCPayloadSize
    MaxPayloadBytes = 8
    TTL = 1
    ClockSkew = 1
    AllowedPackages = {"maps", "bank"}
    SensitivePackages = {"bank"}
    TrimSpace <- MCTrimSpace
    RegexPII = {"ssn"}
    NEREntities = {"name"}
    NERErrors = {"crash"}
    VisionErrors = {"blurred"}
    Handlers = {h1, h2}
    Messages <- PairMessages
    NoMessage = NoMessage
    Envelope <- PairEnvelopes
    Peer <- MCPeer
    Decoded <- MCDecoded
    Sync = TRUE
    Faults = {"replay", "cancel", "crash"}
    Observed = {}
    StartClock = 1
    MaxClock = 1
SPECIFICATION FairProxySpec
INVARIANT NoLiveRPCWhileClosing
PROPERTIES ImplementsIngest ShutdownCompletes RequestsAnswered
