CONSTANTS
    KeySize <- MCKeySize
    Undecodable = Undecodable
    PublicKeySize = 32
    Trimmed <- MCTrimmed
    BuiltinSensitive = {"bank"}
    DefaultMaxPayloadBytes = 3
    MinPayloadBytes = 2
    DefaultTTLSeconds = 2
    Second = 3
    Int64Max = 7
    Configs <- MCConfigs
    NoServer = NoServer
SPECIFICATION Spec
INVARIANTS CertBoundDevicesNeedCerts LimitsInForce RegistryIsConfigured NothingLeftOpen
CHECK_DEADLOCK FALSE
