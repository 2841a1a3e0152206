SPECIFICATION Spec
CONSTANTS
    AllowedPackages = {"settings", "bank"}
    SensitivePackages = {"bank"}
    TrimSpace <- MCTrimSpace
    Matches <- MCMatches
    RegexPII <- MCRegexPII
    NEREntities <- MCNEREntities
    NERErrors <- MCNERErrors
    VisionErrors <- MCVisionErrors
    Boxes <- MCBoxes
    RawFrames <- MCRawFrames
INVARIANTS
    WalkDecides
    DroppedFieldsAreThePlaces
    RulesExplainTheTree
