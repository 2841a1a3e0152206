CONSTANTS
    Writers = {w1, w2}
    Free = Free
    Records = {"a", "b", "c", "long"}
    NoRecord = NoRecord
    RecordBytes <- MCRecordBytes
    FragmentBytes = 1
    MaxBytes = 3
    RotateDaily = FALSE
    Sync = TRUE
    ArchiveTries = 2
    DayLength = 1
    MaxClock = 0
    Faults = {"close", "stat", "rename", "open", "fstat", "write", "torn", "sync", "crash", "power"}
SPECIFICATION FairSpec
INVARIANTS TypeOK AckedIsStoredOnce
PROPERTIES ImplementsFrameStore ArchivesAreFinal WritesReturn
