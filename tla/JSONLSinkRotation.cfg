CONSTANTS
    Writers = {w1, w2}
    Free = Free
    Records = {"a", "b", "long"}
    NoRecord = NoRecord
    RecordBytes <- MCRecordBytesOversize
    FragmentBytes = 1
    MaxBytes = 4
    RotateDaily = TRUE
    Sync = TRUE
    ArchiveTries = 2
    DayLength = 1
    MaxClock = 2
    Faults = {"close", "stat", "rename", "open", "write", "sync", "crash", "power"}
SPECIFICATION Spec
SYMMETRY WriterSymmetry
INVARIANTS AckedIsStoredOnce FilesAreBounded NoFrameAfterItsArchive
PROPERTY ImplementsFrameStore
