CONSTANTS
    Writers = {w1}
    Free = Free
    Records = {"a", "b"}
    NoRecord = NoRecord
    RecordBytes <- MCRecordBytes
    FragmentBytes = 1
    MaxBytes = 0
    RotateDaily = FALSE
    Sync = TRUE
    ArchiveTries = 2
    DayLength = 1
    MaxClock = 0
    Faults = {"torn"}
SPECIFICATION Spec

INVARIANT AckedIsALine
CHECK_DEADLOCK FALSE
