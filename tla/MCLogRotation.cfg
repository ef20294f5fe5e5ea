SPECIFICATION Spec
CONSTANTS
    MaxLines = 1
    Keep = 1
    Compress = TRUE
    Faulty = {"stat", "rename", "open", "write", "gzip"}
    Entries = 4
    Faults = 1
    Meddles = 1
    Restarts = 1
INVARIANTS
    NothingLost
PROPERTIES
    WritesFollowPath
    RollsInTime
CHECK_DEADLOCK FALSE
