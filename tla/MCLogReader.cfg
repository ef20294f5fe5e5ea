SPECIFICATION ReaderFairSpec
CONSTANTS
    MaxLines = 1
    Keep = 1
    Compress = TRUE
    Faulty = {"rename", "write"}
    Entries = 3
    Faults = 1
    Meddles = 1
    Restarts = 0
INVARIANTS
    ReadsWhatStays
    NewestFirst
PROPERTIES
    ArchivesSettle
CHECK_DEADLOCK FALSE
