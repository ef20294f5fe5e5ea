SPECIFICATION FairSpec
CONSTANTS
    Main = Main
    Nobody = Nobody
    Handlers = {h1, h2}
    Streams = {s}
    Readers = {q}
    Capacity = 2
INVARIANTS
    TypeOK
    KeptInOrder
    FlushCovers
    ExitKeepsAnswered
PROPERTIES
    QueueIsUnseen
    CallsSettle
    ShutsDown
CHECK_DEADLOCK FALSE
