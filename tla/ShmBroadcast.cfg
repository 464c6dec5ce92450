SPECIFICATION FairSpec
CONSTANTS
    Readers = {p1, p2}
    MaxChunks = 2
    MaxMessages = 4
    Large = {2}
    ClearFirst = TRUE
    WriterMayDie = TRUE
    Stoppable = {p2}
 
PROPERTIES
    ImplementsQueue
    EveryMessageRead
    WriterProceeds
    ShutdownWakes
CHECK_DEADLOCK FALSE
