SPECIFICATION FairSpec
CONSTANTS
    Workers <- TwoWorkers
    OutputRank = 1
    QueueSize = 2
    AsyncOutput = TRUE
    UtilTimeout = FALSE
    MaxCalls = 4
    MaxUtility = 2
    MaxFaults = 1
INVARIANT AnswersMatch
PROPERTIES
    
    FailureStopsAll
CHECK_DEADLOCK FALSE
