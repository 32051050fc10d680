SPECIFICATION FairSpec
CONSTANTS
    MaxPendingWrites = 3
    Durable = TRUE
    MaxWrites = 4
    MaxRefusals = 1
    MaxFaults = 2
    MaxCutShort = 1
    MaxKills = 1
INVARIANTS
    TypeOK
    
    PipelineIsPrefix
    AnswersMatch
    NoStuckWrite
    IdleMeansDone
    NothingLost
    
    IssueOrder
PROPERTIES
    KeepsTheOrder
    EveryWriteSettles
CHECK_DEADLOCK FALSE
