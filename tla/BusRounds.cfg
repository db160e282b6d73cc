SPECIFICATION FairSpec
CONSTANTS
    Topologies <- MCTopologies
    AtSetup = {0}
    HasFlush = TRUE
    PoolSize = 2
    Rounds = 2
    MaxRetries = 1
    MaxCmds <- MCMaxCmds
    MaxLate <- MCMaxLate
INVARIANTS
    OneOnTheLine
PROPERTIES
    OwnAnswers
    EveryPdServed
    QueueImplemented
CHECK_DEADLOCK FALSE
