SPECIFICATION FairSpec
CONSTANTS
    None = None
    Fds = {f1, f2}
    f1 = f1
    f2 = f2
    QueueLen = 1
    MaxRetry = 2
    MaxClients = 2
    MaxTexts = 1
    MaxPosts = 2
    MaxFailed = 1
    MaxDrops = 2
    MaxSaves = 2
    MaxNvs = 1
    MaxReboot = 1
    MaxStimuli = 4
INVARIANTS
    StatusIsTrue
    SubscribersInSlots
    SettingsAreSaved
    LastHeardIsTold
PROPERTIES
    StartsUp
CHECK_DEADLOCK FALSE
