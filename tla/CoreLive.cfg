SPECIFICATION FairSpec
CONSTANTS
    Uis = {"console"}
    Subs <- MCOsdpOnly
    QueueLen = 1
    MaxAccess = 1
    MaxEnrol = 0
    MaxCommands = 0
    MaxButton = 2
    MaxPanel = 1
    MaxReboot = 0
    NotPlaying = NotPlaying
PROPERTIES
    ButtonServed
    ReadReachesPanel
    EventPatternEnds
CHECK_DEADLOCK FALSE
