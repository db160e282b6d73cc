SPECIFICATION Spec
CONSTANTS
    Uis = {"console"}
    Subs <- MCOsdpOnly
    QueueLen = 1
    MaxAccess = 2
    MaxEnrol = 2
    MaxCommands = 1
    MaxButton = 0
    MaxPanel = 0
    MaxReboot = 1
    NotPlaying = NotPlaying
INVARIANTS
    ReadsAccounted
    EnrolledAtMostOnce
PROPERTIES
    ReadFeedImplemented
CHECK_DEADLOCK FALSE
