SPECIFICATION FairSpec
CONSTANTS
    Apps = {"main", "worker"}
    Owner = "main"
    MaxStarts = 3
    MaxFaults = 1
INVARIANTS
    OneUnderLock
PROPERTIES
    CallsReturn
CHECK_DEADLOCK FALSE
