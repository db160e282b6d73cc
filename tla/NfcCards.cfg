SPECIFICATION FairSpec
CONSTANTS
    Drivers = {"pn5180", "pn532"}
    Kinds <- MCKinds
    FormatNo = 2
    MaxBlocks = 2
    MaxApdus = 3
    MaxPlaced = 3
    MaxFaults = 2
    MaxLate = 1
    MaxWtx = 1
INVARIANTS
    CarriedOutOnce
    AnswerIsOurs
PROPERTIES
    PresentedIsServed
CHECK_DEADLOCK FALSE
