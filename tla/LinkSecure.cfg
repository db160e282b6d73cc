SPECIFICATION Spec
CONSTANTS
    NoKey = NoKey
    SCBKD = SCBKD
    Nonces = {1, 2, 3, 4, 5, 6, 7, 8, 9, 10, 11, 12}
    k1 = k1
    k2 = k2
    CpKey = k1
    PdKey = k1
    NewKeys = {}
    NextMac <- MCNextMacLate
    Enforce = TRUE
    HasFlush = FALSE
    Timely = FALSE
    PoolSize = 2
    MaxRetries = 3
    MaxEvents = 2
    Refused = {"MFG"}
    Scripts <- MCSecureScripts
    MaxKeysets = 0
    MaxFaults = 1
    MaxLate = 3
    MaxReset = 1
    MaxStimuli = 3
INVARIANTS
    SessionsAgree
    OnlineIsSecure
    CommandsOnce
    ToldIsExecuted
PROPERTIES
    EventsInOrder
CHECK_DEADLOCK FALSE
