SPECIFICATION FairSpec
CONSTANTS
    NoKey = NoKey
    SCBKD = SCBKD
    Nonces = {1, 2, 3, 4, 5, 6, 7, 8, 9, 10, 11, 12}
    k1 = k1
    k2 = k2
    CpKey = k1
    PdKey = NoKey
    NewKeys = {k2}
    NextMac <- MCNextMac
    Enforce = FALSE
    HasFlush = TRUE
    Timely = TRUE
    PoolSize = 1
    MaxRetries = 1
    MaxEvents = 1
    Refused = {}
    Scripts = {}
    MaxKeysets = 1
    MaxFaults = 1
    MaxLate = 1
    MaxReset = 1
    MaxStimuli = 4
INVARIANTS
    ReadsOnce
    KeysAgree
PROPERTIES
    BackOnline
    EventsArrive
CHECK_DEADLOCK FALSE
