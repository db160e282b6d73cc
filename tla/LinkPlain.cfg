SPECIFICATION Spec
CONSTANTS
    NoKey = NoKey
    SCBKD = SCBKD
    Nonces = {1, 2, 3, 4, 5, 6, 7, 8, 9, 10, 11, 12}
    CpKey = NoKey
    PdKey = NoKey
    NewKeys = {}
    NextMac <- MCNextMac
    Enforce = FALSE
    HasFlush = TRUE
    Timely = FALSE
    PoolSize = 1
    MaxRetries = 1
    MaxEvents = 2
    Refused = {"LED", "TEXT"}
    Scripts <- MCPlainScripts
    MaxKeysets = 0
    MaxFaults = 1
    MaxLate = 1
    MaxReset = 1
    MaxStimuli = 3
INVARIANTS
    CommandsInOrder
    AddressesAgree
CHECK_DEADLOCK FALSE
