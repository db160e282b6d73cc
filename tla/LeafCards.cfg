SPECIFICATION Spec
CONSTANTS
    NoKey = NoKey
    Default = Default
    None = None
    Cards = {u, v}
    Creds = {c1, c2}
    SiteKeys = {s1, s2}
    u = u
    v = v
    c1 = c1
    c2 = c2
    s1 = s1
    s2 = s2
    MaxOps = 2
    MaxFaults = 1
    MaxKeySets = 1
    MaxTests = 1
    MaxReboot = 1
SYMMETRY MCSymmetry
INVARIANTS
    WrittenIsHeld
    CleanWriteSucceeds
    DataUnderOurKeys
    CountersAgree
CHECK_DEADLOCK FALSE
