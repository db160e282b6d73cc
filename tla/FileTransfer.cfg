SPECIFICATION FairSpec
CONSTANTS
    Files = {f, g}
    NoFile = NoFile
    f = f
    g = g
    Size <- MCSize
    Chunk = 2
    MaxRetries = 1
    MaxErrors = 1
    MaxStarts = 2
    MaxCancel = 1
    MaxLost = 2
    MaxUnheard = 2
    MaxIo = 1
    MaxRestart = 1
INVARIANTS
    SentIsWritten
    DoneIsComplete
PROPERTIES
    TransferEnds
CHECK_DEADLOCK FALSE
