SPECIFICATION FairSpec
CONSTANTS
    Me = 1
    Commands <- MCCommands
    Neighbours <- MCNeighbours
    Disturbances <- MCDisturbances
    Frames <- MCFrames
    BufSize = 20
    RbSize = 24
    Pieces = {1, 2, 4}
    MaxTalks = 3
    MaxNoise = 1
PROPERTIES
    Heard
    Recovers
