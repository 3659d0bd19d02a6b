SPECIFICATION FairSpec
CONSTANTS
    Flag = 4
    Sync = 3
    LowBase = 5
    HighBase = 2
    MaxCh = 2
    FifoLen = 3
    Junk = 99
    Stray = {0, 4}
    Error = Error
    MaxFrames = 2
    Frames <- LinkFrames
    BufLens = {2, 4}
    Rearm = {TRUE}
    ChOff = {1}
PROPERTIES
    LinkIsQueue
    EveryFrameReported
