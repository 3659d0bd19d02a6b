SPECIFICATION FairSpec
CONSTANTS
    idle = idle
    aux = aux
    frame = frame
    cmd = cmd
    None = None
    Func = {idle}
    Timer = {frame, cmd}
    FuncMax = 2
    TimerMax = 4
    Setup <- ShippedSetup
    InitFrames <- ShippedInit
    FrameArgs = {1, 2, 65536}
    PostArgs <- ShippedPosts
    ExitArgs = {1}
    Penders = {frame}
    Posters = {idle, cmd}
    Starts <- ShippedStarts
    Stops <- ShippedStops
    Switches <- NoPairs
    Adds <- NoPairs
    Dels <- ShippedDels
    Word = 65536
    MaxDepth = 3
    MissFrames = TRUE
INVARIANTS
    TypeOK
    PendBlocksCaller
    ExitUnblocks
PROPERTIES
    ExitCompletes
CHECK_DEADLOCK FALSE
