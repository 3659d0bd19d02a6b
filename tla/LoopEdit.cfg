SPECIFICATION FairSpec
CONSTANTS
    idle = idle
    aux = aux
    frame = frame
    cmd = cmd
    None = None
    Func = {idle, aux}
    Timer = {frame, cmd}
    FuncMax = 3
    TimerMax = 2
    Setup <- EditSetup
    InitFrames <- ShippedInit
    FrameArgs = {2}
    PostArgs = {1}
    ExitArgs = {}
    Penders = {frame}
    Posters = {idle, cmd}
    Starts <- ShippedStarts
    Stops <- NoPairs
    Switches <- EditSwitches
    Adds <- EditEdits
    Dels <- EditEdits
    Word = 65536
    MaxDepth = 3
    MissFrames = FALSE
INVARIANTS
    TablesIntact
    MarksRegistered
PROPERTIES
    PendSuspends
    FuncsKeepRunning
    TimerComesDue
    DeletionHappens
