SPECIFICATION FairSpec
CONSTANTS
    Sockets = {1, 3}
    Http = 3
    PollTout = 1
    WaitTouts = {}
    Word = 16
    MaxData = 1
    MaxCalls = 3
    MaxParts = 2
INVARIANTS
    ChannelsAgree
    DataOnOpenChannel
    PointerStays
    LimitOwned
PROPERTIES
    KeepsPromise
    
CHECK_DEADLOCK FALSE
