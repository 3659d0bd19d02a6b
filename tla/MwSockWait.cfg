SPECIFICATION FairSpec
CONSTANTS
    Sockets = {1, 2}
    Control = 1
    Midi = 2
    Retries = 2
    PollTout = 1
    WaitTouts = {2, 3}
    Word = 16
    MaxData = 2
INVARIANTS
    SockWaitTruthful
CHECK_DEADLOCK FALSE
