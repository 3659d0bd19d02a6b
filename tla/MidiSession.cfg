SPECIFICATION FairSpec
CONSTANTS
    Control = 1
    Midi = 2
    Tokens = 2
    Stamps = 2
    Lengths = {17}
    Strays <- CutPackets
    Lists <- PlainLists
    Journals <- MidiJournals
INVARIANTS
    TypeOK
    EmitsCommands
    StaysInList
    AnswersRequests
PROPERTIES
    SessionOpens
    ClockAnswered
CHECK_DEADLOCK FALSE
