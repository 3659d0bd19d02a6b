SPECIFICATION Spec
CONSTANTS
    Control = 1
    Midi = 2
    Tokens = 1
    Stamps = 0
    Lengths = {17}
    Strays = {}
    Lists <- ThreeByteLists
    Journals <- MidiJournals
INVARIANTS
    EmitsCommands
CHECK_DEADLOCK FALSE
