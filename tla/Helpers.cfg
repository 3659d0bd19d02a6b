SPECIFICATION Spec
CONSTANTS
    Parts <- MCParts
    Tails <- MCTails
    Numbers <- MCNumbers
    Nibbles <- MCNibbles
    Octets <- MCOctets
    Strings <- MCStrings
    MaxStrings = 2
    Ssids <- MCSsids
    Stale = {0, 127, 200, 254}
    BufLen = 12
    Eflash <- MCEflash
    PoolEnd <- MCPoolEnd
    Lengths = {0, 13, 65532, 65533}
    DataSize = 30
    Tables <- MCTables
INVARIANTS
    AddressRead
    NumbersRead
    RequestWhole
    
    ApsFound
    BlocksApart
CHECK_DEADLOCK FALSE
