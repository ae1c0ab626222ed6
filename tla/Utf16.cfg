SPECIFICATION TextSpec
CONSTANTS
    EncodingMax = 10
    MAXLINELEN = 2
    LevelMax = 3
    CSV_LINES = 3
    SIMH_TAPEMARKS = 2
    ChkLen = 4
    ByteBits = 2
    StrMax = 5
    Magics <- SomeMagics
    Numbers <- SomeNumbers
    Alphabet <- SomeAlphabet
    MaxItems <- SomeMaxItems
INVARIANT OneEach
CHECK_DEADLOCK FALSE
