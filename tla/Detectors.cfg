SPECIFICATION Spec
CONSTANTS
    Sectors = 2
    MsatLen = 2
    MasterMax = 2
    LoopLimit = 3
    MemLimit = 3
    SatLimit = 5
    SectorSizes = {1, 2, 4}
    Options = {"plain", "encoding", "apple"}
    DirEntries <- MCDirEntries
    WordBits = 5
    Builds = {5, 10}
    NoteWords = {0, 1, 15, 16, 31}
    Aligns = {0, 15, 16, 1007}
    NoteKinds = {"os", "build", "go", "pax", "memtag", "march", "procinfo", "prpsinfo", "auxv", "other"}
    NhSize = 1
    MinAlign = 2
    BufMax = 3
    NotesMax = 2
    PhMax = 2
    ShMax = 2
    CapSkip = 0
    CapStop = 1
    EncodingMax = 10
    MAXLINELEN = 2
    LevelMax = 3
    CSV_LINES = 3
    SIMH_TAPEMARKS = 2
    ChkLen = 4
    ByteBits = 2
    StrMax = 5
    Magics <- SomeMagics
    Numbers <- SomeNumbers
    Alphabet <- SomeAlphabet
    MaxItems <- SomeMaxItems
INVARIANTS CdfChains CdfClean ElfNotes ElfSays Decoded LinesReported JsonAgrees FormatsAgree 
CONSTRAINT Bound
CHECK_DEADLOCK FALSE
