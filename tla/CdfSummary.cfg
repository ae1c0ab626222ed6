SPECIFICATION ReadersSpec
CONSTANTS
    Sectors = 2
    MsatLen = 2
    MasterMax = 2
    LoopLimit = 3
    MemLimit = 3
    SatLimit = 5
    SectorSizes = {1, 2, 4}
    Options = {"plain"}
    DirEntries <- MCDirEntries
    WordBits = 5
    Builds = {5, 10}
    NoteWords = {0, 1, 15, 16, 31}
    Aligns = {0, 15, 16, 1007}
    NoteKinds = {"os", "build", "go", "pax", "memtag", "march", "procinfo", "prpsinfo", "auxv", "other"}
    NhSize = 1
    MinAlign = 2
    BufMax = 3
    NotesMax = 2
    PhMax = 2
    ShMax = 2
    CapSkip = 0
    CapStop = 1
INVARIANT SummarySaid
CHECK_DEADLOCK FALSE
