SPECIFICATION Spec
CONSTANTS
    Maps = {m1, m2}
    PathMax = 2
    ChangesMax = 1
    FlagSets <- SomeFlags
    Oom = TRUE
INVARIANTS TypeOK DatabaseUsable NoMapLeaked NoNullDereference LoadSaysSo CallerFilesKept AnswerFits
PROPERTY Returns
