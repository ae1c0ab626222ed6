SPECIFICATION Spec
CONSTANTS
    Maps = {m1}
    PathMax = 1
    ChangesMax = 0
    FlagSets <- PlainFlags
    Oom = FALSE
INVARIANT NullHasReason
