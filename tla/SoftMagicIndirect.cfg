SPECIFICATION Spec
CONSTANTS
    DBs <- IndirectThenAdd
    MaxLevel = 2
    IndirMax = 2
    NameMax = 2
INVARIANT RelativeBaseStrict
