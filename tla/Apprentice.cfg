SPECIFICATION Spec
CONSTANTS
    Lines <- SomeLines
    OldFiles <- SomeOldFiles
    Files = 2
    MaxLines = 4
    MaxLevel = 2
    WarnMax = 2
INVARIANTS DatabaseComplete OrderDetermined ConditionsPaired
PROPERTY StoreSpec
CONSTRAINT Bound
