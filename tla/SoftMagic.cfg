SPECIFICATION Spec
CONSTANTS
    DBs <- AllDBs
    MaxLevel = 2
    IndirMax = 2
    NameMax = 3
INVARIANTS Controlled RelativeBase DefaultLast LimitsHold ResultSaysPrinted NoLeadingSeparator
PROPERTY Termination
