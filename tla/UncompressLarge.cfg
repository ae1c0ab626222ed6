SPECIFICATION Spec
CONSTANTS
    Threads = {t1}
    Cap = 1
    BytesMax = 1
    Faults = FALSE
    Jobs <- LargeJobs
PROPERTY Termination
CHECK_DEADLOCK FALSE
