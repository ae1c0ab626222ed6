SPECIFICATION Spec
CONSTANTS
    Threads = {t1}
    Cap = 2
    BytesMax = 2
    Jobs <- SafeJobs
    Faults = TRUE
INVARIANTS CompleteData ChildrenReaped NoDescriptorLeft
PROPERTY Termination
