SPECIFICATION Spec
CONSTANTS
    Threads = {t1, t2}
    Cap = 1
    BytesMax = 1
    Jobs <- PairJobs
    Faults = FALSE
INVARIANTS SigpipeRestored NobodyStuck
SYMMETRY Perms
