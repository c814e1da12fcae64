\* Two of every process; a pointer may be lost, or a sweep's mark come too late.
SPECIFICATION FairSpec
CONSTANTS
    Runs = {r1}
    Workers = {w1, w2}
    Relays = {x1, x2}
    Sweepers = {s1, s2}
    NoWorker = NoWorker
    NoRun = NoRun
    MaxAttempts = 2
    MaxPointers = 2
    MaxLosses = 1
PROPERTIES
    HoldersKeepTheirRun
    ImplementsLifecycle
    AdmittedRunsStart
    AttemptsArePickedUp
CHECK_DEADLOCK FALSE
