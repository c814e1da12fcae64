\* Two workers race over the three attempts of a run.
SPECIFICATION FairSpec
CONSTANTS
    Runs = {r1}
    Workers = {w1, w2}
    NoWorker = NoWorker
    NoRun = NoRun
    MaxAttempts = 3
INVARIANTS
    OneCurrentAttempt
    ResultOfLastAttempt
PROPERTIES
    LiveLeaseIsTheHolders
    ImplementsLifecycle
    RunsFinish
    CancelFinishes
CHECK_DEADLOCK FALSE
