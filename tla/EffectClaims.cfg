\* Two workers, three attempts, one step of each policy.
SPECIFICATION Spec
CONSTANTS
    Runs = {r1}
    Workers = {w1, w2}
    NoWorker = NoWorker
    NoRun = NoRun
    MaxAttempts = 3
    Plan <- MCPlan
    Reconciled = {"announce"}
SYMMETRY Symmetry
INVARIANTS
    ReconciledOnce
    SuccessIsComplete
    NoDeadClaimInTheWay
CHECK_DEADLOCK FALSE
