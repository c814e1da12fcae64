SPECIFICATION LedgerSpec
CONSTANTS
    a = a
    b = b
    c = c
    ModelCalls = {a, b, c}
    Estimate <- MCEstimate
    Charges = {1, 3}
    Ceilings = {0, 5, 7}
    Interactive = {a}
    Embeddings = {b}
    FailClosed = FALSE
    MaxNights = 1
INVARIANTS
    WithinCeiling
    ChargesWithinCeiling
CHECK_DEADLOCK FALSE
