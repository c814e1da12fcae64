SPECIFICATION ChainSpec
CONSTANTS
    Writers = {w1, w2}
    Sweeps = {s1, s2}
    Readers = {r1}
    Batch = 2
    MaxEvents = 5
INVARIANTS
    ChainVerifies
    NoFalseAlarm
CHECK_DEADLOCK FALSE
