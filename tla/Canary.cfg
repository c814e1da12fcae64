SPECIFICATION CanaryFairSpec
CONSTANTS
    Revisions = {r1, r2, r3}
    First = r1
    Weights = {10}
    Sessions = {s1, s2}
    MaxStarts = 2
    NoRevision = NoRevision
PROPERTIES
    TrafficIsWhole
    BreachEndsInRollback
CHECK_DEADLOCK FALSE
