SPECIFICATION FairSpec
CONSTANTS
    Cited = {c1}
    Uncited = {u1}
    Runs = {r1, r2}
    Promoters = {p1, p2}
    Scores = {0, 1}
    Tolerance = 0
    Intervals = {1, 2}
    MaxVersion = 1
    NoRun = NoRun
    NoScore = NoScore
INVARIANTS
    BaselineIsScored
PROPERTIES
    NoSilentRegression
    EvaluationsRecur
CHECK_DEADLOCK FALSE
