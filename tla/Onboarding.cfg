SPECIFICATION Spec
SYMMETRY Symmetry
CONSTANTS
    Sessions = {o1, o2}
    Principals = {p1, p2}
    Workers = {w1, w2}
    Requests = {q1, q2}
    Keys = {k1, k2}
    Sent = {k1, k2}
    NoOne = NoOne
    NoKey = NoKey
    NoSession = NoSession
    MaxAttempts = 2
    Busy = {o1}
    MaxEdits = 2
INVARIANTS
    MakerIsNotChecker
    KeyAdmitsOnce
PROPERTIES
    OneLiveTaxonomy
CHECK_DEADLOCK FALSE
