\* Two requests and two reviewers around one signature.
SPECIFICATION Spec
CONSTANTS
    r1 = r1
    p1 = p1
    p2 = p2
    p3 = p3
    Calls <- MCCalls
    Gated = {"transfer"}
    Writing = {"transfer"}
    Keys = {k1, k2}
    Principals = {p1, p2, p3}
    ByRole <- MCByRole
    Reviewers = {p2, p3}
    Managers = {p2}
    Grantable <- MCGrantable
    Approvals = {a1}
    Requests = {q1, q2}
    Nobody = Nobody
    NoApproval = NoApproval
    NoCall = NoCall
    NoKey = NoKey
SYMMETRY Symmetry
INVARIANTS
    OneEffectPerKey
    ExecutionsAreApproved
    SuccessIsReal
CHECK_DEADLOCK FALSE
