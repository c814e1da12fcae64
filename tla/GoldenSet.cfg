SPECIFICATION GoldenSetSpec
SYMMETRY Symmetry
CONSTANTS
    Questions = {q1}
    Gaps = {g1}
    Editors = {e1, e2}
    MaxVersions = 3
    MaxRequests = 3
PROPERTIES
    ReviewsAreRemembered
    SeededGapsAreItems
CHECK_DEADLOCK FALSE
