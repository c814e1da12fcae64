\* Two rebuilds at once under a reader; one rebuild under whole requests (see MCServing).
SPECIFICATION MCSpec
CONSTANTS
    d1 = d1
    d2 = d2
    t1 = t1
    t2 = t2
    Docs = {d1, d2}
    Texts = {t1, t2}
    Says <- MCSays
    Jobs = {j1, j2}
    MaxVersion = 3
    NoDoc = NoDoc
    MaxTaxonomy = 1
INVARIANTS
    PromotedIsComplete
    
    AnswersAreOfOneBuild
    GraphFollowsPublish

    
SYMMETRY Symmetry
CHECK_DEADLOCK FALSE
