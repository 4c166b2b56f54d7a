\* Two sub-queries over three chunks: two candidates each, two slots.
CONSTANTS
    Queries = {1, 2}
    Chunks = {c1, c2, c3}
    Scores = {3, 5, 8}
    PerLeg = 2
    Depth = 2
    RrfK = 2
    TopK = 2
    Floor = 4
    MaxChunks = 2
    MinChunks = 1
    CutPercent = 85
SPECIFICATION Spec
CHECK_DEADLOCK FALSE
INVARIANTS
    TypeOK
    LegsKeepTheirBest
    FusionRespectsLegs
    GenuineBestIsDelivered
    DeliveredHoldTheirOwn
