\* Two sub-queries over three chunks with room for all of them.
CONSTANTS
    Queries = {1, 2}
    Chunks = {c1, c2, c3}
    Scores = {3, 8}
    PerLeg = 2
    Depth = 2
    RrfK = 2
    TopK = 3
    Floor = 4
    MaxChunks = 3
    MinChunks = 1
    CutPercent = 85
SPECIFICATION Spec
CHECK_DEADLOCK FALSE
INVARIANTS
    CutSparesEverySubQuery
