\* Two turns on one thread, a crash and a lost connection at every point.
CONSTANTS
    t1 = t1 t2 = t2
    Turns <- TwoTurns
    Labels = {a}
    Attempts = 3
    MaxPending = 2
    MaxLost = 1
    MaxCrashes = 1
    None = None
SPECIFICATION FairSpec
CHECK_DEADLOCK FALSE
INVARIANTS
    TypeOK
    AnswersOwnQuestion
    SearchesOwnPlan
    ThreadTurnsAreWhole
    RemembersWholeReports
    FinishedTurnsStay
PROPERTIES
    EveryRunEnds
