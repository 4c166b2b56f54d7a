\* Two turns on one thread, without any fault.
CONSTANTS
    t1 = t1 t2 = t2
    Turns <- TwoTurns
    Labels = {a}
    Attempts = 3
    MaxPending = 2
    MaxLost = 0
    MaxCrashes = 0
    None = None
SPECIFICATION Spec
CHECK_DEADLOCK FALSE
INVARIANTS
    WriterReadsThisSelection
