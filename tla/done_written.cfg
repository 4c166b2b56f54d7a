\* The done event against the commit, without any fault.
CONSTANTS
    r1 = r1 r2 = r2 r3 = r3 u1 = u1 u2 = u2 q1 = q1 q2 = q2
    Users <- OneUser
    Chats = {1, 2}
    Requests <- TwoRequests
    Texts <- OneText
    PoolSize = 2
    MaxFaults = 0
    NewTitle = NewTitle
    Empty = Empty
    None = None
SPECIFICATION Spec
CHECK_DEADLOCK FALSE
INVARIANTS
    DoneMeansWritten
