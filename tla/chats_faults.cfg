\* Two requests and a fault; two sweeps that meet on rows, over two connections.
CONSTANTS
    r1 = r1 r2 = r2 r3 = r3 u1 = u1 u2 = u2 q1 = q1 q2 = q2
    Users <- TwoUsers
    Chats = {1, 2, 3, 4}
    Requests <- ThreeRequests
    Texts <- TwoTexts
    PoolSize = 2
    MaxFaults = 1
    NewTitle = NewTitle
    Empty = Empty
    None = None
SPECIFICATION InstanceSpec
ACTION_CONSTRAINT WithinInstances
CHECK_DEADLOCK FALSE
INVARIANTS
    CommittedTurnsStay
    MemoryCoversTranscript
    NoDeadlock
PROPERTIES
    EveryRequestEnds
    DoneIsEventuallyWritten
