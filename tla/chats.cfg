\* Three requests of two users over two connections.
CONSTANTS
    r1 = r1 r2 = r2 r3 = r3 u1 = u1 u2 = u2 q1 = q1 q2 = q2
    Users <- TwoUsers
    Chats = {1, 2}
    Requests <- ThreeRequests
    Texts <- OneText
    PoolSize = 2
    MaxFaults = 0
    NewTitle = NewTitle
    Empty = Empty
    None = None
SPECIFICATION Spec
SYMMETRY Symmetry
CHECK_DEADLOCK FALSE
INVARIANTS
    TypeOK
    TurnsAreWhole
    OneRunPerThread
    ThreadsArePrivate
    CacheHoldsRealAnswers
    AskedChatsAreTitled
PROPERTIES
    ImplementsTranscripts
