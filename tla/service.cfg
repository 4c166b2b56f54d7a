\* Processes that fail, asks across a restart, a page, or registrations.
CONSTANTS
    NoModel = NoModel
    NoPipeline = NoPipeline
    NoChat = NoChat
    NoSend = NoSend
    NoName = NoName
    Elsewhere = Elsewhere
    Pipelines <- MCPipelines
    Questions = {"q", "other"}
    Normal <- MCNormal
    Asks = {"a1", "a2"}
    Chats = {"c1", "c2"}
    People = {"owner", "other"}
    Names = {"name"}
    Owner = "owner"
    Name = "name"
    Budgets <- MCBudgets
SPECIFICATION Spec
ACTION_CONSTRAINT AskedOfOnePage
CHECK_DEADLOCK FALSE
INVARIANTS
    TypeOK
    HitsShareThePipeline
    
    StoppedIsClosed
    OneAccountPerName
PROPERTIES
    ModelIsLoadedOnce
    AsksEnd
