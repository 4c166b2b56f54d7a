\* Two ingestions, one and a script, or two scripts, over two acts.
CONSTANTS
    Registry <- MCRegistry
    Domain <- MCDomain
    Source <- MCSource
    Header <- MCHeader
    Section <- MCSection
    NoIndex = NoIndex
    Legacy <- MCLegacy
    BulkSize = 2
    Retries = 1
    Budgets <- MCBudgets
    Batch = 1
    ScanLimit = 6
SPECIFICATION Spec
CHECK_DEADLOCK FALSE
INVARIANTS
    TypeOK
    LabelsStayTrue
    StagesAreWhole
    CleanedForGood
PROPERTIES
    LawIsNeverLost
