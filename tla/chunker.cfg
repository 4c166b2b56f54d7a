\* Every text of five lines, cut into pieces of three characters.
CONSTANTS
    MaxChars = 3
    Overlap = 1
    MaxLines = 5
SPECIFICATION Spec
CHECK_DEADLOCK FALSE
INVARIANTS
    TypeOK
    LawIsKept
    ParagraphsNeverMix
    LabelsAreRight
