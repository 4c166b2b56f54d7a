\* Every text of four lines, with paragraphs short enough to stay whole.
CONSTANTS
    MaxChars = 20
    Overlap = 2
    MaxLines = 4
SPECIFICATION Spec
CHECK_DEADLOCK FALSE
INVARIANTS
    FootersMakeNoBoundary
