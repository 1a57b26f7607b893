SPECIFICATION Spec
CONSTANTS
    Presses <- MCPresses
    Wides <- MCWides
    Wide <- MCWide
    MaxPresses = 4
    MaxAhead = 2
    Pasts <- MCPasts
    TAB = 2
    PROMPT = 1
INVARIANTS
    TypeOK
    InOrder
    NoPanic
    ScreenShows
    DraftKept
PROPERTY
    ImplementsLineEdit
CHECK_DEADLOCK FALSE
