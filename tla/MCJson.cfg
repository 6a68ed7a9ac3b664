SPECIFICATION DocsSpec
CONSTANTS
    Depth = 2
    Cap = 2
    Levels = 2
    Items = 2
INVARIANTS TextIsWhole GrammarAccepted
PROPERTIES TokensNest
\* A document ends.
CHECK_DEADLOCK FALSE
