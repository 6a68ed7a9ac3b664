SPECIFICATION DocsSpec
CONSTANTS
    Depth = 8
    Cap = 2
    Levels = 1
    Items = 1
PROPERTIES EndIsReported
