CONSTANTS
    Num = 2
    Pin = {p1, p2}
    NoPin = NoPin
    Width = 2
    Patterns <- HalfLit
SPECIFICATION LedSpec
INVARIANTS ReleasedIsReset ListedIsOutput
PROPERTIES PatternShows
