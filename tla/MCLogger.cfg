CONSTANTS
    Byte = {"I", "x"}
    Levels = {"I"}
    Tag = "x"
    Size = 4
    Chunk = 2
    MaxMsg = 5
    Tasks = {t1, t2}
    LogSize = 3
    Lengths = {1, 2}
    Block = 2
    Width = 8
SPECIFICATION LoggingSpec
INVARIANTS CopiesStayInside
PROPERTIES IsLastBytes LengthComesBack
