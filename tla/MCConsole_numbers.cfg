SPECIFICATION ConsoleSpec
CONSTANTS
    Char <- Alphabet
    Space <- Blank
    Escape <- Solidus
    QuoteMarks <- Marks
    ArgvNum = 4
    Inputs <- CommandLines
    NoWords = NoWords
    Printable = {"a"}
    Mask = "*"
    MaxTyped = 4
    MaxLen = 2
    SortKeys = {1, 2, 3}
    MaxItems = 5
    Chars <- TextChars
    NUL = "NUL"
    U64 = 1024
    U32 = 512
    AnyText <- UriTexts
    Uris <- UriParts
    Numbers <- NumberTexts
    Decimals <- DecimalParts
    Addresses <- Dots
    Messages <- Sequels
    Byte <- Octets
INVARIANTS KBitsAreRead
\* A call of Text ends the behaviour.
CHECK_DEADLOCK FALSE
