SPECIFICATION BufferSpec
CONSTANTS
    Byte = {"a", "b"}
    Cap = 4
    MaxLen = 5
    MaxField = 2
INVARIANTS RoundTrip
PROPERTIES IsQueue
