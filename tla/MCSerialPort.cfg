CONSTANTS
    Rates = {"9600", "115200"}
    Default = "115200"
    OutOfRange = "1"
    Words = 2
SPECIFICATION PortSpec
INVARIANTS RateIsTrue DeletedIsQuiet
PROPERTIES SettlesWhenQuiet
