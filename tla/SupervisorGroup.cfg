SPECIFICATION LiveSpec
CONSTANTS
    aedt = aedt
    companion = companion
    Descendants = {aedt, companion}
    Posix = TRUE
CHECK_DEADLOCK FALSE
PROPERTIES
    StoppedIsReported
