\* The log file cannot be written, and more lines follow than fit the channel.
SPECIFICATION FairSpec
CONSTANTS
    stdout = stdout
    stderr = stderr
    Streams <- BothStreams
    Lines <- ThreeAndOne
    TooLong <- NoLongLine
    LogCap = 1
    ErrCap = 3
    PipeCap = 1
PROPERTIES
    Returns
\* The build ended and its page stopped: nothing is left to do.
CHECK_DEADLOCK FALSE
