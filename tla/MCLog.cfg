\* Four lines, two of which may be too long, a channel that holds one, and a
\* page that polls.
SPECIFICATION FairSpec
CONSTANTS
    stdout = stdout
    stderr = stderr
    Streams <- BothStreams
    Lines <- ThreeAndOne
    TooLong <- SecondAndOnly
    LogCap = 1
    ErrCap = 3
    PipeCap = 1
INVARIANTS
    PageTypeOK
    LoggedInOrder
    LogComplete
    NoSendOnClosed
    ErrorsHaveRoom
    ShowsLogInOrder
    StopsComplete
PROPERTIES
    PageStops
\* The build ended and its page stopped: nothing is left to do.
CHECK_DEADLOCK FALSE
