\* A call is cancelled between its INSERT and its commit.
SPECIFICATION Spec
CONSTANTS
    q1 = q1
    q2 = q2
    q3 = q3
    r1 = r1
    r2 = r2
    Configured = {r1, r2}
    Requests <- ThreeRequests
    Contents <- TwoPushesAndAny
    MaxConns = 4
    MaxFaults = 2
    PageSize = 2
    Word = 16
    TypedPages = {0, 3, 7, 8}
INVARIANTS
    FailureIsTrue
