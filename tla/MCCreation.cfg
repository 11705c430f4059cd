\* Two pushes to a repository and any third request, two of them cut short, a
\* pool with one connection more than there are calls; a viewer who types page
\* numbers of either end of a word and of its middle.
SPECIFICATION FairSpec
CONSTANTS
    q1 = q1
    q2 = q2
    q3 = q3
    r1 = r1
    r2 = r2
    Configured = {r1, r2}
    Requests <- ThreeRequests
    Contents <- TwoPushesAndAny
    MaxConns = 4
    MaxFaults = 2
    PageSize = 2
    Word = 16
    TypedPages = {0, 3, 7, 8}
INVARIANTS
    TypeOK
    NumbersDense
    AnswersAreTrue
    LoneRequestsSucceed
    WalkSeesAll
    NextHasBuilds
    LinksLeadOn
PROPERTIES
    WedgedForEver
    CallsReturn
