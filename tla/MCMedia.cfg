SPECIFICATION Spec
CONSTANTS
    n1 = n1
    n2 = n2
    p1 = p1
    Namespaces = {n1, n2}
    Plays = {p1}
    People = {alice}
    Home <- MCHome
    MaxPos = 1
    PlayFaults <- MCPlayFaults
    RoughFaults <- MCRoughFaults
    PersonFaults <- MCPersonFaults
    RebornFaults <- MCRebornFaults
    Apart = TRUE
    Duration = 2
    BridgeFaults <- MCBridgeFaults
    Servers = {s1}
    MaxAt = 2
    BackfillFaults <- MCBackfillFaults
CHECK_DEADLOCK FALSE
INVARIANT TypeOK
INVARIANT MarksAreTrue
INVARIANT WrittenWasReported
INVARIANT NewestEventWins
PROPERTY ReleaseIsEarned
PROPERTY EndedStays
PROPERTY MediaCatchesUp
