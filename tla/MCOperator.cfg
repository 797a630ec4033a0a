SPECIFICATION Spec
CONSTANTS
    Procs = {a, b}
    Duration = 6
    RenewDeadline = 2
    Tries = 3
    LeaderFaults <- MCLeaderFaults
    LateFaults <- MCLateFaults
    Filters = {f}
    Depth = 2
    Sessions = 2
    Messages = 1
    Keys = {"object"}
    ObjectFaults <- MCObjectFaults
    WakedFaults <- MCWakedFaults
    Answers = {"Reachable", "Refused"}
    ProviderFaults <- MCProviderFaults
    UnreadFaults <- MCUnreadFaults
CHECK_DEADLOCK FALSE
INVARIANT TypeOK
INVARIANT OneActs
INVARIANT SessionIsWhole
INVARIANT OnePassSettles
PROPERTY StandsOnWhatItRead
PROPERTY CallsAreSpaced
PROPERTY OperatorCatchesUp
