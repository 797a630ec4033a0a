SPECIFICATION Spec
CONSTANTS
    Facts = {"overview"}
    TitleFaults <- MCTitleFaults
    MaxJob = 1
    ReporterFaults <- MCReporterFaults
    HurriedFaults <- MCHurriedFaults
    Homes = {"here"}
    MaxRun = 2
    MaxTotal = 2
    Newest = 1
    CountFaults <- MCCountFaults
    Nodes = {a, b}
    Copies = {0, 1}
    StoreFaults <- MCStoreFaults
    RoughStoreFaults <- MCRoughStoreFaults
    SpreadFaults <- MCSpreadFaults
    AgainFaults <- MCAgainFaults
    ScreenFaults <- MCScreenFaults
    RoughScreenFaults <- MCRoughScreenFaults
    Keys = {"object"}
    TemplateFaults <- MCTemplateFaults
CHECK_DEADLOCK FALSE
INVARIANT TypeOK
INVARIANT FightIsTrue
INVARIANT CountedOnce
PROPERTY EditKeepsTheRest
PROPERTY InUseIsKept
PROPERTY WorkloadsCatchUp
