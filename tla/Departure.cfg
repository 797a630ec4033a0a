SPECIFICATION FairSpec
CONSTANTS
    Rows = {r1, r2}
    FreshClaim = FALSE
    MaxMishaps = 2
CHECK_DEADLOCK FALSE
INVARIANTS
    TypeOK
    RowsGoneWhenReleased
    SweepRunsAlone
PROPERTY
    DepartureEnds
