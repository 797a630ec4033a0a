SPECIFICATION Spec
CONSTANTS
    Titles = {t1, t2}
    Identifiable = {t1}
    Illustrated = {t2}
    Departing = {t2}
    BatchLimit = 1
    RatioFloor = 1
INVARIANTS
    TypeOK
    SettledRowsStand
    SweepIsComplete
