SPECIFICATION Spec
CONSTANTS
    Titles = {t1, t2}
    Identifiable = {t1}
    Illustrated = {}
    Departing = {}
    BatchLimit = 1
    RatioFloor = 1
INVARIANT KeptRowsStand
