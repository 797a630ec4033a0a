SPECIFICATION Spec
CONSTANTS
    Rows = {r1, r2}
    FreshClaim = TRUE
    MaxMishaps = 0
CHECK_DEADLOCK FALSE
INVARIANT RowsGoneWhenReleased
