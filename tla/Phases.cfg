SPECIFICATION FairSpec
CONSTANTS
    probe = probe
    trickplay = trickplay
    Titles = {t1}
    Facts = {probe, trickplay}
    Scan = scan
    Close = close
    Plans <- MCPlans
    Needs <- MCNeeds
    Limited = {trickplay}
    Retried = FALSE
    MaxDeaths = 1
CHECK_DEADLOCK FALSE
INVARIANTS
    TypeOK
    LookedAtItsGap
    FailuresAreTrue
PROPERTIES
    NoRowAfterHandOff
    CloseEnds
