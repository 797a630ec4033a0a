SPECIFICATION Spec
CONSTANTS
    MaxPods = 2
    MaxRows = 1
    MaxNudges = 1
CHECK_DEADLOCK FALSE
INVARIANTS
    TypeOK
    ConfirmationIsProved
    SucceededRowsAreStanding
PROPERTY
    KeepsPromise
