\* A cancellation flagged after the last guard.
SPECIFICATION Spec
CONSTANTS
    d1 = d1
    d2 = d2
    Drivers = {d1, d2}
    max_steps = 12
    MaxCrashes = 0
CHECK_DEADLOCK FALSE
INVARIANTS
    FlagMeansCancelled
