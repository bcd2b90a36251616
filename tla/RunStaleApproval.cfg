\* Two approvals of one run: the second acts on a pause reason it read before.
SPECIFICATION Spec
CONSTANTS
    d1 = d1
    d2 = d2
    Drivers = {d1, d2}
    max_steps = 12
    MaxCrashes = 0
CHECK_DEADLOCK FALSE
INVARIANTS
    CompletedMeansSigned
