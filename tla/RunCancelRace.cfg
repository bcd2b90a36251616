\* An approval overtakes a cancellation.
SPECIFICATION Spec
CONSTANTS
    d1 = d1
    d2 = d2
    Drivers = {d1, d2}
    max_steps = 12
    MaxCrashes = 0
CHECK_DEADLOCK FALSE
PROPERTIES
    NoWorkAfterTerminal
