\* A process that dies before the first checkpoint.
SPECIFICATION Spec
CONSTANTS
    d1 = d1
    d2 = d2
    Drivers = {d1}
    max_steps = 11
    MaxCrashes = 1
CHECK_DEADLOCK FALSE
PROPERTIES
    SurvivesAnyCrash
