\* One driver, a lookup() that may raise.
SPECIFICATION Spec
CONSTANTS
    d1 = d1
    d2 = d2
    answering = answering
    flaky = flaky
    mute = mute
    Drivers = {d1}
    Keys = {flaky}
    Queryable = {flaky}
    Flaky = {flaky}
    MaxCalls = 3
CHECK_DEADLOCK FALSE
INVARIANTS
    FailsClosed
