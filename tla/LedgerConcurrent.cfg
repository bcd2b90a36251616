\* Two drivers race for the same keys.
SPECIFICATION Spec
CONSTANTS
    d1 = d1
    d2 = d2
    answering = answering
    flaky = flaky
    mute = mute
    Drivers = {d1, d2}
    Keys = {flaky, mute}
    Queryable = {flaky}
    Flaky = {flaky}
    MaxCalls = 3
CHECK_DEADLOCK FALSE
INVARIANTS
    TypeOK
    WriteAhead
    SuccessMeansLanded
PROPERTIES
    CallReturns
    LandedIsReported
